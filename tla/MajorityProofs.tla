---------------------------- MODULE MajorityProofs ----------------------------
(***************************************************************************)
(* get_head: no node supported by a majority is off the chain of the head. *)
(* The recursion of filter_block_tree is resolved by RecursionExists, as   *)
(* the walk of get_head is.                                                *)
(***************************************************************************)
EXTENDS HeadProofs

\* A function that satisfies the equation by which filter_block_tree is written.
IsViability(f) ==
  f = [r \in Roots |-> IF Children(r) = {} THEN IsViableLeaf(r)
                       ELSE \E c \in Children(r) : f[c]]

\* filter_block_tree terminates: it satisfies the equation it is written by.
LEMMA ViableEquation ==
  ASSUME TypeOK, Rooted
  PROVE  IsViability(filter_block_tree)
<1> DEFINE dist(r) == IF r \in blocks THEN get_current_slot - Block[r].slot
                      ELSE get_current_slot + 1
           rank == [r \in Roots |-> dist(r)]
           Step(g, r) == IF Children(r) = {} THEN IsViableLeaf(r)
                         ELSE \E c \in Children(r) : g[c]
           F == [g \in [Roots -> BOOLEAN] |-> [r \in Roots |-> Step(g, r)]]
<1>0. /\ get_current_slot \in Nat /\ \A r \in Roots : Block[r].slot \in Nat
      /\ \A r \in blocks : r \in Roots /\ Block[r].slot <= get_current_slot
  BY DivNat, ConfigAssumption, BlockFields DEF TypeOK, get_current_slot, slot_at_time, Rooted
<1>1. rank \in [Roots -> Nat]
  <2> HIDE DEF get_current_slot
  <2> QED BY <1>0
<1>2. ASSUME NEW r \in Roots, NEW c \in Children(r)
      PROVE  c \in Roots /\ rank[c] < rank[r]
  <2>1. c \in blocks /\ c \in Roots /\ Block[c].parent = r
    BY <1>0 DEF Children
  <2>2. Block[r].slot < Block[c].slot
    BY <2>1, ParentEarlier
  <2> DEFINE t == get_current_slot
             sr == Block[r].slot
             sc == Block[c].slot
  <2>3. rank[c] = t - sc /\ (rank[r] = t - sr \/ rank[r] = t + 1)
    BY <2>1, Zenon
  <2>4. t \in Nat /\ sr \in Nat /\ sc \in Nat /\ sr < sc /\ sc <= t
    BY <1>0, <2>1, <2>2, Zenon
  <2> HIDE DEF rank, t, sr, sc
  <2> QED BY <2>1, <2>3, <2>4
<1>4. F \in [[Roots -> BOOLEAN] -> [Roots -> BOOLEAN]]
  <2> SUFFICES ASSUME NEW g \in [Roots -> BOOLEAN], NEW r \in Roots
               PROVE  Step(g, r) \in BOOLEAN
    BY Zenon
  <2> QED BY Zenon DEF IsViableLeaf
<1>5. ASSUME NEW g \in [Roots -> BOOLEAN], NEW h \in [Roots -> BOOLEAN], NEW r \in Roots,
             \A x \in Roots : rank[x] < rank[r] => g[x] = h[x]
      PROVE  F[g][r] = F[h][r]
  <2>1. \A c \in Children(r) : g[c] = h[c]
    <3> HIDE DEF rank
    <3> QED BY <1>2, <1>5
  <2>2. (\E c \in Children(r) : g[c]) = (\E c \in Children(r) : h[c])
    BY <2>1
  <2>3. F[g][r] = Step(g, r) /\ F[h][r] = Step(h, r)
    BY Zenon
  <2> HIDE DEF F
  <2> QED BY Zenon, <2>2, <2>3
<1>6. \E w : IsViability(w)
  <2>1. WellRanked(Roots, BOOLEAN, rank, F)
    <3>1. BOOLEAN # {}
      BY Zenon
    <3> HIDE DEF F, rank
    <3> QED BY <1>1, <1>4, <1>5, <3>1 DEF WellRanked
  <2> HIDE DEF F, rank
  <2>2. PICK w \in [Roots -> BOOLEAN] : w = F[w]
    BY <2>1, RecursionExists
  <2>3. F[w] = [r \in Roots |-> Step(w, r)]
    BY Zenon DEF F
  <2> QED BY <2>2, <2>3, Zenon DEF IsViability
<1>7. filter_block_tree = CHOOSE w : IsViability(w)
  BY Zenon DEF filter_block_tree, IsViability
<1> QED BY <1>6, <1>7, Zenon

\* A stored block is viable when one built on it is.
LEMMA ViableUp ==
  ASSUME TypeOK, Rooted, NEW c \in blocks \ {Anchor}, filter_block_tree[c]
  PROVE  filter_block_tree[Block[c].parent]
<1>1. Block[c].parent \in Roots /\ c \in Children(Block[c].parent)
  BY DEF Rooted, TypeOK, Children
<1>2. IsViability(filter_block_tree)
  BY ViableEquation
<1> HIDE DEF filter_block_tree, Children
<1>3. filter_block_tree[Block[c].parent] =
         IF Children(Block[c].parent) = {} THEN IsViableLeaf(Block[c].parent)
         ELSE \E x \in Children(Block[c].parent) : filter_block_tree[x]
  BY <1>1, <1>2, Zenon DEF IsViability
<1> QED BY <1>1, <1>3

\* The ancestors of a viable block are viable.
LEMMA ViableChain ==
  ASSUME TypeOK, Rooted, NEW n \in Stored, filter_block_tree[n.root], NEW c \in blocks,
         get_ancestor(n, Block[c].slot).root = c
  PROVE  filter_block_tree[c]
<1> DEFINE Goal(m) == filter_block_tree[m.root] /\ get_ancestor(m, Block[c].slot).root = c
                        => filter_block_tree[c]
           S == {m \in Node : Goal(m)}
<1>1. Block[c].slot \in Nat /\ c \in Roots /\ NoNode.root # c
  BY BlockFields, NodeFields DEF TypeOK
<1>2. ASSUME NEW m \in Stored, m.root # Anchor => ParentNode(m.root) \in S
      PROVE  m \in S
  <2>1. m \in Node /\ Block[m.root].slot \in Nat /\ m.root \in blocks
    BY StoredFacts
  <2>2. CASE Block[m.root].slot <= Block[c].slot
    <3>1. get_ancestor(m, Block[c].slot) = m
      BY <1>1, <2>2, AncestorSteps
    <3> HIDE DEF get_ancestor, filter_block_tree
    <3> QED BY <2>1, <3>1
  <2>3. CASE Block[m.root].slot > Block[c].slot /\ m.root = Anchor
    <3>1. get_ancestor(m, Block[c].slot) = NoNode
      BY <1>1, <2>3, AncestorSteps
    <3> HIDE DEF get_ancestor, filter_block_tree
    <3> QED BY <1>1, <2>1, <3>1
  <2>4. CASE Block[m.root].slot > Block[c].slot /\ m.root # Anchor
    <3>1. get_ancestor(m, Block[c].slot) = get_ancestor(ParentNode(m.root), Block[c].slot)
      BY <1>1, <2>4, AncestorSteps
    <3>2. filter_block_tree[m.root] => filter_block_tree[Block[m.root].parent]
      BY <2>1, <2>4, ViableUp
    <3>3. ParentNode(m.root).root = Block[m.root].parent
      BY <2>4, StoredFacts
    <3> HIDE DEF get_ancestor, filter_block_tree
    <3> QED BY <1>2, <2>1, <2>4, <3>1, <3>2, <3>3
  <2> QED BY <1>1, <2>1, <2>2, <2>3, <2>4, LeOrGt, Zenon
<1>3. Stored \subseteq S
  <2> HIDE DEF S
  <2> QED BY <1>2, ChainInduction
<1> HIDE DEF get_ancestor, filter_block_tree
<1> QED BY <1>3

\* A node that n descends from and that does not descend from n: the next node towards n
\* is another payload status of it, or a block built on it.
LEMMA TowardsNode ==
  ASSUME TypeOK, Rooted, NEW x \in Stored, NEW n \in Stored, is_ancestor(n, x), ~is_ancestor(x, n)
  PROVE  \E y \in Stored :
            /\ is_ancestor(n, y)
            /\ x.status = "Pending" => y.root = x.root /\ y.status # "Pending"
            /\ x.status # "Pending" => /\ y = Pending(y.root) /\ ParentNode(y.root) = x
                                       /\ y.root \in blocks \ {Anchor}
<1> DEFINE s == Block[x.root].slot
           f == get_ancestor(n, s)
<1>1. /\ x \in Node /\ n \in Node /\ s \in Nat /\ Block[n.root].slot \in Nat
      /\ x.root \in Roots /\ x.root # NoNode.root
  BY StoredFacts, NodeFields
<1>2. f.root = x.root /\ (f.status = x.status \/ x.status = "Pending")
  BY DEF is_ancestor
<1>3. f \in Stored /\ f \in Node /\ f # NoNode
  <2>1. f \in Stored
    <3> HIDE DEF get_ancestor, s
    <3> QED BY <1>1, <1>2, AncestorResult
  <2> QED BY <2>1, StoredFacts
<1>4. Block[n.root].slot <= s => f = n
  <2> HIDE DEF get_ancestor, s
  <2> QED BY <1>1, AncestorSteps
<1>5. Block[n.root].slot > s => \E c : NextOnChain(n, f, c)
  <2> HIDE DEF get_ancestor, s
  <2> QED BY <1>1, <1>3, AncestorChild
<1>6. f # n \/ x.status # n.status
  <2>1. SUFFICES ASSUME f = n, x.status = n.status PROVE FALSE
    OBVIOUS
  <2>2. x = n
    BY <1>1, <1>2, <2>1 DEF Node
  <2>3. get_ancestor(n, Block[n.root].slot) = n
    BY <2>1, <2>2
  <2> HIDE DEF get_ancestor
  <2> QED BY <2>2, <2>3 DEF is_ancestor
<1>7. CASE x.status = "Pending"
  <2>1. f.status # "Pending"
    <3>1. CASE Block[n.root].slot <= s
      BY <1>4, <1>6, <1>7, <3>1
    <3>2. CASE Block[n.root].slot > s
      <4>1. PICK c : NextOnChain(n, f, c)
        BY <1>5, <3>2
      <4> QED BY <4>1 DEF NextOnChain, ParentNode, get_parent_payload_status
    <3> QED BY <1>1, <3>1, <3>2
  <2>2. is_ancestor(n, f)
    <3> HIDE DEF get_ancestor
    <3> QED BY <1>2 DEF is_ancestor
  <2> HIDE DEF f
  <2> QED BY <1>2, <1>3, <1>7, <2>1, <2>2
<1>8. CASE x.status # "Pending"
  <2>1. f = x
    BY <1>1, <1>2, <1>3, <1>8 DEF Node
  <2>2. Block[n.root].slot > s
    BY <1>1, <1>4, <1>6, <2>1
  <2>3. PICK c : NextOnChain(n, x, c)
    <3> HIDE DEF f
    <3> QED BY <1>5, <2>1, <2>2
  <2>4. c \in blocks \ {Anchor} /\ c \in Roots /\ ParentNode(c) = x
    BY <2>3 DEF NextOnChain, TypeOK
  <2>5. Pending(c) \in Stored /\ Pending(c).root = c /\ Pending(c).status = "Pending"
    BY <2>4, NodeFields DEF Stored
  <2>6. is_ancestor(n, Pending(c))
    <3> HIDE DEF get_ancestor
    <3> QED BY <2>3, <2>5 DEF NextOnChain, is_ancestor
  <2> QED BY <1>8, <2>4, <2>5, <2>6
<1> QED BY <1>7, <1>8

\* The node a counted message supports is stored.
LEMMA SupportStored ==
  ASSUME TypeOK, VotesResolve, NEW n, NEW v \in Supporters(n)
  PROVE  LET m == latest_messages[v]
             s == get_supported_node(m)
         IN  /\ v \in Validators /\ m # NoMessage /\ m \in LatestMessage
             /\ s \in Stored /\ s.root = m.root /\ s.status = supported_payload_status(m)
             /\ is_ancestor(s, n)
<1> DEFINE m == latest_messages[v]
           s == get_supported_node(m)
<1>1. v \in Validators /\ m # NoMessage /\ is_ancestor(s, n)
  BY DEF Supporters
<1>2. m \in LatestMessage
  BY <1>1 DEF TypeOK
<1>3. m.root \in blocks /\ m.root \in Roots
  BY <1>1 DEF VotesResolve, TypeOK
<1>4. supported_payload_status(m) \in PayloadStatus
  BY DEF supported_payload_status, PayloadStatus
<1>5. s \in Stored /\ s.root = m.root /\ s.status = supported_payload_status(m)
  BY <1>3, <1>4 DEF get_supported_node, Stored, Node
<1> QED BY <1>1, <1>2, <1>5

\* Who supports a node supports its ancestors.
LEMMA SupportersUp ==
  ASSUME TypeOK, Rooted, VotesResolve, NEW n \in Stored, NEW y \in Stored, is_ancestor(n, y)
  PROVE  Supporters(n) \subseteq Supporters(y)
<1> SUFFICES ASSUME NEW v \in Supporters(n) PROVE v \in Supporters(y)
  OBVIOUS
<1>1. /\ get_supported_node(latest_messages[v]) \in Stored
      /\ is_ancestor(get_supported_node(latest_messages[v]), n)
  BY SupportStored
<1>2. is_ancestor(get_supported_node(latest_messages[v]), y)
  <2> HIDE DEF is_ancestor, get_supported_node
  <2> QED BY <1>1, AncestorTransitive
<1> QED BY <1>2 DEF Supporters

\* A full node with a supporter has its payload.
LEMMA FullBacked ==
  ASSUME TypeOK, Rooted, VotesResolve, PayloadBranchesBacked, NEW n \in Stored,
         n.status = "Full", Supporters(n) # {}
  PROVE  n.root \in payloads
<1>1. PICK v \in Supporters(n) : TRUE
  OBVIOUS
<1> DEFINE m == latest_messages[v]
           s == get_supported_node(m)
           slot == Block[n.root].slot
           f == get_ancestor(s, slot)
<1>2. /\ v \in Validators /\ s \in Stored /\ s.root = m.root
      /\ s.status = supported_payload_status(m) /\ is_ancestor(s, n)
  BY SupportStored
<1>3. f.root = n.root /\ f.status = "Full"
  BY <1>2 DEF is_ancestor
<1>4. slot \in Nat /\ Block[s.root].slot \in Nat /\ n.root # NoNode.root
  BY <1>2, StoredFacts, NodeFields
<1>5. CASE Block[s.root].slot <= slot
  <2>1. f = s
    <3> HIDE DEF get_ancestor, s, slot
    <3> QED BY <1>2, <1>4, <1>5, WalkStays, Zenon DEF f
  <2>2. supported_payload_status(m) = "Full" /\ m.root = n.root
    <3> HIDE DEF s, f
    <3> QED BY <1>2, <1>3, <2>1
  <2>3. m.payload_present
    BY <2>2 DEF supported_payload_status
  <2> QED BY <1>2, <2>2, <2>3 DEF PayloadBranchesBacked
<1>6. CASE Block[s.root].slot > slot
  <2>1. PICK c : NextOnChain(s, f, c)
    <3>1. f # NoNode
      BY <1>3, <1>4
    <3>2. slot \in Int
      <4> HIDE DEF slot
      <4> QED BY <1>4
    <3> QED BY <1>2, <1>6, <3>1, <3>2, AncestorChild, Zenon
  <2>2. c \in blocks \ {Anchor} /\ ParentNode(c) = f
    BY <2>1 DEF NextOnChain
  <2>3. Block[c].full /\ Block[c].parent = n.root
    <3> HIDE DEF f
    <3> QED BY <1>3, <2>2 DEF ParentNode, get_parent_payload_status
  <2> QED BY <2>2, <2>3 DEF PayloadBranchesBacked
<1> QED BY <1>4, <1>5, <1>6, LeOrGt, Zenon

\* Nobody's vote counts for a payload branch of the previous slot: such a vote is older than
\* the branch or for its block only.
LEMMA PreviousSlotUnsupported ==
  ASSUME TypeOK, Rooted, VotesResolve, NEW n \in Stored, is_previous_slot_payload_decision(n)
  PROVE  Supporters(n) = {}
<1> SUFFICES ASSUME NEW v \in Supporters(n) PROVE FALSE
  OBVIOUS
<1> DEFINE m == latest_messages[v]
           s == get_supported_node(m)
           slot == Block[n.root].slot
           f == get_ancestor(s, slot)
<1>1. /\ v \in Validators /\ m # NoMessage /\ m \in LatestMessage /\ s \in Stored /\ s.root = m.root
      /\ s.status = supported_payload_status(m) /\ is_ancestor(s, n)
  BY SupportStored
<1>2. n.status # "Pending" /\ slot + 1 = get_current_slot
  BY DEF is_previous_slot_payload_decision, IsPreviousSlot, is_next_slot
<1>3. f.root = n.root /\ f.status = n.status
  BY <1>1, <1>2 DEF is_ancestor
<1>4. slot \in Nat /\ Block[s.root].slot \in Nat /\ m.slot \in Nat
  BY <1>1, StoredFacts DEF LatestMessage
<1>5. Block[m.root].slot <= m.slot /\ m.slot < get_current_slot
  BY <1>1 DEF VotesResolve
<1>6. m.slot <= slot /\ Block[s.root].slot <= slot
  <2> HIDE DEF s, slot, m
  <2> QED BY <1>1, <1>2, <1>4, <1>5
<1>7. f = s
  BY <1>1, <1>4, <1>6, WalkStays, Zenon
<1>8. m.root = n.root
  <2> HIDE DEF f, s
  <2> QED BY <1>1, <1>3, <1>7
<1>9. supported_payload_status(m) = "Pending"
  BY <1>4, <1>6, <1>8 DEF supported_payload_status
<1> HIDE DEF f, s
<1> QED BY <1>1, <1>2, <1>3, <1>7, <1>9

\* Children of a node share no supporter.
LEMMA SiblingsDisjoint ==
  ASSUME TypeOK, Rooted, VotesResolve, NEW x \in Stored,
         NEW y \in Candidates(x), NEW z \in Candidates(x), y # z
  PROVE  Supporters(y) \cap Supporters(z) = {}
<1> SUFFICES ASSUME NEW v \in Supporters(y), v \in Supporters(z) PROVE FALSE
  OBVIOUS
<1> DEFINE s == get_supported_node(latest_messages[v])
<1>1. s \in Stored /\ is_ancestor(s, y) /\ is_ancestor(s, z)
  BY SupportStored
<1> HIDE DEF s
<1>2. x \in Node /\ y \in Node /\ z \in Node
  BY ChildrenFacts, StoredFacts
<1>3. CASE x.status = "Pending"
  <2>1. /\ y.root = x.root /\ z.root = x.root
        /\ y.status # "Pending" /\ z.status # "Pending"
    BY <1>2, <1>3, ChildrenFacts
  <2>2. y.status = z.status
    <3> HIDE DEF get_ancestor
    <3> QED BY <1>1, <2>1 DEF is_ancestor
  <2> QED BY <1>2, <2>1, <2>2 DEF Node
<1>4. CASE x.status # "Pending"
  <2>1. \A c \in {y, z} : /\ c \in Stored /\ c = Pending(c.root) /\ ParentNode(c.root) = x
                          /\ is_ancestor(s, c)
    BY <1>1, <1>2, <1>4, ChildrenFacts
  <2>2. ASSUME NEW c \in {y, z}, NEW d \in {y, z}, Block[c.root].slot <= Block[d.root].slot
        PROVE  c = d
    <3> DEFINE sc == Block[c.root].slot
               sd == Block[d.root].slot
               f == get_ancestor(s, sd)
    <3>1. /\ sc \in Nat /\ sd \in Nat /\ Block[x.root].slot \in Nat
          /\ c.root \in Roots /\ d.root \in Roots /\ d.root # NoNode.root
      BY <2>1, StoredFacts, NodeFields
    <3>2. f.root = d.root /\ get_ancestor(s, sc).root = c.root
      <4> HIDE DEF get_ancestor
      <4> QED BY <2>1 DEF is_ancestor
    <3>3. f \in Stored /\ f # NoNode
      BY <1>1, <3>1, <3>2, WalkEnds, Zenon
    <3>4. get_ancestor(f, sc) = get_ancestor(s, sc)
      <4>1. sc <= sd
        BY <2>2
      <4>2. sc \in Nat /\ sd \in Nat
        BY <3>1, Zenon
      <4> HIDE DEF sc, sd
      <4> QED BY <1>1, <3>3, <4>1, <4>2, WalkComposes
    <3>5. CASE sc = sd
      <4>1. c.root = d.root
        BY <3>2, <3>5, Zenon
      <4>2. c = Pending(c.root) /\ d = Pending(d.root)
        BY <2>1, Zenon
      <4> QED BY <4>1, <4>2, Zenon
    <3>6. CASE sc < sd
      <4>1. d.root # Anchor /\ Block[c.root].parent = x.root /\ c.root # Anchor
        <5>1. Block[d.root].parent = x.root /\ Block[c.root].parent = x.root /\ x.root \in blocks
          BY <2>1, ParentRoot, StoredFacts, Zenon
        <5> QED BY <5>1, AnchorIsRoot
      <4>2. get_ancestor(f, sc) = get_ancestor(x, sc)
        <5>1. sc < Block[f.root].slot /\ f.root # Anchor /\ ParentNode(f.root) = x
          BY <2>1, <3>1, <3>2, <3>6, <4>1, Zenon
        <5> HIDE DEF sc, f
        <5> QED BY <3>1, <3>3, <5>1, WalkClimbs, Zenon
      <4>3. Block[x.root].slot < sc
        BY <2>1, <4>1, StoredFacts
      <4>4. get_ancestor(x, sc) = x
        <5>1. Block[x.root].slot <= sc
          BY <3>1, <4>3, LtLe, Zenon
        <5> QED BY <3>1, <5>1, WalkStays, Zenon
      <4>5. x.root = c.root
        <5> HIDE DEF get_ancestor, sc, f
        <5> QED BY <3>2, <3>4, <4>2, <4>4
      <4> QED BY <3>1, <4>3, <4>5, LtNotLe, LeRefl, Zenon
    <3>7. sc = sd \/ sc < sd
      <4>1. sc <= sd
        BY <2>2
      <4> HIDE DEF sc, sd
      <4> QED BY <3>1, <4>1, LeSplit, Zenon
    <3> QED BY <3>5, <3>6, <3>7, Zenon
  <2>3. Block[y.root].slot \in Nat /\ Block[z.root].slot \in Nat
    BY <2>1, StoredFacts
  <2> QED BY <2>2, <2>3
<1> QED BY <1>3, <1>4

\* The node's votes outweigh all the others and the proposer boost together.
Majority(n) == 2 * get_attestation_score(n) > Stake(Validators) + compute_proposer_score

\* Of the children of a node, get_head takes the one towards a node with a majority.
LEMMA MajorityChildTaken ==
  ASSUME TypeOK, Rooted, VotesResolve, NEW n \in Stored, Majority(n), NEW x \in Stored,
         NEW y \in Candidates(x), is_ancestor(n, y)
  PROVE  select_heaviest_child(Candidates(x)) = y
<1> DEFINE z == select_heaviest_child(Candidates(x))
<1> SUFFICES ASSUME z # y PROVE FALSE
  OBVIOUS
<1>1. x \in Node
  BY StoredFacts
<1>2. z \in Candidates(x) /\ get_weight(y) <= get_weight(z)
  BY <1>1, HeaviestChild
<1> HIDE DEF z
<1>3. y \in Stored
  BY <1>1, ChildrenFacts
<1>4. /\ get_attestation_score(n) \in Nat /\ get_attestation_score(y) \in Nat
      /\ get_attestation_score(z) \in Nat /\ compute_proposer_score \in Nat
      /\ Stake(Validators) \in Nat /\ get_weight(y) \in Nat /\ get_weight(z) \in Nat
  BY ScoreFacts, BoostType, StakeFacts, WeightFacts
<1>5. get_attestation_score(n) <= get_attestation_score(y)
  <2>1. Supporters(n) \subseteq Supporters(y)
    BY <1>3, SupportersUp
  <2> QED BY <2>1, ScoreFacts, StakeFacts
<1>6. get_attestation_score(y) + get_attestation_score(z) <= Stake(Validators)
  <2>1. Supporters(y) \cap Supporters(z) = {}
    BY <1>2, SiblingsDisjoint
  <2> QED BY <2>1, ScoreFacts, StakeFacts
<1>7. get_attestation_score(y) <= get_weight(y)
  <2>1. ~is_previous_slot_payload_decision(y)
    <3> SUFFICES ASSUME is_previous_slot_payload_decision(y) PROVE FALSE
      OBVIOUS
    <3>1. Supporters(y) = {}
      BY <1>3, PreviousSlotUnsupported
    <3>2. get_attestation_score(y) = 0
      BY <3>1, ScoreFacts, StakeFacts
    <3> QED BY <1>4, <1>5, <3>2 DEF Majority
  <2> QED BY <2>1, WeightFacts
<1>8. get_weight(z) <= get_attestation_score(z) + compute_proposer_score
  BY WeightFacts
<1> QED BY <1>2, <1>4, <1>5, <1>6, <1>7, <1>8 DEF Majority

\* Towards a node with a majority the walk takes the right child at every step, and it
\* cannot end before the node.
LEMMA MajorityHeads ==
  ASSUME TypeOK, Rooted, VotesResolve, PayloadBranchesBacked, JustifiedCheckpointUsable
  PROVE  MajorityWins
<1> DEFINE J == justified_checkpoint.root
<1> SUFFICES ASSUME get_head # NoNode, NEW r \in get_filtered_block_tree,
                    NEW st \in PayloadStatus, Majority([root |-> r, status |-> st])
             PROVE  is_ancestor(get_head, [root |-> r, status |-> st])
  BY DEF MajorityWins, Majority
<1> DEFINE n == [root |-> r, status |-> st]
<1>0. /\ r \in blocks /\ r \in Roots /\ filter_block_tree[r] /\ Descends(r, J)
  BY DEF get_filtered_block_tree, TypeOK
<1>1. n \in Stored /\ n.root = r /\ Pending(r) \in Stored /\ Pending(r).root = r
      /\ J \in blocks /\ J \in Roots
      /\ Pending(J) \in Stored /\ Pending(J).root = J /\ Pending(J).status = "Pending"
      /\ Pending(J) \in Node
  BY <1>0, NodeFields DEF Stored, Node, JustifiedCheckpointUsable, TypeOK
<1>2. Majority(n)
  OBVIOUS
<1> HIDE DEF n, J
<1>3. PICK walk : /\ \A m \in Node : walk[m] = HeadStep(walk, m)
                  /\ get_head = IF FilterFails THEN NoNode ELSE walk[Pending(J)]
  BY HeadEquation DEF J
<1> DEFINE On(x) == is_ancestor(x, n) \/ (is_ancestor(n, x) /\ Descends(x.root, J))
           S == {x \in Stored : On(x)}
           T == {walk[m] : m \in {m \in Node : walk[m] = NoNode \/ is_ancestor(walk[m], n)}}
<1>4. ASSUME NEW x \in Stored, is_ancestor(x, n), Candidates(x) # {}
      PROVE  select_heaviest_child(Candidates(x)) \in S
  <2> DEFINE y == select_heaviest_child(Candidates(x))
  <2>1. y \in Candidates(x)
    BY <1>4, HeaviestChild, StoredFacts
  <2> HIDE DEF y
  <2>2. y \in Stored /\ is_ancestor(y, x)
    BY <2>1, ChildHasParent
  <2>3. is_ancestor(y, n)
    <3> HIDE DEF is_ancestor
    <3> QED BY <1>1, <1>4, <2>2, AncestorTransitive
  <2> QED BY <2>2, <2>3 DEF y
<1>5. ASSUME NEW x \in Stored, is_ancestor(n, x), Descends(x.root, J), ~is_ancestor(x, n)
      PROVE  Candidates(x) # {} /\ select_heaviest_child(Candidates(x)) \in S
  <2>1. PICK y \in Stored :
            /\ is_ancestor(n, y)
            /\ x.status = "Pending" => y.root = x.root /\ y.status # "Pending"
            /\ x.status # "Pending" => /\ y = Pending(y.root) /\ ParentNode(y.root) = x
                                       /\ y.root \in blocks \ {Anchor}
    <3> HIDE DEF is_ancestor
    <3> QED BY <1>1, <1>5, TowardsNode
  <2>2. x \in Node /\ y \in Node /\ x.root \in blocks /\ y.root \in blocks /\ y.root \in Roots
        /\ Block[x.root].slot \in Nat /\ Block[y.root].slot \in Nat
    BY StoredFacts
  <2>3. y \in Candidates(x) /\ Descends(y.root, J)
    <3>1. CASE x.status = "Pending"
      <4>1. y.status = "Full" => y.root \in payloads
        <5>1. Supporters(n) \subseteq Supporters(y)
          BY <1>1, <2>1, SupportersUp
        <5>2. Supporters(n) # {}
          <6>1. get_attestation_score(n) \in Nat /\ compute_proposer_score \in Nat
                /\ Stake(Validators) \in Nat
            BY ScoreFacts, BoostType, StakeFacts
          <6>2. get_attestation_score(n) # 0
            BY <1>2, <6>1 DEF Majority
          <6> QED BY <6>2, ScoreFacts, StakeFacts
        <5> QED BY <5>1, <5>2, FullBacked
      <4>2. y.status \in {"Empty", "Full"} /\ y = [root |-> x.root, status |-> y.status]
        BY <2>1, <2>2, <3>1 DEF Node, PayloadStatus
      <4>3. y \in Candidates(x)
        BY <2>1, <3>1, <4>1, <4>2 DEF Candidates, get_node_children, is_payload_verified
      <4> QED BY <1>5, <2>1, <3>1, <4>3
    <3>2. CASE x.status # "Pending"
      <4> DEFINE c == y.root
                 sj == Block[J].slot
      <4>1. y = Pending(c) /\ ParentNode(c) = x /\ c \in blocks \ {Anchor}
        BY <2>1, <3>2
      <4>2. /\ sj \in Nat /\ Block[x.root].slot < Block[c].slot
            /\ Pending(x.root) \in Stored /\ Pending(x.root).root = x.root
        <5>1. Block[c].parent = x.root
          BY <4>1, ParentRoot, Zenon
        <5>2. Block[x.root].slot < Block[c].slot
          BY <4>1, <5>1, StoredFacts, Zenon
        <5>3. Pending(x.root) \in Stored /\ Pending(x.root).root = x.root
          BY <2>2, StoredFacts, NodeFields, Zenon DEF Stored
        <5>4. sj \in Nat
          BY <1>1, BlockFields DEF TypeOK
        <5> QED BY <5>2, <5>3, <5>4, Zenon
      <4>3. get_ancestor(Pending(x.root), sj).root = J
        <5> HIDE DEF get_ancestor
        <5> QED BY Zenon, <1>1, <1>5 DEF Descends, is_ancestor
      <4>4. sj <= Block[x.root].slot
        BY <1>1, <4>2, <4>3, WalkEnds, Zenon
      <4>5. get_ancestor(y, sj).root = J
        <5>1. get_ancestor(y, sj) = get_ancestor(x, sj)
          <6>1. sj < Block[y.root].slot
            BY <2>2, <4>2, <4>4, LeLt, Zenon
          <6> QED BY <4>1, <4>2, <6>1, WalkClimbs, Zenon
        <5>2. get_ancestor(x, sj).root = get_ancestor(Pending(x.root), sj).root
          BY <4>2, WalkOfRoot, Zenon
        <5> HIDE DEF get_ancestor
        <5> QED BY Zenon, <4>3, <5>1, <5>2
      <4>6. Descends(c, J)
        <5> HIDE DEF get_ancestor
        <5> QED BY <1>1, <4>1, <4>5 DEF Descends, is_ancestor
      <4>7. filter_block_tree[c]
        <5>1. get_ancestor(n, Block[c].slot).root = c
          <6> HIDE DEF get_ancestor
          <6> QED BY <2>1 DEF is_ancestor
        <5> HIDE DEF get_ancestor, filter_block_tree
        <5> QED BY <1>0, <1>1, <4>1, <5>1, ViableChain
      <4>8. c \in get_filtered_block_tree
        <5> HIDE DEF Descends, filter_block_tree
        <5> QED BY <4>1, <4>6, <4>7 DEF get_filtered_block_tree, J
      <4>9. y \in Candidates(x)
        <5> HIDE DEF get_filtered_block_tree
        <5> QED BY <3>2, <4>1, <4>8 DEF Candidates, get_node_children
      <4> QED BY <4>6, <4>9
    <3> QED BY <3>1, <3>2
  <2>4. select_heaviest_child(Candidates(x)) = y
    <3> HIDE DEF is_ancestor
    <3> QED BY <1>1, <1>2, <2>1, <2>3, MajorityChildTaken
  <2> QED BY <2>1, <2>3, <2>4
<1>6. ASSUME NEW x \in S
      PROVE  /\ x \in Node
             /\ \/ walk[x] \in T
                \/ /\ select_heaviest_child(Candidates(x)) \in S /\ Candidates(x) # {}
                   /\ walk[x] = walk[select_heaviest_child(Candidates(x))]
  <2>1. x \in Stored /\ x \in Node /\ On(x)
    BY StoredFacts
  <2> HIDE DEF S
  <2>2. CASE Candidates(x) = {}
    <3>1. walk[x] = x
      BY <1>3, <2>1, <2>2 DEF HeadStep
    <3>2. is_ancestor(x, n)
      <4> HIDE DEF is_ancestor, Descends
      <4> QED BY <1>5, <2>1, <2>2
    <3> HIDE DEF is_ancestor
    <3> QED BY <2>1, <3>1, <3>2
  <2>3. CASE Candidates(x) # {}
    <3>1. select_heaviest_child(Candidates(x)) \in S
      <4> HIDE DEF is_ancestor, Descends
      <4> QED BY <1>4, <1>5, <2>1, <2>3
    <3>2. walk[x] = NoNode \/ walk[x] = walk[select_heaviest_child(Candidates(x))]
      BY <1>3, <2>1, <2>3 DEF HeadStep
    <3> HIDE DEF is_ancestor
    <3> QED BY <2>1, <2>3, <3>1, <3>2
  <2> QED BY <2>2, <2>3
<1>7. Pending(J) \in S
  <2>1. is_ancestor(n, Pending(J))
    <3>1. get_ancestor(Pending(r), Block[J].slot).root = J
      <4> HIDE DEF get_ancestor
      <4> QED BY <1>0, <1>1 DEF Descends, is_ancestor
    <3>2. Block[J].slot \in Nat
      BY <1>1, BlockFields
    <3>3. get_ancestor(n, Block[J].slot).root = J
      BY <1>1, <3>1, <3>2, WalkOfRoot, Zenon
    <3> HIDE DEF get_ancestor
    <3> QED BY <1>1, <3>3 DEF is_ancestor
  <2>2. Descends(J, J)
    <3>1. get_ancestor(Pending(J), Block[J].slot) = Pending(J)
      BY <1>1, WalkSelf, Zenon
    <3> HIDE DEF get_ancestor
    <3> QED BY <1>1, <3>1 DEF Descends, is_ancestor
  <2> HIDE DEF is_ancestor, Descends
  <2> QED BY <1>1, <2>1, <2>2
<1>8. walk[Pending(J)] \in T
  <2> HIDE DEF S, T
  <2> QED BY Zenon, <1>3, <1>6, <1>7, HeadInduction
<1>9. is_ancestor(get_head, n)
  <2> HIDE DEF is_ancestor, get_head
  <2> QED BY <1>3, <1>8
<1> QED BY <1>9 DEF n

\* A viable node, payload branch included, that more than half of the stake and the boost
\* support is on the head's chain.
THEOREM MajorityWinsAlways == Spec => []MajorityWins
<1>1. /\ TypeOK /\ Rooted /\ VotesResolve /\ PayloadBranchesBacked /\ JustifiedCheckpointUsable
      => MajorityWins
  BY MajorityHeads
<1> QED BY <1>1, TypeCorrect, RootedAlways, VotesResolveAlways, PayloadBranchesBackedAlways,
           JustifiedCheckpointUsableAlways, PTL
================================================================================
