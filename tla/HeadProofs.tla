------------------------------ MODULE HeadProofs -------------------------------
(***************************************************************************)
(* get_head: it returns a node, and that node is on the finalized chain.   *)
(* The walk of get_head is resolved by RecursionExists, with the distance  *)
(* to the current slot as its rank.                                        *)
(***************************************************************************)
EXTENDS ForkChoiceProofs

\* The validators whose latest message counts for a node.
Supporters(n) ==
  {v \in Validators \ (SlashedInJustified \cup equivocating_indices) :
      /\ latest_messages[v] # NoMessage
      /\ is_ancestor(get_supported_node(latest_messages[v]), n)}

\* The stake of a set is the sum of Induction over it.
LEMMA StakeIsTotal == \A S : Stake(S) = Total(Balance, S)
BY Zenon DEF Stake, Total

\* Stake is a natural number, grows with the set and adds up over disjoint sets.
LEMMA StakeFacts ==
  /\ \A S \in SUBSET Validators : Stake(S) \in Nat
  /\ Stake({}) = 0
  /\ \A S \in SUBSET Validators : \A T \in SUBSET S : Stake(T) <= Stake(S)
  /\ \A S, T \in SUBSET Validators :
        S \cap T = {} => Stake(S) + Stake(T) <= Stake(Validators)
<1>0. IsFiniteSet(Validators) /\ Balance \in [Validators -> Nat] /\ Balance \in [Validators -> Int]
  BY ConfigAssumption, BlockAssumption
<1>1. \A S \in SUBSET Validators : Stake(S) \in Nat
  BY <1>0, StakeIsTotal, TotalType
<1>2. Stake({}) = 0
  <2>1. {} \in SUBSET Validators
    OBVIOUS
  <2> QED BY Zenon, <1>0, <2>1, StakeIsTotal, TotalEquation
<1>3. \A S \in SUBSET Validators : \A T \in SUBSET S : Stake(T) <= Stake(S)
  BY <1>0, StakeIsTotal, TotalMonotone
<1>4. ASSUME NEW S \in SUBSET Validators, NEW T \in SUBSET Validators, S \cap T = {}
      PROVE  Stake(S) + Stake(T) <= Stake(Validators)
  <2>1. Stake(S \cup T) = Stake(S) + Stake(T)
    BY <1>0, <1>4, StakeIsTotal, TotalDisjoint
  <2>2. S \cup T \in SUBSET Validators
    OBVIOUS
  <2> QED BY <1>3, <2>1, <2>2
<1> QED BY <1>1, <1>2, <1>3, <1>4

\* The attestation score is the stake of the supporters, a natural number.
LEMMA ScoreFacts ==
  ASSUME NEW n
  PROVE  /\ Supporters(n) \in SUBSET Validators
         /\ get_attestation_score(n) = Stake(Supporters(n))
         /\ get_attestation_score(n) \in Nat
<1>1. Supporters(n) \in SUBSET Validators
  BY DEF Supporters
<1>2. get_attestation_score(n) = Stake(Supporters(n))
  BY DEF Supporters, get_attestation_score
<1> QED BY <1>1, <1>2, StakeFacts

\* Proposer boost is a natural.
LEMMA BoostType == compute_proposer_score \in Nat
<1>1. Stake(Validators) \in Nat
  BY StakeFacts
<1>2. Stake(Validators) \div SLOTS_PER_EPOCH \in Nat
  BY <1>1, ConfigAssumption, DivNat
<1>3. (Stake(Validators) \div SLOTS_PER_EPOCH) * 40 \in Nat
  BY <1>2, MulNat
<1>4. ((Stake(Validators) \div SLOTS_PER_EPOCH) * 40) \div 100 \in Nat
  BY <1>3, DivNat
<1> QED BY <1>4 DEF compute_proposer_score, calculate_committee_fraction, PROPOSER_SCORE_BOOST

\* The weight of a node is a natural number.
LEMMA WeightFacts ==
  ASSUME NEW n
  PROVE  /\ get_weight(n) \in Nat
         /\ get_weight(n) <= get_attestation_score(n) + compute_proposer_score
         /\ ~is_previous_slot_payload_decision(n) => get_attestation_score(n) <= get_weight(n)
BY ScoreFacts, BoostType DEF get_weight

\* The tiebreaker is a natural number, and tells the Empty from the Full node of a block.
LEMMA TiebreakerFacts ==
  ASSUME NEW n \in Node
  PROVE  /\ get_payload_status_tiebreaker(n) \in Nat
         /\ \A m \in Node : /\ m.root = n.root
                            /\ m.status = "Empty" /\ n.status = "Full"
              => get_payload_status_tiebreaker(m) # get_payload_status_tiebreaker(n)
<1>1. \A m \in Node : ordinary_tiebreaker_rank(m.status)
           = IF m.status = "Empty" THEN 0 ELSE IF m.status = "Full" THEN 1 ELSE 2
  BY DEF Node, PayloadStatus, ordinary_tiebreaker_rank
<1> QED BY <1>1 DEF get_payload_status_tiebreaker, is_previous_slot_payload_decision

\* The order of the keys by which get_head compares children.
Greater(a, b) ==
  \/ a[1] > b[1]
  \/ a[1] = b[1] /\ a[2] > b[2]
  \/ a[1] = b[1] /\ a[2] = b[2] /\ a[3] > b[3]

\* KeyGreater is Greater of the two keys.
LEMMA KeyGreaterForm ==
  ASSUME NEW a, NEW b
  PROVE  KeyGreater(a, b) <=> Greater(a, b)
<1>1. 1 .. 3 = {1, 2, 3} /\ 1 .. (1 - 1) = {} /\ 1 .. (2 - 1) = {1} /\ 1 .. (3 - 1) = {1, 2}
  OBVIOUS
<1> QED BY <1>1 DEF KeyGreater, Greater

\* The keys: weight, root, payload tiebreaker.
Key == Nat \X Nat \X Nat

\* Greater is a total order on keys.
LEMMA GreaterOrders ==
  /\ \A a \in Key : ~Greater(a, a)
  /\ \A a, b \in Key : a # b => Greater(a, b) \/ Greater(b, a)
  /\ \A a, b, c \in Key : Greater(a, b) /\ Greater(b, c) => Greater(a, c)
BY DEF Key, Greater

\* A finite nonempty set whose elements have distinct keys has a greatest one.
LEMMA GreatestKey ==
  ASSUME NEW C, IsFiniteSet(C), C # {}, NEW key \in [C -> Key],
         \A m, n \in C : m # n => key[m] # key[n]
  PROVE  \E n \in C : \A m \in C \ {n} : Greater(key[n], key[m])
<1> DEFINE Above(n) == {m \in C : Greater(key[m], key[n])}
           F == {Above(n) : n \in C}
<1>1. PICK A \in F : \A B \in F : B \subseteq A => B = A
  <2>1. F \in SUBSET (SUBSET C) /\ F # {}
    <3>1. PICK c \in C : Above(c) \in F
      OBVIOUS
    <3> QED BY Zenon, <3>1
  <2> HIDE DEF F
  <2> QED BY <2>1, MinimalSubset
<1>2. PICK n \in C : A = Above(n)
  OBVIOUS
<1>3. Above(n) = {}
  <2> SUFFICES ASSUME NEW m \in Above(n) PROVE FALSE
    OBVIOUS
  <2>1. m \in C /\ Above(m) \subseteq Above(n)
    BY GreaterOrders
  <2>2. m \notin Above(m)
    BY GreaterOrders
  <2> QED BY Zenon, <1>1, <1>2, <2>1, <2>2
<1>4. ASSUME NEW m \in C \ {n} PROVE Greater(key[n], key[m])
  BY <1>3, GreaterOrders
<1> QED BY <1>4

\* The children get_head chooses among at a node.
Candidates(n) == get_node_children(get_filtered_block_tree, n)

\* How far a node is from the tips: every step of the head's walk decreases it.
Height(n) ==
  2 * (IF n.root \in blocks THEN get_current_slot - Block[n.root].slot ELSE get_current_slot + 1)
  + (IF n.status = "Pending" THEN 1 ELSE 0)

\* The height of a node is a natural number.
LEMMA HeightType ==
  ASSUME TypeOK, Rooted, NEW n \in Node
  PROVE  Height(n) \in Nat
<1>1. get_current_slot \in Nat
  BY Zenon, DivNat, ConfigAssumption DEF TypeOK, get_current_slot, slot_at_time
<1>2. n.root \in blocks => Block[n.root].slot \in Nat /\ Block[n.root].slot <= get_current_slot
  BY BlockFields, NodeFields DEF Rooted
<1> HIDE DEF get_current_slot
<1> QED BY <1>1, <1>2 DEF Height

\* The children of a node: its payload branches, or the blocks built on it.
LEMMA ChildrenFacts ==
  ASSUME TypeOK, Rooted, NEW n \in Node, NEW c \in Candidates(n)
  PROVE  /\ c \in Node /\ Height(c) < Height(n)
         /\ n \in Stored => c \in Stored
         /\ n.status = "Pending" =>
              /\ c.root = n.root /\ c.status \in {"Empty", "Full"}
              /\ c.status = "Full" => n.root \in payloads
         /\ n.status # "Pending" =>
              /\ c.root \in get_filtered_block_tree /\ c = Pending(c.root)
              /\ c.root \in blocks /\ ParentNode(c.root) = n
<1>0. n.root \in Roots /\ n.status \in PayloadStatus
  BY NodeFields
<1>1. CASE n.status = "Pending"
  <2>1. PICK s \in {"Empty", "Full"} : /\ c = [root |-> n.root, status |-> s]
                                       /\ s = "Full" => n.root \in payloads
    BY <1>1 DEF Candidates, get_node_children, is_payload_verified
  <2>2. c \in Node
    BY <1>0, <2>1 DEF Node, PayloadStatus
  <2>3. c.root = n.root /\ c.status = s
    BY <2>1
  <2>4. Height(c) < Height(n)
    <3>1. Height(c) + 1 = Height(n) /\ Height(c) \in Nat /\ Height(n) \in Nat
      <4>1. get_current_slot \in Nat /\ n.root \in Roots /\ Block[n.root].slot \in Nat
        BY Zenon, <1>0, BlockFields, DivNat, ConfigAssumption DEF TypeOK, get_current_slot, slot_at_time
      <4> HIDE DEF get_current_slot
      <4>2. Height(c) + 1 = Height(n)
        BY <1>1, <2>3, <4>1 DEF Height
      <4> QED BY <4>2, <2>2, HeightType
    <3> QED BY <3>1
  <2> QED BY <1>1, <2>1, <2>2, <2>3, <2>4 DEF Stored
<1>2. CASE n.status # "Pending"
  <2>1. PICK b \in get_filtered_block_tree : c = Pending(b) /\ ParentNode(b) = n
    BY <1>2 DEF Candidates, get_node_children
  <2>2. b \in blocks /\ b \in Roots
    BY <2>1 DEF get_filtered_block_tree, TypeOK
  <2>3. Block[b].parent = n.root
    BY <2>1 DEF ParentNode
  <2>4. /\ Block[n.root].slot < Block[b].slot /\ c \in Node /\ c.root = b /\ c.status = "Pending"
        /\ Block[n.root].slot \in Nat /\ Block[b].slot \in Nat
    BY <1>0, <2>1, <2>2, <2>3, ParentEarlier, NodeFields, BlockFields
  <2>5. Height(c) < Height(n)
    <3>1. get_current_slot \in Nat /\ Block[b].slot <= get_current_slot
      BY Zenon, <2>2, DivNat, ConfigAssumption DEF TypeOK, get_current_slot, slot_at_time, Rooted
    <3> HIDE DEF get_current_slot
    <3> QED BY <1>2, <2>2, <2>4, <3>1 DEF Height
  <2> QED BY <1>2, <2>1, <2>2, <2>4, <2>5 DEF Stored
<1> QED BY <1>1, <1>2

\* A node has finitely many children.
LEMMA CandidatesFinite ==
  ASSUME TypeOK, Rooted, NEW n \in Node
  PROVE  IsFiniteSet(Candidates(n))
<1>1. CASE n.status = "Pending"
  <2> DEFINE x == [root |-> n.root, status |-> "Empty"]
             y == [root |-> n.root, status |-> "Full"]
  <2>1. Candidates(n) \subseteq {x} \cup {y}
    BY <1>1 DEF Candidates, get_node_children
  <2>2. IsFiniteSet({x} \cup {y})
    <3> HIDE DEF x, y
    <3> QED BY Zenon, FS_Singleton, FS_AddElement
  <2> QED BY <2>1, <2>2, FS_Subset
<1>2. CASE n.status # "Pending"
  <2> DEFINE B == {b \in get_filtered_block_tree : ParentNode(b) = n}
  <2>1. IsFiniteSet(B)
    <3>1. B \subseteq blocks
      BY DEF get_filtered_block_tree
    <3> HIDE DEF B
    <3> QED BY <3>1, FS_Subset DEF Rooted
  <2>2. IsFiniteSet({Pending(b) : b \in B})
    <3> DEFINE f == [b \in B |-> Pending(b)]
               T == {Pending(b) : b \in B}
    <3>1. f \in Surjection(B, T)
      BY DEF Surjection
    <3> HIDE DEF B, f, T
    <3>2. IsFiniteSet(T)
      BY <2>1, <3>1, FS_Surjection
    <3> QED BY <3>2 DEF T
  <2> QED BY <1>2, <2>2 DEF Candidates, get_node_children
<1> QED BY <1>1, <1>2

\* The child get_head moves to: it has the greatest key.
LEMMA HeaviestChild ==
  ASSUME TypeOK, Rooted, NEW n \in Node, Candidates(n) # {}
  PROVE  LET h == select_heaviest_child(Candidates(n))
         IN  /\ h \in Candidates(n)
             /\ \A m \in Candidates(n) \ {h} : get_weight(m) <= get_weight(h)
<1> DEFINE C == Candidates(n)
           key == [m \in C |-> head_selection_key(m)]
           Best(h) == h \in C /\ \A m \in C \ {h} : KeyGreater(key[h], key[m])
<1>1. key \in [C -> Key]
  <2>1. ASSUME NEW m \in C PROVE head_selection_key(m) \in Key
    <3>1. m \in Node /\ m.root \in Nat
      BY Zenon, <2>1, ChildrenFacts, NodeFields, BlockAssumption
    <3> QED BY <3>1, WeightFacts, TiebreakerFacts DEF head_selection_key, Key
  <2> QED BY <2>1
<1>2. ASSUME NEW l \in C, NEW m \in C, l # m PROVE key[l] # key[m]
  <2>1. l \in Node /\ m \in Node
    BY ChildrenFacts
  <2>2. CASE n.status = "Pending"
    <3>1. /\ l.root = m.root /\ l.status \in {"Empty", "Full"} /\ m.status \in {"Empty", "Full"}
      BY <2>2, ChildrenFacts
    <3>2. l.status # m.status
      BY <1>2, <2>1, <3>1 DEF Node
    <3>3. get_payload_status_tiebreaker(l) # get_payload_status_tiebreaker(m)
      BY <2>1, <3>1, <3>2, TiebreakerFacts
    <3> QED BY <3>3 DEF head_selection_key
  <2>3. CASE n.status # "Pending"
    <3>1. l = Pending(l.root) /\ m = Pending(m.root)
      BY <2>3, ChildrenFacts
    <3>2. l.root # m.root
      BY <1>2, <3>1
    <3> QED BY <3>2 DEF head_selection_key
  <2> QED BY <2>2, <2>3
<1>3. \E h : Best(h)
  <2>1. IsFiniteSet(C)
    BY CandidatesFinite
  <2>2. PICK h \in C : \A m \in C \ {h} : Greater(key[h], key[m])
    <3> HIDE DEF C, key
    <3> QED BY <1>1, <1>2, <2>1, GreatestKey DEF C
  <2> HIDE DEF C, key
  <2> QED BY <2>2, KeyGreaterForm
<1> DEFINE h == select_heaviest_child(C)
<1>4. Best(h)
  <2>1. h = CHOOSE x \in C : \A m \in C \ {x} : KeyGreater(key[x], key[m])
    BY DEF select_heaviest_child
  <2> HIDE DEF C, key, h
  <2> QED BY <1>3, <2>1
<1>5. ASSUME NEW m \in C \ {h} PROVE get_weight(m) <= get_weight(h)
  <2>1. Greater(key[h], key[m])
    <3> HIDE DEF C, key, h
    <3> QED BY <1>4, <1>5, KeyGreaterForm
  <2>2. key[h][1] = get_weight(h) /\ key[m][1] = get_weight(m)
    <3> HIDE DEF h
    <3> QED BY <1>4 DEF head_selection_key
  <2>3. key[h][1] >= key[m][1]
    <3>1. key[h] \in Key /\ key[m] \in Key
      <4> HIDE DEF C, key, h
      <4> QED BY <1>1, <1>4, <1>5
    <3> HIDE DEF C, key, h
    <3> QED BY <2>1, <3>1 DEF Greater, Key
  <2> HIDE DEF C, key, h
  <2> QED BY <2>2, <2>3, WeightFacts
<1> QED BY <1>4, <1>5

\* The body of the walk of get_head, with `walk` for the recursive call.
HeadStep(walk, n) ==
  IF Candidates(n) = {} THEN n
  ELSE IF \E c \in Candidates(n) : KeyFails(c) THEN NoNode
  ELSE walk[select_heaviest_child(Candidates(n))]

\* A function that satisfies the equation by which the walk is written.
IsHeadWalk(walk) == walk = [n \in Node |-> HeadStep(walk, n)]

\* get_head terminates: its walk satisfies the equation it is written by.
LEMMA HeadEquation ==
  ASSUME TypeOK, Rooted
  PROVE  \E walk : /\ \A n \in Node : walk[n] = HeadStep(walk, n)
                   /\ get_head = IF FilterFails THEN NoNode
                                 ELSE walk[Pending(justified_checkpoint.root)]
<1> DEFINE rank == [n \in Node |-> Height(n)]
           F == [g \in [Node -> Nodes] |-> [n \in Node |-> HeadStep(g, n)]]
<1>1. rank \in [Node -> Nat]
  BY HeightType
<1>2. ASSUME NEW n \in Node, Candidates(n) # {}
      PROVE  /\ select_heaviest_child(Candidates(n)) \in Node
             /\ rank[select_heaviest_child(Candidates(n))] < rank[n]
  <2>1. select_heaviest_child(Candidates(n)) \in Candidates(n)
    BY <1>2, HeaviestChild
  <2> QED BY <2>1, ChildrenFacts
<1>3. NoNode \in Nodes /\ Node \subseteq Nodes
  BY DEF Nodes
<1>4. F \in [[Node -> Nodes] -> [Node -> Nodes]]
  BY Zenon, <1>2, <1>3 DEF HeadStep
<1>5. ASSUME NEW g \in [Node -> Nodes], NEW h \in [Node -> Nodes], NEW n \in Node,
             \A x \in Node : rank[x] < rank[n] => g[x] = h[x]
      PROVE  F[g][n] = F[h][n]
  <2>1. HeadStep(g, n) = HeadStep(h, n)
    <3> HIDE DEF rank
    <3> QED BY <1>2, <1>5 DEF HeadStep
  <2> QED BY <2>1
<1>6. \E w : IsHeadWalk(w)
  <2>1. WellRanked(Node, Nodes, rank, F)
    <3> HIDE DEF F, rank, Nodes
    <3> QED BY <1>1, <1>3, <1>4, <1>5 DEF WellRanked
  <2> HIDE DEF F, rank, Nodes
  <2>2. PICK w \in [Node -> Nodes] : w = F[w]
    BY <2>1, RecursionExists
  <2> QED BY <2>2 DEF F, IsHeadWalk
<1> DEFINE walk == CHOOSE w : IsHeadWalk(w)
<1>7. IsHeadWalk(walk)
  BY <1>6
<1>8. get_head = IF FilterFails THEN NoNode ELSE walk[Pending(justified_checkpoint.root)]
  BY DEF get_head, IsHeadWalk, HeadStep, Candidates
<1> HIDE DEF walk
<1>9. \A n \in Node : walk[n] = HeadStep(walk, n)
  BY <1>7 DEF IsHeadWalk
<1> QED BY <1>8, <1>9

\* What a step to the child taken keeps holds where the walk ends.
LEMMA HeadInduction ==
  ASSUME TypeOK, Rooted, NEW walk, \A n \in Node : walk[n] = HeadStep(walk, n),
         NEW S, NEW T,
         \A n \in S : n \in Node /\ \/ walk[n] \in T
                                    \/ select_heaviest_child(Candidates(n)) \in S
                                       /\ Candidates(n) # {}
                                       /\ walk[n] = walk[select_heaviest_child(Candidates(n))]
  PROVE  \A n \in S : walk[n] \in T
<1> DEFINE next(n) == select_heaviest_child(Candidates(n))
           Bad == {Height(n) : n \in {n \in S : walk[n] \notin T}}
<1>1. SUFFICES ASSUME Bad # {} PROVE FALSE
  OBVIOUS
<1>2. PICK k \in Bad : \A j \in Bad : k <= j
  <2>1. Bad \in SUBSET Nat
    BY HeightType
  <2> HIDE DEF Bad
  <2> QED BY <1>1, <2>1, LeastNatural
<1>3. PICK n \in S : k = Height(n) /\ walk[n] \notin T
  OBVIOUS
<1>4. next(n) \in S /\ walk[next(n)] \notin T /\ Candidates(n) # {} /\ n \in Node
  BY <1>3
<1>5. Height(next(n)) < Height(n)
  <2>1. next(n) \in Candidates(n)
    BY <1>4, HeaviestChild
  <2> QED BY <1>4, <2>1, ChildrenFacts
<1>6. Height(n) <= Height(next(n))
  BY <1>2, <1>3, <1>4
<1>7. Height(n) \in Nat /\ Height(next(n)) \in Nat
  BY <1>4, HeightType
<1> HIDE DEF next
<1> QED BY <1>5, <1>6, <1>7

\* The store finalizes nothing before the anchor, and only the anchor in its epoch.
FinalizedSinceAnchor ==
  finalized_checkpoint = AnchorCheckpoint \/ AnchorEpoch < finalized_checkpoint.epoch

\* The checkpoint of the anchor is of the anchor's epoch.
LEMMA AnchorCheckpointEpoch == AnchorCheckpoint.epoch = AnchorEpoch /\ AnchorEpoch \in Nat
BY BlockFields, BlockAssumption, ConfigAssumption, DivNat DEF AnchorCheckpoint, AnchorEpoch, epoch

\* Finality never falls behind the anchor.
LEMMA FinalizedSinceAnchorAlways == Spec => []FinalizedSinceAnchor
<1>1. Init => FinalizedSinceAnchor
  BY DEF Init, FinalizedSinceAnchor
<1>2. /\ TypeOK /\ TypeOK' /\ FinalizedSinceAnchor
      /\ [/\ Advances(justified_checkpoint, justified_checkpoint')
          /\ Advances(finalized_checkpoint, finalized_checkpoint')]_vars
      => FinalizedSinceAnchor'
  <2> SUFFICES ASSUME TypeOK, TypeOK', FinalizedSinceAnchor,
                      \/ Advances(finalized_checkpoint, finalized_checkpoint')
                      \/ finalized_checkpoint' = finalized_checkpoint
               PROVE  FinalizedSinceAnchor'
    BY DEF vars, checkpoints
  <2>1. finalized_checkpoint.epoch \in Nat /\ finalized_checkpoint'.epoch \in Nat
    BY DEF TypeOK, Checkpoint
  <2> QED BY <2>1, AnchorCheckpointEpoch DEF FinalizedSinceAnchor, Advances
<1> QED BY <1>1, <1>2, TypeCorrect, CheckpointsAdvanceAlways, PTL DEF CheckpointsAdvance, Spec

\* From an aligned anchor every leaf has a block at the finalized epoch.
LEMMA FilterSucceeds ==
  ASSUME TypeOK, Rooted, FinalizedSinceAnchor, AnchorAligned
  PROVE  ~FilterFails
<1> DEFINE s == start_slot(finalized_checkpoint.epoch)
<1>1. finalized_checkpoint.epoch \in Nat /\ AnchorEpoch \in Nat /\ Block[Anchor].slot \in Nat
  BY Zenon, BlockFields, BlockAssumption, ConfigAssumption, DivNat DEF AnchorEpoch, TypeOK, Checkpoint
<1>2. start_slot(AnchorEpoch) = Block[Anchor].slot
  BY <1>1, EpochOfSlot DEF AnchorAligned, AnchorEpoch, epoch
<1>3. s \in Int /\ ~(s < Block[Anchor].slot)
  <2>1. start_slot(AnchorEpoch) <= s
    BY <1>1, AnchorCheckpointEpoch, StartMonotone DEF FinalizedSinceAnchor
  <2>2. s \in Nat
    BY <1>1, StartMonotone
  <2> HIDE DEF s
  <2> QED BY <1>1, <1>2, <2>1, <2>2
<1>4. ASSUME NEW r \in blocks PROVE get_checkpoint_block(r, finalized_checkpoint.epoch) # ZERO
  <2>1. Pending(r) \in Stored
    BY NodeFields DEF Stored, TypeOK
  <2>2. get_ancestor(Pending(r), s) \in Stored
    <3> HIDE DEF get_ancestor, s
    <3> QED BY <1>3, <2>1, AncestorResult
  <2>3. get_ancestor(Pending(r), s).root \in Roots
    <3> HIDE DEF get_ancestor
    <3> QED BY <2>2, StoredFacts
  <2> QED BY <2>3, BlockAssumption DEF get_checkpoint_block, ZERO
<1> QED BY <1>4 DEF FilterFails

\* Where a key fails.
LEMMA KeyFailsAtAnchor ==
  ASSUME TypeOK, Rooted, JustifiedCheckpointUsable, NEW n \in Stored, KeyFails(n)
  PROVE  Anchor \in payloads /\ IsPreviousSlot(Anchor)
BY DEF KeyFails, JustifiedCheckpointUsable, HasVoteVectors, Stored, is_payload_verified,
       is_previous_slot_payload_decision

\* get_head succeeds in every store that the invariants describe.
LEMMA HeadFound ==
  ASSUME TypeOK, Rooted, FinalizedSinceAnchor, JustifiedCheckpointUsable, AnchorAligned
  PROVE  HeadDefined
<1> SUFFICES ASSUME ~(Anchor \in payloads /\ IsPreviousSlot(Anchor)) PROVE get_head # NoNode
  BY DEF HeadDefined
<1>1. PICK walk : /\ \A n \in Node : walk[n] = HeadStep(walk, n)
                  /\ get_head = IF FilterFails THEN NoNode
                                ELSE walk[Pending(justified_checkpoint.root)]
  BY HeadEquation
<1> DEFINE T == {walk[n] : n \in {n \in Stored : walk[n] # NoNode}}
<1>2. ASSUME NEW n \in Stored
      PROVE  /\ n \in Node
             /\ \/ walk[n] \in T
                \/ /\ select_heaviest_child(Candidates(n)) \in Stored /\ Candidates(n) # {}
                   /\ walk[n] = walk[select_heaviest_child(Candidates(n))]
  <2>1. n \in Node /\ n # NoNode
    BY StoredFacts
  <2>2. CASE Candidates(n) = {}
    <3>1. walk[n] = n
      BY <1>1, <2>1, <2>2 DEF HeadStep
    <3> QED BY <2>1, <3>1
  <2>3. CASE Candidates(n) # {}
    <3>1. \A c \in Candidates(n) : c \in Stored /\ ~KeyFails(c)
      <4>1. \A c \in Candidates(n) : c \in Stored
        BY <2>1, ChildrenFacts
      <4> QED BY <4>1, KeyFailsAtAnchor
    <3>2. select_heaviest_child(Candidates(n)) \in Candidates(n)
      BY <2>1, <2>3, HeaviestChild
    <3>3. walk[n] = walk[select_heaviest_child(Candidates(n))]
      BY <1>1, <2>1, <2>3, <3>1 DEF HeadStep
    <3> QED BY <2>1, <2>3, <3>1, <3>2, <3>3
  <2> QED BY <2>2, <2>3
<1>3. \A n \in Stored : walk[n] \in T
  <2> HIDE DEF T, Stored
  <2> QED BY Zenon, <1>1, <1>2, HeadInduction
<1>4. Pending(justified_checkpoint.root) \in Stored
  BY NodeFields DEF Stored, JustifiedCheckpointUsable, TypeOK
<1> QED BY <1>1, <1>3, <1>4, FilterSucceeds

\* get_head returns a node in every reachable state of a store anchored at the start of an
\* epoch, but for the one slot in which the anchor's payload lacks its vote vectors.
THEOREM HeadDefinedAlways ==
  ASSUME AnchorAligned
  PROVE  Spec => []HeadDefined
<1>1. TypeOK /\ Rooted /\ FinalizedSinceAnchor /\ JustifiedCheckpointUsable => HeadDefined
  BY HeadFound
<1> QED BY <1>1, TypeCorrect, RootedAlways, FinalizedSinceAnchorAlways,
           JustifiedCheckpointUsableAlways, PTL

\* A child has the node it was found at as ancestor.
LEMMA ChildHasParent ==
  ASSUME TypeOK, Rooted, NEW x \in Stored, NEW y \in Candidates(x)
  PROVE  y \in Stored /\ is_ancestor(y, x)
<1>1. x \in Node /\ x.root \in blocks /\ Block[x.root].slot \in Nat
  BY StoredFacts
<1>2. y \in Stored
  BY <1>1, ChildrenFacts
<1> HIDE DEF get_ancestor
<1>3. CASE x.status = "Pending"
  <2>1. y.root = x.root
    BY <1>1, <1>3, ChildrenFacts
  <2>2. get_ancestor(y, Block[x.root].slot) = y
    BY <1>1, <1>2, <2>1, AncestorSteps
  <2> QED BY <1>2, <1>3, <2>1, <2>2 DEF is_ancestor
<1>4. CASE x.status # "Pending"
  <2>1. y.root \in blocks /\ ParentNode(y.root) = x
    BY <1>1, <1>4, ChildrenFacts
  <2>2. Block[y.root].parent = x.root
    BY <2>1 DEF ParentNode
  <2>3. y.root # Anchor
    BY <1>1, <2>2, AnchorIsRoot
  <2>4. Block[x.root].slot < Block[y.root].slot /\ Block[y.root].slot \in Nat
    BY <1>2, <2>2, <2>3, StoredFacts
  <2>5. get_ancestor(y, Block[x.root].slot) = get_ancestor(x, Block[x.root].slot)
    BY <1>1, <1>2, <2>1, <2>3, <2>4, AncestorSteps
  <2>6. get_ancestor(x, Block[x.root].slot) = x
    BY <1>1, AncestorSteps
  <2> QED BY <1>2, <2>5, <2>6 DEF is_ancestor
<1> QED BY <1>3, <1>4

\* ChainOf satisfies the equation it is written by.
LEMMA ChainEquation ==
  ASSUME NEW r \in Roots
  PROVE  ChainOf[r] = {r} \cup IF r = Anchor THEN {} ELSE ChainOf[Block[r].parent]
<1> DEFINE rank == [q \in Roots |-> Block[q].slot]
           Step(g, q) == {q} \cup IF q = Anchor THEN {} ELSE g[Block[q].parent]
           F == [g \in [Roots -> SUBSET Roots] |-> [q \in Roots |-> Step(g, q)]]
           Is(w) == w = [q \in Roots |-> Step(w, q)]
<1>1. ASSUME NEW q \in Roots, q # Anchor
      PROVE  Block[q].parent \in Roots /\ rank[Block[q].parent] < rank[q]
  BY <1>1, ParentAssumption, ParentEarlier
<1>2. rank \in [Roots -> Nat]
  BY BlockFields
<1>3. F \in [[Roots -> SUBSET Roots] -> [Roots -> SUBSET Roots]]
  <2> HIDE DEF rank
  <2> QED BY <1>1
<1>4. ASSUME NEW g \in [Roots -> SUBSET Roots], NEW h \in [Roots -> SUBSET Roots],
             NEW q \in Roots, \A x \in Roots : rank[x] < rank[q] => g[x] = h[x]
      PROVE  F[g][q] = F[h][q]
  <2> HIDE DEF rank
  <2> QED BY <1>1, <1>4
<1>5. \E w : Is(w)
  <2> DEFINE R == SUBSET Roots
  <2>1. WellRanked(Roots, R, rank, F)
    <3>1. R # {}
      OBVIOUS
    <3> HIDE DEF F, rank
    <3> QED BY <1>2, <1>3, <1>4, <3>1 DEF WellRanked
  <2>2. PICK w \in [Roots -> R] : w = F[w]
    <3> HIDE DEF F, rank, R
    <3> QED BY <2>1, RecursionExists
  <2> QED BY <2>2
<1>6. ChainOf = CHOOSE w : Is(w)
  BY DEF ChainOf
<1>7. Is(ChainOf)
  <2> HIDE DEF Is, ChainOf
  <2> QED BY <1>5, <1>6
<1> HIDE DEF ChainOf
<1> QED BY Zenon, <1>7

\* The blocks of a stored block's chain are stored and its ancestors.
LEMMA ChainStored ==
  ASSUME TypeOK, Rooted, NEW n \in Stored, NEW a \in ChainOf[n.root]
  PROVE  a \in blocks /\ get_ancestor(n, Block[a].slot).root = a
<1> DEFINE Goal(m) == \A b \in ChainOf[m.root] :
                         /\ b \in blocks /\ get_ancestor(m, Block[b].slot).root = b
                         /\ Block[b].slot <= Block[m.root].slot
           S == {m \in Node : Goal(m)}
<1>1. ASSUME NEW m \in Stored, m.root # Anchor => ParentNode(m.root) \in S
      PROVE  m \in S
  <2>1. m \in Node /\ Block[m.root].slot \in Nat /\ m.root \in blocks /\ m.root \in Roots
    BY StoredFacts
  <2> SUFFICES ASSUME NEW b \in ChainOf[m.root]
               PROVE  /\ b \in blocks /\ get_ancestor(m, Block[b].slot).root = b
                      /\ Block[b].slot <= Block[m.root].slot
    BY <2>1
  <2>2. CASE b = m.root
    <3>1. get_ancestor(m, Block[m.root].slot) = m
      BY WalkSelf, Zenon
    <3> HIDE DEF get_ancestor
    <3> QED BY <2>1, <2>2, <3>1
  <2>3. CASE b # m.root
    <3> DEFINE p == ParentNode(m.root)
    <3>1. m.root # Anchor /\ b \in ChainOf[Block[m.root].parent]
      <4> HIDE DEF ChainOf
      <4> QED BY <2>1, <2>3, ChainEquation
    <3>2. /\ p.root = Block[m.root].parent /\ Block[p.root].slot \in Nat
          /\ Block[p.root].slot < Block[m.root].slot
      BY <3>1, StoredFacts
    <3>3. /\ b \in blocks /\ get_ancestor(p, Block[b].slot).root = b
          /\ Block[b].slot <= Block[p.root].slot
      <4> HIDE DEF ChainOf, get_ancestor
      <4> QED BY <1>1, <3>1, <3>2
    <3>4. Block[b].slot \in Nat
      BY <3>3, BlockFields DEF TypeOK
    <3>5. Block[b].slot < Block[m.root].slot
      BY <2>1, <3>2, <3>3, <3>4, LeLt, Zenon
    <3>6. get_ancestor(m, Block[b].slot) = get_ancestor(p, Block[b].slot)
      BY <2>1, <3>1, <3>4, <3>5, WalkClimbs, Zenon
    <3>7. Block[b].slot <= Block[m.root].slot
      BY <2>1, <3>4, <3>5, LtLe, Zenon
    <3> HIDE DEF get_ancestor, p
    <3> QED BY <3>3, <3>6, <3>7, Zenon
  <2> QED BY <2>2, <2>3
<1>2. Stored \subseteq S
  <2> HIDE DEF S
  <2> QED BY <1>1, ChainInduction
<1> HIDE DEF ChainOf, get_ancestor
<1> QED BY <1>2

\* The anchor's checkpoint and the justified checkpoints of the blocks' states.
JustifiedSources ==
  {AnchorCheckpoint} \cup UNION {{Block[r].justified, Block[r].ujustified} : r \in Roots \ {Anchor}}

\* The same for the finalized checkpoints.
FinalizedSources ==
  {AnchorCheckpoint} \cup UNION {{Block[r].finalized, Block[r].ufinalized} : r \in Roots \ {Anchor}}

\* Where the checkpoints of the store come from.
Sourced ==
  /\ justified_checkpoint \in JustifiedSources
  /\ unrealized_justified_checkpoint \in JustifiedSources
  /\ finalized_checkpoint \in FinalizedSources
  /\ unrealized_finalized_checkpoint \in FinalizedSources

\* The handlers take checkpoints from the states of blocks only.
LEMMA SourcedStep == Sourced /\ [Next]_vars => Sourced'
<1> SUFFICES ASSUME Sourced, [Next]_vars PROVE Sourced'
  OBVIOUS
<1> USE DEF checkpoints
<1>1. CASE Tick
  <2>1. /\ justified_checkpoint' \in {justified_checkpoint, unrealized_justified_checkpoint}
        /\ finalized_checkpoint' \in {finalized_checkpoint, unrealized_finalized_checkpoint}
        /\ unrealized_justified_checkpoint' = unrealized_justified_checkpoint
        /\ unrealized_finalized_checkpoint' = unrealized_finalized_checkpoint
    BY <1>1 DEF Tick, on_tick, update_checkpoints, Raise
  <2> QED BY <2>1 DEF Sourced
<1>2. CASE ImportBlock
  <2>1. PICK r \in Roots \ {Anchor} : ImportCheckpoints(r)
    BY <1>2 DEF ImportBlock, on_block_with_embedded_messages, on_block_inner
  <2>2. /\ justified_checkpoint' \in {justified_checkpoint, Block[r].justified, Block[r].ujustified}
        /\ finalized_checkpoint' \in {finalized_checkpoint, Block[r].finalized, Block[r].ufinalized}
        /\ unrealized_justified_checkpoint' \in {unrealized_justified_checkpoint, Block[r].ujustified}
        /\ unrealized_finalized_checkpoint' \in {unrealized_finalized_checkpoint, Block[r].ufinalized}
    BY <2>1 DEF ImportCheckpoints, Raise
  <2>3. /\ {Block[r].justified, Block[r].ujustified} \subseteq JustifiedSources
        /\ {Block[r].finalized, Block[r].ufinalized} \subseteq FinalizedSources
    BY DEF JustifiedSources, FinalizedSources
  <2> QED BY <2>2, <2>3 DEF Sourced
<1>3. CASE ~Tick /\ ~ImportBlock
  BY <1>3, OtherStepsKeepCheckpoints DEF Sourced
<1> QED BY <1>1, <1>2, <1>3

\* Sourced always holds.
LEMMA SourcedAlways == Spec => []Sourced
<1>1. Init => Sourced
  BY DEF Init, Sourced, JustifiedSources, FinalizedSources
<1> QED BY <1>1, SourcedStep, PTL DEF Spec

\* Every stored block descends from the anchor.
LEMMA AllDescendFromAnchor ==
  ASSUME TypeOK, Rooted, NEW n \in Stored
  PROVE  get_ancestor(n, Block[Anchor].slot).root = Anchor
<1> DEFINE a == get_ancestor(n, Block[Anchor].slot)
<1>1. Block[Anchor].slot \in Nat
  BY BlockFields, BlockAssumption
<1>2. a \in Stored /\ Block[a.root].slot <= Block[Anchor].slot
  <2> HIDE DEF get_ancestor
  <2> QED BY <1>1, AncestorResult
<1> HIDE DEF a
<1>3. SUFFICES ASSUME a.root # Anchor PROVE FALSE
  BY DEF a
<1>4. /\ Block[a.root].parent \in blocks /\ Block[a.root].slot \in Nat
      /\ Block[Block[a.root].parent].slot \in Nat
      /\ Block[Block[a.root].parent].slot < Block[a.root].slot
  BY <1>2, <1>3, StoredFacts
<1>5. Block[Anchor].slot <= Block[Block[a.root].parent].slot
  BY <1>4 DEF Rooted
<1>6. Block[Anchor].slot < Block[a.root].slot
  BY <1>1, <1>4, <1>5, LeLt, Zenon
<1> QED BY <1>1, <1>2, <1>4, <1>6, LtNotLe, Zenon

\* The justified checkpoint is on the chain of the finalized one.
LEMMA JustifiedExtendsFinalized ==
  ASSUME FinalityHolds, TypeOK, Rooted, JustifiedCheckpointUsable, CheckpointOrder, Sourced,
         FinalizedSinceAnchor
  PROVE  /\ finalized_checkpoint.root \in blocks
         /\ get_ancestor(Pending(justified_checkpoint.root),
                         Block[finalized_checkpoint.root].slot).root = finalized_checkpoint.root
<1> DEFINE J == justified_checkpoint
           F == finalized_checkpoint
<1>1. J.root \in blocks /\ Pending(J.root) \in Stored /\ Pending(J.root).root = J.root
  BY NodeFields DEF Stored, JustifiedCheckpointUsable, TypeOK
<1>2. CASE F = AnchorCheckpoint
  <2>1. F.root = Anchor
    BY <1>2 DEF AnchorCheckpoint
  <2> HIDE DEF get_ancestor
  <2> QED BY <1>1, <2>1, AllDescendFromAnchor DEF Rooted
<1>3. CASE F # AnchorCheckpoint
  <2>1. AnchorEpoch < F.epoch /\ F.epoch <= J.epoch
    BY <1>3 DEF FinalizedSinceAnchor, CheckpointOrder
  <2>2. J # AnchorCheckpoint
    <3>1. F.epoch \in Nat /\ J.epoch \in Nat
      BY CheckpointEpochs
    <3> QED BY <2>1, <3>1, AnchorCheckpointEpoch
  <2>3. PICK r \in Roots \ {Anchor} : F \in {Block[r].finalized, Block[r].ufinalized}
    BY <1>3 DEF Sourced, FinalizedSources
  <2>4. PICK q \in Roots \ {Anchor} : J \in {Block[q].justified, Block[q].ujustified}
    BY <2>2 DEF Sourced, JustifiedSources
  <2>5. F.root \in ChainOf[J.root]
    BY <2>1, <2>3, <2>4 DEF FinalityHolds
  <2> HIDE DEF ChainOf, get_ancestor
  <2> QED BY <1>1, <2>5, ChainStored
<1> QED BY <1>2, <1>3

\* The walk of get_head starts at the justified block, so it ends on the finalized
\* chain.
LEMMA HeadOnFinalizedChain ==
  ASSUME FinalityHolds, TypeOK, Rooted, JustifiedCheckpointUsable, CheckpointOrder, Sourced,
         FinalizedSinceAnchor
  PROVE  HeadExtendsFinalized
<1> DEFINE J == Pending(justified_checkpoint.root)
           F == Pending(finalized_checkpoint.root)
<1>1. /\ F \in Stored /\ F.root = finalized_checkpoint.root /\ F.status = "Pending"
      /\ J \in Stored /\ J.root = justified_checkpoint.root /\ J.status = "Pending"
      /\ J.root \in blocks
  <2>1. finalized_checkpoint.root \in blocks
    BY JustifiedExtendsFinalized
  <2> QED BY <2>1, NodeFields DEF Stored, JustifiedCheckpointUsable, TypeOK
<1>2. is_ancestor(J, F)
  <2>1. get_ancestor(J, Block[finalized_checkpoint.root].slot).root = finalized_checkpoint.root
    BY JustifiedExtendsFinalized
  <2> HIDE DEF get_ancestor, J, F
  <2> QED BY <1>1, <2>1 DEF is_ancestor
<1>3. is_ancestor(J, J)
  <2>1. get_ancestor(J, Block[J.root].slot) = J
    BY <1>1, WalkSelf, Zenon
  <2> HIDE DEF get_ancestor, J
  <2> QED BY <1>1, <2>1 DEF is_ancestor
<1> SUFFICES ASSUME get_head # NoNode
             PROVE  Descends(get_head.root, finalized_checkpoint.root)
  BY DEF HeadExtendsFinalized
<1>4. PICK walk : /\ \A n \in Node : walk[n] = HeadStep(walk, n)
                  /\ get_head = IF FilterFails THEN NoNode ELSE walk[J]
  BY HeadEquation
<1> HIDE DEF J, F
<1> DEFINE S == {x \in Stored : is_ancestor(x, J)}
           T == S \cup {NoNode}
<1>5. ASSUME NEW x \in S
      PROVE  /\ x \in Node
             /\ \/ walk[x] \in T
                \/ /\ select_heaviest_child(Candidates(x)) \in S /\ Candidates(x) # {}
                   /\ walk[x] = walk[select_heaviest_child(Candidates(x))]
  <2>1. x \in Stored /\ x \in Node /\ is_ancestor(x, J)
    BY StoredFacts
  <2>2. CASE Candidates(x) = {}
    <3>1. walk[x] = x
      BY <1>4, <2>1, <2>2 DEF HeadStep
    <3> QED BY <2>1, <3>1
  <2>3. CASE Candidates(x) # {}
    <3> DEFINE y == select_heaviest_child(Candidates(x))
    <3>1. y \in Candidates(x)
      BY <2>1, <2>3, HeaviestChild
    <3>2. walk[x] = NoNode \/ walk[x] = walk[y]
      BY <1>4, <2>1, <2>3, Zenon DEF HeadStep
    <3> HIDE DEF y
    <3>3. y \in Stored /\ is_ancestor(y, x)
      BY <2>1, <3>1, ChildHasParent
    <3>4. is_ancestor(y, J)
      <4> HIDE DEF is_ancestor
      <4> QED BY <1>1, <2>1, <3>3, AncestorTransitive
    <3> HIDE DEF is_ancestor
    <3> QED BY <2>1, <2>3, <3>2, <3>3, <3>4 DEF y
  <2> QED BY <2>2, <2>3
<1>6. walk[J] \in T
  <2>1. J \in S
    <3> HIDE DEF is_ancestor
    <3> QED BY <1>1, <1>3
  <2> HIDE DEF S, T
  <2> QED BY <1>4, <1>5, <2>1, HeadInduction
<1> DEFINE h == get_head
<1>7. h \in Stored /\ is_ancestor(h, J)
  <2> HIDE DEF is_ancestor, get_head
  <2> QED BY <1>4, <1>6
<1>8. is_ancestor(h, F)
  <2> HIDE DEF is_ancestor, h
  <2> QED BY <1>1, <1>2, <1>7, AncestorTransitive
<1>9. Pending(h.root) \in Stored /\ Pending(h.root).root = h.root /\ Block[F.root].slot \in Nat
  <2> HIDE DEF h
  <2> QED BY <1>1, <1>7, StoredFacts, NodeFields DEF Stored
<1>10. get_ancestor(Pending(h.root), Block[F.root].slot).root = F.root
  <2> HIDE DEF get_ancestor, h
  <2>1. get_ancestor(h, Block[F.root].slot).root = F.root
    BY <1>8 DEF is_ancestor
  <2> QED BY <1>7, <1>9, <2>1, WalkOfRoot, Zenon
<1> HIDE DEF get_ancestor, h
<1>11. Descends(h.root, finalized_checkpoint.root)
  BY <1>1, <1>10 DEF Descends, is_ancestor, F
<1> QED BY <1>11 DEF h

\* The head descends from the finalized checkpoint, as long as finality does.
THEOREM HeadExtendsFinalizedAlways ==
  ASSUME FinalityHolds
  PROVE  Spec => []HeadExtendsFinalized
<1>1. /\ TypeOK /\ Rooted /\ JustifiedCheckpointUsable /\ CheckpointOrder /\ Sourced
      /\ FinalizedSinceAnchor
      => HeadExtendsFinalized
  BY HeadOnFinalizedChain
<1> QED BY <1>1, TypeCorrect, RootedAlways, JustifiedCheckpointUsableAlways,
           CheckpointOrderAlways, SourcedAlways, FinalizedSinceAnchorAlways, PTL

================================================================================
