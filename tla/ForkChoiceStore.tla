---------------------------- MODULE ForkChoiceStore ----------------------------
(***************************************************************************)
(* The fork-choice store of moonglass-core and everything that only reads  *)
(* it: ancestry, voting sources, the viability filter, weights, payload    *)
(* branches, the head walk and the proposer's re-org decision              *)
(* (src/moonglass-core/src/fork_choice).  The handlers that change the     *)
(* store are in module ForkChoice.                                         *)
(*                                                                         *)
(* Blocks and their post-states are data: the constant Block gives, for    *)
(* every block root that can ever be delivered, the fields fork choice     *)
(* reads from the block and from the state its transition produces.  A     *)
(* root is a positive number because the head walk compares roots.         *)
(***************************************************************************)
EXTENDS Integers, Sequences, FiniteSets, FiniteSetsExt

CONSTANTS
  Roots,       \* roots of the blocks that can be delivered, the anchor included
  Anchor,      \* root of the block the store is created from
  Block,       \* what fork choice reads of a block and of its post-state
  Validators,  \* the registry
  Balance,     \* effective balance of a validator
  Committee,   \* validators of all beacon committees of a slot
  Seats,       \* positions of the payload timeliness committee (PTC)
  PTC,         \* PTC[s][i]: the validator in seat i of slot s
  Columns,     \* indices of a complete set of data columns
  SLOTS_PER_EPOCH,
  SLOT_DURATION,            \* in units of the store's clock
  ATTESTATION_DUE,          \* deadlines, in the same units from the slot start
  PAYLOAD_ATTESTATION_DUE,
  PROPOSER_REORG_CUTOFF

VARIABLES
  time,
  justified_checkpoint,
  finalized_checkpoint,
  unrealized_justified_checkpoint,
  unrealized_finalized_checkpoint,
  proposer_boost_root,
  equivocating_indices,
  blocks,                    \* keys of blocks and of block_states
  block_timeliness,
  checkpoint_states,         \* keys: the checkpoints with a cached state
  latest_messages,
  unrealized_justifications,
  payloads,                  \* keys: the roots with a recorded envelope
  queued_payload_envelopes,  \* keys: the roots with a queued envelope
  data_column_sidecars,
  payload_timeliness_vote,
  payload_data_availability_vote

GENESIS_EPOCH == 0
ZERO == 0          \* Root::ZERO: "no boosted block"
MIN_SEED_LOOKAHEAD == 1
PROPOSER_SCORE_BOOST == 40
REORG_HEAD_WEIGHT_THRESHOLD == 20
REORG_PARENT_WEIGHT_THRESHOLD == 160
REORG_MAX_EPOCHS_SINCE_FINALIZATION == 2

PayloadStatus == {"Empty", "Full", "Pending"}
Node == [root : Roots, status : PayloadStatus]
NoNode == [root |-> ZERO, status |-> "Pending"]   \* a lookup that returned Err
Pending(r) == [root |-> r, status |-> "Pending"]

\* A post-state near the anchor names checkpoints whose blocks the store never
\* had (at genesis, the zero root): their root need not be in Roots.
Checkpoint == [epoch : Nat, root : Nat]
Vote == {"none", "yes", "no"}     \* Option<bool> of one PTC seat
NoVotes == [i \in Seats |-> "none"]

\* A latest message; the absent one has root ZERO and never loses its slot test.
LatestMessage == [slot : Nat, root : Roots, payload_present : BOOLEAN]
NoMessage == [slot |-> 0, root |-> ZERO, payload_present |-> FALSE]

Attestation == [validators : SUBSET Validators, slot : Nat, root : Roots,
                index : Nat, target : Checkpoint]
PayloadAttestation == [validators : SUBSET Validators,
                       present : BOOLEAN, available : BOOLEAN]

BlockRecord ==
  [slot : Nat, parent : Roots \cup {ZERO},
   full : BOOLEAN,            \* bid.parent_block_hash = parent's bid.block_hash
   proposer : Validators,
   blobs : BOOLEAN,           \* the bid has blob KZG commitments
   payload_attestations : Seq(PayloadAttestation),
   attestations : Seq(Attestation),
   slashings : SUBSET Validators,   \* validators the block's slashings expose
   \* of the post-state
   slashed : SUBSET Validators,
   voted : SUBSET Checkpoint,       \* targets of the chain's attestations
   justified : Checkpoint, finalized : Checkpoint,
   \* of the post-state after process_justification_and_finalization
   ujustified : Checkpoint, ufinalized : Checkpoint]

ASSUME ConfigAssumption ==
  /\ SLOTS_PER_EPOCH \in Nat \ {0}
  /\ SLOT_DURATION \in Nat \ {0}
  /\ ATTESTATION_DUE \in Nat /\ PAYLOAD_ATTESTATION_DUE \in Nat
  /\ PROPOSER_REORG_CUTOFF \in Nat
  /\ Balance \in [Validators -> Nat]

ASSUME BlockAssumption ==
  /\ IsFiniteSet(Validators) /\ IsFiniteSet(Seats)
  /\ Roots \subseteq Nat \ {0}
  /\ Anchor \in Roots
  /\ Block \in [Roots -> BlockRecord]

\* process_block_header rejects a block that is not after its parent.
ASSUME ParentAssumption ==
  \A r \in Roots \ {Anchor} :
     /\ Block[r].parent \in Roots
     /\ Block[r].slot > Block[Block[r].parent].slot

AnchorEpoch == Block[Anchor].slot \div SLOTS_PER_EPOCH

\* A transition only counts attestations included on the chain, and justifies
\* nothing after the anchor's epoch without them.  The epochs of a post-state's
\* checkpoints are ordered (epoch/finality.rs).
ASSUME PostStateAssumption ==
  \A r \in Roots \ {Anchor} :
     LET b == Block[r]
     IN  /\ b.voted = Block[b.parent].voted
                       \cup {b.attestations[i].target : i \in DOMAIN b.attestations}
         /\ \A c \in {b.justified, b.ujustified} :
               c.epoch > AnchorEpoch => c \in b.voted
         /\ b.finalized.epoch <= b.justified.epoch
         /\ b.ufinalized.epoch <= b.ujustified.epoch
         /\ b.justified.epoch <= b.ujustified.epoch
         /\ b.finalized.epoch <= b.ufinalized.epoch

\* The store holds no votes of the anchor's chain before it; the anchor too is a block
\* whose header was checked to be after its parent.
ASSUME AnchorAssumption ==
  /\ Block[Anchor].voted = {}
  /\ Block[Anchor].parent \in Roots => Block[Block[Anchor].parent].slot < Block[Anchor].slot

--------------------------------------------------------------------------------
(* helpers.rs: clock *)

epoch(slot) == slot \div SLOTS_PER_EPOCH
start_slot(e) == e * SLOTS_PER_EPOCH
slot_at_time(t) == t \div SLOT_DURATION
get_current_slot == slot_at_time(time)
get_current_store_epoch == epoch(get_current_slot)
time_into_slot == time % SLOT_DURATION
is_next_slot(previous, next) == previous + 1 = next
Mutant_is_at_or_after_next_slot(previous, current) == current >= previous
is_at_or_after_next_slot(previous, current) == current >= previous + 1

(* helpers.rs, payload_status.rs: ancestry *)

get_parent_payload_status(r) == IF Block[r].full THEN "Full" ELSE "Empty"
ParentNode(r) == [root |-> Block[r].parent, status |-> get_parent_payload_status(r)]

\* NoNode stands for UnknownBlock and UnknownParent, met when the walk leaves
\* the store at the anchor.
get_ancestor(node, slot) ==
  LET walk[n \in Node \cup {NoNode}] ==
        IF n.root \notin blocks THEN NoNode
        ELSE IF Block[n.root].slot <= slot THEN n
        ELSE IF Block[n.root].parent \notin blocks THEN NoNode
        ELSE walk[ParentNode(n.root)]
  IN  walk[node]

is_ancestor(node, ancestor) ==
  LET found == get_ancestor(node, Block[ancestor.root].slot)
  IN  /\ found.root = ancestor.root
      /\ found.status = ancestor.status \/ ancestor.status = "Pending"

\* ZERO stands for the error.
get_checkpoint_block(root, e) == get_ancestor(Pending(root), start_slot(e)).root

supported_payload_status(message) ==
  IF Block[message.root].slot >= message.slot THEN "Pending"
  ELSE IF message.payload_present THEN "Full" ELSE "Empty"

get_supported_node(message) ==
  [root |-> message.root, status |-> supported_payload_status(message)]

get_voting_source(r) ==
  IF get_current_store_epoch > epoch(Block[r].slot)
  THEN unrealized_justifications[r]
  ELSE Block[r].justified

Mutant_DependentSlot == start_slot(get_current_store_epoch - 2 * MIN_SEED_LOOKAHEAD) - 1
DependentSlot == start_slot(get_current_store_epoch - MIN_SEED_LOOKAHEAD) - 1
get_dependent_root(r) ==
  IF get_current_store_epoch <= MIN_SEED_LOOKAHEAD THEN ZERO
  ELSE get_ancestor(Pending(r), DependentSlot).root
\* get_dependent_root returns Ok.
HasDependentRoot(r) ==
  \/ get_current_store_epoch <= MIN_SEED_LOOKAHEAD
  \/ get_ancestor(Pending(r), DependentSlot) # NoNode

--------------------------------------------------------------------------------
(* filter.rs *)

Children(r) == {c \in blocks : Block[c].parent = r}

IsViableLeaf(r) ==
  /\ \/ justified_checkpoint.epoch = GENESIS_EPOCH
     \/ get_voting_source(r).epoch = justified_checkpoint.epoch
     \/ get_voting_source(r).epoch + 2 >= get_current_store_epoch
  /\ \/ finalized_checkpoint.epoch = GENESIS_EPOCH
     \/ finalized_checkpoint.root
          = get_checkpoint_block(r, finalized_checkpoint.epoch)

filter_block_tree ==
  LET viable[r \in Roots] == IF Children(r) = {} THEN IsViableLeaf(r)
                             ELSE \E c \in Children(r) : viable[c]
  IN  viable

Descends(r, a) == is_ancestor(Pending(r), Pending(a))
get_filtered_block_tree ==
  {r \in blocks : Descends(r, justified_checkpoint.root) /\ filter_block_tree[r]}

\* The recursion fails when the walk of some leaf to the finalized epoch does.
FilterFails ==
  \E r \in blocks : /\ Children(r) = {} /\ Descends(r, justified_checkpoint.root)
                    /\ get_checkpoint_block(r, finalized_checkpoint.epoch) = ZERO

--------------------------------------------------------------------------------
(* weight.rs *)

JustifiedStateCached == justified_checkpoint \in checkpoint_states
SlashedInJustified == Block[justified_checkpoint.root].slashed
Stake(S) == MapThenSumSet(LAMBDA v : Balance[v], S)
calculate_committee_fraction(percent) ==
  ((Stake(Validators) \div SLOTS_PER_EPOCH) * percent) \div 100

get_attestation_score(node) ==
  Stake({v \in Validators \ (SlashedInJustified \cup equivocating_indices) :
            /\ latest_messages[v] # NoMessage
            /\ is_ancestor(get_supported_node(latest_messages[v]), node)})

equivocating_committee_weight(slot) == Stake(Committee[slot] \cap equivocating_indices)

Mutant_is_head_weak(r) ==
  get_attestation_score(Pending(r)) < calculate_committee_fraction(REORG_PARENT_WEIGHT_THRESHOLD)
is_head_weak(r) ==
  get_attestation_score(Pending(r)) + equivocating_committee_weight(Block[r].slot)
    < calculate_committee_fraction(REORG_HEAD_WEIGHT_THRESHOLD)

should_apply_proposer_boost ==
  /\ proposer_boost_root # ZERO
  /\ LET boosted == Block[proposer_boost_root]
         parent  == Block[boosted.parent]
     IN  \/ ~is_next_slot(parent.slot, boosted.slot)
         \/ ~is_head_weak(boosted.parent)
         \/ \A r \in blocks \ {boosted.parent} :
               /\ Block[r].proposer = parent.proposer
               /\ is_next_slot(Block[r].slot, boosted.slot)
               => ~block_timeliness[r].payload_attestation

compute_proposer_score == calculate_committee_fraction(PROPOSER_SCORE_BOOST)

IsPreviousSlot(r) == is_next_slot(Block[r].slot, get_current_slot)
is_previous_slot_payload_decision(node) ==
  IsPreviousSlot(node.root) /\ node.status # "Pending"

get_weight(node) ==
  IF is_previous_slot_payload_decision(node) THEN 0
  ELSE get_attestation_score(node)
       + IF /\ should_apply_proposer_boost
            /\ is_ancestor(Pending(proposer_boost_root), node)
         THEN compute_proposer_score ELSE 0

--------------------------------------------------------------------------------
(* payload_status.rs *)

is_payload_verified(r) == r \in payloads
Mutant_HasVoteVectors(r) == FALSE
HasVoteVectors(r) == r \in blocks \ {Anchor}   \* the anchor gets no vote vectors

\* matching > PTC_SIZE / 2, with the floor of the constant's division
votes_clear_threshold(votes, expected) ==
  Cardinality({i \in Seats : votes[i] = expected}) > Cardinality(Seats) \div 2

payload_vote_verdict(r, votes, expected) ==
  IF is_payload_verified(r) THEN votes_clear_threshold(votes, expected)
  ELSE expected = "no"
payload_timeliness(r, expected) ==
  payload_vote_verdict(r, payload_timeliness_vote[r], expected)
payload_data_availability(r, expected) ==
  payload_vote_verdict(r, payload_data_availability_vote[r], expected)

should_extend_payload(r) ==
  /\ is_payload_verified(r)
  /\ \/ payload_timeliness(r, "yes") /\ payload_data_availability(r, "yes")
     \/ proposer_boost_root = ZERO
     \/ Block[proposer_boost_root].parent # r
     \/ Block[proposer_boost_root].full

ordinary_tiebreaker_rank(status) ==
  CASE status = "Empty" -> 0 [] status = "Full" -> 1 [] status = "Pending" -> 2

get_payload_status_tiebreaker(node) ==
  IF ~is_previous_slot_payload_decision(node)
  THEN ordinary_tiebreaker_rank(node.status)
  ELSE IF node.status = "Empty" THEN 1
  ELSE IF should_extend_payload(node.root) THEN 2 ELSE 0

--------------------------------------------------------------------------------
(* head.rs *)

get_node_children(tree, node) ==
  IF node.status = "Pending"
  THEN {[root |-> node.root, status |-> s] :
          s \in {"Empty"} \cup IF is_payload_verified(node.root) THEN {"Full"} ELSE {}}
  ELSE {Pending(c) : c \in {b \in tree : ParentNode(b) = node}}

Mutant_head_selection_key(node) ==
  <<get_payload_status_tiebreaker(node), get_weight(node), node.root>>
head_selection_key(node) ==
  <<get_weight(node), node.root, get_payload_status_tiebreaker(node)>>
KeyGreater(a, b) ==
  \E i \in 1..3 : a[i] > b[i] /\ \A j \in 1..(i - 1) : a[j] = b[j]

\* head_selection_key fails: no cached justified state to weigh against, or a
\* previous-slot payload without vote vectors to read.
KeyFails(node) ==
  IF is_previous_slot_payload_decision(node)
  THEN /\ node.status = "Full" /\ is_payload_verified(node.root)
       /\ ~HasVoteVectors(node.root)
  ELSE ~JustifiedStateCached

select_heaviest_child(children) ==
  LET key == [n \in children |-> head_selection_key(n)]
  IN  CHOOSE n \in children : \A m \in children \ {n} : KeyGreater(key[n], key[m])

Mutant_get_head ==
  LET walk[n \in Node] ==
        LET children == get_node_children(get_filtered_block_tree, n)
        IN  IF children = {} THEN n ELSE walk[select_heaviest_child(children)]
  IN  walk[Pending(Anchor)]

\* NoNode stands for an error.
get_head ==
  LET tree == get_filtered_block_tree
      walk[n \in Node] ==
        LET children == get_node_children(tree, n)
        IN  IF children = {} THEN n
            ELSE IF \E c \in children : KeyFails(c) THEN NoNode
            ELSE walk[select_heaviest_child(children)]
  IN  IF FilterFails THEN NoNode ELSE walk[Pending(justified_checkpoint.root)]

--------------------------------------------------------------------------------
(* proposer_head.rs *)

is_head_late(r) == ~block_timeliness[r].attestation
is_parent_strong(r) ==
  get_attestation_score(Pending(Block[r].parent))
    > calculate_committee_fraction(REORG_PARENT_WEIGHT_THRESHOLD)
is_ffg_competitive(r) ==
  unrealized_justifications[r] = unrealized_justifications[Block[r].parent]
is_finalization_ok(slot) ==
  epoch(slot) - finalized_checkpoint.epoch <= REORG_MAX_EPOCHS_SINCE_FINALIZATION
is_proposing_on_time == time_into_slot <= PROPOSER_REORG_CUTOFF
is_after_epoch_boundary(slot) == slot % SLOTS_PER_EPOCH # 0
is_proposer_equivocation(r) ==
  \E b \in blocks \ {r} : /\ Block[b].proposer = Block[r].proposer
                          /\ Block[b].slot = Block[r].slot

PrimaryReorg(r, slot) ==
  /\ is_after_epoch_boundary(slot) /\ is_proposing_on_time
  /\ is_next_slot(Block[Block[r].parent].slot, Block[r].slot)
  /\ is_next_slot(Block[r].slot, slot)
  /\ is_ffg_competitive(r) /\ is_finalization_ok(slot)
  /\ is_head_late(r) /\ is_head_weak(r) /\ is_parent_strong(r)
EquivocationReorg(r, slot) ==
  is_head_weak(r) /\ is_next_slot(Block[r].slot, slot) /\ is_proposer_equivocation(r)

\* NoNode stands for an error: an unknown head or parent, a head that still
\* holds the boost, no cached justified state.
get_proposer_head(head, slot) ==
  IF \/ head.root \notin blocks \/ Block[head.root].parent \notin blocks
     \/ proposer_boost_root = head.root \/ ~JustifiedStateCached
  THEN NoNode
  ELSE IF PrimaryReorg(head.root, slot) \/ EquivocationReorg(head.root, slot)
  THEN ParentNode(head.root) ELSE head

================================================================================
