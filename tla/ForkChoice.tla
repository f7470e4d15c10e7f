------------------------------- MODULE ForkChoice -------------------------------
(***************************************************************************)
(* The handlers of the fork-choice store, as the follower node drives them *)
(* (follower/dispatch.rs): on_tick from the clock, on_block_with_embedded_ *)
(* messages, on_attestation, on_attester_slashing, on_payload_attestation_ *)
(* message, on_execution_payload_envelope and record_data_column_sidecar   *)
(* from gossip and backfill.                                               *)
(*                                                                         *)
(* Every handler but the last works on a copy of the store that replaces   *)
(* the store only when no step failed, so a rejected message is no step.   *)
(* Deliveries come in any order and any number of times.                   *)
(***************************************************************************)
EXTENDS ForkChoiceStore

CONSTANTS
  Attestations,   \* attestations gossip may deliver
  Slashings,      \* sets of validators an attester slashing may expose
  PtcMessages,    \* payload attestation messages gossip may deliver
  Envelopes,      \* roots whose execution payload envelope may be delivered
  Verdicts,       \* answers of the ExecutionPayloadVerifier
  MaxTime         \* bound on the clock

PtcMessage == [root : Roots, slot : Nat, validator : Validators,
               present : BOOLEAN, available : BOOLEAN]

ASSUME InputAssumption ==
  /\ Attestations \subseteq Attestation
  /\ Slashings \subseteq SUBSET Validators
  /\ PtcMessages \subseteq PtcMessage
  /\ Envelopes \subseteq Roots
  /\ Verdicts \subseteq {"Valid", "Invalid"}
  /\ MaxTime \in Nat

checkpoints == <<justified_checkpoint, finalized_checkpoint,
                 unrealized_justified_checkpoint, unrealized_finalized_checkpoint>>
imports == <<blocks, block_timeliness, unrealized_justifications, proposer_boost_root>>
votes == <<checkpoint_states, latest_messages, equivocating_indices>>
ptc_votes == <<payload_timeliness_vote, payload_data_availability_vote>>
envelopes == <<payloads, queued_payload_envelopes, data_column_sidecars>>
vars == <<time, checkpoints, imports, votes, ptc_votes, envelopes>>

AnchorCheckpoint == [epoch |-> epoch(Block[Anchor].slot), root |-> Anchor]

\* get_forkchoice_store
Init ==
  /\ time = Block[Anchor].slot * SLOT_DURATION
  /\ justified_checkpoint = AnchorCheckpoint
  /\ finalized_checkpoint = AnchorCheckpoint
  /\ unrealized_justified_checkpoint = AnchorCheckpoint
  /\ unrealized_finalized_checkpoint = AnchorCheckpoint
  /\ proposer_boost_root = ZERO
  /\ equivocating_indices = {}
  /\ blocks = {Anchor}
  /\ block_timeliness = [r \in Roots |-> [attestation |-> r = Anchor,
                                          payload_attestation |-> r = Anchor]]
  /\ checkpoint_states = {AnchorCheckpoint}
  /\ latest_messages = [v \in Validators |-> NoMessage]
  /\ unrealized_justifications = [r \in Roots |-> AnchorCheckpoint]
  /\ payloads = {}
  /\ queued_payload_envelopes = {}
  /\ data_column_sidecars = [r \in Roots |-> {}]
  /\ payload_timeliness_vote = [r \in Roots |-> NoVotes]
  /\ payload_data_availability_vote = [r \in Roots |-> NoVotes]

--------------------------------------------------------------------------------
(* checkpoints.rs *)

Mutant_Raise(c, d) == d

\* The epoch guard of update_checkpoints and update_unrealized_checkpoints.
Raise(c, d) == IF d.epoch > c.epoch THEN d ELSE c

Mutant_update_checkpoints(justified, finalized) ==
  /\ justified_checkpoint' = Raise(justified_checkpoint, finalized)
  /\ finalized_checkpoint' = Raise(finalized_checkpoint, justified)

update_checkpoints(justified, finalized) ==
  /\ justified_checkpoint' = Raise(justified_checkpoint, justified)
  /\ finalized_checkpoint' = Raise(finalized_checkpoint, finalized)

(* on_tick.rs: the loop steps through every slot start up to time t. *)

SlotsStepped(t) == (get_current_slot + 1) .. slot_at_time(t)

EpochStepped(t) == \E s \in SlotsStepped(t) : s % SLOTS_PER_EPOCH = 0
Mutant_BoostAfter(t) == IF EpochStepped(t) THEN ZERO ELSE proposer_boost_root
BoostAfter(t) == IF SlotsStepped(t) = {} THEN proposer_boost_root ELSE ZERO

on_tick(t) ==
  /\ t >= time
  /\ time' = t
  /\ proposer_boost_root' = BoostAfter(t)
  /\ IF EpochStepped(t)
     THEN update_checkpoints(unrealized_justified_checkpoint,
                             unrealized_finalized_checkpoint)
     ELSE UNCHANGED <<justified_checkpoint, finalized_checkpoint>>
  /\ UNCHANGED <<unrealized_justified_checkpoint, unrealized_finalized_checkpoint,
                 blocks, block_timeliness, unrealized_justifications,
                 votes, ptc_votes, envelopes>>

(* on_attestation.rs *)

ValidTargetEpoch(a) ==
  a.target.epoch \in {get_current_store_epoch, get_current_store_epoch - 1}

validate_on_attestation(a) ==
  /\ a.target.epoch = epoch(a.slot)
  /\ a.target.root \in blocks
  /\ a.root \in blocks
  /\ Block[a.root].slot <= a.slot
  /\ a.index \in {0, 1}
  /\ Block[a.root].slot = a.slot => a.index = 0
  /\ a.index = 1 => is_payload_verified(a.root)
  /\ get_checkpoint_block(a.root, a.target.epoch) = a.target.root
  /\ is_at_or_after_next_slot(a.slot, get_current_slot)

MessageOf(a) == [slot |-> a.slot, root |-> a.root, payload_present |-> a.index = 1]

Mutant_LatestOf(v, atts) ==
  LET cast == {i \in DOMAIN atts : v \in atts[i].validators}
  IN  IF v \in equivocating_indices \/ cast = {} THEN latest_messages[v]
      ELSE MessageOf(atts[Max(cast)])

\* The message of validator v after a sequence of attestations: of those newer
\* than the stored message, the first with the highest slot.
LatestOf(v, atts) ==
  LET old   == latest_messages[v]
      newer == {i \in DOMAIN atts : /\ v \in atts[i].validators
                                    /\ old = NoMessage \/ atts[i].slot > old.slot}
      first == {i \in newer : \A j \in newer :
                  \/ atts[i].slot > atts[j].slot
                  \/ atts[i].slot = atts[j].slot /\ i <= j}
  IN  IF v \in equivocating_indices \/ first = {} THEN old
      ELSE MessageOf(atts[CHOOSE i \in first : TRUE])

update_latest_messages(atts) ==
  latest_messages' = [v \in Validators |-> LatestOf(v, atts)]
Mutant_store_target_checkpoint_state(atts) ==
  checkpoint_states' = checkpoint_states \cup
    {c \in {atts[i].target : i \in DOMAIN atts} : c.epoch = get_current_store_epoch}
store_target_checkpoint_state(atts) ==
  checkpoint_states' = checkpoint_states \cup {atts[i].target : i \in DOMAIN atts}

on_attestation(a) ==
  /\ ValidTargetEpoch(a)
  /\ validate_on_attestation(a)
  /\ store_target_checkpoint_state(<<a>>)
  /\ update_latest_messages(<<a>>)
  /\ UNCHANGED <<time, checkpoints, imports, equivocating_indices, ptc_votes, envelopes>>

(* on_attester_slashing.rs *)

on_attester_slashing(S) ==
  /\ justified_checkpoint.root \in blocks
  /\ equivocating_indices' = equivocating_indices \cup S
  /\ UNCHANGED <<time, checkpoints, imports, checkpoint_states, latest_messages,
                 ptc_votes, envelopes>>

(* on_payload_attestation_message.rs *)

AsVote(yes) == IF yes THEN "yes" ELSE "no"

\* Votes of the PTC of slot after a sequence of payload attestations, each
\* written to every seat of its validators; the last write of a seat stands.
WriteVotes(old, slot, pas, field) ==
  [i \in Seats |->
     LET writes == {k \in DOMAIN pas : PTC[slot][i] \in pas[k].validators}
     IN  IF writes = {} THEN old[i] ELSE AsVote(pas[Max(writes)][field])]
WriteTimeliness(r, pas) ==
  WriteVotes(payload_timeliness_vote[r], Block[r].slot, pas, "present")
WriteAvailability(r, pas) ==
  WriteVotes(payload_data_availability_vote[r], Block[r].slot, pas, "available")

\* A vote whose slot is not the block's is accepted and changes nothing.
on_payload_attestation_message(m) ==
  /\ m.root \in blocks
  /\ m.slot = Block[m.root].slot
  /\ \E i \in Seats : PTC[m.slot][i] = m.validator
  /\ m.slot = get_current_slot
  /\ HasVoteVectors(m.root)
  /\ LET pas == <<[validators |-> {m.validator}, present |-> m.present,
                   available |-> m.available]>>
     IN  /\ payload_timeliness_vote' =
              [payload_timeliness_vote EXCEPT ![m.root] = WriteTimeliness(m.root, pas)]
         /\ payload_data_availability_vote' =
              [payload_data_availability_vote EXCEPT ![m.root]
                 = WriteAvailability(m.root, pas)]
  /\ UNCHANGED <<time, checkpoints, imports, votes, envelopes>>

(* on_block.rs, timeliness.rs, checkpoints.rs *)

\* The payload attestations of block r that are about its parent's own slot;
\* the others are for an earlier parent and are ignored.
ParentPayloadAttestations(r) ==
  IF is_next_slot(Block[Block[r].parent].slot, Block[r].slot)
  THEN Block[r].payload_attestations ELSE <<>>

notify_ptc_messages(r) ==
  LET parent == Block[r].parent
      pas    == ParentPayloadAttestations(r)
  IN  /\ (\E k \in DOMAIN pas : pas[k].validators # {}) => HasVoteVectors(parent)
      /\ payload_timeliness_vote' =
           [payload_timeliness_vote EXCEPT ![r] = NoVotes,
                                           ![parent] = WriteTimeliness(parent, pas)]
      /\ payload_data_availability_vote' =
           [payload_data_availability_vote EXCEPT ![r] = NoVotes,
                                      ![parent] = WriteAvailability(parent, pas)]

BeforeDeadline(r, due) == get_current_slot = Block[r].slot /\ time_into_slot < due

record_block_timeliness(r) ==
  block_timeliness' = [block_timeliness EXCEPT ![r] =
    [attestation |-> BeforeDeadline(r, ATTESTATION_DUE),
     payload_attestation |-> BeforeDeadline(r, PAYLOAD_ATTESTATION_DUE)]]

Mutant_update_proposer_boost_root(head, r) ==
  proposer_boost_root' =
    IF BeforeDeadline(r, ATTESTATION_DUE) THEN r ELSE proposer_boost_root

update_proposer_boost_root(head, r) ==
  /\ HasDependentRoot(r)' /\ HasDependentRoot(head)'
  /\ proposer_boost_root' =
       IF /\ BeforeDeadline(r, ATTESTATION_DUE)
          /\ proposer_boost_root = ZERO
          /\ (get_dependent_root(r) = get_dependent_root(head))'
       THEN r ELSE proposer_boost_root

\* update_checkpoints from the post-state, then compute_pulled_up_tip.
ImportCheckpoints(r) ==
  LET b == Block[r]
      realized == epoch(b.slot) < get_current_store_epoch
  IN  /\ justified_checkpoint' =
           Raise(Raise(justified_checkpoint, b.justified),
                 IF realized THEN b.ujustified ELSE b.justified)
      /\ finalized_checkpoint' =
           Raise(Raise(finalized_checkpoint, b.finalized),
                 IF realized THEN b.ufinalized ELSE b.finalized)
      /\ unrealized_justified_checkpoint'
           = Raise(unrealized_justified_checkpoint, b.ujustified)
      /\ unrealized_finalized_checkpoint'
           = Raise(unrealized_finalized_checkpoint, b.ufinalized)
      /\ unrealized_justifications' = [unrealized_justifications EXCEPT ![r] = b.ujustified]

Mutant_CanImport(r) ==
  /\ Block[r].parent \in blocks
  /\ get_current_slot >= Block[r].slot
  /\ Block[r].slot > start_slot(finalized_checkpoint.epoch)
  /\ get_checkpoint_block(Block[r].parent, finalized_checkpoint.epoch)
       = finalized_checkpoint.root

CanImport(r) ==
  LET b == Block[r]
  IN  /\ b.parent \in blocks
      /\ b.full => is_payload_verified(b.parent)
      /\ get_current_slot >= b.slot
      /\ b.slot > start_slot(finalized_checkpoint.epoch)
      /\ get_checkpoint_block(b.parent, finalized_checkpoint.epoch)
           = finalized_checkpoint.root

on_block_inner(r) ==
  /\ CanImport(r)
  /\ UNCHANGED <<time, envelopes>>
  /\ blocks' = blocks \cup {r}
  /\ notify_ptc_messages(r)
  /\ record_block_timeliness(r)
  /\ \E head \in {get_head} : /\ head # NoNode
                              /\ update_proposer_boost_root(head.root, r)
  /\ ImportCheckpoints(r)

on_block_with_embedded_messages(r) ==
  LET atts == Block[r].attestations
  IN  /\ on_block_inner(r)
      /\ \A i \in DOMAIN atts : validate_on_attestation(atts[i])'
      /\ store_target_checkpoint_state(atts)
      /\ update_latest_messages(atts)
      /\ equivocating_indices' = equivocating_indices \cup Block[r].slashings
      /\ Block[r].slashings # {} => justified_checkpoint'.root \in blocks'

(* on_execution_payload_envelope.rs *)

is_data_available(r) == Block[r].blobs => data_column_sidecars[r] = Columns

record_verified_execution_payload_envelope(r) ==
  /\ payloads' = payloads \cup {r}
  /\ queued_payload_envelopes' = queued_payload_envelopes \ {r}

Mutant_on_execution_payload_envelope(r, verdict) ==
  /\ r \in blocks
  /\ verdict = "Valid"
  /\ record_verified_execution_payload_envelope(r)
  /\ UNCHANGED <<time, checkpoints, imports, votes, ptc_votes, data_column_sidecars>>

\* The signature, bid and state checks of the envelope are taken to pass.
on_execution_payload_envelope(r, verdict) ==
  /\ r \in blocks
  /\ IF is_data_available(r)
     THEN verdict = "Valid" /\ record_verified_execution_payload_envelope(r)
     ELSE /\ queued_payload_envelopes' = queued_payload_envelopes \cup {r}
          /\ UNCHANGED payloads
  /\ UNCHANGED <<time, checkpoints, imports, votes, ptc_votes, data_column_sidecars>>

Mutant_process_queued_payload_envelope(r, verdict) ==
  IF r \in queued_payload_envelopes /\ is_data_available(r) /\ verdict = "Valid"
  THEN record_verified_execution_payload_envelope(r)
  ELSE UNCHANGED <<payloads, queued_payload_envelopes>>

\* Not transactional: an invalid queued envelope makes the call fail and stays
\* queued, and the sidecar stays stored.
process_queued_payload_envelope(r, verdict) ==
  IF r \in queued_payload_envelopes /\ is_data_available(r)' /\ verdict = "Valid"
  THEN record_verified_execution_payload_envelope(r)
  ELSE UNCHANGED <<payloads, queued_payload_envelopes>>

\* A sidecar of a block without commitments fails its validation.
record_data_column_sidecar(r, c, verdict) ==
  /\ r \in blocks
  /\ Block[r].blobs
  /\ data_column_sidecars' = [data_column_sidecars EXCEPT ![r] = @ \cup {c}]
  /\ process_queued_payload_envelope(r, verdict)
  /\ UNCHANGED <<time, checkpoints, imports, votes, ptc_votes>>

--------------------------------------------------------------------------------

Tick == \E t \in time .. MaxTime : on_tick(t)
ImportBlock == \E r \in Roots \ {Anchor} : on_block_with_embedded_messages(r)
ReceiveAttestation == \E a \in Attestations : on_attestation(a)
ReceiveSlashing == \E S \in Slashings : on_attester_slashing(S)
ReceivePtcMessage == \E m \in PtcMessages : on_payload_attestation_message(m)
ReceiveEnvelope ==
  \E r \in Envelopes, v \in Verdicts : on_execution_payload_envelope(r, v)
ReceiveColumn ==
  \E r \in Roots, c \in Columns, v \in Verdicts : record_data_column_sidecar(r, c, v)

Next == \/ Tick \/ ImportBlock \/ ReceiveAttestation \/ ReceiveSlashing
        \/ ReceivePtcMessage \/ ReceiveEnvelope \/ ReceiveColumn

Spec == Init /\ [][Next]_vars

--------------------------------------------------------------------------------

\* Every field of the Store keeps its type.
TypeOK ==
  /\ time \in Nat
  /\ justified_checkpoint \in Checkpoint /\ finalized_checkpoint \in Checkpoint
  /\ unrealized_justified_checkpoint \in Checkpoint
  /\ unrealized_finalized_checkpoint \in Checkpoint
  /\ proposer_boost_root \in Roots \cup {ZERO}
  /\ equivocating_indices \subseteq Validators
  /\ blocks \subseteq Roots
  /\ block_timeliness \in
       [Roots -> [attestation : BOOLEAN, payload_attestation : BOOLEAN]]
  /\ checkpoint_states \subseteq Checkpoint
  /\ latest_messages \in [Validators -> LatestMessage \cup {NoMessage}]
  /\ unrealized_justifications \in [Roots -> Checkpoint]
  /\ payloads \subseteq Roots
  /\ queued_payload_envelopes \subseteq Roots
  /\ data_column_sidecars \in [Roots -> SUBSET Columns]
  /\ payload_timeliness_vote \in [Roots -> [Seats -> Vote]]
  /\ payload_data_availability_vote \in [Roots -> [Seats -> Vote]]

\* Full is never taken on trust: a block built on its parent's payload, and a
\* vote for a payload, are in the store only once on_execution_payload_envelope
\* recorded that payload.
PayloadBranchesBacked ==
  /\ \A r \in blocks \ {Anchor} : /\ Block[r].parent \in blocks
                                  /\ Block[r].full => Block[r].parent \in payloads
  /\ \A v \in Validators : latest_messages[v].payload_present
                             => latest_messages[v].root \in payloads

\* Every stored vote resolves (get_supported_node never meets an unknown block),
\* to a block no later than the vote, and the vote's slot is over.
VotesResolve ==
  \A v \in Validators :
     LET m == latest_messages[v]
     IN  m # NoMessage => /\ m.root \in blocks /\ Block[m.root].slot <= m.slot
                          /\ m.slot < get_current_slot

\* Whatever the order of gossip and embedded attestations, a validator's latest
\* message only moves to a later slot, and never once it has equivocated.
VotesOnlyAdvance ==
  [][\A v \in Validators :
        latest_messages'[v] # latest_messages[v] =>
          /\ v \notin equivocating_indices
          /\ \/ latest_messages[v] = NoMessage
             \/ latest_messages'[v].slot > latest_messages[v].slot]_vars

\* The boosted block is a stored block of the store's current slot: the boost
\* never outlives its slot.
BoostIsCurrent ==
  proposer_boost_root # ZERO =>
    proposer_boost_root \in blocks /\ Block[proposer_boost_root].slot = get_current_slot

\* Within a slot the boost is granted once and then neither moved nor withdrawn.
BoostOncePerSlot ==
  [][proposer_boost_root # ZERO /\ get_current_slot' = get_current_slot
     => proposer_boost_root' = proposer_boost_root]_vars

\* A recorded payload has all its data columns and is no longer queued.
PayloadsHaveData ==
  \A r \in payloads : is_data_available(r) /\ r \notin queued_payload_envelopes

\* With an engine that accepts every payload, as the node's, no envelope is left
\* in the queue once its data is complete: the last column releases it.
NoStrandedEnvelope ==
  Verdicts = {"Valid"} => \A r \in queued_payload_envelopes : ~is_data_available(r)

\* The checkpoints stay ordered although update_checkpoints raises the justified
\* and the finalized one separately, from post-states, tips and ticks.
CheckpointOrder ==
  /\ finalized_checkpoint.epoch <= justified_checkpoint.epoch
  /\ justified_checkpoint.epoch <= unrealized_justified_checkpoint.epoch
  /\ finalized_checkpoint.epoch <= unrealized_finalized_checkpoint.epoch
  /\ unrealized_finalized_checkpoint.epoch <= unrealized_justified_checkpoint.epoch

\* No step takes a checkpoint back, or swaps it for another of the same epoch.
Advances(c, d) == d = c \/ d.epoch > c.epoch
CheckpointsAdvance ==
  [][/\ Advances(justified_checkpoint, justified_checkpoint')
     /\ Advances(finalized_checkpoint, finalized_checkpoint')]_vars

\* get_justified_state never fails between handlers: whichever path raised the
\* justified checkpoint, its block is stored and its state was cached by the
\* attestations that justified it.
JustifiedCheckpointUsable ==
  justified_checkpoint.root \in blocks /\ JustifiedStateCached

\* get_head returns a node whatever was delivered, but for one case: at the slot
\* after the anchor's, with the anchor's payload recorded, should_extend_payload
\* looks for vote vectors the anchor does not have.
HeadDefined == get_head = NoNode => Anchor \in payloads /\ IsPreviousSlot(Anchor)

\* From the second epoch after the anchor's on, proposer boost finds a dependent
\* root for every block; before that it fails the import of any block of a store
\* that is not anchored near genesis.
DependentRootKnown ==
  get_current_store_epoch > AnchorEpoch + MIN_SEED_LOOKAHEAD
    => \A r \in blocks : HasDependentRoot(r)

\* The head never leaves the finalized chain.
HeadExtendsFinalized ==
  get_head # NoNode => Descends(get_head.root, finalized_checkpoint.root)

\* A viable node supported by more than half of the stake and the boost is on
\* the head's chain, its payload branch included: neither ties nor payload votes
\* overrule a majority.
MajorityWins ==
  LET head == get_head
  IN  head # NoNode =>
        \A r \in get_filtered_block_tree, s \in PayloadStatus :
          LET n == [root |-> r, status |-> s]
          IN  2 * get_attestation_score(n) > Stake(Validators) + compute_proposer_score
              => is_ancestor(head, n)

\* The re-org get_proposer_head advises succeeds: a timely block built on the
\* parent it returns, and carrying no votes of its own, becomes the head.
ReorgBlockBecomesHead ==
  [][\A b \in blocks' \ blocks :
        LET head == get_head
        IN  /\ get_proposer_head(head, get_current_slot) = ParentNode(b)
            /\ Block[b].parent # head.root
            /\ BeforeDeadline(b, ATTESTATION_DUE)
            /\ proposer_boost_root = ZERO
            /\ Block[b].attestations = <<>>
            => get_head'.root = b]_vars

--------------------------------------------------------------------------------
(* What HeadDefined and HeadExtendsFinalized rest on, of the blocks delivered. *)

\* The anchor is the block of the first slot of its epoch.
AnchorAligned == Block[Anchor].slot % SLOTS_PER_EPOCH = 0

\* The chain of a block, back to the anchor.
ChainOf[r \in Roots] == {r} \cup IF r = Anchor THEN {} ELSE ChainOf[Block[r].parent]

\* What module Justification shows of the post-states as long as less than a third
\* of the stake can be convicted: a chain justifies nothing, from the epoch of a
\* finalized checkpoint on, that does not descend from it.
FinalityHolds ==
  \A r, q \in Roots \ {Anchor} :
     \A f \in {Block[r].finalized, Block[r].ufinalized},
        j \in {Block[q].justified, Block[q].ujustified} :
           AnchorEpoch < f.epoch /\ f.epoch <= j.epoch
             => j.root \in Roots /\ f.root \in ChainOf[j.root]

--------------------------------------------------------------------------------
(* What comments of the repository say, which the code does not keep. *)

\* store.rs: attestation_timely says the block was "Seen before the slot's
\* attestation deadline.", which stays true once it is, and a PTC vote is "`None`
\* until that position has voted": the evidence a store has seen is not taken back.
EvidenceKept ==
  [][\A r \in blocks :
        /\ block_timeliness[r].attestation => block_timeliness'[r].attestation
        /\ \A i \in Seats : payload_timeliness_vote[r][i] # "none"
                             => payload_timeliness_vote'[r][i] # "none"]_vars

\* weight.rs: a head's equivocating committee weight is added "so equivocations
\* can only ever make it look stronger, never weaker".
EquivocationNeverWeakens ==
  [][ReceiveSlashing => \A r \in blocks : is_head_weak(r)' => is_head_weak(r)]_vars

================================================================================
