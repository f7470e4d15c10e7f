----------------------------- MODULE BeaconState -----------------------------
(***************************************************************************)
(* The beacon state transition of one chain (state_transition.rs, slot.rs, *)
(* block.rs, block/parent_payload.rs, builder/bids.rs) from a checkpoint   *)
(* state on: slots pass, a slot may get a block, the block's payload may   *)
(* be delivered, and the next block builds on that payload or on the one   *)
(* before it.                                                              *)
(*                                                                         *)
(* A block root is the slot of the block, and a payload's block hash the   *)
(* slot of the bid that committed to it.  A request list stands for its    *)
(* own root.  Which offers, operations and votes a block may carry is      *)
(* given per slot.                                                         *)
(***************************************************************************)
EXTENDS EpochProcessing

CONSTANTS
  AnchorEpoch,       \* the checkpoint state is the first of this epoch
  AnchorValidators,  \* index -> the validators of the checkpoint state, with balance
  AnchorDeposits,    \* the deposits that are pending in it
  AnchorBuilders,    \* index -> [withdrawal_credentials, balance]
  Offers,            \* slot -> the bids: [value, builder_index, requests]
  Bodies,            \* slot -> the operations that do not depend on the state
  Votes,             \* slot -> the attestations: "none", "one", "all", "late"
  Contested          \* the slots that may stay empty, or their payload away

VARIABLES
  state,     \* the beacon state, with history variables among its fields
  envelope   \* the payload delivered for the latest block

vars == <<state, envelope>>

NoEnvelope == [block_hash |-> -1, withdrawals |-> << >>]
NoRoot == -1

AnchorSlot == StartSlot(AnchorEpoch)

NoRequests ==
  [deposits |-> << >>, withdrawals |-> << >>, consolidations |-> << >>,
   builder_deposits |-> << >>, builder_exits |-> << >>]

\* A sequence, as every list of the containers is.
List(q) == q \in Seq(Range(q))

\* The checkpoint state lies within the slots of the instance and its lists are finite.
ASSUME CheckpointAssumption ==
  /\ AnchorEpoch \in Nat /\ AnchorSlot \in Slots
  /\ IsFiniteSet(DOMAIN AnchorValidators) /\ IsFiniteSet(DOMAIN AnchorBuilders)
  /\ List(AnchorDeposits)

\* The lists of requests and operations that blocks carry are sequences.
ASSUME ProposalAssumption ==
  \A slot \in Slots :
    /\ \A offer \in Offers[slot] : \A name \in DOMAIN NoRequests : List(offer.requests[name])
    /\ \A body \in Bodies[slot] :
         /\ List(body.proposer_slashings) /\ List(body.attester_slashings)
         /\ List(body.voluntary_exits) /\ List(body.bls_to_execution_changes)

-----------------------------------------------------------------------------
\* The parent's payload.
SetAvailability(s, slot, bit) ==
  [s EXCEPT !.execution_payload_availability[slot % SLOTS_PER_HISTORICAL_ROOT] = bit]

ApplyRequests(s, requests) ==
  Each(Each(Each(Each(Each(s,
    "deposit_request", requests.deposits),
    "withdrawal_request", requests.withdrawals),
    "consolidation_request", requests.consolidations),
    "builder_deposit_request", requests.builder_deposits),
    "builder_exit_request", requests.builder_exits)

apply_parent_execution_payload(s, requests) ==
  LET parent_bid == s.latest_execution_payload_bid
  IN [SetAvailability(release_parent_payment(ApplyRequests(s, requests)), parent_bid.slot, 1)
        EXCEPT !.latest_block_hash = parent_bid.block_hash]

process_parent_execution_payload(s, block) ==
  LET requests == block.body.parent_execution_requests
      parent_bid == s.latest_execution_payload_bid
  IN IF block.body.bid.parent_block_hash # parent_bid.block_hash
     THEN IF requests # NoRequests THEN Reject(s, "ParentPayloadUnexpectedRequests") ELSE s
     ELSE IF requests # parent_bid.execution_requests
     THEN Reject(s, "ParentPayloadRequestsMismatch")
     ELSE apply_parent_execution_payload(s, requests)

-----------------------------------------------------------------------------
\* The block's own phases.
process_block_header(s, block) ==
  IF block.slot # s.slot THEN Reject(s, "BlockSlotMismatch")
  ELSE IF block.slot <= s.latest_block_header.slot THEN Reject(s, "SlotNotAfterParent")
  ELSE IF block.proposer_index # get_beacon_proposer_index(s)
  THEN Reject(s, "ProposerIndexMismatch")
  ELSE IF block.parent_root # s.latest_block_header.slot THEN Reject(s, "ParentRootMismatch")
  ELSE IF s.validators[block.proposer_index].slashed THEN Reject(s, "ProposerSlashed")
  ELSE [s EXCEPT !.latest_block_header =
          [slot |-> block.slot, proposer_index |-> block.proposer_index,
           parent_root |-> block.parent_root, state_root |-> NoRoot]]

validate_bid_identity(s, bid) ==
  /\ bid.slot = s.slot
  /\ s.slot # GENESIS_SLOT
  /\ bid.parent_block_root = block_root_at_slot(s, s.slot - 1)
  /\ bid.parent_block_hash = s.latest_block_hash
  /\ bid.prev_randao = get_randao_mix(s, get_current_epoch(s))

PAYLOAD_BUILDER_VERSION == "payload"

validate_bid_signer_and_funding(s, bid) ==
  \/ bid.builder_index = BUILDER_INDEX_SELF_BUILD /\ bid.value = 0
  \/ /\ bid.builder_index \in DOMAIN s.builders
     /\ is_active_builder(s, bid.builder_index)
     /\ s.builders[bid.builder_index].version = PAYLOAD_BUILDER_VERSION
     /\ can_builder_cover_bid(s, bid.builder_index, bid.value)

process_execution_payload_bid(s, bid) ==
  IF validate_bid_identity(s, bid) /\ validate_bid_signer_and_funding(s, bid)
  THEN record_accepted_bid(s, bid, get_beacon_proposer_index(s))
  ELSE Reject(s, "BuilderBid")

\* The reveal of a proposer for an epoch; mixing it in twice takes it out.
process_randao(s) ==
  LET reveal == [proposer |-> get_beacon_proposer_index(s), epoch |-> get_current_epoch(s)]
  IN [s EXCEPT !.randao_mixes[get_current_epoch(s) % EPOCHS_PER_HISTORICAL_VECTOR] =
        IF reveal \in @ THEN @ \ {reveal} ELSE @ \cup {reveal}]

process_eth1_data(s, vote) ==
  LET votes_for == Len(SelectSeq(s.eth1_data_votes, LAMBDA v : v = vote)) + 1
  IN IF Len(s.eth1_data_votes) >= ETH1_DATA_VOTES_LEN THEN Reject(s, "Eth1VotesFull")
     ELSE [s EXCEPT !.eth1_data_votes = Append(@, vote),
                    !.eth1_data = IF votes_for * 2 > ETH1_DATA_VOTES_LEN THEN vote ELSE @]

BlockPhases ==
  <<"parent_payload", "header", "withdrawals", "bid", "randao", "eth1", "operations", "sync">>

RunPhase(s, phase, block) ==
  CASE phase = "parent_payload" -> process_parent_execution_payload(s, block)
    [] phase = "header" -> process_block_header(s, block)
    [] phase = "withdrawals" -> process_withdrawals(s)
    [] phase = "bid" -> process_execution_payload_bid(s, block.body.bid)
    [] phase = "randao" -> process_randao(s)
    [] phase = "eth1" -> process_eth1_data(s, block.body.eth1_data)
    [] phase = "operations" -> process_operations(s, block.body)
    [] phase = "sync" -> process_sync_aggregate(s, block.body.sync_aggregate)

\* The first phase that fails ends the block.
process_block(s, block) ==
  FoldLeft(LAMBDA st, phase : IF st.error = "none" THEN RunPhase(st, phase, block) ELSE st,
           s, BlockPhases)

\* The state root of a slot is the slot.
process_slot(s) ==
  SetAvailability(
    [s EXCEPT
       !.state_roots[s.slot % SLOTS_PER_HISTORICAL_ROOT] = s.slot,
       !.latest_block_header.state_root = IF @ = NoRoot THEN s.slot ELSE @,
       !.block_roots[s.slot % SLOTS_PER_HISTORICAL_ROOT] = s.latest_block_header.slot],
    s.slot + 1, 0)

AdvanceSlot(s) ==
  [(IF (s.slot + 1) % SLOTS_PER_EPOCH = 0 THEN process_epoch(process_slot(s))
    ELSE process_slot(s))
   EXCEPT !.slot = @ + 1]

\* The envelope is matched against the bid that the state holds.
validate_execution_payload_envelope(s, e) ==
  LET bid == s.latest_execution_payload_bid
  IN /\ e.builder_index = bid.builder_index
     /\ e.prev_randao = bid.prev_randao
     /\ e.block_hash = bid.block_hash
     /\ e.execution_requests = bid.execution_requests
     /\ e.slot_number = s.slot
     /\ e.parent_hash = s.latest_block_hash
     /\ e.withdrawals = s.payload_expected_withdrawals

verify_execution_payload_envelope(s, e) ==
  /\ e.beacon_block_root = s.latest_block_header.slot
  /\ e.parent_beacon_block_root = s.latest_block_header.parent_root
  /\ validate_execution_payload_envelope(s, e)

-----------------------------------------------------------------------------
\* The environment: what proposers, attesters and builders may send.
HonestAttestation(s, slot, positions) ==
  LET target == CheckpointOf(s, Epoch(slot))
      data == [slot |-> slot, index |-> 0, beacon_block_root |-> block_root_at_slot(s, slot),
               target |-> target, source |-> RequiredSource(s, [target |-> target])]
      size == Len(get_beacon_committee(s, slot, 0))
  IN [data |-> data, committee_bits |-> {0}, bits_len |-> size,
      aggregation_bits |-> IF positions = "one" THEN {1} ELSE 1..size]

Attestations(s, vote) ==
  CASE vote = "none" -> << >>
    [] vote = "late" -> <<HonestAttestation(s, s.slot - 2, "all")>>
    [] OTHER -> <<HonestAttestation(s, s.slot - 1, vote)>>

\* A proposer that builds on the payload of the last block, or on the one before.
Proposal(s, full, offer, body, vote) ==
  [slot |-> s.slot, proposer_index |-> get_beacon_proposer_index(s),
   parent_root |-> s.latest_block_header.slot,
   body |->
     [proposer_slashings |-> body.proposer_slashings, attester_slashings |-> body.attester_slashings,
      deposits |-> body.deposits, voluntary_exits |-> body.voluntary_exits,
      bls_to_execution_changes |-> body.bls_to_execution_changes,
      eth1_data |-> body.eth1_data, sync_aggregate |-> body.sync_aggregate,
      attestations |-> Attestations(s, vote),
      payload_attestations |->
         <<[data |-> [beacon_block_root |-> s.latest_block_header.slot, slot |-> s.slot - 1],
            aggregation_bits |-> {1}]>>,
      bid |-> [slot |-> s.slot, value |-> offer.value, builder_index |-> offer.builder_index,
               block_hash |-> s.slot, parent_block_root |-> s.latest_block_header.slot,
               parent_block_hash |-> IF full THEN s.latest_execution_payload_bid.block_hash
                                     ELSE s.latest_block_hash,
               prev_randao |-> get_randao_mix(s, get_current_epoch(s)),
               execution_requests |-> offer.requests],
      parent_execution_requests |->
         IF full THEN s.latest_execution_payload_bid.execution_requests ELSE NoRequests]]

Delivery(s, withdrawals) ==
  LET bid == s.latest_execution_payload_bid
  IN [beacon_block_root |-> s.latest_block_header.slot,
      parent_beacon_block_root |-> s.latest_block_header.parent_root,
      builder_index |-> bid.builder_index, prev_randao |-> bid.prev_randao,
      block_hash |-> bid.block_hash, execution_requests |-> bid.execution_requests,
      slot_number |-> bid.slot, parent_hash |-> bid.parent_block_hash,
      withdrawals |-> withdrawals]

-----------------------------------------------------------------------------
\* The checkpoint state: every validator active and voting, the last two epochs
\* justified, the payload of the anchor block not yet delivered.
AnchorBase ==
  LET n == Size(AnchorValidators)
      each(value) == [i \in 0..(n - 1) |-> value]
      checkpoint(epoch) == [epoch |-> epoch, root |-> StartSlot(epoch)]
  IN [slot |-> AnchorSlot,
      latest_block_header |-> [slot |-> AnchorSlot, proposer_index |-> 0,
                               parent_root |-> AnchorSlot - 1, state_root |-> NoRoot],
      block_roots |-> [i \in 0..(SLOTS_PER_HISTORICAL_ROOT - 1) |->
         CHOOSE slot \in (AnchorSlot - SLOTS_PER_HISTORICAL_ROOT)..(AnchorSlot - 1) :
           slot % SLOTS_PER_HISTORICAL_ROOT = i],
      state_roots |-> [i \in 0..(SLOTS_PER_HISTORICAL_ROOT - 1) |-> NoRoot],
      historical_summaries |-> << >>,
      eth1_data |-> "eth1", eth1_data_votes |-> << >>,
      validators |-> [i \in 0..(n - 1) |->
         [pubkey |-> <<"v", i>>,
          withdrawal_credentials |-> AnchorValidators[i].withdrawal_credentials,
          effective_balance |-> AnchorValidators[i].effective_balance, slashed |-> FALSE,
          activation_eligibility_epoch |-> AnchorValidators[i].activation_eligibility_epoch,
          activation_epoch |-> AnchorValidators[i].activation_epoch,
          exit_epoch |-> AnchorValidators[i].exit_epoch,
          withdrawable_epoch |-> AnchorValidators[i].withdrawable_epoch]],
      balances |-> [i \in 0..(n - 1) |-> AnchorValidators[i].balance],
      randao_mixes |-> [i \in 0..(EPOCHS_PER_HISTORICAL_VECTOR - 1) |-> {}],
      slashings |-> [i \in 0..(EPOCHS_PER_SLASHINGS_VECTOR - 1) |-> 0],
      previous_epoch_participation |-> [i \in 0..(n - 1) |->
         IF is_active_validator(AnchorValidators[i], AnchorEpoch - 1) THEN 0..2 ELSE {}],
      current_epoch_participation |-> each({}),
      justification_bits |-> 0..3,
      previous_justified_checkpoint |-> checkpoint(AnchorEpoch - 2),
      current_justified_checkpoint |-> checkpoint(AnchorEpoch - 1),
      finalized_checkpoint |-> checkpoint(AnchorEpoch - 2),
      inactivity_scores |-> each(0),
      current_sync_committee |-> [k \in 1..SYNC_COMMITTEE_SIZE |-> <<"v", k % n>>],
      next_sync_committee |-> [k \in 1..SYNC_COMMITTEE_SIZE |-> <<"v", (k + 1) % n>>],
      latest_block_hash |-> AnchorSlot - 1,
      next_withdrawal_index |-> 0, next_withdrawal_validator_index |-> 0,
      next_withdrawal_builder_index |-> 0,
      deposit_requests_start_index |-> UNSET_DEPOSIT_REQUESTS_START_INDEX,
      deposit_balance_to_consume |-> 0, exit_balance_to_consume |-> 0,
      earliest_exit_epoch |-> 0, consolidation_balance_to_consume |-> 0,
      earliest_consolidation_epoch |-> 0,
      pending_deposits |-> AnchorDeposits, pending_partial_withdrawals |-> << >>,
      pending_consolidations |-> << >>,
      proposer_lookahead |-> << >>, ptc_window |-> << >>,
      builders |-> [i \in DOMAIN AnchorBuilders |->
         [pubkey |-> <<"b", i>>, version |-> PAYLOAD_BUILDER_VERSION,
          execution_address |-> AnchorBuilders[i].withdrawal_credentials.address,
          balance |-> AnchorBuilders[i].balance, deposit_epoch |-> 0,
          withdrawable_epoch |-> FAR_FUTURE_EPOCH]],
      execution_payload_availability |-> [i \in 0..(SLOTS_PER_HISTORICAL_ROOT - 1) |-> 1],
      builder_pending_payments |-> [i \in WindowIndices |-> NoPayment],
      builder_pending_withdrawals |-> << >>,
      latest_execution_payload_bid |->
         [slot |-> AnchorSlot, value |-> 0, builder_index |-> BUILDER_INDEX_SELF_BUILD,
          block_hash |-> AnchorSlot, parent_block_root |-> AnchorSlot - 1,
          parent_block_hash |-> AnchorSlot - 1, prev_randao |-> {},
          execution_requests |-> NoRequests],
      payload_expected_withdrawals |-> << >>,
      paid |-> [slot \in Slots |-> 0], exit_log |-> << >>, received |-> 0, withdrawn |-> 0,
      delivered |-> 0, error |-> "none"]

\* The windows of a checkpoint state, from the seeds and the registry it holds.
AnchorLookahead ==
  [i \in LookaheadIndices |->
     compute_proposer_index(AnchorBase,
       InOrder(AnchorBase, active_unslashed_validator_indices(AnchorBase, AnchorEpoch)),
       Hash(get_seed(AnchorBase, Epoch(AnchorSlot + i), DOMAIN_BEACON_PROPOSER), AnchorSlot + i))]

Anchor ==
  [AnchorBase EXCEPT
     !.proposer_lookahead = AnchorLookahead,
     !.latest_block_header.proposer_index = AnchorLookahead[0],
     !.ptc_window = [i \in PtcWindowIndices |->
        compute_ptc(AnchorBase, AnchorSlot + i - SLOTS_PER_EPOCH)]]

Init ==
  /\ state = Anchor
  /\ envelope = NoEnvelope

-----------------------------------------------------------------------------
\* A slot outside Contested gets a block whose payload is delivered, unless its
\* proposer was slashed meanwhile.
Settled(s) ==
  \/ s.slot \in Contested
  \/ s.latest_block_header.slot = s.slot /\ envelope # NoEnvelope
  \/ s.latest_block_header.slot # s.slot /\ s.validators[get_beacon_proposer_index(s)].slashed

Slot ==
  /\ state.slot < MaxSlot
  /\ Settled(state)
  /\ state' = AdvanceSlot(state)
  /\ state'.error = "none"
  /\ UNCHANGED envelope

\* Fork choice lets a block build on its parent's payload once it has seen it.
Block ==
  /\ state.latest_block_header.slot < state.slot
  /\ \E full \in BOOLEAN, offer \in Offers[state.slot], body \in Bodies[state.slot],
        vote \in Votes[state.slot] :
       /\ full => envelope.block_hash = state.latest_execution_payload_bid.block_hash
       /\ ~full => state.latest_execution_payload_bid.slot \in Contested
       /\ state' = [process_block(state, Proposal(state, full, offer, body, vote)) EXCEPT
            !.delivered = @ + IF full THEN Len(envelope.withdrawals) ELSE 0]
       /\ state'.error = "none"
  /\ envelope' = NoEnvelope

\* The payload is checked against the state after its block, so before the slot
\* passes; that a later block builds on it or not is Block's choice.
Envelope ==
  /\ envelope = NoEnvelope
  /\ state.latest_block_header.slot = state.slot
  /\ \E withdrawals \in {state.payload_expected_withdrawals, << >>} :
       /\ verify_execution_payload_envelope(state, Delivery(state, withdrawals))
       /\ envelope' = Delivery(state, withdrawals)
  /\ UNCHANGED state

\* The bounded horizon.
Stop == state.slot = MaxSlot /\ UNCHANGED vars

Next == Slot \/ Block \/ Envelope \/ Stop

Spec == Init /\ [][Next]_vars

-----------------------------------------------------------------------------
(***************************************************************************)
(* Properties.                                                             *)
(***************************************************************************)
\* The collections that the code indexes by validator stay aligned
\* (add_validator_to_registry extends five of them), every cursor points into its
\* registry, and no bounded list outgrows its capacity.
TypeOK ==
  /\ state.slot \in Slots
  /\ state.error = "none"
  /\ {DOMAIN state.balances, DOMAIN state.previous_epoch_participation,
      DOMAIN state.current_epoch_participation, DOMAIN state.inactivity_scores}
       = {DOMAIN state.validators}
  /\ state.next_withdrawal_validator_index \in DOMAIN state.validators
  /\ Size(state.builders) > 0 => state.next_withdrawal_builder_index \in DOMAIN state.builders
  /\ Range(state.proposer_lookahead) \subseteq DOMAIN state.validators
  /\ Len(state.payload_expected_withdrawals) <= MAX_WITHDRAWALS_PER_PAYLOAD
  /\ Len(state.builder_pending_withdrawals) <= BUILDER_PENDING_WITHDRAWALS_LIMIT
  /\ Len(state.pending_deposits) <= PENDING_DEPOSITS_LIMIT
  /\ Len(state.pending_partial_withdrawals) <= PENDING_PARTIAL_WITHDRAWALS_LIMIT
  /\ Len(state.pending_consolidations) <= PENDING_CONSOLIDATIONS_LIMIT
  /\ Len(state.eth1_data_votes) <= ETH1_DATA_VOTES_LEN

\* A builder's balance covers everything it has promised: can_builder_cover_bid
\* admits a bid only on top of what the window and the queue still owe.
PromisesCovered ==
  \A i \in DOMAIN state.builders :
    get_pending_balance_to_withdraw_for_builder(state, i) <= state.builders[i].balance

\* The payloads that the chain builds on carry each numbered withdrawal once, in
\* order: a list whose payload never came is carried by the next payload
\* (process_withdrawals leaves it in place), and none is carried twice.
WithdrawalsDeliveredOnce ==
  /\ \A k \in DOMAIN state.payload_expected_withdrawals :
       state.payload_expected_withdrawals[k].index = state.delivered + k - 1
  /\ state.next_withdrawal_index = state.delivered + Len(state.payload_expected_withdrawals)

\* The payload-timeliness committee of a slot sits in the beacon committees of that
\* slot: the window holds committees sampled an epoch ahead, and neither the seed
\* nor the active set of their epoch has changed since.
PtcSitsInCommittees ==
  \A slot \in StartSlot(get_current_epoch(state))
                ..(StartSlot(get_current_epoch(state) + 1 + MIN_SEED_LOOKAHEAD) - 1) :
    Range(get_ptc(state, slot)) \subseteq Range(SlotCommittees(state, slot))

\* The committees of an epoch hold every active validator exactly once.
CommitteesPartition ==
  LET epoch == get_current_epoch(state)
      members == FlattenSeq([k \in 1..SLOTS_PER_EPOCH |->
                   SlotCommittees(state, StartSlot(epoch) + k - 1)])
  IN /\ Range(members) = get_active_validator_indices(state, epoch)
     /\ Len(members) = Cardinality(Range(members))

\* A validator that earned every flag of an epoch does not lose at the boundary
\* that settles it, leak or no leak: the deltas come from the participation of the
\* epoch before, and no penalty reaches those that voted.
PerfectAttestersKeep ==
  [][get_current_epoch(state)' > get_current_epoch(state) =>
       \A i \in active_unslashed_validator_indices(state, get_previous_epoch(state)) :
         /\ state.previous_epoch_participation[i] = 0..2
         /\ \A entry \in Range(state.pending_consolidations) : entry.source_index # i
         => state'.balances[i] >= state.balances[i]]_state

\* The value in the state and out of it: balances, deposits that wait, withdrawals.
TotalValue(s) ==
  SumFunction(s.balances)
    + SumFunction([i \in DOMAIN s.builders |-> s.builders[i].balance])
    + FoldLeft(LAMBDA total, d : total + d.amount, 0, s.pending_deposits)
    + s.withdrawn

\* Where no rewards are paid, value enters by deposits alone, whichever queues,
\* sweeps and consolidations it goes through, and only penalties destroy it.
ValueConserved ==
  /\ TotalValue(state) <= TotalValue(Anchor) + state.received
  /\ (\A i \in DOMAIN state.validators :
        ~state.validators[i].slashed /\ state.inactivity_scores[i] = 0)
     => TotalValue(state) = TotalValue(Anchor) + state.received

\* The exit queue never lets out more than the churn of the epochs it spans, from
\* the first epoch that was open to the first request to the one that the last
\* request got (consume_churn_budget).
ExitChurnBounded ==
  \A j, k \in DOMAIN state.exit_log :
    j <= k =>
      FoldLeft(LAMBDA total, e : total + e.amount, 0, SubSeq(state.exit_log, j, k))
        <= (state.exit_log[k].epoch - compute_activation_exit_epoch(state.exit_log[j].at) + 1)
             * Max({state.exit_log[i].churn : i \in j..k})

\* What was decided on a validator before holds after: its key, its activation, its
\* exit and its slashing; the withdrawal that came with the exit is put off by the
\* slashing, and by nothing else.
Stands(before, after) ==
  /\ after.pubkey = before.pubkey
  /\ before.activation_epoch # FAR_FUTURE_EPOCH
       => after.activation_epoch = before.activation_epoch
  /\ before.slashed => after.slashed
  /\ before.exit_epoch # FAR_FUTURE_EPOCH
       => /\ after.exit_epoch = before.exit_epoch
          /\ \/ after.withdrawable_epoch = before.withdrawable_epoch
             \/ /\ ~before.slashed /\ after.slashed
                /\ ~(before.withdrawable_epoch > after.withdrawable_epoch)

\* What is scheduled for a validator stays: it is activated once, it exits once
\* whoever asks for it (a request, its own message, an ejection, a slashing, a
\* consolidation), a slashing is for good and only puts the withdrawal off, once.
LifecycleFinal ==
  [][\A i \in DOMAIN state.validators : Stands(state.validators[i], state'.validators[i])]_state

\* Every proposer of the lookahead is active in the epoch it proposes in: neither
\* an activation nor an exit takes effect inside the lookahead.
ProposersActive ==
  \A i \in LookaheadIndices :
    is_active_validator(state.validators[state.proposer_lookahead[i]],
      get_current_epoch(state) + (i \div SLOTS_PER_EPOCH))

\* After an epoch boundary the effective balance is within the hysteresis band of
\* the balance, or at the validator's maximum: the deposits, consolidations and
\* penalties of the boundary all come before the update.
EffectiveBalanceTracks ==
  (state.slot % SLOTS_PER_EPOCH = 0 /\ state.latest_block_header.slot < state.slot) =>
    \A i \in DOMAIN state.validators :
      LET v == state.validators[i]
      IN /\ v.effective_balance <= get_max_effective_balance(v)
         /\ 4 * v.effective_balance <= 4 * state.balances[i] + EFFECTIVE_BALANCE_INCREMENT
         /\ \/ 4 * state.balances[i] <= 4 * v.effective_balance + 5 * EFFECTIVE_BALANCE_INCREMENT
            \/ v.effective_balance = get_max_effective_balance(v)
=============================================================================
