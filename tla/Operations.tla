----------------------------- MODULE Operations -----------------------------
(***************************************************************************)
(* The operations of a block body that concern attestations and slashings  *)
(* (state_transition/operations.rs, operations/attestations.rs,            *)
(* operations/slashings.rs, builder/payload_attestations.rs,               *)
(* block/sync_aggregate.rs).  Signatures of operations are valid: BLS is   *)
(* external, and an invalid one only rejects the block.                    *)
(***************************************************************************)
EXTENDS Requests

-----------------------------------------------------------------------------
\* Slashings.
ClearPayment(s, slot, proposer_index) ==
  LET i == builder_payment_index_for_slot(s.slot, slot)
  IN IF i # NoIndex /\ s.builder_pending_payments[i].proposer_index = proposer_index
     THEN [s EXCEPT !.builder_pending_payments[i] = NoPayment]
     ELSE s

\* The evidence: two different headers of one proposer for one slot.
process_proposer_slashing(s, slashing) ==
  LET h1 == slashing.header_1
      h2 == slashing.header_2
  IN IF h1.slot # h2.slot \/ h1.proposer_index # h2.proposer_index \/ h1 = h2
     THEN Reject(s, "ProposerSlashingHeaders")
     ELSE IF h1.proposer_index \notin DOMAIN s.validators
     THEN Reject(s, "ValidatorIndexOutOfRange")
     ELSE IF ~is_slashable_validator(s.validators[h1.proposer_index], get_current_epoch(s))
     THEN Reject(s, "ProposerSlashingNotSlashable")
     ELSE slash_validator(ClearPayment(s, h1.slot, h1.proposer_index), h1.proposer_index)

is_slashable_attestation_data(d1, d2) ==
  \/ d1 # d2 /\ d1.target.epoch = d2.target.epoch
  \/ d1.source.epoch < d2.source.epoch /\ d2.target.epoch < d1.target.epoch

SlashIfSlashable(s, index) ==
  IF is_slashable_validator(s.validators[index], get_current_epoch(s))
  THEN slash_validator(s, index) ELSE s

\* Indexed attestations list their attesters in increasing order, that is as a set.
validate_indexed_attestation(s, indices) ==
  IF indices = {} THEN "IndexedAttestationEmpty"
  ELSE IF ~(indices \subseteq DOMAIN s.validators) THEN "ValidatorIndexOutOfRange"
  ELSE "none"

process_attester_slashing(s, slashing) ==
  LET first == validate_indexed_attestation(s, slashing.attesting_indices_1)
      second == validate_indexed_attestation(s, slashing.attesting_indices_2)
      both == slashing.attesting_indices_1 \cap slashing.attesting_indices_2
  IN IF ~is_slashable_attestation_data(slashing.data_1, slashing.data_2)
     THEN Reject(s, "AttesterSlashingNotSlashable")
     ELSE IF first # "none" THEN Reject(s, first)
     ELSE IF second # "none" THEN Reject(s, second)
     ELSE IF both = {} THEN Reject(s, "AttesterSlashingNoIntersection")
     ELSE IF \A i \in both : ~is_slashable_validator(s.validators[i], get_current_epoch(s))
     THEN Reject(s, "AttesterSlashingNotSlashable")
     ELSE FoldLeft(SlashIfSlashable, s, InOrder(s, both))

-----------------------------------------------------------------------------
\* Attestations.  The aggregation bits run over the chosen committees, one after
\* the other; each chosen committee must contribute.
ChosenCommittees(s, attestation) ==
  [k \in 1..Cardinality(attestation.committee_bits) |->
     get_beacon_committee(s, attestation.data.slot,
       SelectSeq([c \in 1..MAX_COMMITTEES_PER_SLOT |-> c - 1],
                 LAMBDA c : c \in attestation.committee_bits)[k])]

attesting_indices(s, attestation) ==
  LET members == FlattenSeq(ChosenCommittees(s, attestation))
  IN {members[k] : k \in attestation.aggregation_bits \cap DOMAIN members}

WellFormedBits(s, attestation) ==
  /\ \A c \in attestation.committee_bits :
       c < get_committee_count_per_slot(s, attestation.data.target.epoch)
  /\ attestation.bits_len = Len(FlattenSeq(ChosenCommittees(s, attestation)))
  /\ attesting_indices(s, attestation) # {}
  /\ \A k \in DOMAIN ChosenCommittees(s, attestation) :
       Range(ChosenCommittees(s, attestation)[k])
         \cap attesting_indices(s, attestation) # {}

is_attestation_same_slot(s, data) ==
  \/ data.slot = 0
  \/ /\ data.beacon_block_root = block_root_at_slot(s, data.slot)
     /\ data.beacon_block_root # block_root_at_slot(s, saturating_sub(data.slot, 1))

\* A vote for the slot's own block says nothing of its payload; a later vote must
\* agree with the availability the state recorded.
PayloadMatches(s, data) ==
  \/ is_attestation_same_slot(s, data)
  \/ data.index = s.execution_payload_availability[data.slot % SLOTS_PER_HISTORICAL_ROOT]

get_attestation_participation_flag_indices(s, data, inclusion_delay) ==
  LET target == data.target.root = block_root_at_slot(s, StartSlot(data.target.epoch))
      head == /\ target
              /\ data.beacon_block_root = block_root_at_slot(s, data.slot)
              /\ PayloadMatches(s, data)
  IN {f \in {TIMELY_SOURCE_FLAG_INDEX} : inclusion_delay <= integer_squareroot(SLOTS_PER_EPOCH)}
     \cup {f \in {TIMELY_TARGET_FLAG_INDEX} : target}
     \cup {f \in {TIMELY_HEAD_FLAG_INDEX} : head /\ inclusion_delay = 1}

RequiredSource(s, data) ==
  IF data.target.epoch = get_current_epoch(s) THEN s.current_justified_checkpoint
  ELSE s.previous_justified_checkpoint

accept_attestation(s, attestation) ==
  LET data == attestation.data
  IN IF \/ data.target.epoch \notin {get_previous_epoch(s), get_current_epoch(s)}
        \/ data.target.epoch # Epoch(data.slot)
     THEN "AttestationTargetEpochInvalid"
     ELSE IF data.slot + 1 > s.slot THEN "AttestationSlotInvalid"
     ELSE IF data.index >= 2 THEN "AttestationPayloadStatusInvalid"
     ELSE IF ~WellFormedBits(s, attestation) THEN "AttestationBitsInvalid"
     ELSE IF data.source # RequiredSource(s, data) THEN "AttestationSourceMismatch"
     ELSE IF is_attestation_same_slot(s, data) /\ data.index # 0
     THEN "AttestationPayloadStatusInvalid"
     ELSE "none"

\* Participation before the attestation; flags are the ones it earns.
Participation(s, data) ==
  IF data.target.epoch = get_current_epoch(s) THEN s.current_epoch_participation
  ELSE s.previous_epoch_participation

\* Weight for the payment of the slot, from those that gain a flag for the first
\* time by a vote for the slot's own block.
PaymentWeight(s, data, attesters, flags) ==
  IF is_attestation_same_slot(s, data)
  THEN MapThenSumSet(LAMBDA i : s.validators[i].effective_balance,
                     {i \in attesters : ~(flags \subseteq Participation(s, data)[i])})
  ELSE 0

ProposerRewardNumerator(s, data, attesters, flags) ==
  MapThenSumSet(LAMBDA i : get_base_reward(s, i)
       * MapThenSumSet(LAMBDA f : PARTICIPATION_FLAG_WEIGHTS[f],
                       flags \ Participation(s, data)[i]),
     attesters)

Mutant_AddWeight(payment, weight) == [payment EXCEPT !.weight = @ + weight]

AddWeight(payment, weight) ==
  IF payment.amount > 0 THEN [payment EXCEPT !.weight = @ + weight] ELSE payment

record_attestation_participation(s, data, attesters, flags) ==
  LET updated == [i \in DOMAIN s.validators |->
                    Participation(s, data)[i] \cup (IF i \in attesters THEN flags ELSE {})]
  IN [s EXCEPT
        !.current_epoch_participation =
           IF data.target.epoch = get_current_epoch(s) THEN updated ELSE @,
        !.previous_epoch_participation =
           IF data.target.epoch = get_current_epoch(s) THEN @ ELSE updated,
        !.builder_pending_payments[builder_payment_index_for_slot(s.slot, data.slot)] =
           AddWeight(@, PaymentWeight(s, data, attesters, flags))]

reward_attestation_proposer(s, numerator) ==
  increase_balance(s, get_beacon_proposer_index(s),
    numerator \div (((WEIGHT_DENOMINATOR - PROPOSER_WEIGHT) * WEIGHT_DENOMINATOR)
                      \div PROPOSER_WEIGHT))

process_attestation(s, attestation) ==
  LET data == attestation.data
      attesters == attesting_indices(s, attestation)
      flags == get_attestation_participation_flag_indices(s, data, s.slot - data.slot)
  IN IF accept_attestation(s, attestation) # "none"
     THEN Reject(s, accept_attestation(s, attestation))
     ELSE reward_attestation_proposer(
            record_attestation_participation(s, data, attesters, flags),
            ProposerRewardNumerator(s, data, attesters, flags))

-----------------------------------------------------------------------------
\* Payload attestations are checked and leave the state as it is.
process_payload_attestation(s, attestation) ==
  IF attestation.data.beacon_block_root # s.latest_block_header.parent_root
  THEN Reject(s, "PayloadAttestationBlockRootMismatch")
  ELSE IF attestation.data.slot + 1 # s.slot \/ ~PtcKnown(s, attestation.data.slot)
  THEN Reject(s, "PayloadAttestationSlotMismatch")
  ELSE IF attestation.aggregation_bits \cap DOMAIN get_ptc(s, attestation.data.slot) = {}
  THEN Reject(s, "AttestationParticipantsEmpty")
  ELSE s

-----------------------------------------------------------------------------
\* The sync aggregate: bits are the committee positions that signed.
sync_aggregate_rewards(s) ==
  LET total_base == get_base_reward_per_increment(s) * Increments(get_total_active_balance(s))
      participant == ((((total_base * SYNC_REWARD_WEIGHT) \div WEIGHT_DENOMINATOR)
                         \div SLOTS_PER_EPOCH) \div SYNC_COMMITTEE_SIZE)
  IN [participant |-> participant,
      proposer |-> (participant * PROPOSER_WEIGHT) \div (WEIGHT_DENOMINATOR - PROPOSER_WEIGHT)]

RewardParticipant(s, pubkey, signed, rewards) ==
  LET member == Min(validator_index(s, pubkey))
  IN IF signed THEN increase_balance(increase_balance(s, member, rewards.participant),
                                     get_beacon_proposer_index(s), rewards.proposer)
     ELSE decrease_balance(s, member, rewards.participant)

process_sync_aggregate(s, bits) ==
  FoldLeft(LAMBDA st, k : RewardParticipant(st, s.current_sync_committee[k], k \in bits,
                                            sync_aggregate_rewards(s)),
           s, [k \in 1..SYNC_COMMITTEE_SIZE |-> k])

-----------------------------------------------------------------------------
\* One operation of a body or one request of a payload, and a list of one kind: the
\* first that is refused ends it.
ProcessOne(kind, s, op) ==
  CASE kind = "proposer_slashing" -> process_proposer_slashing(s, op)
    [] kind = "attester_slashing" -> process_attester_slashing(s, op)
    [] kind = "attestation" -> process_attestation(s, op)
    [] kind = "voluntary_exit" -> process_voluntary_exit(s, op)
    [] kind = "bls_to_execution_change" -> process_bls_to_execution_change(s, op)
    [] kind = "payload_attestation" -> process_payload_attestation(s, op)
    [] kind = "deposit_request" -> process_deposit_request(s, op)
    [] kind = "withdrawal_request" -> process_withdrawal_request(s, op)
    [] kind = "consolidation_request" -> process_consolidation_request(s, op)
    [] kind = "builder_deposit_request" -> process_builder_deposit_request(s, op)
    [] kind = "builder_exit_request" -> process_builder_exit_request(s, op)

Each(s, kind, list) ==
  FoldLeft(LAMBDA st, op : IF st.error = "none" THEN ProcessOne(kind, st, op) ELSE st, s, list)

\* The operations of a body, kind by kind in the code's order.  Deposits come as
\* execution requests, and a body that still carries one is refused.
process_operations(s, body) ==
  IF body.deposits # << >> THEN Reject(s, "DepositsNotAllowed")
  ELSE Each(Each(Each(Each(Each(Each(s,
    "proposer_slashing", body.proposer_slashings),
    "attester_slashing", body.attester_slashings),
    "attestation", body.attestations),
    "voluntary_exit", body.voluntary_exits),
    "bls_to_execution_change", body.bls_to_execution_changes),
    "payload_attestation", body.payload_attestations)
=============================================================================
