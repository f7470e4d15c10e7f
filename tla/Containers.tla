----------------------------- MODULE Containers -----------------------------
(***************************************************************************)
(* The consensus containers of moonglass-core/src/containers.  XFields is  *)
(* struct X: the type of each field.  X is what the hand-written impls of  *)
(* X do with it: the order in which serialize writes the fields, in which  *)
(* deserialize reads them, in which is_variable_size and size_hint lay     *)
(* them out and in which hash_tree_root hashes them.  Those five listings  *)
(* agree for every container of the source, so one order stands for them.  *)
(***************************************************************************)
EXTENDS Primitives

CONSTANTS
    BUILDER_PAYMENT_WINDOW_LEN, BUILDER_PENDING_WITHDRAWALS_LIMIT,
    BUILDER_REGISTRY_LIMIT, BYTES_PER_LOGS_BLOOM, DEPOSIT_PROOF_LEN,
    EPOCHS_PER_HISTORICAL_VECTOR, EPOCHS_PER_SLASHINGS_VECTOR, ETH1_DATA_VOTES_LEN,
    HISTORICAL_ROOTS_LIMIT, JUSTIFICATION_BITS_LENGTH, MAX_ATTESTATIONS,
    MAX_ATTESTER_SLASHINGS, MAX_ATTESTING_INDICES, MAX_BLOB_COMMITMENTS_PER_BLOCK,
    MAX_BLS_TO_EXECUTION_CHANGES, MAX_BUILDER_DEPOSIT_REQUESTS_PER_PAYLOAD,
    MAX_BUILDER_EXIT_REQUESTS_PER_PAYLOAD, MAX_BYTES_PER_TRANSACTION,
    MAX_COMMITTEES_PER_SLOT, MAX_CONSOLIDATION_REQUESTS_PER_PAYLOAD, MAX_DEPOSITS,
    MAX_DEPOSIT_REQUESTS_PER_PAYLOAD, MAX_EXTRA_DATA_BYTES, MAX_PAYLOAD_ATTESTATIONS,
    MAX_PROPOSER_SLASHINGS, MAX_TRANSACTIONS_PER_PAYLOAD, MAX_VOLUNTARY_EXITS,
    MAX_WITHDRAWALS_PER_PAYLOAD, MAX_WITHDRAWAL_REQUESTS_PER_PAYLOAD, NUMBER_OF_COLUMNS,
    PENDING_CONSOLIDATIONS_LIMIT, PENDING_DEPOSITS_LIMIT,
    PENDING_PARTIAL_WITHDRAWALS_LIMIT, PROPOSER_LOOKAHEAD_LEN, PTC_SIZE, PTC_WINDOW_LEN,
    SLOTS_PER_HISTORICAL_ROOT, SYNC_COMMITTEE_SIZE, SYNC_COMMITTEE_SUBNET_COUNT,
    VALIDATOR_REGISTRY_LIMIT

BlobParametersFields == [epoch |-> Epoch, max_blobs_per_block |-> U64]
BlobParameters == Container(<<"epoch", "max_blobs_per_block">>, BlobParametersFields)

ForkFields == [previous_version |-> Version, current_version |-> Version, epoch |-> Epoch]
Fork == Container(<<"previous_version", "current_version", "epoch">>, ForkFields)

ForkDataFields == [current_version |-> Version, genesis_validators_root |-> Root]
ForkData == Container(<<"current_version", "genesis_validators_root">>, ForkDataFields)

CheckpointFields == [epoch |-> Epoch, root |-> Root]
Checkpoint == Container(<<"epoch", "root">>, CheckpointFields)

HistoricalSummaryFields == [block_summary_root |-> Root, state_summary_root |-> Root]
HistoricalSummary ==
    Container(<<"block_summary_root", "state_summary_root">>, HistoricalSummaryFields)

Eth1DataFields == [deposit_root |-> Root, deposit_count |-> U64, block_hash |-> Hash32]
Eth1Data == Container(<<"deposit_root", "deposit_count", "block_hash">>, Eth1DataFields)

SigningDataFields == [object_root |-> Root, domain |-> Domain]
SigningData == Container(<<"object_root", "domain">>, SigningDataFields)

ValidatorFields ==
    [pubkey |-> BLSPubkey, withdrawal_credentials |-> Bytes32, effective_balance |-> Gwei,
     slashed |-> Bool, activation_eligibility_epoch |-> Epoch, activation_epoch |-> Epoch,
     exit_epoch |-> Epoch, withdrawable_epoch |-> Epoch]
Validator ==
    Container(<<"pubkey", "withdrawal_credentials", "effective_balance", "slashed",
                "activation_eligibility_epoch", "activation_epoch", "exit_epoch",
                "withdrawable_epoch">>, ValidatorFields)

PendingDepositFields ==
    [pubkey |-> BLSPubkey, withdrawal_credentials |-> Bytes32, amount |-> Gwei,
     signature |-> BLSSignature, slot |-> Slot]
PendingDeposit ==
    Container(<<"pubkey", "withdrawal_credentials", "amount", "signature",
                "slot">>, PendingDepositFields)

PendingPartialWithdrawalFields ==
    [validator_index |-> ValidatorIndex, amount |-> Gwei, withdrawable_epoch |-> Epoch]
PendingPartialWithdrawal ==
    Container(<<"validator_index", "amount",
                "withdrawable_epoch">>, PendingPartialWithdrawalFields)

PendingConsolidationFields == [source_index |-> ValidatorIndex, target_index |-> ValidatorIndex]
PendingConsolidation ==
    Container(<<"source_index", "target_index">>, PendingConsolidationFields)

BuilderFields ==
    [pubkey |-> BLSPubkey, version |-> U8, execution_address |-> ExecutionAddress,
     balance |-> Gwei, deposit_epoch |-> Epoch, withdrawable_epoch |-> Epoch]
Builder ==
    Container(<<"pubkey", "version", "execution_address", "balance", "deposit_epoch",
                "withdrawable_epoch">>, BuilderFields)

BuilderPendingWithdrawalFields ==
    [fee_recipient |-> ExecutionAddress, amount |-> Gwei, builder_index |-> BuilderIndex]
BuilderPendingWithdrawal ==
    Container(<<"fee_recipient", "amount", "builder_index">>, BuilderPendingWithdrawalFields)

BuilderPendingPaymentFields ==
    [weight |-> Gwei, withdrawal |-> BuilderPendingWithdrawal,
     proposer_index |-> ValidatorIndex]
BuilderPendingPayment ==
    Container(<<"weight", "withdrawal", "proposer_index">>, BuilderPendingPaymentFields)

PayloadAttestationDataFields ==
    [beacon_block_root |-> Root, slot |-> Slot, payload_present |-> Bool,
     blob_data_available |-> Bool]
PayloadAttestationData ==
    Container(<<"beacon_block_root", "slot", "payload_present",
                "blob_data_available">>, PayloadAttestationDataFields)

PayloadAttestationFields ==
    [aggregation_bits |-> Bitvector(PTC_SIZE), data |-> PayloadAttestationData,
     signature |-> BLSSignature]
PayloadAttestation ==
    Container(<<"aggregation_bits", "data", "signature">>, PayloadAttestationFields)

PayloadAttestationMessageFields ==
    [validator_index |-> ValidatorIndex, data |-> PayloadAttestationData,
     signature |-> BLSSignature]
PayloadAttestationMessage ==
    Container(<<"validator_index", "data", "signature">>, PayloadAttestationMessageFields)

IndexedPayloadAttestationFields ==
    [attesting_indices |-> List(ValidatorIndex, PTC_SIZE), data |-> PayloadAttestationData,
     signature |-> BLSSignature]
IndexedPayloadAttestation ==
    Container(<<"attesting_indices", "data", "signature">>, IndexedPayloadAttestationFields)

BeaconBlockHeaderFields ==
    [slot |-> Slot, proposer_index |-> ValidatorIndex, parent_root |-> Root,
     state_root |-> Root, body_root |-> Root]
Mutant_BeaconBlockHeader ==
    Container(<<"slot", "proposer_index", "state_root", "parent_root", "body_root">>,
              BeaconBlockHeaderFields)
BeaconBlockHeader ==
    Container(<<"slot", "proposer_index", "parent_root", "state_root",
                "body_root">>, BeaconBlockHeaderFields)

SignedBeaconBlockHeaderFields == [message |-> BeaconBlockHeader, signature |-> BLSSignature]
SignedBeaconBlockHeader == Container(<<"message", "signature">>, SignedBeaconBlockHeaderFields)

ProposerSlashingFields ==
    [signed_header_1 |-> SignedBeaconBlockHeader, signed_header_2 |-> SignedBeaconBlockHeader]
ProposerSlashing == Container(<<"signed_header_1", "signed_header_2">>, ProposerSlashingFields)

AttestationDataFields ==
    [slot |-> Slot, index |-> CommitteeIndex, beacon_block_root |-> Root,
     source |-> Checkpoint, target |-> Checkpoint]
AttestationData ==
    Container(<<"slot", "index", "beacon_block_root", "source",
                "target">>, AttestationDataFields)

IndexedAttestationFields ==
    [attesting_indices |-> List(ValidatorIndex, MAX_ATTESTING_INDICES),
     data |-> AttestationData, signature |-> BLSSignature]
IndexedAttestation ==
    Container(<<"attesting_indices", "data", "signature">>, IndexedAttestationFields)

AttesterSlashingFields ==
    [attestation_1 |-> IndexedAttestation, attestation_2 |-> IndexedAttestation]
AttesterSlashing == Container(<<"attestation_1", "attestation_2">>, AttesterSlashingFields)

AttestationFields ==
    [aggregation_bits |-> Bitlist(MAX_ATTESTING_INDICES), data |-> AttestationData,
     signature |-> BLSSignature, committee_bits |-> Bitvector(MAX_COMMITTEES_PER_SLOT)]
Attestation ==
    Container(<<"aggregation_bits", "data", "signature", "committee_bits">>, AttestationFields)

DepositDataFields ==
    [pubkey |-> BLSPubkey, withdrawal_credentials |-> Bytes32, amount |-> Gwei,
     signature |-> BLSSignature]
DepositData ==
    Container(<<"pubkey", "withdrawal_credentials", "amount", "signature">>, DepositDataFields)

DepositFields == [proof |-> Vector(Bytes32, DEPOSIT_PROOF_LEN), data |-> DepositData]
Deposit == Container(<<"proof", "data">>, DepositFields)

VoluntaryExitFields == [epoch |-> Epoch, validator_index |-> ValidatorIndex]
VoluntaryExit == Container(<<"epoch", "validator_index">>, VoluntaryExitFields)

SignedVoluntaryExitFields == [message |-> VoluntaryExit, signature |-> BLSSignature]
SignedVoluntaryExit == Container(<<"message", "signature">>, SignedVoluntaryExitFields)

SyncAggregateFields ==
    [sync_committee_bits |-> Bitvector(SYNC_COMMITTEE_SIZE),
     sync_committee_signature |-> BLSSignature]
SyncAggregate ==
    Container(<<"sync_committee_bits", "sync_committee_signature">>, SyncAggregateFields)

BLSToExecutionChangeFields ==
    [validator_index |-> ValidatorIndex, from_bls_pubkey |-> BLSPubkey,
     to_execution_address |-> ExecutionAddress]
BLSToExecutionChange ==
    Container(<<"validator_index", "from_bls_pubkey",
                "to_execution_address">>, BLSToExecutionChangeFields)

SignedBLSToExecutionChangeFields ==
    [message |-> BLSToExecutionChange, signature |-> BLSSignature]
SignedBLSToExecutionChange ==
    Container(<<"message", "signature">>, SignedBLSToExecutionChangeFields)

ExecutionPayloadBidFields ==
    [parent_block_hash |-> Hash32, parent_block_root |-> Root, block_hash |-> Hash32,
     prev_randao |-> Bytes32, fee_recipient |-> ExecutionAddress, gas_limit |-> U64,
     builder_index |-> BuilderIndex, slot |-> Slot, value |-> Gwei, execution_payment |-> Gwei,
     blob_kzg_commitments |-> List(KZGCommitment, MAX_BLOB_COMMITMENTS_PER_BLOCK),
     execution_requests_root |-> Root]
ExecutionPayloadBid ==
    Container(<<"parent_block_hash", "parent_block_root", "block_hash", "prev_randao",
                "fee_recipient", "gas_limit", "builder_index", "slot", "value",
                "execution_payment", "blob_kzg_commitments",
                "execution_requests_root">>, ExecutionPayloadBidFields)

SignedExecutionPayloadBidFields == [message |-> ExecutionPayloadBid, signature |-> BLSSignature]
SignedExecutionPayloadBid ==
    Container(<<"message", "signature">>, SignedExecutionPayloadBidFields)

DepositRequestFields ==
    [pubkey |-> BLSPubkey, withdrawal_credentials |-> Bytes32, amount |-> Gwei,
     signature |-> BLSSignature, index |-> U64]
DepositRequest ==
    Container(<<"pubkey", "withdrawal_credentials", "amount", "signature",
                "index">>, DepositRequestFields)

WithdrawalRequestFields ==
    [source_address |-> ExecutionAddress, validator_pubkey |-> BLSPubkey, amount |-> Gwei]
WithdrawalRequest ==
    Container(<<"source_address", "validator_pubkey", "amount">>, WithdrawalRequestFields)

ConsolidationRequestFields ==
    [source_address |-> ExecutionAddress, source_pubkey |-> BLSPubkey,
     target_pubkey |-> BLSPubkey]
ConsolidationRequest ==
    Container(<<"source_address", "source_pubkey",
                "target_pubkey">>, ConsolidationRequestFields)

BuilderDepositRequestFields ==
    [pubkey |-> BLSPubkey, withdrawal_credentials |-> Bytes32, amount |-> Gwei,
     signature |-> BLSSignature]
BuilderDepositRequest ==
    Container(<<"pubkey", "withdrawal_credentials", "amount",
                "signature">>, BuilderDepositRequestFields)

BuilderExitRequestFields == [source_address |-> ExecutionAddress, pubkey |-> BLSPubkey]
BuilderExitRequest == Container(<<"source_address", "pubkey">>, BuilderExitRequestFields)

ExecutionRequestsFields ==
    [deposits |-> List(DepositRequest, MAX_DEPOSIT_REQUESTS_PER_PAYLOAD),
     withdrawals |-> List(WithdrawalRequest, MAX_WITHDRAWAL_REQUESTS_PER_PAYLOAD),
     consolidations |-> List(ConsolidationRequest, MAX_CONSOLIDATION_REQUESTS_PER_PAYLOAD),
     builder_deposits |-> List(BuilderDepositRequest, MAX_BUILDER_DEPOSIT_REQUESTS_PER_PAYLOAD),
     builder_exits |-> List(BuilderExitRequest, MAX_BUILDER_EXIT_REQUESTS_PER_PAYLOAD)]
ExecutionRequests ==
    Container(<<"deposits", "withdrawals", "consolidations", "builder_deposits",
                "builder_exits">>, ExecutionRequestsFields)

BeaconBlockBodyFields ==
    [randao_reveal |-> BLSSignature, eth1_data |-> Eth1Data, graffiti |-> Bytes32,
     proposer_slashings |-> List(ProposerSlashing, MAX_PROPOSER_SLASHINGS),
     attester_slashings |-> List(AttesterSlashing, MAX_ATTESTER_SLASHINGS),
     attestations |-> List(Attestation, MAX_ATTESTATIONS),
     deposits |-> List(Deposit, MAX_DEPOSITS),
     voluntary_exits |-> List(SignedVoluntaryExit, MAX_VOLUNTARY_EXITS),
     sync_aggregate |-> SyncAggregate,
     bls_to_execution_changes |-> List(SignedBLSToExecutionChange, MAX_BLS_TO_EXECUTION_CHANGES),
     signed_execution_payload_bid |-> SignedExecutionPayloadBid,
     payload_attestations |-> List(PayloadAttestation, MAX_PAYLOAD_ATTESTATIONS),
     parent_execution_requests |-> ExecutionRequests]
BeaconBlockBody ==
    Container(<<"randao_reveal", "eth1_data", "graffiti", "proposer_slashings",
                "attester_slashings", "attestations", "deposits", "voluntary_exits",
                "sync_aggregate", "bls_to_execution_changes", "signed_execution_payload_bid",
                "payload_attestations", "parent_execution_requests">>, BeaconBlockBodyFields)

BeaconBlockFields ==
    [slot |-> Slot, proposer_index |-> ValidatorIndex, parent_root |-> Root,
     state_root |-> Root, body |-> BeaconBlockBody]
BeaconBlock ==
    Container(<<"slot", "proposer_index", "parent_root", "state_root",
                "body">>, BeaconBlockFields)

\* BeaconBlock::header: the header of a block, given the roots it holds.
header(block, body_root, state_root) ==
    [slot |-> block.slot, proposer_index |-> block.proposer_index,
     parent_root |-> block.parent_root, state_root |-> state_root, body_root |-> body_root]

SignedBeaconBlockFields == [message |-> BeaconBlock, signature |-> BLSSignature]
SignedBeaconBlock == Container(<<"message", "signature">>, SignedBeaconBlockFields)

SingleAttestationFields ==
    [committee_index |-> CommitteeIndex, attester_index |-> ValidatorIndex,
     data |-> AttestationData, signature |-> BLSSignature]
SingleAttestation ==
    Container(<<"committee_index", "attester_index", "data",
                "signature">>, SingleAttestationFields)

AggregateAndProofFields ==
    [aggregator_index |-> ValidatorIndex, aggregate |-> Attestation,
     selection_proof |-> BLSSignature]
AggregateAndProof ==
    Container(<<"aggregator_index", "aggregate", "selection_proof">>, AggregateAndProofFields)

SignedAggregateAndProofFields == [message |-> AggregateAndProof, signature |-> BLSSignature]
SignedAggregateAndProof == Container(<<"message", "signature">>, SignedAggregateAndProofFields)

SyncCommitteeFields ==
    [pubkeys |-> Vector(BLSPubkey, SYNC_COMMITTEE_SIZE), aggregate_pubkey |-> BLSPubkey]
SyncCommittee == Container(<<"pubkeys", "aggregate_pubkey">>, SyncCommitteeFields)

SyncCommitteeMessageFields ==
    [slot |-> Slot, beacon_block_root |-> Root, validator_index |-> ValidatorIndex,
     signature |-> BLSSignature]
SyncCommitteeMessage ==
    Container(<<"slot", "beacon_block_root", "validator_index",
                "signature">>, SyncCommitteeMessageFields)

SyncCommitteeContributionFields ==
    [slot |-> Slot, beacon_block_root |-> Root, subcommittee_index |-> U64,
     aggregation_bits |-> Bitvector(SYNC_COMMITTEE_SIZE \div SYNC_COMMITTEE_SUBNET_COUNT),
     signature |-> BLSSignature]
SyncCommitteeContribution ==
    Container(<<"slot", "beacon_block_root", "subcommittee_index", "aggregation_bits",
                "signature">>, SyncCommitteeContributionFields)

ContributionAndProofFields ==
    [aggregator_index |-> ValidatorIndex, contribution |-> SyncCommitteeContribution,
     selection_proof |-> BLSSignature]
ContributionAndProof ==
    Container(<<"aggregator_index", "contribution",
                "selection_proof">>, ContributionAndProofFields)

SignedContributionAndProofFields ==
    [message |-> ContributionAndProof, signature |-> BLSSignature]
SignedContributionAndProof ==
    Container(<<"message", "signature">>, SignedContributionAndProofFields)

SyncAggregatorSelectionDataFields == [slot |-> Slot, subcommittee_index |-> U64]
SyncAggregatorSelectionData ==
    Container(<<"slot", "subcommittee_index">>, SyncAggregatorSelectionDataFields)

WithdrawalFields ==
    [index |-> WithdrawalIndex, validator_index |-> ValidatorIndex,
     address |-> ExecutionAddress, amount |-> Gwei]
Withdrawal == Container(<<"index", "validator_index", "address", "amount">>, WithdrawalFields)

DepositMessageFields ==
    [pubkey |-> BLSPubkey, withdrawal_credentials |-> Bytes32, amount |-> Gwei]
DepositMessage ==
    Container(<<"pubkey", "withdrawal_credentials", "amount">>, DepositMessageFields)

PowBlockFields == [block_hash |-> Hash32, parent_hash |-> Hash32, total_difficulty |-> Uint256]
PowBlock == Container(<<"block_hash", "parent_hash", "total_difficulty">>, PowBlockFields)

Transaction == List(U8, MAX_BYTES_PER_TRANSACTION)

Transactions == List(Transaction, MAX_TRANSACTIONS_PER_PAYLOAD)

BlockAccessList == List(U8, MAX_BYTES_PER_TRANSACTION)

ExecutionPayloadFields ==
    [parent_hash |-> Hash32, fee_recipient |-> ExecutionAddress, state_root |-> Bytes32,
     receipts_root |-> Bytes32, logs_bloom |-> Vector(U8, BYTES_PER_LOGS_BLOOM),
     prev_randao |-> Bytes32, block_number |-> U64, gas_limit |-> U64, gas_used |-> U64,
     timestamp |-> U64, extra_data |-> List(U8, MAX_EXTRA_DATA_BYTES),
     base_fee_per_gas |-> Uint256, block_hash |-> Hash32, transactions |-> Transactions,
     withdrawals |-> List(Withdrawal, MAX_WITHDRAWALS_PER_PAYLOAD), blob_gas_used |-> U64,
     excess_blob_gas |-> U64, block_access_list |-> BlockAccessList, slot_number |-> U64]
ExecutionPayload ==
    Container(<<"parent_hash", "fee_recipient", "state_root", "receipts_root", "logs_bloom",
                "prev_randao", "block_number", "gas_limit", "gas_used", "timestamp",
                "extra_data", "base_fee_per_gas", "block_hash", "transactions", "withdrawals",
                "blob_gas_used", "excess_blob_gas", "block_access_list",
                "slot_number">>, ExecutionPayloadFields)

ExecutionPayloadEnvelopeFields ==
    [payload |-> ExecutionPayload, execution_requests |-> ExecutionRequests,
     builder_index |-> BuilderIndex, beacon_block_root |-> Root,
     parent_beacon_block_root |-> Root]
ExecutionPayloadEnvelope ==
    Container(<<"payload", "execution_requests", "builder_index", "beacon_block_root",
                "parent_beacon_block_root">>, ExecutionPayloadEnvelopeFields)

SignedExecutionPayloadEnvelopeFields ==
    [message |-> ExecutionPayloadEnvelope, signature |-> BLSSignature]
SignedExecutionPayloadEnvelope ==
    Container(<<"message", "signature">>, SignedExecutionPayloadEnvelopeFields)

ProposerPreferencesFields ==
    [dependent_root |-> Root, proposal_slot |-> Slot, validator_index |-> ValidatorIndex,
     fee_recipient |-> ExecutionAddress, target_gas_limit |-> U64]
ProposerPreferences ==
    Container(<<"dependent_root", "proposal_slot", "validator_index", "fee_recipient",
                "target_gas_limit">>, ProposerPreferencesFields)

SignedProposerPreferencesFields == [message |-> ProposerPreferences, signature |-> BLSSignature]
SignedProposerPreferences ==
    Container(<<"message", "signature">>, SignedProposerPreferencesFields)

DataColumnSidecarFields ==
    [index |-> ColumnIndex, column |-> List(Cell, MAX_BLOB_COMMITMENTS_PER_BLOCK),
     kzg_proofs |-> List(KZGProof, MAX_BLOB_COMMITMENTS_PER_BLOCK), slot |-> Slot,
     beacon_block_root |-> Root]
DataColumnSidecar ==
    Container(<<"index", "column", "kzg_proofs", "slot",
                "beacon_block_root">>, DataColumnSidecarFields)

DataColumnsByRootIdentifierFields ==
    [block_root |-> Root, columns |-> List(ColumnIndex, NUMBER_OF_COLUMNS)]
DataColumnsByRootIdentifier ==
    Container(<<"block_root", "columns">>, DataColumnsByRootIdentifierFields)

MatrixEntryFields ==
    [cell |-> Cell, kzg_proof |-> KZGProof, column_index |-> ColumnIndex,
     row_index |-> RowIndex]
MatrixEntry ==
    Container(<<"cell", "kzg_proof", "column_index", "row_index">>, MatrixEntryFields)

PartialDataColumnSidecarFields ==
    [cells_present_bitmap |-> Bitlist(MAX_BLOB_COMMITMENTS_PER_BLOCK),
     partial_column |-> List(Cell, MAX_BLOB_COMMITMENTS_PER_BLOCK),
     kzg_proofs |-> List(KZGProof, MAX_BLOB_COMMITMENTS_PER_BLOCK)]
PartialDataColumnSidecar ==
    Container(<<"cells_present_bitmap", "partial_column",
                "kzg_proofs">>, PartialDataColumnSidecarFields)

PartialDataColumnGroupIDFields == [slot |-> Slot, beacon_block_root |-> Root]
PartialDataColumnGroupID ==
    Container(<<"slot", "beacon_block_root">>, PartialDataColumnGroupIDFields)

BeaconStateFields ==
    [genesis_time |-> U64, genesis_validators_root |-> Root, slot |-> Slot, fork |-> Fork,
     latest_block_header |-> BeaconBlockHeader,
     block_roots |-> Vector(Root, SLOTS_PER_HISTORICAL_ROOT),
     state_roots |-> Vector(Root, SLOTS_PER_HISTORICAL_ROOT),
     historical_roots |-> List(Root, HISTORICAL_ROOTS_LIMIT), eth1_data |-> Eth1Data,
     eth1_data_votes |-> List(Eth1Data, ETH1_DATA_VOTES_LEN), eth1_deposit_index |-> U64,
     validators |-> List(Validator, VALIDATOR_REGISTRY_LIMIT),
     balances |-> List(Gwei, VALIDATOR_REGISTRY_LIMIT),
     randao_mixes |-> Vector(Bytes32, EPOCHS_PER_HISTORICAL_VECTOR),
     slashings |-> Vector(Gwei, EPOCHS_PER_SLASHINGS_VECTOR),
     previous_epoch_participation |-> List(ParticipationFlags, VALIDATOR_REGISTRY_LIMIT),
     current_epoch_participation |-> List(ParticipationFlags, VALIDATOR_REGISTRY_LIMIT),
     justification_bits |-> Bitvector(JUSTIFICATION_BITS_LENGTH),
     previous_justified_checkpoint |-> Checkpoint, current_justified_checkpoint |-> Checkpoint,
     finalized_checkpoint |-> Checkpoint,
     inactivity_scores |-> List(U64, VALIDATOR_REGISTRY_LIMIT),
     current_sync_committee |-> SyncCommittee, next_sync_committee |-> SyncCommittee,
     latest_block_hash |-> Hash32, next_withdrawal_index |-> WithdrawalIndex,
     next_withdrawal_validator_index |-> ValidatorIndex,
     historical_summaries |-> List(HistoricalSummary, HISTORICAL_ROOTS_LIMIT),
     deposit_requests_start_index |-> U64, deposit_balance_to_consume |-> Gwei,
     exit_balance_to_consume |-> Gwei, earliest_exit_epoch |-> Epoch,
     consolidation_balance_to_consume |-> Gwei, earliest_consolidation_epoch |-> Epoch,
     pending_deposits |-> List(PendingDeposit, PENDING_DEPOSITS_LIMIT),
     pending_partial_withdrawals |-> List(PendingPartialWithdrawal, PENDING_PARTIAL_WITHDRAWALS_LIMIT),
     pending_consolidations |-> List(PendingConsolidation, PENDING_CONSOLIDATIONS_LIMIT),
     proposer_lookahead |-> Vector(ValidatorIndex, PROPOSER_LOOKAHEAD_LEN),
     builders |-> List(Builder, BUILDER_REGISTRY_LIMIT),
     next_withdrawal_builder_index |-> BuilderIndex,
     execution_payload_availability |-> Bitvector(SLOTS_PER_HISTORICAL_ROOT),
     builder_pending_payments |-> Vector(BuilderPendingPayment, BUILDER_PAYMENT_WINDOW_LEN),
     builder_pending_withdrawals |-> List(BuilderPendingWithdrawal, BUILDER_PENDING_WITHDRAWALS_LIMIT),
     latest_execution_payload_bid |-> ExecutionPayloadBid,
     payload_expected_withdrawals |-> List(Withdrawal, MAX_WITHDRAWALS_PER_PAYLOAD),
     ptc_window |-> Vector(Vector(ValidatorIndex, PTC_SIZE), PTC_WINDOW_LEN)]
BeaconState ==
    Container(<<"genesis_time", "genesis_validators_root", "slot", "fork",
                "latest_block_header", "block_roots", "state_roots", "historical_roots",
                "eth1_data", "eth1_data_votes", "eth1_deposit_index", "validators", "balances",
                "randao_mixes", "slashings", "previous_epoch_participation",
                "current_epoch_participation", "justification_bits",
                "previous_justified_checkpoint", "current_justified_checkpoint",
                "finalized_checkpoint", "inactivity_scores", "current_sync_committee",
                "next_sync_committee", "latest_block_hash", "next_withdrawal_index",
                "next_withdrawal_validator_index", "historical_summaries",
                "deposit_requests_start_index", "deposit_balance_to_consume",
                "exit_balance_to_consume", "earliest_exit_epoch",
                "consolidation_balance_to_consume", "earliest_consolidation_epoch",
                "pending_deposits", "pending_partial_withdrawals", "pending_consolidations",
                "proposer_lookahead", "builders", "next_withdrawal_builder_index",
                "execution_payload_availability", "builder_pending_payments",
                "builder_pending_withdrawals", "latest_execution_payload_bid",
                "payload_expected_withdrawals", "ptc_window">>, BeaconStateFields)

\* Every container by its name.
Catalogue ==
    [BlobParameters |-> BlobParameters, Fork |-> Fork, ForkData |-> ForkData,
     Checkpoint |-> Checkpoint, HistoricalSummary |-> HistoricalSummary, Eth1Data |-> Eth1Data,
     SigningData |-> SigningData, Validator |-> Validator, PendingDeposit |-> PendingDeposit,
     PendingPartialWithdrawal |-> PendingPartialWithdrawal,
     PendingConsolidation |-> PendingConsolidation, Builder |-> Builder,
     BuilderPendingWithdrawal |-> BuilderPendingWithdrawal,
     BuilderPendingPayment |-> BuilderPendingPayment,
     PayloadAttestationData |-> PayloadAttestationData,
     PayloadAttestation |-> PayloadAttestation,
     PayloadAttestationMessage |-> PayloadAttestationMessage,
     IndexedPayloadAttestation |-> IndexedPayloadAttestation,
     BeaconBlockHeader |-> BeaconBlockHeader,
     SignedBeaconBlockHeader |-> SignedBeaconBlockHeader,
     ProposerSlashing |-> ProposerSlashing, AttestationData |-> AttestationData,
     IndexedAttestation |-> IndexedAttestation, AttesterSlashing |-> AttesterSlashing,
     Attestation |-> Attestation, DepositData |-> DepositData, Deposit |-> Deposit,
     VoluntaryExit |-> VoluntaryExit, SignedVoluntaryExit |-> SignedVoluntaryExit,
     SyncAggregate |-> SyncAggregate, BLSToExecutionChange |-> BLSToExecutionChange,
     SignedBLSToExecutionChange |-> SignedBLSToExecutionChange,
     ExecutionPayloadBid |-> ExecutionPayloadBid,
     SignedExecutionPayloadBid |-> SignedExecutionPayloadBid,
     DepositRequest |-> DepositRequest, WithdrawalRequest |-> WithdrawalRequest,
     ConsolidationRequest |-> ConsolidationRequest,
     BuilderDepositRequest |-> BuilderDepositRequest,
     BuilderExitRequest |-> BuilderExitRequest, ExecutionRequests |-> ExecutionRequests,
     BeaconBlockBody |-> BeaconBlockBody, BeaconBlock |-> BeaconBlock,
     SignedBeaconBlock |-> SignedBeaconBlock, SingleAttestation |-> SingleAttestation,
     AggregateAndProof |-> AggregateAndProof,
     SignedAggregateAndProof |-> SignedAggregateAndProof, SyncCommittee |-> SyncCommittee,
     SyncCommitteeMessage |-> SyncCommitteeMessage,
     SyncCommitteeContribution |-> SyncCommitteeContribution,
     ContributionAndProof |-> ContributionAndProof,
     SignedContributionAndProof |-> SignedContributionAndProof,
     SyncAggregatorSelectionData |-> SyncAggregatorSelectionData, Withdrawal |-> Withdrawal,
     DepositMessage |-> DepositMessage, PowBlock |-> PowBlock,
     ExecutionPayload |-> ExecutionPayload,
     ExecutionPayloadEnvelope |-> ExecutionPayloadEnvelope,
     SignedExecutionPayloadEnvelope |-> SignedExecutionPayloadEnvelope,
     ProposerPreferences |-> ProposerPreferences,
     SignedProposerPreferences |-> SignedProposerPreferences,
     DataColumnSidecar |-> DataColumnSidecar,
     DataColumnsByRootIdentifier |-> DataColumnsByRootIdentifier, MatrixEntry |-> MatrixEntry,
     PartialDataColumnSidecar |-> PartialDataColumnSidecar,
     PartialDataColumnGroupID |-> PartialDataColumnGroupID, BeaconState |-> BeaconState]
=============================================================================
