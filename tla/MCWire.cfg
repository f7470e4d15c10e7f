SPECIFICATION Spec
CONSTANTS
    BYTES_PER_LENGTH_OFFSET = 2
    BYTES_PER_CHUNK = 4
    U64_BYTES = 2
    BLS_G1_COMPRESSED_BYTES = 6
    BLS_G2_COMPRESSED_BYTES = 9
    KZG_COMMITMENT_BYTES = 6
    KZG_PROOF_BYTES = 5
    UINT256_BYTES = 4
    BYTES_PER_CELL = 7
    ADDRESS_BYTES = 3
    VERSION_BYTES = 1
    Seeds = {2}
    Deltas = {1, 255}
    Alphabet = {0, 2, 4, 5, 16}
    MaxRaw = 5
    BUILDER_PAYMENT_WINDOW_LEN = 2
    BUILDER_PENDING_WITHDRAWALS_LIMIT = 2
    BUILDER_REGISTRY_LIMIT = 2
    BYTES_PER_LOGS_BLOOM = 3
    DEPOSIT_PROOF_LEN = 3
    EPOCHS_PER_HISTORICAL_VECTOR = 2
    EPOCHS_PER_SLASHINGS_VECTOR = 2
    ETH1_DATA_VOTES_LEN = 2
    HISTORICAL_ROOTS_LIMIT = 3
    JUSTIFICATION_BITS_LENGTH = 4
    MAX_ATTESTATIONS = 2
    MAX_ATTESTER_SLASHINGS = 2
    MAX_ATTESTING_INDICES = 9
    MAX_BLOB_COMMITMENTS_PER_BLOCK = 2
    MAX_BLS_TO_EXECUTION_CHANGES = 2
    MAX_BUILDER_DEPOSIT_REQUESTS_PER_PAYLOAD = 2
    MAX_BUILDER_EXIT_REQUESTS_PER_PAYLOAD = 2
    MAX_BYTES_PER_TRANSACTION = 5
    MAX_COMMITTEES_PER_SLOT = 3
    MAX_CONSOLIDATION_REQUESTS_PER_PAYLOAD = 2
    MAX_DEPOSITS = 2
    MAX_DEPOSIT_REQUESTS_PER_PAYLOAD = 2
    MAX_EXTRA_DATA_BYTES = 5
    MAX_PAYLOAD_ATTESTATIONS = 2
    MAX_PROPOSER_SLASHINGS = 2
    MAX_TRANSACTIONS_PER_PAYLOAD = 2
    MAX_VOLUNTARY_EXITS = 2
    MAX_WITHDRAWALS_PER_PAYLOAD = 2
    MAX_WITHDRAWAL_REQUESTS_PER_PAYLOAD = 2
    NUMBER_OF_COLUMNS = 2
    PENDING_CONSOLIDATIONS_LIMIT = 2
    PENDING_DEPOSITS_LIMIT = 2
    PENDING_PARTIAL_WITHDRAWALS_LIMIT = 2
    PROPOSER_LOOKAHEAD_LEN = 2
    PTC_SIZE = 2
    PTC_WINDOW_LEN = 2
    SLOTS_PER_HISTORICAL_ROOT = 2
    SYNC_COMMITTEE_SIZE = 2
    SYNC_COMMITTEE_SUBNET_COUNT = 1
    VALIDATOR_REGISTRY_LIMIT = 3
INVARIANTS
    RoundTrip
    Canonical
    RootCommits
    RootIsOfPaddedTree
    HeaderRootIsBlockRoot
