CONSTANTS
  AnchorEpoch = 3
  AnchorValidators <- MCValidators
  AnchorBuilders <- MCBuilders
  AnchorDeposits <- NoDeposits
  Offers <- MCOffers
  Bodies <- MCBodies
  Votes <- MCVotes
  Contested <- MCContested
  MaxSlot = 12
  MaxStake = 80
  SLOTS_PER_EPOCH = 2
  BUILDER_PENDING_WITHDRAWALS_LIMIT = 8
  MAX_SEED_LOOKAHEAD = 1
  MIN_SEED_LOOKAHEAD = 1
  SLOTS_PER_HISTORICAL_ROOT = 4
  EPOCHS_PER_HISTORICAL_VECTOR = 4
  EPOCHS_PER_SLASHINGS_VECTOR = 2
  EPOCHS_PER_ETH1_VOTING_PERIOD = 2
  EPOCHS_PER_SYNC_COMMITTEE_PERIOD = 2
  SHARD_COMMITTEE_PERIOD = 1
  MIN_VALIDATOR_WITHDRAWABILITY_DELAY = 1
  MIN_BUILDER_WITHDRAWABILITY_DELAY = 1
  MIN_EPOCHS_TO_INACTIVITY_PENALTY = 1
  SHUFFLE_ROUND_COUNT = 2
  TARGET_COMMITTEE_SIZE = 2
  MAX_COMMITTEES_PER_SLOT = 2
  PTC_SIZE = 2
  SYNC_COMMITTEE_SIZE = 2
  MAX_RANDOM_VALUE = 3
  EFFECTIVE_BALANCE_INCREMENT = 4
  MIN_ACTIVATION_BALANCE = 16
  MAX_EFFECTIVE_BALANCE = 32
  EJECTION_BALANCE = 1
  MIN_DEPOSIT_AMOUNT = 1
  MIN_PER_EPOCH_CHURN_LIMIT = 8
  MAX_PER_EPOCH_ACTIVATION_CHURN_LIMIT = 8
  CHURN_LIMIT_QUOTIENT = 32
  CONSOLIDATION_CHURN_LIMIT_QUOTIENT = 2
  BASE_REWARD_FACTOR = 5
  INACTIVITY_PENALTY_QUOTIENT = 8
  MIN_SLASHING_PENALTY_QUOTIENT = 4
  WHISTLEBLOWER_REWARD_QUOTIENT = 4
  MAX_WITHDRAWALS_PER_PAYLOAD = 3
  MAX_PENDING_PARTIALS_PER_WITHDRAWALS_SWEEP = 1
  MAX_BUILDERS_PER_WITHDRAWALS_SWEEP = 2
  MAX_VALIDATORS_PER_WITHDRAWALS_SWEEP = 2
  MAX_PENDING_DEPOSITS_PER_EPOCH = 2
  VALIDATOR_REGISTRY_LIMIT = 6
  BUILDER_REGISTRY_LIMIT = 3
  PENDING_DEPOSITS_LIMIT = 4
  PENDING_PARTIAL_WITHDRAWALS_LIMIT = 2
  PENDING_CONSOLIDATIONS_LIMIT = 2
SPECIFICATION Spec
INVARIANTS PromisesCovered WithdrawalsDeliveredOnce PtcSitsInCommittees CommitteesPartition
PROPERTIES Payments LedgerSpec PerfectAttestersKeep
