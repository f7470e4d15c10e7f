------------------------------- MODULE Preset -------------------------------
(***************************************************************************)
(* The protocol constants of the state transition (constants/*.rs).  The   *)
(* sizes, delays and amounts a network preset chooses are CONSTANTS here;  *)
(* the weights and thresholds that no preset changes keep their values.    *)
(* Collections that the code indexes from zero are functions on            *)
(* 0..(n - 1).                                                             *)
(***************************************************************************)
EXTENDS PaymentWindow, Arithmetic

CONSTANTS
  SLOTS_PER_HISTORICAL_ROOT, EPOCHS_PER_HISTORICAL_VECTOR, EPOCHS_PER_SLASHINGS_VECTOR,
  EPOCHS_PER_ETH1_VOTING_PERIOD, EPOCHS_PER_SYNC_COMMITTEE_PERIOD,
  MIN_SEED_LOOKAHEAD, SHARD_COMMITTEE_PERIOD,
  MIN_VALIDATOR_WITHDRAWABILITY_DELAY, MIN_BUILDER_WITHDRAWABILITY_DELAY,
  MIN_EPOCHS_TO_INACTIVITY_PENALTY,
  SHUFFLE_ROUND_COUNT, TARGET_COMMITTEE_SIZE, MAX_COMMITTEES_PER_SLOT, PTC_SIZE,
  SYNC_COMMITTEE_SIZE, MAX_RANDOM_VALUE,
  EFFECTIVE_BALANCE_INCREMENT, MIN_ACTIVATION_BALANCE, MAX_EFFECTIVE_BALANCE,
  EJECTION_BALANCE, MIN_DEPOSIT_AMOUNT,
  MIN_PER_EPOCH_CHURN_LIMIT, MAX_PER_EPOCH_ACTIVATION_CHURN_LIMIT, CHURN_LIMIT_QUOTIENT,
  CONSOLIDATION_CHURN_LIMIT_QUOTIENT,
  BASE_REWARD_FACTOR, INACTIVITY_PENALTY_QUOTIENT, MIN_SLASHING_PENALTY_QUOTIENT,
  WHISTLEBLOWER_REWARD_QUOTIENT,
  MAX_WITHDRAWALS_PER_PAYLOAD, MAX_PENDING_PARTIALS_PER_WITHDRAWALS_SWEEP,
  MAX_BUILDERS_PER_WITHDRAWALS_SWEEP, MAX_VALIDATORS_PER_WITHDRAWALS_SWEEP,
  MAX_PENDING_DEPOSITS_PER_EPOCH,
  VALIDATOR_REGISTRY_LIMIT, BUILDER_REGISTRY_LIMIT, PENDING_DEPOSITS_LIMIT,
  PENDING_PARTIAL_WITHDRAWALS_LIMIT, PENDING_CONSOLIDATIONS_LIMIT

\* These stand for u64::MAX: the epoch that never comes, the start index before the
\* first request, the builder index of a proposer that builds for itself.
FAR_FUTURE_EPOCH == 1000
UNSET_DEPOSIT_REQUESTS_START_INDEX == 1000
BUILDER_INDEX_SELF_BUILD == -1
GENESIS_EPOCH == 0
GENESIS_SLOT == 0

ETH1_DATA_VOTES_LEN == EPOCHS_PER_ETH1_VOTING_PERIOD * SLOTS_PER_EPOCH

HYSTERESIS_QUOTIENT == 4
HYSTERESIS_DOWNWARD_MULTIPLIER == 1
HYSTERESIS_UPWARD_MULTIPLIER == 5
INACTIVITY_SCORE_BIAS == 4
INACTIVITY_SCORE_RECOVERY_RATE == 16
PROPORTIONAL_SLASHING_MULTIPLIER == 3
BUILDER_PAYMENT_THRESHOLD_NUMERATOR == 6
BUILDER_PAYMENT_THRESHOLD_DENOMINATOR == 10

TIMELY_SOURCE_FLAG_INDEX == 0
TIMELY_TARGET_FLAG_INDEX == 1
TIMELY_HEAD_FLAG_INDEX == 2
PARTICIPATION_FLAG_WEIGHTS == [flag \in 0..2 |-> <<14, 26, 14>>[flag + 1]]
SYNC_REWARD_WEIGHT == 2
PROPOSER_WEIGHT == 8
WEIGHT_DENOMINATOR == 64

\* The code refuses to start an epoch without these (division, ring sizes).
ASSUME PresetAssumption ==
  /\ EFFECTIVE_BALANCE_INCREMENT \in Nat \ {0}
  /\ MIN_PER_EPOCH_CHURN_LIMIT >= EFFECTIVE_BALANCE_INCREMENT
  /\ CHURN_LIMIT_QUOTIENT \in Nat \ {0}
  /\ CONSOLIDATION_CHURN_LIMIT_QUOTIENT \in Nat \ {0}
  /\ SLOTS_PER_HISTORICAL_ROOT % SLOTS_PER_EPOCH = 0
  /\ SLOTS_PER_HISTORICAL_ROOT >= 2 * SLOTS_PER_EPOCH
  /\ SYNC_COMMITTEE_SIZE \in Nat
  /\ MAX_WITHDRAWALS_PER_PAYLOAD \in Nat /\ MAX_WITHDRAWALS_PER_PAYLOAD > 1
  /\ MAX_PENDING_PARTIALS_PER_WITHDRAWALS_SWEEP \in Nat
  /\ MAX_BUILDERS_PER_WITHDRAWALS_SWEEP \in Nat
  /\ MAX_VALIDATORS_PER_WITHDRAWALS_SWEEP \in Nat

-----------------------------------------------------------------------------
\* Helpers for zero-based collections.
Size(f) == Cardinality(DOMAIN f)
Push(f, x) == [i \in 0..Size(f) |-> IF i = Size(f) THEN x ELSE f[i]]
Drop(q, n) == SubSeq(q, n + 1, Len(q))

\* Newton's iteration from above, stopped when it no longer descends.
integer_squareroot(n) ==
  LET newton[x \in 0..n] ==
        IF x = 0 \/ (x + n \div x) \div 2 >= x THEN x ELSE newton[(x + n \div x) \div 2]
  IN newton[n]
=============================================================================
