----------------------------- MODULE Accounting -----------------------------
(***************************************************************************)
(* Epoch accounting over participation flags: justification and            *)
(* finalization, inactivity scores, rewards and penalties, and slashing    *)
(* (state_transition/epoch/finality.rs, epoch/accounting.rs, balance.rs).  *)
(*                                                                         *)
(* A participation entry is the set of flags a validator earned.  A        *)
(* checkpoint is an epoch and the root of its block, and a block root is   *)
(* the slot of the block.                                                  *)
(***************************************************************************)
EXTENDS Committees

get_finality_delay(s) == get_previous_epoch(s) - s.finalized_checkpoint.epoch

is_in_inactivity_leak(s) == get_finality_delay(s) > MIN_EPOCHS_TO_INACTIVITY_PENALTY

get_eligible_validator_indices(s) ==
  {i \in DOMAIN s.validators :
     \/ is_active_validator(s.validators[i], get_previous_epoch(s))
     \/ /\ s.validators[i].slashed
        /\ get_previous_epoch(s) + 1 < s.validators[i].withdrawable_epoch}

get_unslashed_participating_indices(s, flag, epoch) ==
  LET participation == IF epoch = get_current_epoch(s) THEN s.current_epoch_participation
                       ELSE s.previous_epoch_participation
  IN {i \in get_active_validator_indices(s, epoch) :
        flag \in participation[i] /\ ~s.validators[i].slashed}

-----------------------------------------------------------------------------
\* Justification and finalization.
block_root_at_slot(s, slot) == s.block_roots[slot % SLOTS_PER_HISTORICAL_ROOT]

StartSlot(epoch) == epoch * SLOTS_PER_EPOCH

CheckpointOf(s, epoch) ==
  [epoch |-> epoch, root |-> block_root_at_slot(s, StartSlot(epoch))]

has_two_thirds_support(s, epoch) ==
  3 * get_total_balance(s, get_unslashed_participating_indices(s, TIMELY_TARGET_FLAG_INDEX, epoch))
    >= 2 * get_total_active_balance(s)

\* The four rules, the last that matches winning: s holds the checkpoints before
\* the update, bits the bits after it.
finalized_checkpoint(s, bits) ==
  LET behind(checkpoint, delta) == checkpoint.epoch + delta = get_current_epoch(s)
      old_previous == s.previous_justified_checkpoint
      old_current == s.current_justified_checkpoint
  IN IF \/ 0..1 \subseteq bits /\ behind(old_current, 1)
        \/ 0..2 \subseteq bits /\ behind(old_current, 2)
     THEN old_current
     ELSE IF \/ 1..2 \subseteq bits /\ behind(old_previous, 2)
             \/ 1..3 \subseteq bits /\ behind(old_previous, 3)
     THEN old_previous
     ELSE s.finalized_checkpoint

process_justification_and_finalization(s) ==
  LET previous == has_two_thirds_support(s, get_previous_epoch(s))
      current == has_two_thirds_support(s, get_current_epoch(s))
      bits == {i + 1 : i \in s.justification_bits \ {3}}
                \cup {i \in {1} : previous} \cup {i \in {0} : current}
  IN IF get_current_epoch(s) <= GENESIS_EPOCH + 1 THEN s
     ELSE [s EXCEPT
            !.justification_bits = bits,
            !.previous_justified_checkpoint = s.current_justified_checkpoint,
            !.current_justified_checkpoint =
               IF current THEN CheckpointOf(s, get_current_epoch(s))
               ELSE IF previous THEN CheckpointOf(s, get_previous_epoch(s))
               ELSE @,
            !.finalized_checkpoint = finalized_checkpoint(s, bits)]

-----------------------------------------------------------------------------
\* Inactivity, rewards and penalties.
process_inactivity_updates(s) ==
  LET matching == get_unslashed_participating_indices(s, TIMELY_TARGET_FLAG_INDEX,
                                                      get_previous_epoch(s))
      recovery == IF is_in_inactivity_leak(s) THEN 0 ELSE INACTIVITY_SCORE_RECOVERY_RATE
      updated(i, score) == IF i \in matching THEN saturating_sub(score, 1)
                           ELSE score + INACTIVITY_SCORE_BIAS
  IN IF get_current_epoch(s) = GENESIS_EPOCH THEN s
     ELSE [s EXCEPT !.inactivity_scores = [i \in DOMAIN @ |->
             IF i \in get_eligible_validator_indices(s)
             THEN saturating_sub(updated(i, @[i]), recovery)
             ELSE @[i]]]

get_base_reward_per_increment(s) ==
  (EFFECTIVE_BALANCE_INCREMENT * BASE_REWARD_FACTOR)
    \div integer_squareroot(get_total_active_balance(s))

Increments(balance) == balance \div EFFECTIVE_BALANCE_INCREMENT

get_base_reward(s, index) ==
  Increments(s.validators[index].effective_balance) * get_base_reward_per_increment(s)

\* What flag `flag` adds to or takes from the balance of each validator: a reward
\* for those that earned it, a penalty (the head flag has none) for the others.
get_flag_index_deltas(s, flag) ==
  LET participating == get_unslashed_participating_indices(s, flag, get_previous_epoch(s))
      weight == PARTICIPATION_FLAG_WEIGHTS[flag]
      share == Increments(get_total_balance(s, participating))
      whole == Increments(get_total_active_balance(s)) * WEIGHT_DENOMINATOR
      eligible == get_eligible_validator_indices(s)
  IN [rewards |-> [i \in DOMAIN s.validators |->
        IF i \in eligible \cap participating /\ ~is_in_inactivity_leak(s)
        THEN (get_base_reward(s, i) * weight * share) \div whole ELSE 0],
      penalties |-> [i \in DOMAIN s.validators |->
        IF i \in eligible \ participating /\ flag # TIMELY_HEAD_FLAG_INDEX
        THEN (get_base_reward(s, i) * weight) \div WEIGHT_DENOMINATOR ELSE 0]]

Mutant_get_inactivity_penalty_deltas(s) ==
  [rewards |-> [i \in DOMAIN s.validators |-> 0],
   penalties |-> [i \in DOMAIN s.validators |->
     IF i \in get_eligible_validator_indices(s)
     THEN (s.validators[i].effective_balance * s.inactivity_scores[i])
            \div (INACTIVITY_SCORE_BIAS * INACTIVITY_PENALTY_QUOTIENT)
     ELSE 0]]

get_inactivity_penalty_deltas(s) ==
  LET matching == get_unslashed_participating_indices(s, TIMELY_TARGET_FLAG_INDEX,
                                                      get_previous_epoch(s))
  IN [rewards |-> [i \in DOMAIN s.validators |-> 0],
      penalties |-> [i \in DOMAIN s.validators |->
        IF i \in get_eligible_validator_indices(s) \ matching
        THEN (s.validators[i].effective_balance * s.inactivity_scores[i])
               \div (INACTIVITY_SCORE_BIAS * INACTIVITY_PENALTY_QUOTIENT)
        ELSE 0]]

\* BalanceDeltas::apply_to: the rewards first, then penalties that stop at zero.
apply_to(balances, deltas) ==
  [i \in DOMAIN balances |->
     saturating_sub(balances[i] + deltas.rewards[i], deltas.penalties[i])]

\* All deltas are computed from the state before any of them is applied.
process_rewards_and_penalties(s) ==
  IF get_current_epoch(s) = GENESIS_EPOCH THEN s
  ELSE [s EXCEPT !.balances =
          FoldLeft(apply_to, @,
            [k \in 1..3 |-> get_flag_index_deltas(s, k - 1)]
              \o <<get_inactivity_penalty_deltas(s)>>)]

-----------------------------------------------------------------------------
\* Slashing.  The bucket of the current epoch takes the effective balance; the
\* proposer of the slot is the whistleblower.
Punish(s, index, effective_balance) ==
  decrease_balance(
    [s EXCEPT
       !.validators[index].slashed = TRUE,
       !.validators[index].withdrawable_epoch =
          AtLeast(@, get_current_epoch(s) + EPOCHS_PER_SLASHINGS_VECTOR),
       !.slashings[get_current_epoch(s) % EPOCHS_PER_SLASHINGS_VECTOR] = @ + effective_balance],
    index, effective_balance \div MIN_SLASHING_PENALTY_QUOTIENT)

slash_validator(s, index) ==
  LET effective_balance == s.validators[index].effective_balance
  IN increase_balance(
       Punish(initiate_validator_exit(s, index), index, effective_balance),
       get_beacon_proposer_index(s), effective_balance \div WHISTLEBLOWER_REWARD_QUOTIENT)

\* The proportional penalty, once, half a slashings vector before withdrawal.
process_slashings(s) ==
  LET total == get_total_active_balance(s)
      adjusted == AtMost(SumFunction(s.slashings) * PROPORTIONAL_SLASHING_MULTIPLIER, total)
      due(v) == /\ v.slashed
                /\ get_current_epoch(s) + (EPOCHS_PER_SLASHINGS_VECTOR \div 2)
                     = v.withdrawable_epoch
  IN [s EXCEPT !.balances = [i \in DOMAIN @ |->
        IF due(s.validators[i])
        THEN saturating_sub(@[i], (adjusted \div Increments(total))
                                    * Increments(s.validators[i].effective_balance))
        ELSE @[i]]]
=============================================================================
