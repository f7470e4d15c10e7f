--------------------------- MODULE EpochProcessing ---------------------------
(***************************************************************************)
(* Epoch processing (state_transition/epoch.rs and epoch/*.rs): the        *)
(* registry, the pending queues, the rolling windows and the resets, in    *)
(* the order of process_epoch.                                             *)
(***************************************************************************)
EXTENDS Withdrawals

-----------------------------------------------------------------------------
\* The registry.
MarkEligible(s) ==
  [s EXCEPT !.validators = [i \in DOMAIN @ |->
     IF /\ @[i].activation_eligibility_epoch = FAR_FUTURE_EPOCH
        /\ @[i].effective_balance >= MIN_ACTIVATION_BALANCE
     THEN [@[i] EXCEPT !.activation_eligibility_epoch = get_current_epoch(s) + 1]
     ELSE @[i]]]

EjectUnderbalanced(s) ==
  FoldLeft(initiate_validator_exit, s,
    InOrder(s, {i \in get_active_validator_indices(s, get_current_epoch(s)) :
                  s.validators[i].effective_balance <= EJECTION_BALANCE}))

ActivateEligible(s) ==
  [s EXCEPT !.validators = [i \in DOMAIN @ |->
     IF @[i].activation_epoch = FAR_FUTURE_EPOCH /\ @[i].activation_eligibility_epoch
                                                     <= s.finalized_checkpoint.epoch
     THEN [@[i] EXCEPT !.activation_epoch = compute_activation_exit_epoch(get_current_epoch(s))]
     ELSE @[i]]]

process_registry_updates(s) == ActivateEligible(EjectUnderbalanced(MarkEligible(s)))

-----------------------------------------------------------------------------
\* The pending queues.  The walk over the deposits keeps the state, the deposits
\* it went past, those to postpone, the churn it used and why it stopped.
ConsumeDeposit(walk, deposit, available) ==
  LET s == walk.s
      known == validator_index(s, deposit.pubkey)
      exited == known # {} /\ s.validators[Min(known)].exit_epoch < FAR_FUTURE_EPOCH
      withdrawn == /\ known # {}
                   /\ s.validators[Min(known)].withdrawable_epoch < get_current_epoch(s) + 1
  IN IF \/ walk.stopped # "no"
        \/ deposit.slot > StartSlot(s.finalized_checkpoint.epoch)
        \/ walk.count >= MAX_PENDING_DEPOSITS_PER_EPOCH
     THEN [walk EXCEPT !.stopped = IF @ = "no" THEN "waiting" ELSE @]
     ELSE IF withdrawn
     THEN [walk EXCEPT !.s = apply_pending_deposit(s, deposit), !.count = @ + 1]
     ELSE IF exited
     THEN [walk EXCEPT !.postponed = Append(@, deposit), !.count = @ + 1]
     ELSE IF walk.processed + deposit.amount > available
     THEN [walk EXCEPT !.stopped = "churn"]
     ELSE [walk EXCEPT !.s = apply_pending_deposit(s, deposit), !.count = @ + 1,
                       !.processed = @ + deposit.amount]

\* Unused churn is carried over only when a deposit was waiting for it.
Mutant_FinishDeposits(walk, available) ==
  [walk.s EXCEPT
     !.pending_deposits = Drop(@, walk.count),
     !.deposit_balance_to_consume =
        IF walk.stopped = "churn" THEN available - walk.processed ELSE 0]

FinishDeposits(walk, available) ==
  IF Len(walk.s.pending_deposits) - walk.count + Len(walk.postponed) > PENDING_DEPOSITS_LIMIT
  THEN Reject(walk.s, "PendingDepositsFull")
  ELSE [walk.s EXCEPT
         !.pending_deposits = Drop(@, walk.count) \o walk.postponed,
         !.deposit_balance_to_consume =
            IF walk.stopped = "churn" THEN available - walk.processed ELSE 0]

process_pending_deposits(s) ==
  LET available == s.deposit_balance_to_consume + get_activation_churn_limit(s)
  IN FinishDeposits(
       FoldLeft(LAMBDA walk, deposit : ConsumeDeposit(walk, deposit, available),
                [s |-> s, count |-> 0, postponed |-> << >>, processed |-> 0, stopped |-> "no"],
                s.pending_deposits),
       available)

MoveBalance(s, source, target, amount) ==
  increase_balance(decrease_balance(s, source, amount), target, amount)

Consolidate(walk, entry) ==
  LET source == walk.s.validators[entry.source_index]
  IN IF walk.stopped THEN walk
     ELSE IF source.slashed THEN [walk EXCEPT !.count = @ + 1]
     ELSE IF source.withdrawable_epoch > get_current_epoch(walk.s) + 1
     THEN [walk EXCEPT !.stopped = TRUE]
     ELSE [walk EXCEPT !.count = @ + 1,
             !.s = MoveBalance(@, entry.source_index, entry.target_index,
                     AtMost(@.balances[entry.source_index], source.effective_balance))]

process_pending_consolidations(s) ==
  LET walk == FoldLeft(Consolidate, [s |-> s, count |-> 0, stopped |-> FALSE],
                       s.pending_consolidations)
  IN [walk.s EXCEPT !.pending_consolidations = Drop(@, walk.count)]

builder_payment_quorum_threshold(s) ==
  ((get_total_active_balance(s) \div SLOTS_PER_EPOCH) * BUILDER_PAYMENT_THRESHOLD_NUMERATOR)
    \div BUILDER_PAYMENT_THRESHOLD_DENOMINATOR

\* Hysteresis: the effective balance follows once the balance leaves the band.
Mutant_process_effective_balance_updates(s) ==
  [s EXCEPT !.validators = [i \in DOMAIN @ |->
     [@[i] EXCEPT !.effective_balance = RoundDown(s.balances[i])]]]

process_effective_balance_updates(s) ==
  LET increment == EFFECTIVE_BALANCE_INCREMENT \div HYSTERESIS_QUOTIENT
      outside(balance, effective) ==
        \/ balance + increment * HYSTERESIS_DOWNWARD_MULTIPLIER < effective
        \/ effective + increment * HYSTERESIS_UPWARD_MULTIPLIER < balance
  IN [s EXCEPT !.validators = [i \in DOMAIN @ |->
        IF outside(s.balances[i], @[i].effective_balance)
        THEN [@[i] EXCEPT !.effective_balance =
                AtMost(RoundDown(s.balances[i]), get_max_effective_balance(s.validators[i]))]
        ELSE @[i]]]

-----------------------------------------------------------------------------
\* Resets.
NextEpoch(s) == get_current_epoch(s) + 1

process_eth1_data_reset(s) ==
  IF NextEpoch(s) % EPOCHS_PER_ETH1_VOTING_PERIOD = 0
  THEN [s EXCEPT !.eth1_data_votes = << >>] ELSE s

process_slashings_reset(s) ==
  [s EXCEPT !.slashings[NextEpoch(s) % EPOCHS_PER_SLASHINGS_VECTOR] = 0]

process_randao_mixes_reset(s) ==
  [s EXCEPT !.randao_mixes[NextEpoch(s) % EPOCHS_PER_HISTORICAL_VECTOR] =
     get_randao_mix(s, get_current_epoch(s))]

\* A summary is the roots it commits to.
process_historical_summaries_update(s) ==
  IF NextEpoch(s) % (SLOTS_PER_HISTORICAL_ROOT \div SLOTS_PER_EPOCH) = 0
  THEN [s EXCEPT !.historical_summaries = Append(@, s.block_roots)] ELSE s

process_participation_flag_updates(s) ==
  [s EXCEPT !.previous_epoch_participation = s.current_epoch_participation,
            !.current_epoch_participation = [i \in DOMAIN s.validators |-> {}]]

-----------------------------------------------------------------------------
\* Rolling windows.
get_next_sync_committee(s) ==
  LET indices == compute_balance_weighted_selection(s,
                   InOrder(s, get_active_validator_indices(s, NextEpoch(s))),
                   get_seed(s, NextEpoch(s), DOMAIN_SYNC_COMMITTEE), SYNC_COMMITTEE_SIZE, TRUE)
  IN [k \in 1..SYNC_COMMITTEE_SIZE |-> s.validators[indices[k]].pubkey]

process_sync_committee_updates(s) ==
  IF NextEpoch(s) % EPOCHS_PER_SYNC_COMMITTEE_PERIOD = 0
  THEN [s EXCEPT !.current_sync_committee = s.next_sync_committee,
                 !.next_sync_committee = get_next_sync_committee(s)]
  ELSE s

\* The epoch that both windows take in at their end.
LookaheadEpoch(s) == get_current_epoch(s) + 1 + MIN_SEED_LOOKAHEAD

LookaheadIndices == 0..((1 + MIN_SEED_LOOKAHEAD) * SLOTS_PER_EPOCH - 1)

\* The window `w` over `indices` moved on by an epoch, with `fresh(slot)` for the
\* slots of the lookahead epoch.
ShiftedIn(w, indices, s, fresh) ==
  LET tail == Cardinality(indices) - SLOTS_PER_EPOCH
  IN [i \in indices |-> IF i < tail THEN w[i + SLOTS_PER_EPOCH]
                        ELSE fresh[StartSlot(LookaheadEpoch(s)) + i - tail]]

LookaheadSlots(s) ==
  StartSlot(LookaheadEpoch(s))..(StartSlot(LookaheadEpoch(s) + 1) - 1)

process_proposer_lookahead(s) ==
  LET candidates == InOrder(s, active_unslashed_validator_indices(s, LookaheadEpoch(s)))
      seed == get_seed(s, LookaheadEpoch(s), DOMAIN_BEACON_PROPOSER)
  IN IF candidates = << >> THEN Reject(s, "EmptyActiveValidatorSet")
     ELSE [s EXCEPT !.proposer_lookahead = ShiftedIn(@, LookaheadIndices, s,
             [slot \in LookaheadSlots(s) |->
                compute_proposer_index(s, candidates, Hash(seed, slot))])]

process_ptc_window(s) ==
  IF \E slot \in LookaheadSlots(s) : SlotCommittees(s, slot) = << >>
  THEN Reject(s, "EmptyActiveValidatorSet")
  ELSE [s EXCEPT !.ptc_window = ShiftedIn(@, PtcWindowIndices, s,
          [slot \in LookaheadSlots(s) |-> compute_ptc(s, slot)])]

-----------------------------------------------------------------------------
\* The sub-phases in the code's order, in three runs of them.
EpochAccounting(s) ==
  process_slashings(process_registry_updates(process_rewards_and_penalties(
    process_inactivity_updates(process_justification_and_finalization(s)))))

SettlePayments(s) == process_builder_pending_payments(s, builder_payment_quorum_threshold(s))

EpochQueues(s) ==
  process_effective_balance_updates(SettlePayments(process_pending_consolidations(
    process_pending_deposits(process_eth1_data_reset(s)))))

EpochWindows(s) ==
  process_ptc_window(process_proposer_lookahead(process_sync_committee_updates(
    process_participation_flag_updates(process_historical_summaries_update(
      process_randao_mixes_reset(process_slashings_reset(s)))))))

process_epoch(s) == EpochWindows(EpochQueues(EpochAccounting(s)))
=============================================================================
