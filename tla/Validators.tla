----------------------------- MODULE Validators -----------------------------
(***************************************************************************)
(* Validators: predicates, registry lookups, balances, churn limits and    *)
(* exit scheduling (state_transition/validator.rs and the balance          *)
(* primitives of state_transition/balance.rs).                             *)
(*                                                                         *)
(* An operator takes the beacon state s, a record with the field names of  *)
(* containers/state.rs, and returns the state it leaves behind; a          *)
(* transition the code refuses sets s.error.  A withdrawal credential is   *)
(* its prefix and its address.  s.exit_log is a history variable: one      *)
(* entry per use of the exit churn.                                        *)
(***************************************************************************)
EXTENDS Preset

is_active_validator(v, epoch) == v.activation_epoch <= epoch /\ epoch < v.exit_epoch

is_slashable_validator(v, epoch) ==
  /\ ~v.slashed
  /\ v.activation_epoch <= epoch
  /\ epoch < v.withdrawable_epoch

has_eth1_withdrawal_credential(v) == v.withdrawal_credentials.prefix = "eth1"
has_compounding_withdrawal_credential(v) == v.withdrawal_credentials.prefix = "compounding"
has_execution_withdrawal_credential(v) ==
  has_eth1_withdrawal_credential(v) \/ has_compounding_withdrawal_credential(v)

get_max_effective_balance(v) ==
  IF has_compounding_withdrawal_credential(v) THEN MAX_EFFECTIVE_BALANCE
  ELSE MIN_ACTIVATION_BALANCE

is_fully_withdrawable_validator(v, balance, epoch) ==
  /\ has_execution_withdrawal_credential(v)
  /\ v.withdrawable_epoch <= epoch
  /\ balance > 0

is_partially_withdrawable_validator(v, balance) ==
  /\ has_execution_withdrawal_credential(v)
  /\ v.effective_balance = get_max_effective_balance(v)
  /\ balance > get_max_effective_balance(v)

\* The indices of the registry entries with this public key; the code takes the
\* first, and no key is registered twice.
validator_index(s, pubkey) == {i \in DOMAIN s.validators : s.validators[i].pubkey = pubkey}
builder_index(s, pubkey) == {i \in DOMAIN s.builders : s.builders[i].pubkey = pubkey}

-----------------------------------------------------------------------------
\* Balances.
get_current_epoch(s) == Epoch(s.slot)
get_previous_epoch(s) == Previous(Epoch(s.slot))

increase_balance(s, index, delta) == [s EXCEPT !.balances[index] = @ + delta]
decrease_balance(s, index, delta) ==
  [s EXCEPT !.balances[index] = saturating_sub(@, delta)]

get_active_validator_indices(s, epoch) ==
  {i \in DOMAIN s.validators : is_active_validator(s.validators[i], epoch)}

get_total_balance(s, indices) ==
  AtLeast(EFFECTIVE_BALANCE_INCREMENT,
          MapThenSumSet(LAMBDA i : s.validators[i].effective_balance, indices))

get_total_active_balance(s) ==
  get_total_balance(s, get_active_validator_indices(s, get_current_epoch(s)))

get_pending_balance_to_withdraw(s, index) ==
  FoldLeft(LAMBDA total, w : IF w.validator_index = index THEN total + w.amount ELSE total,
           0, s.pending_partial_withdrawals)

-----------------------------------------------------------------------------
\* Churn and exits.
RoundDown(amount) == amount - (amount % EFFECTIVE_BALANCE_INCREMENT)

get_balance_churn_limit(s) ==
  RoundDown(AtLeast(MIN_PER_EPOCH_CHURN_LIMIT,
                    get_total_active_balance(s) \div CHURN_LIMIT_QUOTIENT))

get_activation_churn_limit(s) ==
  AtMost(MAX_PER_EPOCH_ACTIVATION_CHURN_LIMIT, get_balance_churn_limit(s))

get_exit_churn_limit(s) == get_balance_churn_limit(s)

get_consolidation_churn_limit(s) ==
  RoundDown(get_total_active_balance(s) \div CONSOLIDATION_CHURN_LIMIT_QUOTIENT)

\* Both schedulers leave the assigned epoch in the cursor.
compute_exit_epoch_and_update_churn(s, exit_balance) ==
  LET churn == get_exit_churn_limit(s)
      budget == consume_churn_budget(get_current_epoch(s), s.earliest_exit_epoch,
                  s.exit_balance_to_consume, exit_balance, churn)
  IN [s EXCEPT
        !.exit_balance_to_consume = budget.remaining,
        !.earliest_exit_epoch = budget.epoch,
        !.exit_log = Append(@, [at |-> get_current_epoch(s), epoch |-> budget.epoch,
                                amount |-> exit_balance, churn |-> churn])]

compute_consolidation_epoch_and_update_churn(s, consolidation_balance) ==
  LET churn == get_consolidation_churn_limit(s)
      budget == consume_churn_budget(get_current_epoch(s), s.earliest_consolidation_epoch,
                  s.consolidation_balance_to_consume, consolidation_balance, churn)
  IN [s EXCEPT
        !.consolidation_balance_to_consume = budget.remaining,
        !.earliest_consolidation_epoch = budget.epoch]

\* The exit and withdrawable epochs that a scheduler's cursor gives a validator.
ScheduleExit(s, index, exit_epoch) ==
  [s EXCEPT !.validators[index].exit_epoch = exit_epoch,
            !.validators[index].withdrawable_epoch =
               exit_epoch + MIN_VALIDATOR_WITHDRAWABILITY_DELAY]

AssignExit(s, index) == ScheduleExit(s, index, s.earliest_exit_epoch)

Mutant_initiate_validator_exit(s, index) ==
  AssignExit(compute_exit_epoch_and_update_churn(s, s.validators[index].effective_balance), index)

initiate_validator_exit(s, index) ==
  IF s.validators[index].exit_epoch # FAR_FUTURE_EPOCH THEN s
  ELSE AssignExit(compute_exit_epoch_and_update_churn(s, s.validators[index].effective_balance),
                  index)

\* Balance above the activation minimum goes back through the deposit queue, as
\* a deposit of the genesis slot that needs no signature.
queue_excess_active_balance(s, index) ==
  LET v == s.validators[index]
  IN IF s.balances[index] <= MIN_ACTIVATION_BALANCE THEN s
     ELSE IF Len(s.pending_deposits) >= PENDING_DEPOSITS_LIMIT
     THEN Reject(s, "PendingDepositsFull")
     ELSE [s EXCEPT
            !.balances[index] = MIN_ACTIVATION_BALANCE,
            !.pending_deposits = Append(@,
               [pubkey |-> v.pubkey, withdrawal_credentials |-> v.withdrawal_credentials,
                amount |-> s.balances[index] - MIN_ACTIVATION_BALANCE,
                signature |-> "infinity", slot |-> GENESIS_SLOT])]

switch_to_compounding_validator(s, index) ==
  queue_excess_active_balance(
    [s EXCEPT !.validators[index].withdrawal_credentials.prefix = "compounding"], index)
=============================================================================
