------------------------------ MODULE Requests ------------------------------
(***************************************************************************)
(* What the execution layer and the validators ask of the registries:      *)
(* deposits, withdrawals, consolidations, builder deposits and exits       *)
(* (state_transition/operations/deposits.rs, requests.rs, exits.rs and     *)
(* builder/lifecycle.rs, payments.rs, bids.rs).  Most requests that do not *)
(* qualify are dropped without an error; a block that carries a voluntary  *)
(* exit or a credential change that does not qualify is rejected.          *)
(*                                                                         *)
(* A signature is "valid", "invalid" or "infinity".  s.received is a       *)
(* history variable: the total of the deposits that reached the state,     *)
(* less those that were dropped for want of a proof of possession.         *)
(***************************************************************************)
EXTENDS Accounting

add_validator_to_registry(s, pubkey, withdrawal_credentials, amount) ==
  LET max == IF withdrawal_credentials.prefix = "compounding" THEN MAX_EFFECTIVE_BALANCE
             ELSE MIN_ACTIVATION_BALANCE
  IN IF Size(s.validators) >= VALIDATOR_REGISTRY_LIMIT THEN Reject(s, "ValidatorsFull")
     ELSE [s EXCEPT
            !.validators = Push(@,
               [pubkey |-> pubkey, withdrawal_credentials |-> withdrawal_credentials,
                effective_balance |-> AtMost(RoundDown(amount), max), slashed |-> FALSE,
                activation_eligibility_epoch |-> FAR_FUTURE_EPOCH,
                activation_epoch |-> FAR_FUTURE_EPOCH, exit_epoch |-> FAR_FUTURE_EPOCH,
                withdrawable_epoch |-> FAR_FUTURE_EPOCH]),
            !.balances = Push(@, amount),
            !.previous_epoch_participation = Push(@, {}),
            !.current_epoch_participation = Push(@, {}),
            !.inactivity_scores = Push(@, 0)]

\* A deposit for a known key tops it up; for a new key it needs a proof of
\* possession, without which it is consumed and dropped.
apply_pending_deposit(s, deposit) ==
  LET known == validator_index(s, deposit.pubkey)
  IN IF known # {} THEN increase_balance(s, Min(known), deposit.amount)
     ELSE IF deposit.signature # "valid" THEN [s EXCEPT !.received = @ - deposit.amount]
     ELSE add_validator_to_registry(s, deposit.pubkey, deposit.withdrawal_credentials,
                                    deposit.amount)

process_deposit_request(s, request) ==
  IF Len(s.pending_deposits) >= PENDING_DEPOSITS_LIMIT THEN Reject(s, "PendingDepositsFull")
  ELSE [s EXCEPT
         !.deposit_requests_start_index = IF @ = UNSET_DEPOSIT_REQUESTS_START_INDEX
                                          THEN request.index ELSE @,
         !.received = @ + request.amount,
         !.pending_deposits = Append(@,
            [pubkey |-> request.pubkey,
             withdrawal_credentials |-> request.withdrawal_credentials,
             amount |-> request.amount, signature |-> request.signature, slot |-> s.slot])]

-----------------------------------------------------------------------------
\* Conditions that an exit, a withdrawal and a consolidation share.
SignedBy(v, address) ==
  /\ has_execution_withdrawal_credential(v)
  /\ v.withdrawal_credentials.address = address

Staying(s, v) ==
  is_active_validator(v, get_current_epoch(s)) /\ v.exit_epoch = FAR_FUTURE_EPOCH

Seasoned(s, v) == get_current_epoch(s) >= v.activation_epoch + SHARD_COMMITTEE_PERIOD

FULL_EXIT_REQUEST_AMOUNT == 0

\* A partial withdrawal takes its place in the exit churn and is queued for the
\* epoch the churn gives it.
QueuePartial(s, index, amount) ==
  [s EXCEPT !.pending_partial_withdrawals = Append(@,
     [validator_index |-> index, amount |-> amount,
      withdrawable_epoch |-> s.earliest_exit_epoch + MIN_VALIDATOR_WITHDRAWABILITY_DELAY])]

PartialWithdrawal(s, index, requested) ==
  LET v == s.validators[index]
      floor == MIN_ACTIVATION_BALANCE + get_pending_balance_to_withdraw(s, index)
      amount == AtMost(s.balances[index] - floor, requested)
  IN IF /\ has_compounding_withdrawal_credential(v)
        /\ v.effective_balance >= MIN_ACTIVATION_BALANCE
        /\ s.balances[index] > floor
     THEN QueuePartial(compute_exit_epoch_and_update_churn(s, amount), index, amount)
     ELSE s

process_withdrawal_request(s, request) ==
  LET full_exit == request.amount = FULL_EXIT_REQUEST_AMOUNT
      known == validator_index(s, request.validator_pubkey)
      index == Min(known)
      v == s.validators[index]
  IN IF \/ /\ ~full_exit
           /\ Len(s.pending_partial_withdrawals) = PENDING_PARTIAL_WITHDRAWALS_LIMIT
        \/ known = {}
     THEN s
     ELSE IF ~(SignedBy(v, request.source_address) /\ Staying(s, v) /\ Seasoned(s, v)) THEN s
     ELSE IF ~full_exit THEN PartialWithdrawal(s, index, request.amount)
     ELSE IF get_pending_balance_to_withdraw(s, index) # 0 THEN s
     ELSE initiate_validator_exit(s, index)

is_valid_switch_to_compounding_request(s, request) ==
  /\ request.source_pubkey = request.target_pubkey
  /\ validator_index(s, request.source_pubkey) # {}
  /\ LET v == s.validators[Min(validator_index(s, request.source_pubkey))]
     IN /\ v.withdrawal_credentials.address = request.source_address
        /\ has_eth1_withdrawal_credential(v)
        /\ Staying(s, v)

ConsolidationAllowed(s, request) ==
  /\ request.source_pubkey # request.target_pubkey
  /\ Len(s.pending_consolidations) # PENDING_CONSOLIDATIONS_LIMIT
  /\ get_consolidation_churn_limit(s) > MIN_ACTIVATION_BALANCE
  /\ validator_index(s, request.source_pubkey) # {}
  /\ validator_index(s, request.target_pubkey) # {}
  /\ LET source == s.validators[Min(validator_index(s, request.source_pubkey))]
         target == s.validators[Min(validator_index(s, request.target_pubkey))]
     IN /\ SignedBy(source, request.source_address)
        /\ has_compounding_withdrawal_credential(target)
        /\ Staying(s, source) /\ Staying(s, target)
        /\ Seasoned(s, source)
  /\ get_pending_balance_to_withdraw(s, Min(validator_index(s, request.source_pubkey))) = 0

\* The source leaves at the epoch that the consolidation churn gives it.
QueueConsolidation(s, source, target) ==
  [ScheduleExit(s, source, s.earliest_consolidation_epoch)
     EXCEPT !.pending_consolidations =
       Append(@, [source_index |-> source, target_index |-> target])]

process_consolidation_request(s, request) ==
  LET source == Min(validator_index(s, request.source_pubkey))
      target == Min(validator_index(s, request.target_pubkey))
  IN IF is_valid_switch_to_compounding_request(s, request)
     THEN switch_to_compounding_validator(s, source)
     ELSE IF ConsolidationAllowed(s, request)
     THEN QueueConsolidation(
            compute_consolidation_epoch_and_update_churn(s, s.validators[source].effective_balance),
            source, target)
     ELSE s

-----------------------------------------------------------------------------
\* Builders.
is_active_builder(s, index) ==
  /\ s.builders[index].deposit_epoch < s.finalized_checkpoint.epoch
  /\ s.builders[index].withdrawable_epoch = FAR_FUTURE_EPOCH

get_pending_balance_to_withdraw_for_builder(s, index) ==
  FoldLeft(LAMBDA total, w : IF w.builder_index = index THEN total + w.amount ELSE total,
           0, s.builder_pending_withdrawals)
  + MapThenSumSet(LAMBDA i : s.builder_pending_payments[i].amount,
      {i \in WindowIndices : s.builder_pending_payments[i].builder_index = index})

Mutant_can_builder_cover_bid(s, index, value) == s.builders[index].balance >= value

can_builder_cover_bid(s, index, value) ==
  s.builders[index].balance
    >= MIN_DEPOSIT_AMOUNT + get_pending_balance_to_withdraw_for_builder(s, index) + value

get_index_for_new_builder(s) ==
  Min({i \in DOMAIN s.builders : /\ s.builders[i].withdrawable_epoch <= get_current_epoch(s)
                                 /\ s.builders[i].balance = 0}
      \cup {Size(s.builders)})

add_builder_to_registry(s, request) ==
  LET index == get_index_for_new_builder(s)
      builder == [pubkey |-> request.pubkey,
                  version |-> request.withdrawal_credentials.prefix,
                  execution_address |-> request.withdrawal_credentials.address,
                  balance |-> request.amount, deposit_epoch |-> get_current_epoch(s),
                  withdrawable_epoch |-> FAR_FUTURE_EPOCH]
  IN IF index < Size(s.builders) THEN [s EXCEPT !.builders[index] = builder]
     ELSE IF Size(s.builders) >= BUILDER_REGISTRY_LIMIT THEN Reject(s, "BuildersFull")
     ELSE [s EXCEPT !.builders = Push(@, builder)]

\* A top-up of a builder that is leaving restarts its wait.
TopUp(s, index, amount) ==
  [s EXCEPT
     !.builders[index].balance = @ + amount,
     !.builders[index].withdrawable_epoch =
        IF @ = FAR_FUTURE_EPOCH THEN @
        ELSE get_current_epoch(s) + MIN_BUILDER_WITHDRAWABILITY_DELAY]

process_builder_deposit_request(s, request) ==
  LET known == builder_index(s, request.pubkey)
      counted == [s EXCEPT !.received = @ + request.amount]
  IN IF known # {} THEN TopUp(counted, Min(known), request.amount)
     ELSE IF request.signature = "valid" THEN add_builder_to_registry(counted, request)
     ELSE s

initiate_builder_exit(s, index) ==
  [s EXCEPT !.builders[index].withdrawable_epoch =
     get_current_epoch(s) + MIN_BUILDER_WITHDRAWABILITY_DELAY]

process_builder_exit_request(s, request) ==
  LET known == builder_index(s, request.pubkey)
      index == Min(known)
  IN IF known = {} THEN s
     ELSE IF /\ is_active_builder(s, index)
             /\ s.builders[index].execution_address = request.source_address
             /\ get_pending_balance_to_withdraw_for_builder(s, index) = 0
     THEN initiate_builder_exit(s, index)
     ELSE s

-----------------------------------------------------------------------------
\* Signed by validators and carried in the block body.
process_voluntary_exit(s, exit) ==
  LET v == s.validators[exit.validator_index]
  IN IF get_current_epoch(s) < exit.epoch THEN Reject(s, "ExitTooEarly")
     ELSE IF ~(exit.validator_index \in DOMAIN s.validators)
     THEN Reject(s, "ValidatorIndexOutOfRange")
     ELSE IF ~Staying(s, v) THEN Reject(s, "ValidatorNotActiveOrAlreadyExiting")
     ELSE IF ~Seasoned(s, v) THEN Reject(s, "ValidatorTooYoung")
     ELSE IF get_pending_balance_to_withdraw(s, exit.validator_index) # 0
     THEN Reject(s, "ValidatorHasPendingWithdrawal")
     ELSE initiate_validator_exit(s, exit.validator_index)

\* A BLS credential names the key that may replace it, in place of an address.
process_bls_to_execution_change(s, change) ==
  LET credentials == s.validators[change.validator_index].withdrawal_credentials
  IN IF ~(change.validator_index \in DOMAIN s.validators)
     THEN Reject(s, "ValidatorIndexOutOfRange")
     ELSE IF credentials.prefix # "bls" THEN Reject(s, "WithdrawalCredentialsNotBls")
     ELSE IF credentials.address # change.from_bls_pubkey
     THEN Reject(s, "BlsChangeCredentialMismatch")
     ELSE [s EXCEPT !.validators[change.validator_index].withdrawal_credentials =
             [prefix |-> "eth1", address |-> change.to_execution_address]]
=============================================================================
