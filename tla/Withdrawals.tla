---------------------------- MODULE Withdrawals ----------------------------
(***************************************************************************)
(* The withdrawals that a payload must carry (state_transition/            *)
(* withdrawal.rs): builder payments first, then due partial withdrawals,   *)
(* the builder sweep and the validator sweep, in one list numbered by      *)
(* next_withdrawal_index.                                                  *)
(*                                                                         *)
(* A withdrawal names a validator or a builder; the code tells them apart  *)
(* by a flag bit of one index.  s.withdrawn is a history variable: the     *)
(* total of the withdrawals that were put into an expected list.           *)
(***************************************************************************)
EXTENDS Operations

WithdrawalOf(index, kind, who, amount, address) ==
  [index |-> index, kind |-> kind, who |-> who, amount |-> amount, address |-> address]

\* A phase appends to the withdrawals selected so far and counts the entries it
\* went through: [list, count].
NextIndex(s, list) == s.next_withdrawal_index + Len(list)

get_builder_withdrawals(s, prior) ==
  LET count == AtMost(Len(s.builder_pending_withdrawals),
                      saturating_sub(MAX_WITHDRAWALS_PER_PAYLOAD - 1, Len(prior)))
  IN [list |-> prior \o [k \in 1..count |->
        WithdrawalOf(NextIndex(s, prior) + k - 1, "builder",
                     s.builder_pending_withdrawals[k].builder_index,
                     s.builder_pending_withdrawals[k].amount, "fee_recipient")],
      count |-> count]

get_balance_after_withdrawals(s, index, withdrawals) ==
  saturating_sub(s.balances[index],
    FoldLeft(LAMBDA total, w : IF w.kind = "validator" /\ w.who = index
                               THEN total + w.amount ELSE total,
             0, withdrawals))

is_eligible_for_partial_withdrawals(v, balance) ==
  /\ v.exit_epoch = FAR_FUTURE_EPOCH
  /\ v.effective_balance >= MIN_ACTIVATION_BALANCE
  /\ balance > MIN_ACTIVATION_BALANCE

TakePartial(s, list, entry) ==
  LET v == s.validators[entry.validator_index]
      balance == get_balance_after_withdrawals(s, entry.validator_index, list)
  IN IF is_eligible_for_partial_withdrawals(v, balance)
     THEN Append(list, WithdrawalOf(NextIndex(s, list), "validator", entry.validator_index,
            AtMost(entry.amount, saturating_sub(balance, MIN_ACTIVATION_BALANCE)),
            v.withdrawal_credentials.address))
     ELSE list

\* Entries that are due but no longer eligible are passed over and still counted.
VisitPartial(s, limit, acc, entry) ==
  IF \/ ~acc.open
     \/ entry.withdrawable_epoch > get_current_epoch(s)
     \/ Len(acc.list) >= limit
  THEN [acc EXCEPT !.open = FALSE]
  ELSE [list |-> TakePartial(s, acc.list, entry), count |-> acc.count + 1, open |-> TRUE]

get_pending_partial_withdrawals(s, prior) ==
  LET limit == AtMost(Len(prior) + MAX_PENDING_PARTIALS_PER_WITHDRAWALS_SWEEP,
                      MAX_WITHDRAWALS_PER_PAYLOAD - 1)
  IN FoldLeft(LAMBDA acc, entry : VisitPartial(s, limit, acc, entry),
              [list |-> prior, count |-> 0, open |-> TRUE], s.pending_partial_withdrawals)

\* The registry positions a sweep goes through, from its cursor and around.
SweepPositions(cursor, length, limit) ==
  [k \in 1..AtMost(limit, length) |-> (cursor + k - 1) % length]

VisitBuilder(s, acc, i) ==
  IF Len(acc.list) >= MAX_WITHDRAWALS_PER_PAYLOAD - 1 THEN acc
  ELSE IF /\ s.builders[i].withdrawable_epoch <= get_current_epoch(s)
          /\ s.builders[i].balance > 0
  THEN [list |-> Append(acc.list, WithdrawalOf(NextIndex(s, acc.list), "builder", i,
                                    s.builders[i].balance, s.builders[i].execution_address)),
        count |-> acc.count + 1]
  ELSE [acc EXCEPT !.count = @ + 1]

get_builders_sweep_withdrawals(s, prior) ==
  FoldLeft(LAMBDA acc, i : VisitBuilder(s, acc, i), [list |-> prior, count |-> 0],
    SweepPositions(s.next_withdrawal_builder_index, Size(s.builders),
                   MAX_BUILDERS_PER_WITHDRAWALS_SWEEP))

VisitValidator(s, list, i) ==
  LET v == s.validators[i]
      balance == get_balance_after_withdrawals(s, i, list)
      amount == IF is_fully_withdrawable_validator(v, balance, get_current_epoch(s))
                THEN balance
                ELSE IF is_partially_withdrawable_validator(v, balance)
                THEN balance - get_max_effective_balance(v)
                ELSE 0
  IN IF Len(list) >= MAX_WITHDRAWALS_PER_PAYLOAD \/ amount = 0 THEN list
     ELSE Append(list, WithdrawalOf(NextIndex(s, list), "validator", i, amount,
                                    v.withdrawal_credentials.address))

get_validators_sweep_withdrawals(s, prior) ==
  FoldLeft(LAMBDA list, i : VisitValidator(s, list, i), prior,
    SweepPositions(s.next_withdrawal_validator_index, Size(s.validators),
                   MAX_VALIDATORS_PER_WITHDRAWALS_SWEEP))

get_expected_withdrawals(s) ==
  LET builders == get_builder_withdrawals(s, << >>)
      partials == get_pending_partial_withdrawals(s, builders.list)
      sweep == get_builders_sweep_withdrawals(s, partials.list)
  IN [withdrawals |-> get_validators_sweep_withdrawals(s, sweep.list),
      processed_builder_withdrawals_count |-> builders.count,
      processed_partial_withdrawals_count |-> partials.count,
      processed_builders_sweep_count |-> sweep.count]

\* Builder balances are debited as far as they go.
Debit(s, w) ==
  IF w.kind = "builder" THEN [s EXCEPT !.builders[w.who].balance = saturating_sub(@, w.amount)]
  ELSE decrease_balance(s, w.who, w.amount)

apply_withdrawals(s, withdrawals) == FoldLeft(Debit, s, withdrawals)

\* A full list stops the sweep after the last validator it holds.
Mutant_NextValidatorCursor(s, withdrawals) ==
  IF Len(withdrawals) = MAX_WITHDRAWALS_PER_PAYLOAD THEN Last(withdrawals).who + 1
  ELSE s.next_withdrawal_validator_index + MAX_VALIDATORS_PER_WITHDRAWALS_SWEEP

NextValidatorCursor(s, withdrawals) ==
  (IF Len(withdrawals) = MAX_WITHDRAWALS_PER_PAYLOAD
   THEN Last(withdrawals).who + 1
   ELSE s.next_withdrawal_validator_index + MAX_VALIDATORS_PER_WITHDRAWALS_SWEEP)
  % Size(s.validators)

NextBuilderCursor(s, count) ==
  IF Size(s.builders) = 0 THEN s.next_withdrawal_builder_index
  ELSE (s.next_withdrawal_builder_index + count) % Size(s.builders)

UpdateQueues(s, expected) ==
  [s EXCEPT
     !.next_withdrawal_index = @ + Len(expected.withdrawals),
     !.payload_expected_withdrawals = expected.withdrawals,
     !.builder_pending_withdrawals =
        Drop(@, expected.processed_builder_withdrawals_count),
     !.pending_partial_withdrawals =
        Drop(@, expected.processed_partial_withdrawals_count),
     !.next_withdrawal_builder_index =
        NextBuilderCursor(s, expected.processed_builders_sweep_count),
     !.next_withdrawal_validator_index = NextValidatorCursor(s, expected.withdrawals),
     !.withdrawn = FoldLeft(LAMBDA total, w : total + w.amount, @, expected.withdrawals)]

ApplyExpected(s, expected) ==
  UpdateQueues(apply_withdrawals(s, expected.withdrawals), expected)

Mutant_process_withdrawals(s) == ApplyExpected(s, get_expected_withdrawals(s))

\* Nothing is withdrawn while the latest payload is not known to be delivered.
process_withdrawals(s) ==
  IF s.latest_block_hash # s.latest_execution_payload_bid.block_hash THEN s
  ELSE ApplyExpected(s, get_expected_withdrawals(s))
=============================================================================
