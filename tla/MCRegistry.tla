----------------------------- MODULE MCRegistry -----------------------------
(***************************************************************************)
(* Validators at every stage of their life over seven epochs of two slots: *)
(* one waiting for activation, one withdrawn with a deposit on its way,    *)
(* new ones with and without a proof of possession; exits, partial         *)
(* withdrawals, consolidations and slashings that compete for the churn.   *)
(***************************************************************************)
EXTENDS BeaconState

Credentials(prefix, address) == [prefix |-> prefix, address |-> address]

Member(prefix, balance, effective, active, exit) ==
  [withdrawal_credentials |-> Credentials(prefix, "a"), balance |-> balance,
   effective_balance |-> effective,
   activation_eligibility_epoch |-> 0, activation_epoch |-> active,
   exit_epoch |-> exit,
   withdrawable_epoch |-> IF exit = FAR_FUTURE_EPOCH THEN exit ELSE exit + 1]

MCValidators ==
  [i \in 0..7 |->
     <<Member("bls", 8, 8, 0, FAR_FUTURE_EPOCH),
       Member("compounding", 17, 16, 0, FAR_FUTURE_EPOCH),
       Member("compounding", 12, 12, 0, FAR_FUTURE_EPOCH),
       Member("eth1", 9, 8, 0, FAR_FUTURE_EPOCH),
       Member("eth1", 8, 8, FAR_FUTURE_EPOCH, FAR_FUTURE_EPOCH),
       Member("eth1", 0, 0, 0, 1),
       Member("eth1", 8, 8, 0, FAR_FUTURE_EPOCH),
       Member("eth1", 10, 8, 0, FAR_FUTURE_EPOCH)>>[i + 1]]

MCBuilders == [i \in {} |-> 0]

Deposit(v, amount, signature, slot) ==
  [pubkey |-> <<"v", v>>, withdrawal_credentials |-> Credentials("eth1", "a"),
   amount |-> amount, signature |-> signature, slot |-> slot]

MCDeposits == <<Deposit(5, 2, "valid", 1), Deposit(8, 8, "valid", 1), Deposit(9, 8, "invalid", 2),
                Deposit(2, 4, "valid", 2)>>

With(requests) == [value |-> 0, builder_index |-> -1, requests |-> requests]
Withdraw(v, amount) == [NoRequests EXCEPT !.withdrawals =
  <<[validator_pubkey |-> <<"v", v>>, source_address |-> "a", amount |-> amount]>>]
Merge(v, w) == [NoRequests EXCEPT !.consolidations =
  <<[source_pubkey |-> <<"v", v>>, target_pubkey |-> <<"v", w>>, source_address |-> "a"]>>]
Deposits(v) == [NoRequests EXCEPT !.deposits =
  <<[pubkey |-> <<"v", v>>, withdrawal_credentials |-> Credentials("eth1", "a"), amount |-> 3,
     signature |-> "valid", index |-> 0]>>]

MCOffers == [slot \in 0..MaxSlot |->
  {With(r) : r \in
     CASE slot = 6 -> {NoRequests}
       [] slot = 7 -> {Merge(7, 7), Withdraw(7, 0), Withdraw(1, 3), Withdraw(2, 0)}
       [] slot = 8 -> {NoRequests, Merge(3, 1), Withdraw(1, 7)}
       [] slot = 9 -> {NoRequests, Withdraw(1, 0), Merge(2, 1), Deposits(2)}
       [] OTHER -> {NoRequests}}]

Quiet == [proposer_slashings |-> << >>, attester_slashings |-> << >>,
          deposits |-> << >>, voluntary_exits |-> << >>, bls_to_execution_changes |-> << >>,
          eth1_data |-> "eth1", sync_aggregate |-> {1}]

Header(slot, v, body) == [slot |-> slot, proposer_index |-> v, body |-> body]
Data(source, target, root) ==
  [source |-> [epoch |-> source], target |-> [epoch |-> target], root |-> root]

MCBodies == [slot \in 0..MaxSlot |->
  CASE slot = 8 -> {Quiet, [Quiet EXCEPT !.deposits = <<"deposit">>],
         [Quiet EXCEPT !.proposer_slashings =
            <<[header_1 |-> Header(7, 2, "p"), header_2 |-> Header(7, 2, "q")]>>]}
    [] slot = 9 -> {Quiet,
         [Quiet EXCEPT !.voluntary_exits = <<[validator_index |-> 3, epoch |-> 4]>>],
         [Quiet EXCEPT !.bls_to_execution_changes =
            <<[validator_index |-> 0, from_bls_pubkey |-> "a", to_execution_address |-> "b"]>>]}
    [] slot = 10 -> {Quiet,
         [Quiet EXCEPT !.attester_slashings =
            <<[data_1 |-> Data(2, 5, "p"), data_2 |-> Data(3, 4, "p"),
               attesting_indices_1 |-> {0, 1, 2}, attesting_indices_2 |-> {1, 2, 3}]>>]}
    [] OTHER -> {Quiet}]

MCVotes == [slot \in 0..MaxSlot |-> {"all"}]

MCContested == {}
=============================================================================
