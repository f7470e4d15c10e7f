----------------------------- MODULE MCBuilders -----------------------------
(***************************************************************************)
(* Two builders and four validators over three epochs of two slots: bids   *)
(* of both builders, empty slots, payloads that are withheld or built      *)
(* over, votes that reach the quorum or miss it, an exit and a deposit     *)
(* that takes over the freed index.                                        *)
(***************************************************************************)
EXTENDS StatePayments

MCValidators ==
  [i \in 0..3 |-> [withdrawal_credentials |-> [prefix |-> "eth1", address |-> "a"],
                   balance |-> 16, effective_balance |-> 16,
                   activation_eligibility_epoch |-> 0, activation_epoch |-> 0,
                   exit_epoch |-> FAR_FUTURE_EPOCH, withdrawable_epoch |-> FAR_FUTURE_EPOCH]]

MCBuilders == [i \in 0..1 |->
  [withdrawal_credentials |-> [prefix |-> "payload", address |-> "x"], balance |-> 5]]

NoDeposits == << >>

Offer(value, builder, requests) == [value |-> value, builder_index |-> builder, requests |-> requests]
SelfBuild == Offer(0, -1, NoRequests)

Exit(b) == [NoRequests EXCEPT !.builder_exits = <<[pubkey |-> <<"b", b>>, source_address |-> "x"]>>]
Join(b) == [NoRequests EXCEPT !.builder_deposits =
  <<[pubkey |-> <<"b", b>>, withdrawal_credentials |-> [prefix |-> "payload", address |-> "x"],
     amount |-> 5, signature |-> "valid"]>>]

MCOffers == [slot \in 0..MaxSlot |->
  CASE slot = 7 -> {Offer(2, 0, NoRequests), Offer(2, 0, Exit(1))}
    [] slot = 8 -> {Offer(2, 0, NoRequests), Offer(3, 0, Exit(0)), SelfBuild}
    [] slot = 9 -> {SelfBuild, Offer(2, 1, Join(2))}
    [] slot = 10 -> {Offer(1, 0, Join(2)), Offer(2, 1, NoRequests)}
    [] OTHER -> {SelfBuild, Offer(1, 0, NoRequests)}]

Body == [proposer_slashings |-> << >>, attester_slashings |-> << >>,
         deposits |-> << >>, voluntary_exits |-> << >>, bls_to_execution_changes |-> << >>,
         eth1_data |-> "eth1", sync_aggregate |-> {1}]

MCBodies == [slot \in 0..MaxSlot |-> {Body}]

MCVotes == [slot \in 0..MaxSlot |-> IF slot % 2 = 0 THEN {"one", "all"} ELSE {"all"}]

MCContested == 7..12
=============================================================================
