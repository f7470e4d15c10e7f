---------------------------- MODULE PaymentWindow ----------------------------
(***************************************************************************)
(* The builder-payment window of the beacon state                          *)
(* (state_transition/builder/payments.rs, builder/bids.rs, epoch/          *)
(* windows.rs).  The window holds two epochs of entries back to back: the  *)
(* front half for the previous epoch, the back half for the current one.   *)
(*                                                                         *)
(* The operators take and return a state record s.  They read only its     *)
(* payment fields, so they serve the payment component on its own          *)
(* (BuilderPayments) and the whole beacon state (BeaconState) alike.       *)
(* A payment carries the slot it is for, which the code keeps only as the  *)
(* position of the entry; s.paid counts how often each slot was released. An  *)
(* operation that the code rejects sets s.error.                           *)
(***************************************************************************)
EXTENDS Lists

CONSTANTS
  SLOTS_PER_EPOCH,
  BUILDER_PENDING_WITHDRAWALS_LIMIT,  \* capacity of builder_pending_withdrawals
  MaxSlot,                            \* bound: the last slot a behaviour reaches
  MaxStake                            \* bound: no weight or quorum exceeds it

ASSUME WindowAssumption ==
  /\ SLOTS_PER_EPOCH \in Nat \ {0}
  /\ BUILDER_PENDING_WITHDRAWALS_LIMIT \in Nat
  /\ MaxSlot \in Nat
  /\ MaxStake \in Nat

Slots == 0..MaxSlot

Reject(s, e) == [s EXCEPT !.error = e]

Epoch(slot) == slot \div SLOTS_PER_EPOCH
Previous(epoch) == IF epoch = 0 THEN 0 ELSE epoch - 1

WindowIndices == 0..(2 * SLOTS_PER_EPOCH - 1)
NoIndex == -1

Bids == [slot : Slots, value : Nat, builder_index : Int]

BuilderPendingPayment ==
  [weight : Nat, amount : Nat, builder_index : Int, proposer_index : Nat, slot : Slots]

NoPayment ==
  [weight |-> 0, amount |-> 0, builder_index |-> 0, proposer_index |-> 0, slot |-> 0]

builder_payment_index_for_slot(now, slot) ==
  IF Epoch(slot) = Epoch(now) THEN SLOTS_PER_EPOCH + (slot % SLOTS_PER_EPOCH)
  ELSE IF Epoch(slot) = Previous(Epoch(now)) THEN slot % SLOTS_PER_EPOCH
  ELSE NoIndex

\* The queue entry a payment becomes.
Owing(p) == [builder_index |-> p.builder_index, amount |-> p.amount, slot |-> p.slot]

queue_builder_pending_withdrawal(s, w) ==
  IF Len(s.builder_pending_withdrawals) >= BUILDER_PENDING_WITHDRAWALS_LIMIT
  THEN Reject(s, "BuilderPendingWithdrawalsFull")
  ELSE [s EXCEPT !.builder_pending_withdrawals = Append(@, w),
                 !.paid[w.slot] = @ + 1]

settle_builder_payment(s, i) ==
  [(IF s.builder_pending_payments[i].amount > 0
    THEN queue_builder_pending_withdrawal(s, Owing(s.builder_pending_payments[i]))
    ELSE s)
   EXCEPT !.builder_pending_payments[i] = NoPayment]

\* The release of the parent's payment by a child block that builds on the
\* parent's payload: from the window, or from the bid itself once the window
\* has moved past its slot.
Mutant_release_parent_payment(s) ==
  LET bid == s.latest_execution_payload_bid
      i == builder_payment_index_for_slot(s.slot, bid.slot)
  IN IF i # NoIndex /\ s.builder_pending_payments[i].amount > 0
     THEN queue_builder_pending_withdrawal(s, Owing(s.builder_pending_payments[i]))
     ELSE s

release_parent_payment(s) ==
  LET bid == s.latest_execution_payload_bid
      i == builder_payment_index_for_slot(s.slot, bid.slot)
  IN IF i # NoIndex THEN settle_builder_payment(s, i)
     ELSE IF bid.value > 0
     THEN queue_builder_pending_withdrawal(s,
            [builder_index |-> bid.builder_index, amount |-> bid.value, slot |-> bid.slot])
     ELSE s

record_accepted_bid(s, bid, proposer_index) ==
  [s EXCEPT
    !.latest_execution_payload_bid = bid,
    !.builder_pending_payments =
       IF bid.value = 0 THEN @
       ELSE [@ EXCEPT ![SLOTS_PER_EPOCH + (bid.slot % SLOTS_PER_EPOCH)] =
               [weight |-> 0, amount |-> bid.value, builder_index |-> bid.builder_index,
                proposer_index |-> proposer_index, slot |-> bid.slot]]]

\* The payments of the front half whose weight reached the quorum, in order.
Reached(s, quorum) ==
  {i \in 0..(SLOTS_PER_EPOCH - 1) : s.builder_pending_payments[i].weight >= quorum}

QueueWithReached(s, quorum) ==
  FoldLeft(LAMBDA queue, n : IF s.builder_pending_payments[n - 1].weight >= quorum
                             THEN Append(queue, Owing(s.builder_pending_payments[n - 1]))
                             ELSE queue,
           s.builder_pending_withdrawals, [n \in 1..SLOTS_PER_EPOCH |-> n])

settle_builder_payment_window(s, quorum) ==
  IF Len(QueueWithReached(s, quorum)) > BUILDER_PENDING_WITHDRAWALS_LIMIT
  THEN Reject(s, "BuilderPendingWithdrawalsFull")
  ELSE [s EXCEPT
         !.builder_pending_withdrawals = QueueWithReached(s, quorum),
         !.paid = [slot \in DOMAIN @ |->
            @[slot] + Cardinality({i \in Reached(s, quorum) :
                                     s.builder_pending_payments[i].slot = slot})]]

advance_builder_payment_window(s) ==
  [s EXCEPT !.builder_pending_payments =
     [i \in WindowIndices |-> IF i < SLOTS_PER_EPOCH THEN @[i + SLOTS_PER_EPOCH] ELSE NoPayment]]

process_builder_pending_payments(s, quorum) ==
  advance_builder_payment_window(settle_builder_payment_window(s, quorum))
=============================================================================
