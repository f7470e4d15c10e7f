---------------------------- MODULE BuilderPayments ----------------------------
(***************************************************************************)
(* The builder-payment component on its own: the window, the queue it      *)
(* feeds and the bid of the last block, under every behaviour the rest of  *)
(* the state transition can show it.  Three paths release a payment: a     *)
(* child block that builds on the parent's payload, the quorum rule of the *)
(* epoch boundary, and the commitment of the bid itself when the window    *)
(* has aged out.  BeaconState is checked to behave as this component, and  *)
(* this component implements PaymentLedger.                                *)
(***************************************************************************)
EXTENDS PaymentWindow

VARIABLE payments   \* the payment fields of the beacon state

\* The anchor: a block whose proposer built for itself, and nothing owed.
PaymentsInit ==
  \E slot \in Slots :
    payments =
      [slot |-> slot,
       latest_execution_payload_bid |->
          [slot |-> slot, value |-> 0, builder_index |-> NoIndex],
       builder_pending_payments |-> [i \in WindowIndices |-> NoPayment],
       builder_pending_withdrawals |-> <<>>,
       paid |-> [s \in Slots |-> 0],
       error |-> "none"]

\* process_slots: the epoch boundary settles and shifts the window before the
\* slot moves.  The quorum follows the active balance, which is floored at one
\* increment and so never zero.
PaymentsSlot ==
  /\ payments.slot < MaxSlot
  /\ \E quorum \in 1..MaxStake :
       LET s == IF (payments.slot + 1) % SLOTS_PER_EPOCH = 0
                THEN process_builder_pending_payments(payments, quorum) ELSE payments
       IN s.error = "none" /\ payments' = [s EXCEPT !.slot = @ + 1]

\* What the operations of a block may do to an entry p that is left by the
\* parent payload and the bid: a proposer slashing voids it, same-slot
\* attestations of earlier slots add weight.
Operated(p, q, own) ==
  \/ q = NoPayment
  \/ /\ q = [p EXCEPT !.weight = q.weight]
     /\ q.weight \in p.weight..MaxStake
     /\ q.weight # p.weight => p.amount > 0 /\ ~own

\* process_block, as far as payments go.  One block a slot (the header check),
\* so the bid of the last block is older than the slot.
PaymentsBlock ==
  /\ payments.latest_execution_payload_bid.slot < payments.slot
  /\ \E full \in BOOLEAN :
       LET s == IF full THEN release_parent_payment(payments) ELSE payments
           mine == SLOTS_PER_EPOCH + (payments.slot % SLOTS_PER_EPOCH)
           bid == payments'.latest_execution_payload_bid
           accepted == record_accepted_bid(s, bid,
                         payments'.builder_pending_payments[mine].proposer_index)
       IN /\ s.error = "none"
          /\ bid \in Bids
          /\ bid.slot = payments.slot
          /\ payments'.builder_pending_payments \in [WindowIndices -> BuilderPendingPayment]
          /\ \A i \in WindowIndices :
               Operated(accepted.builder_pending_payments[i],
                        payments'.builder_pending_payments[i], i = mine)
          /\ \E drained \in 0..Len(s.builder_pending_withdrawals) :
               payments'.builder_pending_withdrawals =
                 SubSeq(s.builder_pending_withdrawals, drained + 1,
                        Len(s.builder_pending_withdrawals))
          /\ payments' = [accepted EXCEPT
               !.builder_pending_payments = payments'.builder_pending_payments,
               !.builder_pending_withdrawals = payments'.builder_pending_withdrawals]

PaymentsNext == PaymentsSlot \/ PaymentsBlock

Payments == PaymentsInit /\ [][PaymentsNext]_payments

-----------------------------------------------------------------------------
\* The slots whose bid can still be paid: those with a live entry, and the slot
\* of the last block, whose child may release it even from outside the window.
OpenSlots(p) ==
  {p.builder_pending_payments[i].slot :
     i \in {j \in WindowIndices : p.builder_pending_payments[j].amount > 0}}
  \cup (IF p.latest_execution_payload_bid.value > 0
        THEN {p.latest_execution_payload_bid.slot} ELSE {})

L == INSTANCE PaymentLedger WITH
       last <- payments.latest_execution_payload_bid.slot,
       open <- OpenSlots(payments),
       paid <- payments.paid

\* The component implements the ledger: whichever path releases a payment, the
\* release closes it.
LedgerSpec == L!Ledger

\* What keeps the payment fields consistent from step to step.  A live entry is
\* where its slot belongs in the window; a payment is released only while it is
\* open; and the entry of the last block has no weight yet, so that the quorum
\* rule never releases what the next block may still release from the bid.
PaymentsConsistent ==
  /\ payments = [slot |-> payments.slot,
                 latest_execution_payload_bid |-> payments.latest_execution_payload_bid,
                 builder_pending_payments |-> payments.builder_pending_payments,
                 builder_pending_withdrawals |-> payments.builder_pending_withdrawals,
                 paid |-> payments.paid,
                 error |-> "none"]
  /\ payments.slot \in Slots
  /\ payments.latest_execution_payload_bid \in Bids
  /\ payments.latest_execution_payload_bid.slot <= payments.slot
  /\ payments.builder_pending_payments \in [WindowIndices -> BuilderPendingPayment]
  /\ payments.paid \in [Slots -> Nat]
  /\ \A i \in WindowIndices :
       LET p == payments.builder_pending_payments[i]
       IN /\ p.amount = 0 => p.weight = 0
          /\ p.amount > 0 =>
               /\ p.slot <= payments.latest_execution_payload_bid.slot
               /\ builder_payment_index_for_slot(payments.slot, p.slot) = i
               /\ p.slot = payments.latest_execution_payload_bid.slot => p.weight = 0
  /\ \A s \in Slots :
       /\ payments.paid[s] <= 1
       /\ s \in OpenSlots(payments) => payments.paid[s] = 0
       /\ s > payments.latest_execution_payload_bid.slot => payments.paid[s] = 0

\* No bid is paid twice (settle_builder_payment: "the fee recipient receives it
\* exactly once"), although three paths can release it.
PaidAtMostOnce == \A s \in Slots : payments.paid[s] <= 1
=============================================================================
