---------------------------- MODULE StatePayments ----------------------------
(***************************************************************************)
(* The beacon state seen as the payment component: its payment fields are  *)
(* the state of BuilderPayments, and through that of PaymentLedger.        *)
(***************************************************************************)
EXTENDS BeaconState

\* The payment fields of the state.
P == INSTANCE BuilderPayments WITH payments <-
       [slot |-> state.slot,
        latest_execution_payload_bid |->
          [slot |-> state.latest_execution_payload_bid.slot,
           value |-> state.latest_execution_payload_bid.value,
           builder_index |-> state.latest_execution_payload_bid.builder_index],
        builder_pending_payments |-> state.builder_pending_payments,
        builder_pending_withdrawals |-> state.builder_pending_withdrawals,
        paid |-> state.paid,
        error |-> state.error]

\* Whatever else a block or an epoch boundary does, to the payment fields it does
\* what BuilderPayments allows.
Payments == P!Payments

\* The beacon state keeps the ledger of builder payments: a released payment is
\* closed, whether the child block, the epoch boundary or the aged-out commitment
\* released it.
LedgerSpec == P!LedgerSpec
=============================================================================
