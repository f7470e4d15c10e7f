---------------------------- MODULE PaymentLedger ----------------------------
(***************************************************************************)
(* What the chain promises about builder payments, without the window that *)
(* keeps the promise: the winning bid of a slot opens a payment, an open   *)
(* payment is released or let go, and is then closed for good.             *)
(* BuilderPayments implements it.                                          *)
(***************************************************************************)
EXTENDS Naturals

CONSTANT MaxSlot    \* the last slot of the bounded horizon

Slots == 0..MaxSlot

VARIABLES
  last,     \* the slot of the last block
  open,     \* the slots whose winning bid may still be paid
  paid      \* per slot: how often its payment was released

ledger == <<last, open, paid>>

LedgerInit ==
  /\ last \in Slots
  /\ open = {}
  /\ paid = [s \in Slots |-> 0]

Pays(s) == s \in open /\ s \notin open' /\ paid'[s] = paid[s] + 1

\* Nothing is released; the payment may be let go, never taken up again.
Keeps(s) == (s \in open' => s \in open) /\ paid'[s] = paid[s]

Wins(s) == s > last /\ s = last' /\ s \in open' /\ paid'[s] = paid[s]

LedgerNext ==
  /\ last' \in last..MaxSlot
  /\ open' \subseteq Slots
  /\ DOMAIN paid' = Slots
  /\ \A s \in Slots : Pays(s) \/ Keeps(s) \/ Wins(s)

Ledger == LedgerInit /\ [][LedgerNext]_ledger

\* No slot is paid a second time, whichever of the release paths of the code
\* (the child block, the epoch boundary, the aged-out commitment) paid it.
LedgerPaidAtMostOnce == \A s \in Slots : paid[s] <= 1
=============================================================================
