---------------------------- MODULE ComponentProofs ----------------------------
(***************************************************************************)
(* The components that stand on their own.                                 *)
(*                                                                         *)
(* Arithmetic: the churn cursor, the shuffle and the committee slices, for *)
(* every value; TLC only meets the few that its instances produce.         *)
(*                                                                         *)
(* Builder payments, for every epoch length, queue capacity, horizon and   *)
(* stake: PaymentsConsistent is inductive, no payment is released twice,   *)
(* and the payment component implements PaymentLedger.                     *)
(*                                                                         *)
(* The follower, for any number of peers, connections and blocks: backfill *)
(* has one request in flight at most and never asks a peer that is gone.   *)
(***************************************************************************)
EXTENDS Arithmetic, BuilderPayments, Follower, FiniteSetTheorems, TLAPS

-----------------------------------------------------------------------------
(***************************************************************************)
(* Arithmetic.                                                             *)
(***************************************************************************)
\* Quotient and remainder.
LEMMA Division ==
  ASSUME NEW x \in Nat, NEW d \in Nat \ {0}
  PROVE  /\ x \div d \in Nat
         /\ x = d * (x \div d) + (x % d)
         /\ x % d \in Nat /\ x % d < d
OBVIOUS

\* A quotient is known by the multiples around it.
LEMMA DivisionUnique ==
  ASSUME NEW x \in Nat, NEW d \in Nat \ {0}, NEW k \in Nat,
         d * k <= x, x < d * k + d
  PROVE  x \div d = k
OBVIOUS

\* The epochs added are just enough: a budget of whole epochs covers what the
\* cursor's epoch cannot, and one epoch less would not.
LEMMA AdditionalEpochs ==
  ASSUME NEW requested \in Nat, NEW available \in Nat, NEW per_epoch \in Nat \ {0}
  PROVE  LET a == additional_epochs(requested, available, per_epoch)
             left == available + a * per_epoch - requested
         IN  /\ a \in Nat /\ left \in Nat
             /\ a > 0 => left < per_epoch
             /\ a = 0 => left <= available
<1> DEFINE a == additional_epochs(requested, available, per_epoch)
           left == available + a * per_epoch - requested
<1>1. CASE requested <= available
  <2>1. a = 0
    BY <1>1 DEF additional_epochs
  <2> HIDE DEF a
  <2>2. a * per_epoch = 0
    BY <2>1
  <2>3. a \in Nat /\ left \in Nat /\ a = 0 /\ left <= available
    BY <1>1, <2>1, <2>2
  <2> QED BY <2>3 DEF a
<1>2. CASE requested > available
  <2> DEFINE x == requested - available - 1
             q == x \div per_epoch
             m == x % per_epoch
  <2>1. x \in Nat
    BY <1>2
  <2>2. q \in Nat /\ x = per_epoch * q + m /\ m \in Nat /\ m < per_epoch
    BY <2>1, Division
  <2>3. a = q + 1
    BY <1>2 DEF additional_epochs
  <2> HIDE DEF a, q, m
  <2>4. a * per_epoch = per_epoch * q + per_epoch
    BY <2>2, <2>3
  <2>5. per_epoch * q \in Nat
    BY <2>2
  <2>6. left = per_epoch - 1 - m
    BY <2>2, <2>4, <2>5
  <2>7. a \in Nat /\ a > 0 /\ left \in Nat /\ left < per_epoch
    BY <2>2, <2>3, <2>6
  <2> QED BY <2>7 DEF a
<1> QED BY <1>1, <1>2

\* consume_churn_budget: the cursor never moves back nor before the first
\* admissible epoch, what is left fits in an epoch's budget, and the request is
\* paid in full from the budget of the epochs the cursor passed.
THEOREM ChurnBudget ==
  ASSUME NEW current \in Nat, NEW cursor_epoch \in Nat, NEW per_epoch \in Nat \ {0},
         NEW cursor_balance \in 0..per_epoch, NEW requested \in Nat
  PROVE  LET new == consume_churn_budget(current, cursor_epoch, cursor_balance,
                                         requested, per_epoch)
             first == CursorEpoch(current, cursor_epoch)
             budget == CursorBalance(current, cursor_epoch, cursor_balance, per_epoch)
         IN  /\ new.epoch \in Nat /\ new.remaining \in 0..per_epoch
             /\ new.epoch >= cursor_epoch
             /\ new.epoch >= compute_activation_exit_epoch(current)
             /\ budget + (new.epoch - first) * per_epoch = requested + new.remaining
<1> DEFINE first == CursorEpoch(current, cursor_epoch)
           budget == CursorBalance(current, cursor_epoch, cursor_balance, per_epoch)
           a == additional_epochs(requested, budget, per_epoch)
           new == consume_churn_budget(current, cursor_epoch, cursor_balance,
                                       requested, per_epoch)
<1>1. first \in Nat /\ first >= cursor_epoch /\ first >= compute_activation_exit_epoch(current)
  BY LookaheadAssumption DEF CursorEpoch, AtLeast, compute_activation_exit_epoch
<1>2. budget \in Nat /\ budget <= per_epoch
  BY DEF CursorBalance
<1>3. new.epoch = first + a /\ new.remaining = budget + a * per_epoch - requested
  BY DEF consume_churn_budget
<1> HIDE DEF first, budget
<1>4. /\ a \in Nat /\ budget + a * per_epoch - requested \in Nat
      /\ a > 0 => budget + a * per_epoch - requested < per_epoch
      /\ a = 0 => budget + a * per_epoch - requested <= budget
  BY <1>2, AdditionalEpochs
<1> DEFINE c == compute_activation_exit_epoch(current)
           ap == a * per_epoch
           left == budget + ap - requested
<1>5. c \in Nat /\ ap \in Nat
  BY <1>4, LookaheadAssumption DEF compute_activation_exit_epoch
<1> HIDE DEF a, c, new
<1>6. new.epoch - first = a
  BY <1>1, <1>3, <1>4
<1>7. (new.epoch - first) * per_epoch = ap
  BY <1>6
<1> HIDE DEF ap
<1>8. new.remaining = left /\ left \in Nat /\ left <= per_epoch
  BY <1>2, <1>3, <1>4, <1>5 DEF ap
<1>9. new.epoch \in Nat /\ new.epoch >= cursor_epoch /\ new.epoch >= c
  BY <1>1, <1>3, <1>4, <1>5 DEF c
<1>10. budget + (new.epoch - first) * per_epoch = requested + new.remaining
  BY <1>2, <1>5, <1>7, <1>8
<1> QED BY <1>8, <1>9, <1>10 DEF c, new, first, budget

-----------------------------------------------------------------------------

\* A round of the shuffle undoes itself, whatever the pivot and the bits: it is a
\* permutation, so no two validators are shuffled to one position.
THEOREM RoundIsInvolution ==
  ASSUME NEW n \in Nat \ {0}, NEW pivot \in 0 .. n - 1, NEW x \in 0 .. n - 1,
         NEW bits
  PROVE  LET y == ShuffleRound(pivot, bits, n, x)
         IN  y \in 0 .. n - 1 /\ ShuffleRound(pivot, bits, n, y) = x
<1> DEFINE f == Flip(pivot, n, x)
<1>1. f \in 0 .. n - 1 /\ Flip(pivot, n, f) = x
  BY DEF Flip
<1>2. AtLeast(x, f) = AtLeast(f, x)
  BY <1>1 DEF AtLeast
<1> HIDE DEF f
<1>3. CASE bits[AtLeast(x, f)] = 1
  BY <1>1, <1>2, <1>3 DEF ShuffleRound, f
<1>4. CASE bits[AtLeast(x, f)] # 1
  BY <1>1, <1>4 DEF ShuffleRound, f
<1> QED BY <1>3, <1>4

\* The slices of compute_committee follow one another from the first position to
\* the last: every shuffled position is in one committee and in no other.
THEOREM SlicesTile ==
  ASSUME NEW total \in Nat, NEW count \in Nat \ {0}
  PROVE  /\ SliceStart(total, 0, count) = 0
         /\ SliceEnd(total, count - 1, count) = total
         /\ \A i \in 0 .. count - 1 :
              /\ SliceEnd(total, i, count) = SliceStart(total, i + 1, count)
              /\ SliceStart(total, i, count) <= SliceEnd(total, i, count)
<1>1. SliceStart(total, 0, count) = 0
  <2>1. total * 0 = 0 /\ count * 0 = 0
    OBVIOUS
  <2> QED BY <2>1, DivisionUnique DEF SliceStart
<1>2. SliceEnd(total, count - 1, count) = total
  <2>1. count - 1 + 1 = count /\ total * count = count * total /\ total * count \in Nat
    OBVIOUS
  <2>2. (total * count) \div count = total
    BY <2>1, DivisionUnique
  <2> QED BY <2>1, <2>2 DEF SliceEnd
<1>3. ASSUME NEW i \in 0 .. count - 1
      PROVE  /\ SliceEnd(total, i, count) = SliceStart(total, i + 1, count)
             /\ SliceStart(total, i, count) <= SliceEnd(total, i, count)
  <2> DEFINE x == total * i
             y == total * (i + 1)
             qx == x \div count
             qy == y \div count
  <2>1. x \in Nat /\ y \in Nat /\ y = x + total
    OBVIOUS
  <2>2. qx <= qy
    <3>1. /\ qx \in Nat /\ x = count * qx + (x % count) /\ x % count \in Nat
          /\ qy \in Nat /\ y = count * qy + (y % count) /\ y % count < count
          /\ y % count \in Nat
      BY <2>1, Division
    <3> DEFINE mx == x % count
               my == y % count
    <3>2. SUFFICES ASSUME qy < qx PROVE FALSE
      BY <3>1
    <3> HIDE DEF qx, qy, mx, my, x, y
    <3>3. count * (qy + 1) <= count * qx
      BY <3>1, <3>2
    <3>4. count * (qy + 1) = count * qy + count
      BY <3>1
    <3>5. count * qx \in Nat /\ count * qy \in Nat
      BY <3>1
    <3> QED BY <2>1, <3>1, <3>3, <3>4, <3>5 DEF mx, my
  <2> QED BY <2>2 DEF SliceStart, SliceEnd
<1> QED BY <1>1, <1>2, <1>3

-----------------------------------------------------------------------------
(***************************************************************************)
(* Builder payments.                                                       *)
(***************************************************************************)
\* Division by the epoch length, as the window arithmetic uses it.
LEMMA EpochSplit ==
  ASSUME NEW s \in Nat
  PROVE  /\ Epoch(s) \in Nat
         /\ s % SLOTS_PER_EPOCH \in 0..(SLOTS_PER_EPOCH - 1)
         /\ s = SLOTS_PER_EPOCH * Epoch(s) + (s % SLOTS_PER_EPOCH)
BY WindowAssumption DEF Epoch

LEMMA Monotone ==
  ASSUME NEW n \in Nat \ {0}, NEW p \in Nat, NEW q \in Nat, p < q
  PROVE  n * p + n <= n * q
<1>1. q = p + 1 + (q - p - 1) /\ q - p - 1 \in Nat
  OBVIOUS
<1>2. n * q = n * p + n + n * (q - p - 1)
  BY <1>1
<1>3. n * (q - p - 1) >= 0
  BY <1>1
<1> QED
  BY <1>2, <1>3

\* An epoch and a position in it have one slot.
LEMMA SplitUnique ==
  ASSUME NEW q1 \in Nat, NEW q2 \in Nat,
         NEW r1 \in 0..(SLOTS_PER_EPOCH - 1), NEW r2 \in 0..(SLOTS_PER_EPOCH - 1),
         SLOTS_PER_EPOCH * q1 + r1 = SLOTS_PER_EPOCH * q2 + r2
  PROVE  q1 = q2 /\ r1 = r2
<1>0. SLOTS_PER_EPOCH \in Nat \ {0} /\ SLOTS_PER_EPOCH * q1 \in Nat /\ SLOTS_PER_EPOCH * q2 \in Nat
  BY WindowAssumption
<1>1. ~(q1 < q2)
  BY <1>0, Monotone
<1>2. ~(q2 < q1)
  BY <1>0, Monotone
<1> QED
  BY <1>0, <1>1, <1>2

LEMMA SplitOf ==
  ASSUME NEW s \in Nat, NEW q \in Nat, NEW r \in 0..(SLOTS_PER_EPOCH - 1),
         s = SLOTS_PER_EPOCH * q + r
  PROVE  q = Epoch(s) /\ r = s % SLOTS_PER_EPOCH
<1> DEFINE e == Epoch(s)
           m == s % SLOTS_PER_EPOCH
<1>1. e \in Nat /\ m \in 0..(SLOTS_PER_EPOCH - 1) /\ s = SLOTS_PER_EPOCH * e + m
  BY EpochSplit
<1> HIDE DEF e, m
<1>2. q = e /\ r = m
  BY <1>1, SplitUnique
<1> QED
  BY <1>2 DEF e, m

\* The next slot opens an epoch exactly when its position is zero.
LEMMA NextSlot ==
  ASSUME NEW s \in Nat
  PROVE  IF (s + 1) % SLOTS_PER_EPOCH = 0 THEN Epoch(s + 1) = Epoch(s) + 1
                                          ELSE Epoch(s + 1) = Epoch(s)
<1> DEFINE e == Epoch(s)
           m == s % SLOTS_PER_EPOCH
<1>0. SLOTS_PER_EPOCH \in Nat \ {0}
  BY WindowAssumption
<1>1. e \in Nat /\ m \in 0..(SLOTS_PER_EPOCH - 1) /\ s = SLOTS_PER_EPOCH * e + m
  BY EpochSplit
<1> HIDE DEF e, m
<1>2. CASE m = SLOTS_PER_EPOCH - 1
  <2>1. s + 1 = SLOTS_PER_EPOCH * (e + 1) + 0
    BY <1>0, <1>1, <1>2
  <2>2. e + 1 = Epoch(s + 1) /\ 0 = (s + 1) % SLOTS_PER_EPOCH
    BY <2>1, <1>0, <1>1, SplitOf
  <2> QED
    BY <2>2 DEF e
<1>3. CASE m # SLOTS_PER_EPOCH - 1
  <2>1. m + 1 \in 0..(SLOTS_PER_EPOCH - 1)
    BY <1>0, <1>1, <1>3
  <2>2. s + 1 = SLOTS_PER_EPOCH * e + (m + 1)
    BY <1>0, <1>1
  <2>3. e = Epoch(s + 1) /\ m + 1 = (s + 1) % SLOTS_PER_EPOCH
    BY <2>1, <2>2, <1>0, <1>1, SplitOf
  <2> QED
    BY <2>3, <1>1 DEF e
<1> QED
  BY <1>2, <1>3

LEMMA IndexOfSlot ==
  ASSUME NEW at \in Nat, NEW s \in Nat
  PROVE  /\ Epoch(s) = Epoch(at) =>
              builder_payment_index_for_slot(at, s) = SLOTS_PER_EPOCH + (s % SLOTS_PER_EPOCH)
         /\ Epoch(s) # Epoch(at) /\ Epoch(s) = Previous(Epoch(at)) =>
              builder_payment_index_for_slot(at, s) = s % SLOTS_PER_EPOCH
         /\ Epoch(s) # Epoch(at) /\ Epoch(s) # Previous(Epoch(at)) =>
              builder_payment_index_for_slot(at, s) = NoIndex
BY DEF builder_payment_index_for_slot

LEMMA IndexInjective ==
  ASSUME NEW at \in Nat, NEW a \in Nat, NEW b \in Nat,
         builder_payment_index_for_slot(at, a) # NoIndex,
         builder_payment_index_for_slot(at, a) = builder_payment_index_for_slot(at, b)
  PROVE  a = b
<1>1. /\ a % SLOTS_PER_EPOCH \in 0..(SLOTS_PER_EPOCH - 1)
      /\ b % SLOTS_PER_EPOCH \in 0..(SLOTS_PER_EPOCH - 1)
      /\ a = SLOTS_PER_EPOCH * Epoch(a) + (a % SLOTS_PER_EPOCH)
      /\ b = SLOTS_PER_EPOCH * Epoch(b) + (b % SLOTS_PER_EPOCH)
  BY EpochSplit
<1> DEFINE ma == a % SLOTS_PER_EPOCH
           mb == b % SLOTS_PER_EPOCH
           i == builder_payment_index_for_slot(at, a)
<1>2. /\ Epoch(a) = Epoch(at) => i = SLOTS_PER_EPOCH + ma
      /\ Epoch(a) # Epoch(at) => i = ma /\ Epoch(a) = Previous(Epoch(at))
      /\ Epoch(b) = Epoch(at) => i = SLOTS_PER_EPOCH + mb
      /\ Epoch(b) # Epoch(at) => i = mb /\ Epoch(b) = Previous(Epoch(at))
  BY Zenon, IndexOfSlot
<1>3. ma \in 0..(SLOTS_PER_EPOCH - 1) /\ mb \in 0..(SLOTS_PER_EPOCH - 1)
  BY <1>1
<1> HIDE DEF ma, mb, i
<1>4. Epoch(a) = Epoch(b) /\ ma = mb
  BY <1>2, <1>3, WindowAssumption
<1>5. Epoch(a) = Epoch(b) /\ a % SLOTS_PER_EPOCH = b % SLOTS_PER_EPOCH
  BY <1>4 DEF ma, mb
<1> QED
  BY <1>1, <1>5

\* Within an epoch the slots keep their places; at the boundary those of the epoch
\* that ends move to the front half.
LEMMA IndexStays ==
  ASSUME NEW at \in Nat, NEW s \in Nat, Epoch(at + 1) = Epoch(at)
  PROVE  builder_payment_index_for_slot(at + 1, s) = builder_payment_index_for_slot(at, s)
BY DEF builder_payment_index_for_slot

LEMMA IndexShifts ==
  ASSUME NEW at \in Nat, NEW s \in Nat, Epoch(at + 1) = Epoch(at) + 1,
         NEW i \in 0..(SLOTS_PER_EPOCH - 1),
         builder_payment_index_for_slot(at, s) = i + SLOTS_PER_EPOCH
  PROVE  builder_payment_index_for_slot(at + 1, s) = i
<1> DEFINE m == s % SLOTS_PER_EPOCH
<1>1. m \in 0..(SLOTS_PER_EPOCH - 1) /\ Epoch(at) \in Nat
  BY EpochSplit
<1>2. /\ Epoch(s) = Epoch(at) => i + SLOTS_PER_EPOCH = SLOTS_PER_EPOCH + m
      /\ Epoch(s) # Epoch(at) => i + SLOTS_PER_EPOCH = m \/ i + SLOTS_PER_EPOCH = NoIndex
  BY Zenon, IndexOfSlot
<1>3. /\ Epoch(s) # Epoch(at + 1) /\ Epoch(s) = Previous(Epoch(at + 1)) =>
           builder_payment_index_for_slot(at + 1, s) = m
  BY IndexOfSlot
<1> HIDE DEF m
<1>4. Epoch(s) = Epoch(at) /\ m = i
  BY <1>1, <1>2, WindowAssumption DEF NoIndex
<1>5. Epoch(s) # Epoch(at + 1) /\ Epoch(s) = Previous(Epoch(at + 1))
  BY <1>1, <1>4 DEF Previous
<1> QED
  BY <1>3, <1>4, <1>5

LEMMA InitConsistent == PaymentsInit => PaymentsConsistent
<1>1. NoPayment \in BuilderPendingPayment
  BY WindowAssumption DEF NoPayment, BuilderPendingPayment, Slots
<1>2. NoPayment.amount = 0 /\ NoPayment.weight = 0
  BY DEF NoPayment
<1> SUFFICES ASSUME NEW slot \in Slots,
                    payments = [slot |-> slot,
                      latest_execution_payload_bid |->
                         [slot |-> slot, value |-> 0, builder_index |-> NoIndex],
                      builder_pending_payments |-> [i \in WindowIndices |-> NoPayment],
                      builder_pending_withdrawals |-> <<>>,
                      paid |-> [s \in Slots |-> 0],
                      error |-> "none"]
             PROVE  PaymentsConsistent
  BY Zenon DEF PaymentsInit
<1>3. payments.latest_execution_payload_bid \in Bids
  BY DEF Bids, NoIndex
<1>4. \A i \in WindowIndices : payments.builder_pending_payments[i] = NoPayment
  OBVIOUS
<1>5. OpenSlots(payments) = {}
  BY <1>2, <1>4 DEF OpenSlots
<1> QED
  BY <1>1, <1>2, <1>3, <1>4, <1>5 DEF PaymentsConsistent, Slots

-----------------------------------------------------------------------------
(***************************************************************************)
(* A slot.                                                                 *)
(***************************************************************************)
\* What the quorum rule does to a consistent window: it releases live payments of
\* the front half, each of them once.
LEMMA WindowSettles ==
  ASSUME PaymentsConsistent, NEW quorum \in 1..MaxStake, NEW slot \in Slots
  PROVE  LET c == Cardinality({i \in Reached(payments, quorum) :
                                 payments.builder_pending_payments[i].slot = slot})
         IN \/ c = 0
            \/ /\ c = 1
               /\ slot # payments.latest_execution_payload_bid.slot
               /\ \E i \in 0..(SLOTS_PER_EPOCH - 1) :
                    /\ payments.builder_pending_payments[i].amount > 0
                    /\ payments.builder_pending_payments[i].slot = slot
                    /\ builder_payment_index_for_slot(payments.slot, slot) = i
<1> DEFINE paying == {i \in Reached(payments, quorum) :
                        payments.builder_pending_payments[i].slot = slot}
           index == builder_payment_index_for_slot(payments.slot, slot)
<1>1. \A i \in paying : /\ i \in 0..(SLOTS_PER_EPOCH - 1)
                        /\ payments.builder_pending_payments[i].amount > 0
                        /\ payments.builder_pending_payments[i].slot = slot
                        /\ i = index
                        /\ slot # payments.latest_execution_payload_bid.slot
  <2> SUFFICES ASSUME NEW i \in paying
               PROVE  /\ i \in 0..(SLOTS_PER_EPOCH - 1)
                      /\ payments.builder_pending_payments[i].amount > 0
                      /\ payments.builder_pending_payments[i].slot = slot
                      /\ i = index
                      /\ slot # payments.latest_execution_payload_bid.slot
    OBVIOUS
  <2>1. /\ i \in 0..(SLOTS_PER_EPOCH - 1) /\ payments.builder_pending_payments[i].slot = slot
        /\ payments.builder_pending_payments[i].weight >= quorum
    BY DEF Reached
  <2>2. i \in WindowIndices
    BY <2>1, WindowAssumption DEF WindowIndices
  <2>3. payments.builder_pending_payments[i] \in BuilderPendingPayment
    BY <2>2 DEF PaymentsConsistent
  <2>4. payments.builder_pending_payments[i].weight > 0
    BY <2>1, <2>3, WindowAssumption DEF BuilderPendingPayment
  <2> QED
    BY <2>1, <2>2, <2>3, <2>4 DEF PaymentsConsistent, BuilderPendingPayment
<1>2. CASE paying = {}
  BY <1>2, FS_EmptySet
<1>3. CASE paying # {}
  <2>1. paying = {index}
    BY <1>1, <1>3
  <2>2. Cardinality(paying) = 1
    BY <2>1, FS_Singleton
  <2> QED
    BY <1>1, <1>3, <2>2
<1> QED
  BY <1>2, <1>3

\* A slot step on a consistent state, field by field.
LEMMA SlotEffect ==
  ASSUME PaymentsConsistent, PaymentsSlot
  PROVE  /\ payments' = [slot |-> payments.slot + 1,
                         latest_execution_payload_bid |-> payments.latest_execution_payload_bid,
                         builder_pending_payments |-> payments'.builder_pending_payments,
                         builder_pending_withdrawals |-> payments'.builder_pending_withdrawals,
                         paid |-> payments'.paid,
                         error |-> "none"]
         /\ payments.slot + 1 \in Slots
         /\ \/ /\ (payments.slot + 1) % SLOTS_PER_EPOCH # 0
               /\ payments'.builder_pending_payments = payments.builder_pending_payments
               /\ payments'.paid = payments.paid
            \/ /\ (payments.slot + 1) % SLOTS_PER_EPOCH = 0
               /\ payments'.builder_pending_payments = [i \in WindowIndices |->
                    IF i < SLOTS_PER_EPOCH
                    THEN payments.builder_pending_payments[i + SLOTS_PER_EPOCH] ELSE NoPayment]
               /\ \E quorum \in 1..MaxStake :
                    payments'.paid = [slot \in Slots |->
                      payments.paid[slot] +
                        Cardinality({i \in Reached(payments, quorum) :
                                       payments.builder_pending_payments[i].slot = slot})]
<1>0. payments.slot + 1 \in Slots
  BY WindowAssumption DEF PaymentsConsistent, PaymentsSlot, Slots
<1>1. CASE (payments.slot + 1) % SLOTS_PER_EPOCH # 0
  <2>1. payments' = [payments EXCEPT !.slot = @ + 1]
    BY <1>1 DEF PaymentsSlot
  <2> QED
    BY <1>0, <1>1, <2>1 DEF PaymentsConsistent
<1>2. CASE (payments.slot + 1) % SLOTS_PER_EPOCH = 0
  <2>1. PICK quorum \in 1..MaxStake :
          LET s == process_builder_pending_payments(payments, quorum)
          IN s.error = "none" /\ payments' = [s EXCEPT !.slot = @ + 1]
    BY <1>2 DEF PaymentsSlot
  <2> DEFINE s == settle_builder_payment_window(payments, quorum)
             more == [slot \in DOMAIN payments.paid |->
                        payments.paid[slot] +
                          Cardinality({i \in Reached(payments, quorum) :
                                         payments.builder_pending_payments[i].slot = slot})]
             queue == QueueWithReached(payments, quorum)
  <2>2. \/ s = [payments EXCEPT !.error = "BuilderPendingWithdrawalsFull"]
        \/ s = [payments EXCEPT !.builder_pending_withdrawals = queue, !.paid = more]
    BY DEF settle_builder_payment_window, Reject
  <2> HIDE DEF more, queue
  <2>3. process_builder_pending_payments(payments, quorum) =
          [s EXCEPT !.builder_pending_payments =
             [i \in WindowIndices |-> IF i < SLOTS_PER_EPOCH THEN @[i + SLOTS_PER_EPOCH]
                                                             ELSE NoPayment]]
    BY DEF process_builder_pending_payments, advance_builder_payment_window
  <2>4. s = [payments EXCEPT !.builder_pending_withdrawals = queue, !.paid = more]
    <3> SUFFICES s # [payments EXCEPT !.error = "BuilderPendingWithdrawalsFull"]
      BY <2>2
    <3> HIDE DEF s
    <3> QED
      BY <2>1, <2>3 DEF PaymentsConsistent
  <2> HIDE DEF s
  <2>5. payments'.paid = more
    BY <2>1, <2>3, <2>4 DEF PaymentsConsistent
  <2>6. DOMAIN payments.paid = Slots
    BY DEF PaymentsConsistent
  <2>7. payments'.paid = [slot \in Slots |->
                      payments.paid[slot] +
                        Cardinality({i \in Reached(payments, quorum) :
                                       payments.builder_pending_payments[i].slot = slot})]
    BY <2>5, <2>6 DEF more
  <2> DEFINE window == [i \in WindowIndices |->
                IF i < SLOTS_PER_EPOCH
                THEN payments.builder_pending_payments[i + SLOTS_PER_EPOCH] ELSE NoPayment]
  <2>8. /\ s.builder_pending_payments = payments.builder_pending_payments
        /\ s = [slot |-> payments.slot,
                latest_execution_payload_bid |-> payments.latest_execution_payload_bid,
                builder_pending_payments |-> payments.builder_pending_payments,
                builder_pending_withdrawals |-> queue,
                paid |-> more, error |-> "none"]
    <3> DEFINE a == payments.slot
               b == payments.latest_execution_payload_bid
               c == payments.builder_pending_payments
               d == payments.builder_pending_withdrawals
               e == payments.paid
    <3>1. payments = [slot |-> a, latest_execution_payload_bid |-> b,
                      builder_pending_payments |-> c, builder_pending_withdrawals |-> d,
                      paid |-> e, error |-> "none"]
      BY Zenon DEF PaymentsConsistent
    <3> HIDE DEF a, b, c, d, e
    <3>2. s = [slot |-> a, latest_execution_payload_bid |-> b,
               builder_pending_payments |-> c, builder_pending_withdrawals |-> queue,
               paid |-> more, error |-> "none"]
      BY Zenon, <2>4, <3>1
    <3> QED
      BY <3>2 DEF a, b, c
  <2>9. process_builder_pending_payments(payments, quorum) =
          [s EXCEPT !.builder_pending_payments = window]
    BY <2>3, <2>8
  <2> HIDE DEF window
  <2>10. process_builder_pending_payments(payments, quorum) =
            [slot |-> payments.slot,
             latest_execution_payload_bid |-> payments.latest_execution_payload_bid,
             builder_pending_payments |-> window,
             builder_pending_withdrawals |-> queue,
             paid |-> more, error |-> "none"]
    BY <2>8, <2>9
  <2>11. payments' = [slot |-> payments.slot + 1,
             latest_execution_payload_bid |-> payments.latest_execution_payload_bid,
             builder_pending_payments |-> window,
             builder_pending_withdrawals |-> queue,
             paid |-> more, error |-> "none"]
    BY <2>1, <2>10
  <2>12. /\ payments' = [slot |-> payments.slot + 1,
                         latest_execution_payload_bid |-> payments.latest_execution_payload_bid,
                         builder_pending_payments |-> payments'.builder_pending_payments,
                         builder_pending_withdrawals |-> payments'.builder_pending_withdrawals,
                         paid |-> payments'.paid,
                         error |-> "none"]
         /\ payments'.builder_pending_payments = window
    BY <2>11
  <2> QED
    BY ZenonT(40), <1>0, <1>2, <2>7, <2>12 DEF window
<1> QED
  BY <1>1, <1>2

LEMMA OpenMember ==
  ASSUME NEW p, NEW s
  PROVE  s \in OpenSlots(p) <=>
           \/ \E i \in WindowIndices : /\ p.builder_pending_payments[i].amount > 0
                                      /\ p.builder_pending_payments[i].slot = s
           \/ /\ p.latest_execution_payload_bid.value > 0
              /\ p.latest_execution_payload_bid.slot = s
BY DEF OpenSlots

\* Within an epoch a slot changes nothing but the slot.
LEMMA PlainSlot ==
  ASSUME PaymentsConsistent, PaymentsSlot, (payments.slot + 1) % SLOTS_PER_EPOCH # 0
  PROVE  PaymentsConsistent' /\ UNCHANGED L!ledger
<1>1. /\ payments' = [slot |-> payments.slot + 1,
                      latest_execution_payload_bid |-> payments.latest_execution_payload_bid,
                      builder_pending_payments |-> payments'.builder_pending_payments,
                      builder_pending_withdrawals |-> payments'.builder_pending_withdrawals,
                      paid |-> payments'.paid,
                      error |-> "none"]
      /\ payments.slot + 1 \in Slots
      /\ payments'.builder_pending_payments = payments.builder_pending_payments
      /\ payments'.paid = payments.paid
  BY SlotEffect
<1>2. /\ payments'.slot = payments.slot + 1
      /\ payments'.latest_execution_payload_bid = payments.latest_execution_payload_bid
      /\ payments'.error = "none"
  BY <1>1
<1>3. OpenSlots(payments') = OpenSlots(payments)
  BY <1>1, <1>2 DEF OpenSlots
<1>4. payments.slot \in Nat /\ Epoch(payments.slot + 1) = Epoch(payments.slot)
  BY NextSlot DEF PaymentsConsistent, Slots
<1>5. \A s \in Slots : builder_payment_index_for_slot(payments'.slot, s)
                         = builder_payment_index_for_slot(payments.slot, s)
  BY <1>2, <1>4, IndexStays DEF Slots
<1>6. payments' = [slot |-> payments'.slot,
                   latest_execution_payload_bid |-> payments'.latest_execution_payload_bid,
                   builder_pending_payments |-> payments'.builder_pending_payments,
                   builder_pending_withdrawals |-> payments'.builder_pending_withdrawals,
                   paid |-> payments'.paid,
                   error |-> "none"]
  BY Zenon, <1>1, <1>2
<1>7. /\ payments'.slot \in Slots
      /\ payments'.latest_execution_payload_bid \in Bids
      /\ payments'.latest_execution_payload_bid.slot <= payments'.slot
      /\ payments'.builder_pending_payments \in [WindowIndices -> BuilderPendingPayment]
      /\ payments'.paid \in [Slots -> Nat]
  BY <1>1, <1>2, <1>4 DEF PaymentsConsistent, Bids, Slots
<1>8. \A i \in WindowIndices :
       LET p == payments'.builder_pending_payments[i]
       IN /\ p.amount = 0 => p.weight = 0
          /\ p.amount > 0 =>
               /\ p.slot <= payments'.latest_execution_payload_bid.slot
               /\ builder_payment_index_for_slot(payments'.slot, p.slot) = i
               /\ p.slot = payments'.latest_execution_payload_bid.slot => p.weight = 0
  BY <1>1, <1>2, <1>5 DEF PaymentsConsistent, BuilderPendingPayment
<1>9. \A s \in Slots :
       /\ payments'.paid[s] <= 1
       /\ s \in OpenSlots(payments') => payments'.paid[s] = 0
       /\ s > payments'.latest_execution_payload_bid.slot => payments'.paid[s] = 0
  BY <1>1, <1>2, <1>3 DEF PaymentsConsistent
<1>10. PaymentsConsistent'
  BY Zenon, <1>6, <1>7, <1>8, <1>9 DEF PaymentsConsistent
<1>11. UNCHANGED L!ledger
  BY <1>1, <1>2, <1>3 DEF L!ledger
<1> QED
  BY <1>10, <1>11

\* The boundary of an epoch: what the quorum rule releases leaves the window, the
\* rest of the front half is let go, and the back half moves to its new places.
LEMMA BoundarySlot ==
  ASSUME PaymentsConsistent, PaymentsSlot, (payments.slot + 1) % SLOTS_PER_EPOCH = 0
  PROVE  PaymentsConsistent' /\ L!LedgerNext
<1> DEFINE old == payments.builder_pending_payments
           new == payments'.builder_pending_payments
           last == payments.latest_execution_payload_bid.slot
           at == payments.slot
<1>1. /\ payments' = [slot |-> at + 1,
                      latest_execution_payload_bid |-> payments.latest_execution_payload_bid,
                      builder_pending_payments |-> new,
                      builder_pending_withdrawals |-> payments'.builder_pending_withdrawals,
                      paid |-> payments'.paid,
                      error |-> "none"]
      /\ at + 1 \in Slots
      /\ new = [i \in WindowIndices |->
                  IF i < SLOTS_PER_EPOCH THEN old[i + SLOTS_PER_EPOCH] ELSE NoPayment]
  BY SlotEffect
<1>2. PICK quorum \in 1..MaxStake :
        payments'.paid = [slot \in Slots |->
          payments.paid[slot] + Cardinality({i \in Reached(payments, quorum) : old[i].slot = slot})]
  BY Zenon, SlotEffect
<1>3. /\ payments'.slot = at + 1
      /\ payments'.latest_execution_payload_bid = payments.latest_execution_payload_bid
      /\ payments'.error = "none"
  BY <1>1
<1>4. /\ at \in Nat /\ at \in Slots /\ last \in Slots /\ last <= at /\ Epoch(at + 1) = Epoch(at) + 1
      /\ old \in [WindowIndices -> BuilderPendingPayment]
      /\ payments.paid \in [Slots -> Nat]
      /\ payments.latest_execution_payload_bid \in Bids
  BY NextSlot DEF PaymentsConsistent, Slots, Bids
<1>5. \A i \in WindowIndices : i < SLOTS_PER_EPOCH => /\ i \in 0..(SLOTS_PER_EPOCH - 1)
                                                     /\ i + SLOTS_PER_EPOCH \in WindowIndices
  BY WindowAssumption DEF WindowIndices
<1>6. NoPayment \in BuilderPendingPayment /\ NoPayment.amount = 0 /\ NoPayment.weight = 0
  BY WindowAssumption DEF NoPayment, BuilderPendingPayment, Slots
<1>7. \A i \in WindowIndices :
        new[i].amount > 0 => /\ i \in 0..(SLOTS_PER_EPOCH - 1)
                             /\ i + SLOTS_PER_EPOCH \in WindowIndices
                             /\ new[i] = old[i + SLOTS_PER_EPOCH]
  BY <1>1, <1>5, <1>6
<1>8. \A i \in WindowIndices : old[i] \in BuilderPendingPayment /\ old[i].slot \in Nat
  BY <1>4 DEF BuilderPendingPayment, Slots
<1>9. \A i \in WindowIndices :
        old[i].amount > 0 => /\ old[i].slot <= last
                             /\ builder_payment_index_for_slot(at, old[i].slot) = i
                             /\ old[i].slot = last => old[i].weight = 0
  BY DEF PaymentsConsistent
<1>10. \A s \in Slots :
         LET c == Cardinality({i \in Reached(payments, quorum) : old[i].slot = s})
         IN /\ payments'.paid[s] = payments.paid[s] + c
            /\ \/ c = 0
               \/ /\ c = 1
                  /\ s # last
                  /\ \E i \in 0..(SLOTS_PER_EPOCH - 1) :
                       /\ old[i].amount > 0
                       /\ old[i].slot = s
                       /\ builder_payment_index_for_slot(at, s) = i
  BY ZenonT(40), <1>2, WindowSettles
<1> DEFINE paidNow == payments'.paid
<1>11. \A s \in Slots :
         \/ paidNow[s] = payments.paid[s]
         \/ /\ paidNow[s] = payments.paid[s] + 1
            /\ s # last
            /\ \E i \in 0..(SLOTS_PER_EPOCH - 1) :
                 /\ old[i].amount > 0
                 /\ old[i].slot = s
                 /\ builder_payment_index_for_slot(at, s) = i
  <2> SUFFICES ASSUME NEW s \in Slots
               PROVE  \/ paidNow[s] = payments.paid[s]
                      \/ /\ paidNow[s] = payments.paid[s] + 1
                         /\ s # last
                         /\ \E i \in 0..(SLOTS_PER_EPOCH - 1) :
                              /\ old[i].amount > 0
                              /\ old[i].slot = s
                              /\ builder_payment_index_for_slot(at, s) = i
    OBVIOUS
  <2>1. payments.paid[s] \in Nat
    BY <1>4
  <2> DEFINE c == Cardinality({i \in Reached(payments, quorum) : old[i].slot = s})
             front == \E i \in 0..(SLOTS_PER_EPOCH - 1) :
                        /\ old[i].amount > 0
                        /\ old[i].slot = s
                        /\ builder_payment_index_for_slot(at, s) = i
  <2>2. paidNow[s] = payments.paid[s] + c /\ (c = 0 \/ (c = 1 /\ s # last /\ front))
    BY Zenon, <1>10
  <2>3. \/ paidNow[s] = payments.paid[s]
        \/ paidNow[s] = payments.paid[s] + 1 /\ s # last /\ front
    <3> HIDE DEF c, front
    <3> QED
      BY <2>1, <2>2
  <2> QED
    BY Zenon, <2>3
<1>12. OpenSlots(payments') \subseteq OpenSlots(payments)
  <2> SUFFICES ASSUME NEW s \in OpenSlots(payments')
               PROVE  s \in OpenSlots(payments)
    OBVIOUS
  <2>1. \/ \E i \in WindowIndices : new[i].amount > 0 /\ new[i].slot = s
        \/ payments.latest_execution_payload_bid.value > 0 /\ last = s
    BY <1>3, OpenMember
  <2> QED
    BY <2>1, <1>7, OpenMember
<1>13. \A s \in Slots : s \in OpenSlots(payments) => payments.paid[s] = 0
  BY DEF PaymentsConsistent
<1>14. \A s \in Slots : paidNow[s] = payments.paid[s] + 1 =>
         s \in OpenSlots(payments) /\ s \notin OpenSlots(payments')
  <2> SUFFICES ASSUME NEW s \in Slots, paidNow[s] = payments.paid[s] + 1
               PROVE  s \in OpenSlots(payments) /\ s \notin OpenSlots(payments')
    OBVIOUS
  <2>1. payments.paid[s] \in Nat
    BY <1>4
  <2>2. PICK i \in 0..(SLOTS_PER_EPOCH - 1) :
          /\ s # last /\ old[i].amount > 0 /\ old[i].slot = s
          /\ builder_payment_index_for_slot(at, s) = i
    BY <1>11, <2>1
  <2>3. i \in WindowIndices
    BY WindowAssumption DEF WindowIndices
  <2>4. ~ \E j \in WindowIndices : new[j].amount > 0 /\ new[j].slot = s
    <3> SUFFICES ASSUME NEW j \in WindowIndices, new[j].amount > 0, new[j].slot = s
                 PROVE  FALSE
      OBVIOUS
    <3>1. j \in 0..(SLOTS_PER_EPOCH - 1) /\ builder_payment_index_for_slot(at, s) = j + SLOTS_PER_EPOCH
      BY <1>7, <1>9
    <3> QED
      BY <2>2, <3>1, WindowAssumption
  <2> QED
    BY <2>2, <2>3, <2>4, <1>3, OpenMember
<1>15. \A i \in WindowIndices :
         /\ new[i].amount = 0 => new[i].weight = 0
         /\ new[i].amount > 0 =>
              /\ new[i].slot <= last
              /\ builder_payment_index_for_slot(at + 1, new[i].slot) = i
              /\ new[i].slot = last => new[i].weight = 0
  <2>1. \A i \in WindowIndices : old[i].amount = 0 => old[i].weight = 0
    BY DEF PaymentsConsistent
  <2>2. \A i \in WindowIndices : new[i].amount = 0 => new[i].weight = 0
    BY <2>1, <1>1, <1>5, <1>6
  <2>3. \A i \in WindowIndices : new[i].amount > 0 =>
          builder_payment_index_for_slot(at + 1, new[i].slot) = i
    BY <1>4, <1>7, <1>8, <1>9, IndexShifts
  <2> QED
    BY <2>2, <2>3, <1>7, <1>9
<1>16. \A s \in Slots : /\ paidNow[s] <= 1
                        /\ s \in OpenSlots(payments') => paidNow[s] = 0
                        /\ s > last => paidNow[s] = 0
  <2> SUFFICES ASSUME NEW s \in Slots
               PROVE  /\ paidNow[s] <= 1
                      /\ s \in OpenSlots(payments') => paidNow[s] = 0
                      /\ s > last => paidNow[s] = 0
    OBVIOUS
  <2>1. /\ payments.paid[s] \in Nat /\ payments.paid[s] <= 1
        /\ s \in OpenSlots(payments) => payments.paid[s] = 0
        /\ s > last => payments.paid[s] = 0
    BY DEF PaymentsConsistent
  <2>2. CASE paidNow[s] = payments.paid[s]
    BY <2>1, <2>2, <1>12
  <2>3. CASE paidNow[s] = payments.paid[s] + 1
    <3>1. s \in OpenSlots(payments) /\ s \notin OpenSlots(payments')
      BY <1>14, <2>3
    <3>2. ~(s > last)
      <4>1. PICK i \in 0..(SLOTS_PER_EPOCH - 1) : old[i].amount > 0 /\ old[i].slot = s
        BY <1>11, <2>1, <2>3
      <4>2. i \in WindowIndices
        BY WindowAssumption DEF WindowIndices
      <4>3. s <= last
        BY <4>1, <4>2, <1>9
      <4> QED
        BY <4>3, <1>4 DEF Slots
    <3> QED
      BY <2>1, <2>3, <3>1, <3>2
  <2> QED
    BY <1>11, <2>2, <2>3
<1>17. new \in [WindowIndices -> BuilderPendingPayment] /\ paidNow \in [Slots -> Nat]
  <2>1. new \in [WindowIndices -> BuilderPendingPayment]
    BY <1>1, <1>5, <1>6, <1>8
  <2>2. \A s \in Slots : paidNow[s] \in Nat
    BY <1>4, <1>11
  <2>3. paidNow = [s \in Slots |-> paidNow[s]]
    BY Zenon, <1>2
  <2> QED
    BY <2>1, <2>2, <2>3
<1>18. payments' = [slot |-> payments'.slot,
                    latest_execution_payload_bid |-> payments'.latest_execution_payload_bid,
                    builder_pending_payments |-> payments'.builder_pending_payments,
                    builder_pending_withdrawals |-> payments'.builder_pending_withdrawals,
                    paid |-> payments'.paid,
                    error |-> "none"]
  BY Zenon, <1>1, <1>3
<1>19. /\ payments'.slot \in Slots /\ payments'.latest_execution_payload_bid \in Bids
       /\ payments'.latest_execution_payload_bid.slot <= payments'.slot
  BY <1>1, <1>3, <1>4 DEF Slots
<1>20. PaymentsConsistent'
  BY ZenonT(40), <1>3, <1>15, <1>16, <1>17, <1>18, <1>19 DEF PaymentsConsistent
<1>21. L!LedgerNext
  <2>1. last \in last..MaxSlot /\ payments'.latest_execution_payload_bid.slot = last
    BY <1>3, <1>4, WindowAssumption DEF Slots
  <2>2. OpenSlots(payments') \subseteq Slots
    BY <1>12, <1>4, <1>8, OpenMember DEF BuilderPendingPayment, Bids
  <2>3. DOMAIN paidNow = Slots
    BY <1>17
  <2>4. \A s \in Slots : L!Pays(s) \/ L!Keeps(s)
    BY <1>11, <1>12, <1>14 DEF L!Pays, L!Keeps
  <2> QED
    BY <2>1, <2>2, <2>3, <2>4 DEF L!LedgerNext, L!Slots, Slots
<1> QED
  BY <1>20, <1>21

-----------------------------------------------------------------------------
(***************************************************************************)
(* A block.                                                                *)
(***************************************************************************)
\* A withdrawal that finds room in the queue counts one release for its slot.
LEMMA Queued ==
  ASSUME PaymentsConsistent, NEW w, queue_builder_pending_withdrawal(payments, w).error = "none"
  PROVE  queue_builder_pending_withdrawal(payments, w) =
           [slot |-> payments.slot,
            latest_execution_payload_bid |-> payments.latest_execution_payload_bid,
            builder_pending_payments |-> payments.builder_pending_payments,
            builder_pending_withdrawals |-> Append(payments.builder_pending_withdrawals, w),
            paid |-> [payments.paid EXCEPT ![w.slot] = @ + 1],
            error |-> "none"]
<1> DEFINE a == payments.slot
           b == payments.latest_execution_payload_bid
           c == payments.builder_pending_payments
           d == payments.builder_pending_withdrawals
           e == payments.paid
           s == queue_builder_pending_withdrawal(payments, w)
           more == [e EXCEPT ![w.slot] = @ + 1]
           queue == Append(d, w)
<1>1. payments = [slot |-> a, latest_execution_payload_bid |-> b,
                  builder_pending_payments |-> c, builder_pending_withdrawals |-> d,
                  paid |-> e, error |-> "none"]
  BY Zenon DEF PaymentsConsistent
<1>2. \/ s = [payments EXCEPT !.error = "BuilderPendingWithdrawalsFull"]
      \/ s = [payments EXCEPT !.builder_pending_withdrawals = queue, !.paid = more]
  BY DEF queue_builder_pending_withdrawal, Reject
<1>3. s.error = "none"
  OBVIOUS
<1> HIDE DEF a, b, c, d, e, s, more, queue
<1>4. s = [payments EXCEPT !.builder_pending_withdrawals = queue, !.paid = more]
  BY <1>1, <1>2, <1>3
<1>5. s = [slot |-> a, latest_execution_payload_bid |-> b,
           builder_pending_payments |-> c, builder_pending_withdrawals |-> queue,
           paid |-> more, error |-> "none"]
  BY Zenon, <1>1, <1>4
<1> QED
  BY <1>5 DEF a, b, c, d, e, s, more, queue

\* What a block leaves of the window once it has dealt with its parent's payload:
\* it released the payment of the last block and closed it, or released nothing.
Released(s) ==
  /\ s = [slot |-> payments.slot,
          latest_execution_payload_bid |-> payments.latest_execution_payload_bid,
          builder_pending_payments |-> s.builder_pending_payments,
          builder_pending_withdrawals |-> s.builder_pending_withdrawals,
          paid |-> s.paid,
          error |-> "none"]
  /\ s.builder_pending_payments \in [WindowIndices -> BuilderPendingPayment]
  /\ \A i \in WindowIndices :
       \/ s.builder_pending_payments[i] = payments.builder_pending_payments[i]
       \/ s.builder_pending_payments[i] = NoPayment
  /\ \/ s.paid = payments.paid
     \/ /\ payments.latest_execution_payload_bid.slot \in OpenSlots(payments)
        /\ s.paid = [payments.paid EXCEPT ![payments.latest_execution_payload_bid.slot] = @ + 1]
        /\ \A i \in WindowIndices :
             s.builder_pending_payments[i].amount > 0 =>
               s.builder_pending_payments[i].slot # payments.latest_execution_payload_bid.slot

LEMMA KeptPayments == PaymentsConsistent => Released(payments)
BY Zenon DEF PaymentsConsistent, Released

\* The payment of an aged-out bid, from the commitment of the bid.
LEMMA ReleasedFromBid ==
  ASSUME PaymentsConsistent,
         builder_payment_index_for_slot(payments.slot,
           payments.latest_execution_payload_bid.slot) = NoIndex,
         release_parent_payment(payments).error = "none"
  PROVE  Released(release_parent_payment(payments))
<1> DEFINE bid == payments.latest_execution_payload_bid
           w == [builder_index |-> bid.builder_index, amount |-> bid.value, slot |-> bid.slot]
           s == release_parent_payment(payments)
<1>1. CASE ~(bid.value > 0)
  <2>1. s = payments
    BY <1>1 DEF release_parent_payment
  <2> QED
    BY <2>1, KeptPayments
<1>2. CASE bid.value > 0
  <2>1. s = queue_builder_pending_withdrawal(payments, w)
    BY <1>2 DEF release_parent_payment
  <2>2. w.slot = bid.slot
    OBVIOUS
  <2>3. s = [slot |-> payments.slot,
             latest_execution_payload_bid |-> bid,
             builder_pending_payments |-> payments.builder_pending_payments,
             builder_pending_withdrawals |-> Append(payments.builder_pending_withdrawals, w),
             paid |-> [payments.paid EXCEPT ![bid.slot] = @ + 1],
             error |-> "none"]
    <3> HIDE DEF w, s, bid
    <3> QED
      BY Zenon, <2>1, <2>2, Queued DEF s, bid
  <2>4. \A i \in WindowIndices : payments.builder_pending_payments[i].amount > 0 =>
          payments.builder_pending_payments[i].slot # bid.slot
    BY WindowAssumption DEF PaymentsConsistent, NoIndex, WindowIndices
  <2>5. bid.slot \in OpenSlots(payments)
    BY <1>2, OpenMember
  <2>6. /\ s.builder_pending_payments = payments.builder_pending_payments
        /\ s.paid = [payments.paid EXCEPT ![bid.slot] = @ + 1]
        /\ s.builder_pending_withdrawals = Append(payments.builder_pending_withdrawals, w)
    BY <2>3
  <2>7. payments.builder_pending_payments \in [WindowIndices -> BuilderPendingPayment]
    BY DEF PaymentsConsistent
  <2> HIDE DEF s, w
  <2>8. Released(s)
    BY ZenonT(40), <2>3, <2>4, <2>5, <2>6, <2>7 DEF Released
  <2> QED
    BY <2>8 DEF s
<1> QED
  BY <1>1, <1>2

\* The payment of a bid that the window still holds.
LEMMA ReleasedFromWindow ==
  ASSUME PaymentsConsistent,
         builder_payment_index_for_slot(payments.slot,
           payments.latest_execution_payload_bid.slot) # NoIndex,
         release_parent_payment(payments).error = "none"
  PROVE  Released(release_parent_payment(payments))
<1> DEFINE last == payments.latest_execution_payload_bid.slot
           i == builder_payment_index_for_slot(payments.slot, last)
           old == payments.builder_pending_payments
           w == Owing(old[i])
           s == release_parent_payment(payments)
           cleared == [old EXCEPT ![i] = NoPayment]
<1>1. s = settle_builder_payment(payments, i)
  BY DEF release_parent_payment
<1>2. payments.slot \in Nat /\ last \in Nat
  BY DEF PaymentsConsistent, Bids, Slots
<1>3. i \in WindowIndices
  <2>1. last % SLOTS_PER_EPOCH \in 0..(SLOTS_PER_EPOCH - 1)
    BY <1>2, EpochSplit
  <2> QED
    BY <1>2, <2>1, IndexOfSlot, WindowAssumption DEF WindowIndices
<1>4. old \in [WindowIndices -> BuilderPendingPayment]
  BY DEF PaymentsConsistent
<1>5. NoPayment \in BuilderPendingPayment /\ NoPayment.amount = 0
  BY WindowAssumption DEF NoPayment, BuilderPendingPayment, Slots
<1>6. cleared \in [WindowIndices -> BuilderPendingPayment]
  BY <1>3, <1>4, <1>5
<1>7. \A j \in WindowIndices : cleared[j] = old[j] \/ cleared[j] = NoPayment
  BY <1>4
<1>8. \A j \in WindowIndices : cleared[j].amount > 0 => cleared[j].slot # last
  <2> SUFFICES ASSUME NEW j \in WindowIndices, cleared[j].amount > 0, cleared[j].slot = last
               PROVE  FALSE
    OBVIOUS
  <2>1. j # i /\ cleared[j] = old[j]
    BY <1>4, <1>5
  <2> QED
    BY <2>1 DEF PaymentsConsistent
<1> DEFINE x == IF old[i].amount > 0 THEN queue_builder_pending_withdrawal(payments, w) ELSE payments
<1>9. s = [x EXCEPT !.builder_pending_payments[i] = NoPayment]
  BY Zenon, <1>1 DEF settle_builder_payment
<1>10. old[i].amount > 0 => old[i].slot = last
  <2>1. old[i].slot \in Nat
    BY <1>3, <1>4 DEF BuilderPendingPayment, Slots
  <2>2. old[i].amount > 0 => builder_payment_index_for_slot(payments.slot, old[i].slot) = i
    BY <1>3 DEF PaymentsConsistent
  <2> QED
    BY <2>1, <2>2, <1>2, IndexInjective
<1>11. CASE ~(old[i].amount > 0)
  <2> DEFINE a == payments.slot
             b == payments.latest_execution_payload_bid
             d == payments.builder_pending_withdrawals
             e == payments.paid
  <2>1. payments = [slot |-> a, latest_execution_payload_bid |-> b,
                    builder_pending_payments |-> old, builder_pending_withdrawals |-> d,
                    paid |-> e, error |-> "none"]
    BY Zenon DEF PaymentsConsistent
  <2>2. s = [payments EXCEPT !.builder_pending_payments = cleared]
    BY Zenon, <1>9, <1>11
  <2> HIDE DEF a, b, d, e, old, cleared, s, i
  <2>3. s = [slot |-> a, latest_execution_payload_bid |-> b,
             builder_pending_payments |-> cleared, builder_pending_withdrawals |-> d,
             paid |-> e, error |-> "none"]
    BY <2>1, <2>2
  <2>4. /\ s.builder_pending_payments = cleared /\ s.builder_pending_withdrawals = d
        /\ s.paid = payments.paid
    BY <2>3 DEF e
  <2>5. Released(s)
    BY ZenonT(40), <1>6, <1>7, <2>3, <2>4 DEF Released, a, b, e, old
  <2> QED
    BY <2>5 DEF s
<1>12. CASE old[i].amount > 0
  <2> DEFINE a == payments.slot
             b == payments.latest_execution_payload_bid
             queue == Append(payments.builder_pending_withdrawals, w)
             more == [payments.paid EXCEPT ![last] = @ + 1]
  <2>1. x = queue_builder_pending_withdrawal(payments, w)
    BY <1>12
  <2>2. w.slot = last
    BY <1>10, <1>12 DEF Owing
  <2>3. x.error = "none"
    <3>1. \/ x = [payments EXCEPT !.error = "BuilderPendingWithdrawalsFull"]
          \/ x = [payments EXCEPT !.builder_pending_withdrawals = queue,
                                  !.paid = [payments.paid EXCEPT ![w.slot] = @ + 1]]
      BY <2>1 DEF queue_builder_pending_withdrawal, Reject
    <3>2. "error" \in DOMAIN x
      <4>1. "error" \in DOMAIN payments
        BY DEF PaymentsConsistent
      <4> HIDE DEF x, w, queue
      <4> QED
        BY Zenon, <3>1, <4>1
    <3>3. s.error = "none"
      OBVIOUS
    <3> HIDE DEF x, s
    <3> QED
      BY <1>9, <3>2, <3>3
  <2>4. x = [slot |-> a, latest_execution_payload_bid |-> b,
             builder_pending_payments |-> old, builder_pending_withdrawals |-> queue,
             paid |-> more, error |-> "none"]
    <3> HIDE DEF w, x, last
    <3> QED
      BY Zenon, <2>1, <2>2, <2>3, Queued
  <2>5. last \in OpenSlots(payments)
    BY <1>3, <1>10, <1>12, OpenMember
  <2> HIDE DEF a, b, queue, more, old, cleared, s, i, x
  <2>6. s = [slot |-> a, latest_execution_payload_bid |-> b,
             builder_pending_payments |-> cleared, builder_pending_withdrawals |-> queue,
             paid |-> more, error |-> "none"]
    BY <1>9, <2>4 DEF cleared
  <2>7. /\ s.builder_pending_payments = cleared /\ s.builder_pending_withdrawals = queue
        /\ s.paid = more
    BY <2>6
  <2>8. Released(s)
    BY ZenonT(40), <1>6, <1>7, <1>8, <2>5, <2>6, <2>7 DEF Released, a, b, more, old
  <2> QED
    BY <2>8 DEF s
<1> QED
  BY <1>11, <1>12

\* A block on a consistent state, field by field: a live entry afterwards is the
\* one of the new bid, or one that the block found and did not release.
LEMMA BlockEffect ==
  ASSUME PaymentsConsistent, PaymentsBlock
  PROVE  \E s : LET bid == payments'.latest_execution_payload_bid
                    mine == SLOTS_PER_EPOCH + (payments.slot % SLOTS_PER_EPOCH)
                    new == payments'.builder_pending_payments
                IN /\ Released(s)
                   /\ payments' = [slot |-> payments.slot,
                                   latest_execution_payload_bid |-> bid,
                                   builder_pending_payments |-> new,
                                   builder_pending_withdrawals |->
                                      payments'.builder_pending_withdrawals,
                                   paid |-> s.paid,
                                   error |-> "none"]
                   /\ bid \in Bids /\ bid.slot = payments.slot
                   /\ new \in [WindowIndices -> BuilderPendingPayment]
                   /\ \A i \in WindowIndices :
                        /\ new[i].amount = 0 => new[i].weight = 0
                        /\ new[i].amount > 0 =>
                             \/ /\ i = mine /\ bid.value > 0
                                /\ new[i].slot = payments.slot /\ new[i].weight = 0
                             \/ /\ s.builder_pending_payments[i].amount > 0
                                /\ new[i].slot = s.builder_pending_payments[i].slot
<1> DEFINE bid == payments'.latest_execution_payload_bid
           mine == SLOTS_PER_EPOCH + (payments.slot % SLOTS_PER_EPOCH)
           new == payments'.builder_pending_payments
<1>1. PICK full \in BOOLEAN :
        LET s == IF full THEN release_parent_payment(payments) ELSE payments
            accepted == record_accepted_bid(s, bid, new[mine].proposer_index)
        IN /\ s.error = "none"
           /\ bid \in Bids
           /\ bid.slot = payments.slot
           /\ new \in [WindowIndices -> BuilderPendingPayment]
           /\ \A i \in WindowIndices :
                Operated(accepted.builder_pending_payments[i], new[i], i = mine)
           /\ payments' = [accepted EXCEPT
                !.builder_pending_payments = new,
                !.builder_pending_withdrawals = payments'.builder_pending_withdrawals]
  BY Zenon DEF PaymentsBlock
<1> DEFINE s == IF full THEN release_parent_payment(payments) ELSE payments
           accepted == record_accepted_bid(s, bid, new[mine].proposer_index)
<1>2. Released(s)
  BY <1>1, KeptPayments, ReleasedFromBid, ReleasedFromWindow
<1> HIDE DEF s, accepted
<1>3. /\ bid \in Bids /\ bid.slot = payments.slot
      /\ new \in [WindowIndices -> BuilderPendingPayment]
      /\ \A i \in WindowIndices :
           Operated(accepted.builder_pending_payments[i], new[i], i = mine)
      /\ payments' = [accepted EXCEPT
           !.builder_pending_payments = new,
           !.builder_pending_withdrawals = payments'.builder_pending_withdrawals]
  BY Zenon, <1>1 DEF s, accepted
<1> DEFINE a == payments.slot
           b == payments.latest_execution_payload_bid
           c == s.builder_pending_payments
           d == s.builder_pending_withdrawals
           e == s.paid
           entry == [weight |-> 0, amount |-> bid.value, builder_index |-> bid.builder_index,
                     proposer_index |-> new[mine].proposer_index, slot |-> bid.slot]
           w == IF bid.value = 0 THEN c ELSE [c EXCEPT ![mine] = entry]
<1>4. s = [slot |-> a, latest_execution_payload_bid |-> b, builder_pending_payments |-> c,
           builder_pending_withdrawals |-> d, paid |-> e, error |-> "none"]
  BY Zenon, <1>2 DEF Released
<1>5. accepted = [s EXCEPT !.latest_execution_payload_bid = bid, !.builder_pending_payments = w]
  BY <1>3 DEF accepted, record_accepted_bid
<1>6. c \in [WindowIndices -> BuilderPendingPayment]
  BY Zenon, <1>2 DEF Released
<1>7. mine \in WindowIndices
  <2>1. payments.slot % SLOTS_PER_EPOCH \in 0..(SLOTS_PER_EPOCH - 1)
    BY EpochSplit DEF PaymentsConsistent, Slots
  <2> QED
    BY <2>1, WindowAssumption DEF WindowIndices
<1> HIDE DEF a, b, c, d, e, w, mine, new, bid
<1>8. accepted = [slot |-> a, latest_execution_payload_bid |-> bid, builder_pending_payments |-> w,
                  builder_pending_withdrawals |-> d, paid |-> e, error |-> "none"]
  BY Zenon, <1>4, <1>5
<1>9. payments' = [slot |-> a, latest_execution_payload_bid |-> bid,
                   builder_pending_payments |-> new,
                   builder_pending_withdrawals |-> payments'.builder_pending_withdrawals,
                   paid |-> e, error |-> "none"]
  BY Zenon, <1>3, <1>8
<1>10. accepted.builder_pending_payments = w
  BY <1>8
<1>11. \A i \in WindowIndices :
         /\ w[i] \in [weight : Nat, amount : Nat, builder_index : Int,
                       proposer_index : Nat, slot : Slots]
         /\ \/ w[i] = c[i]
            \/ /\ i = mine /\ bid.value > 0
               /\ w[i].amount = bid.value /\ w[i].slot = bid.slot /\ w[i].weight = 0
  <2>1. entry \in [weight : Nat, amount : Nat, builder_index : Int,
                   proposer_index : Nat, slot : Slots]
    BY <1>3, <1>7 DEF Bids, BuilderPendingPayment
  <2>2. bid.value \in Nat
    BY <1>3 DEF Bids
  <2> QED
    BY <1>6, <1>7, <2>1, <2>2 DEF w, BuilderPendingPayment
<1>12. \A i \in WindowIndices :
         /\ c[i].amount = 0 => c[i].weight = 0
  <2>1. \A i \in WindowIndices : c[i] = payments.builder_pending_payments[i] \/ c[i] = NoPayment
    BY Zenon, <1>2 DEF Released, c
  <2>2. \A i \in WindowIndices : payments.builder_pending_payments[i].amount = 0 =>
          payments.builder_pending_payments[i].weight = 0
    BY DEF PaymentsConsistent
  <2> QED
    BY <2>1, <2>2 DEF NoPayment
<1>13. \A i \in WindowIndices :
         /\ new[i].amount = 0 => new[i].weight = 0
         /\ new[i].amount > 0 =>
              \/ /\ i = mine /\ bid.value > 0 /\ new[i].slot = bid.slot /\ new[i].weight = 0
              \/ c[i].amount > 0 /\ new[i].slot = c[i].slot
  <2> SUFFICES ASSUME NEW i \in WindowIndices
               PROVE  /\ new[i].amount = 0 => new[i].weight = 0
                      /\ new[i].amount > 0 =>
                           \/ /\ i = mine /\ bid.value > 0
                              /\ new[i].slot = bid.slot /\ new[i].weight = 0
                           \/ c[i].amount > 0 /\ new[i].slot = c[i].slot
    OBVIOUS
  <2>1. \/ new[i] = NoPayment
        \/ /\ new[i] = [w[i] EXCEPT !.weight = new[i].weight]
           /\ new[i].weight # w[i].weight => w[i].amount > 0 /\ ~(i = mine)
    BY <1>3, <1>10 DEF Operated
  <2>2. CASE new[i] = NoPayment
    BY <2>2 DEF NoPayment
  <2>3. CASE /\ new[i] = [w[i] EXCEPT !.weight = new[i].weight]
             /\ new[i].weight # w[i].weight => w[i].amount > 0 /\ ~(i = mine)
    <3>1. new[i].amount = w[i].amount /\ new[i].slot = w[i].slot
      BY <1>11, <2>3
    <3>2. w[i].amount \in Nat /\ w[i].weight \in Nat
      BY <1>11
    <3> QED
      BY <1>11, <1>12, <2>3, <3>1, <3>2
  <2> QED
    BY <2>1, <2>2, <2>3
<1>14. /\ Released(s) /\ bid \in Bids /\ bid.slot = payments.slot
       /\ new \in [WindowIndices -> BuilderPendingPayment]
  BY <1>2, <1>3
<1> QED
  BY ZenonT(60), <1>9, <1>13, <1>14 DEF a, c, e, mine, new, bid

LEMMA BlockStep ==
  ASSUME PaymentsConsistent, PaymentsBlock
  PROVE  PaymentsConsistent' /\ L!LedgerNext
<1> DEFINE bid == payments'.latest_execution_payload_bid
           mine == SLOTS_PER_EPOCH + (payments.slot % SLOTS_PER_EPOCH)
           old == payments.builder_pending_payments
           new == payments'.builder_pending_payments
           last == payments.latest_execution_payload_bid.slot
           at == payments.slot
<1>1. PICK s :
        /\ Released(s)
        /\ payments' = [slot |-> at, latest_execution_payload_bid |-> bid,
                        builder_pending_payments |-> new,
                        builder_pending_withdrawals |-> payments'.builder_pending_withdrawals,
                        paid |-> s.paid, error |-> "none"]
        /\ bid \in Bids /\ bid.slot = at
        /\ new \in [WindowIndices -> BuilderPendingPayment]
        /\ \A i \in WindowIndices :
             /\ new[i].amount = 0 => new[i].weight = 0
             /\ new[i].amount > 0 =>
                  \/ /\ i = mine /\ bid.value > 0
                     /\ new[i].slot = at /\ new[i].weight = 0
                  \/ /\ s.builder_pending_payments[i].amount > 0
                     /\ new[i].slot = s.builder_pending_payments[i].slot
  BY Zenon, BlockEffect
<1>2. payments'.slot = at /\ payments'.paid = s.paid
  BY <1>1
<1>3. /\ at \in Slots /\ at \in Nat /\ last \in Slots /\ last < at /\ at <= MaxSlot
      /\ payments.paid \in [Slots -> Nat]
      /\ Slots \subseteq Nat /\ bid.value \in Nat
  <2>1. last < at
    BY Zenon DEF PaymentsBlock
  <2>2. at \in Slots /\ payments.paid \in [Slots -> Nat] /\ payments.latest_execution_payload_bid \in Bids
    BY Zenon DEF PaymentsConsistent
  <2>3. last \in Slots /\ bid.value \in Nat
    BY <1>1, <2>2 DEF Bids
  <2> QED
    BY <2>1, <2>2, <2>3, WindowAssumption DEF Slots
<1>4. \A i \in WindowIndices :
        s.builder_pending_payments[i].amount > 0 =>
          /\ s.builder_pending_payments[i] = old[i]
          /\ old[i].amount > 0 /\ old[i].slot <= last
          /\ builder_payment_index_for_slot(at, old[i].slot) = i
  <2>1. \A i \in WindowIndices : \/ s.builder_pending_payments[i] = old[i]
                                 \/ s.builder_pending_payments[i] = NoPayment
    BY Zenon, <1>1 DEF Released
  <2>2. NoPayment.amount = 0
    BY DEF NoPayment
  <2> QED
    BY <2>1, <2>2 DEF PaymentsConsistent
<1>5. \/ s.paid = payments.paid
      \/ /\ last \in OpenSlots(payments)
         /\ s.paid = [payments.paid EXCEPT ![last] = @ + 1]
         /\ \A i \in WindowIndices :
              s.builder_pending_payments[i].amount > 0 => s.builder_pending_payments[i].slot # last
  BY Zenon, <1>1 DEF Released
<1>6. \A x : x \in OpenSlots(payments') =>
        \/ x = at /\ bid.value > 0
        \/ /\ x \in OpenSlots(payments) /\ x <= last
           /\ x = last => s.paid = payments.paid
  <2> SUFFICES ASSUME NEW x \in OpenSlots(payments'), ~(x = at /\ bid.value > 0)
               PROVE  /\ x \in OpenSlots(payments) /\ x <= last
                      /\ x = last => s.paid = payments.paid
    OBVIOUS
  <2>1. \/ \E i \in WindowIndices : new[i].amount > 0 /\ new[i].slot = x
        \/ bid.value > 0 /\ bid.slot = x
    BY OpenMember
  <2>2. PICK i \in WindowIndices : new[i].amount > 0 /\ new[i].slot = x
    BY <1>1, <2>1
  <2>3. s.builder_pending_payments[i].amount > 0 /\ s.builder_pending_payments[i].slot = x
    BY <1>1, <2>2
  <2>4. old[i].amount > 0 /\ old[i].slot = x /\ x <= last
    BY <1>4, <2>3
  <2>5. x \in OpenSlots(payments)
    BY <2>4, OpenMember
  <2> QED
    BY <1>5, <2>3, <2>4, <2>5
<1>7. \A x \in Slots : /\ payments.paid[x] \in Nat /\ payments.paid[x] <= 1
                       /\ x \in OpenSlots(payments) => payments.paid[x] = 0
                       /\ x > last => payments.paid[x] = 0
  BY DEF PaymentsConsistent
<1>8. \A x \in Slots : \/ s.paid[x] = payments.paid[x]
                       \/ /\ x = last /\ s.paid[x] = payments.paid[x] + 1
                          /\ x \in OpenSlots(payments) /\ x \notin OpenSlots(payments')
  <2>1. CASE s.paid = payments.paid
    BY <2>1
  <2>2. CASE s.paid # payments.paid
    <3>1. last \notin OpenSlots(payments')
      BY <1>3, <1>6, <2>2
    <3> QED
      BY <1>3, <1>5, <2>2, <3>1
  <2> QED
    BY <2>1, <2>2
<1>9. s.paid \in [Slots -> Nat]
  BY <1>3, <1>5
<1>10. \A x \in Slots : /\ s.paid[x] <= 1
                        /\ x \in OpenSlots(payments') => s.paid[x] = 0
                        /\ x > at => s.paid[x] = 0
  <2> SUFFICES ASSUME NEW x \in Slots
               PROVE  /\ s.paid[x] <= 1
                      /\ x \in OpenSlots(payments') => s.paid[x] = 0
                      /\ x > at => s.paid[x] = 0
    OBVIOUS
  <2>1. x \in Nat /\ last \in Nat
    BY Zenon, <1>3
  <2>2. x \in OpenSlots(payments') => x \in OpenSlots(payments) \/ x = at
    BY <1>6
  <2>3. \/ s.paid[x] = payments.paid[x]
        \/ /\ x = last /\ s.paid[x] = payments.paid[x] + 1
           /\ x \in OpenSlots(payments) /\ x \notin OpenSlots(payments')
    BY <1>8
  <2>4. /\ payments.paid[x] \in Nat /\ payments.paid[x] <= 1
        /\ x \in OpenSlots(payments) => payments.paid[x] = 0
        /\ x > last => payments.paid[x] = 0
    BY <1>7
  <2> QED
    BY <1>3, <2>1, <2>2, <2>3, <2>4
<1>11. \A i \in WindowIndices :
         /\ new[i].amount = 0 => new[i].weight = 0
         /\ new[i].amount > 0 =>
              /\ new[i].slot <= bid.slot
              /\ builder_payment_index_for_slot(at, new[i].slot) = i
              /\ new[i].slot = bid.slot => new[i].weight = 0
  <2>1. builder_payment_index_for_slot(at, at) = mine
    BY <1>3, IndexOfSlot
  <2>2. \A i \in WindowIndices : old[i].slot \in Nat
    BY <1>3 DEF PaymentsConsistent, BuilderPendingPayment
  <2> HIDE DEF mine
  <2> QED
    BY <1>1, <1>3, <1>4, <2>1, <2>2
<1>12. payments' = [slot |-> payments'.slot, latest_execution_payload_bid |-> bid,
                    builder_pending_payments |-> new,
                    builder_pending_withdrawals |-> payments'.builder_pending_withdrawals,
                    paid |-> payments'.paid, error |-> "none"]
  BY Zenon, <1>1, <1>2
<1>13. PaymentsConsistent'
  <2>1. bid.slot <= payments'.slot /\ payments'.slot \in Slots
    BY <1>1, <1>2, <1>3
  <2> QED
    BY ZenonT(60), <1>1, <1>2, <1>9, <1>10, <1>11, <1>12, <2>1 DEF PaymentsConsistent
<1>14. L!LedgerNext
  <2>1. bid.slot \in last..MaxSlot
    BY <1>1, <1>3 DEF Slots
  <2>2. OpenSlots(payments') \subseteq Slots
    BY <1>1, <1>3, OpenMember DEF Bids, BuilderPendingPayment
  <2>3. DOMAIN payments'.paid = Slots
    BY <1>2, <1>9
  <2>4. \A x \in Slots : L!Pays(x) \/ L!Keeps(x) \/ L!Wins(x)
    <3> SUFFICES ASSUME NEW x \in Slots
                 PROVE  L!Pays(x) \/ L!Keeps(x) \/ L!Wins(x)
      OBVIOUS
    <3>1. CASE s.paid[x] # payments.paid[x]
      BY <1>2, <1>8, <3>1 DEF L!Pays
    <3>2. CASE s.paid[x] = payments.paid[x] /\ x = at /\ bid.value > 0
      <4>1. x \in OpenSlots(payments')
        BY <1>1, <3>2, OpenMember
      <4> QED
        BY <1>1, <1>2, <1>3, <3>2, <4>1 DEF L!Wins
    <3>3. CASE s.paid[x] = payments.paid[x] /\ ~(x = at /\ bid.value > 0)
      BY <1>2, <1>6, <3>3 DEF L!Keeps
    <3> QED
      BY <3>1, <3>2, <3>3
  <2> QED
    BY <2>1, <2>2, <2>3, <2>4 DEF L!LedgerNext, L!Slots, Slots
<1> QED
  BY <1>13, <1>14

-----------------------------------------------------------------------------
\* The payment fields stay consistent (PaymentsConsistent), whatever the rest of
\* the state transition does to them.
THEOREM Consistency == Payments => []PaymentsConsistent
<1>1. PaymentsConsistent /\ [PaymentsNext]_payments => PaymentsConsistent'
  <2> SUFFICES ASSUME PaymentsConsistent, [PaymentsNext]_payments
               PROVE  PaymentsConsistent'
    OBVIOUS
  <2>1. CASE PaymentsSlot
    BY <2>1, PlainSlot, BoundarySlot
  <2>2. CASE PaymentsBlock
    BY <2>2, BlockStep
  <2>3. CASE UNCHANGED payments
    BY <2>3 DEF PaymentsConsistent
  <2> QED
    BY <2>1, <2>2, <2>3 DEF PaymentsNext
<1> QED
  BY InitConsistent, <1>1, PTL DEF Payments

\* No bid is paid twice, although a child block, the quorum rule and the aged-out
\* commitment can each release it (settle_builder_payment, payments.rs).
THEOREM NeverPaidTwice == Payments => []PaidAtMostOnce
<1>1. PaymentsConsistent => PaidAtMostOnce
  BY DEF PaymentsConsistent, PaidAtMostOnce
<1> QED
  BY <1>1, Consistency, PTL

\* The payment window implements the ledger of payments (LedgerSpec): each step of
\* the window is a step of the ledger or leaves it alone.
THEOREM ImplementsLedger == Payments => LedgerSpec
<1>1. PaymentsInit => L!LedgerInit
  <2> SUFFICES ASSUME PaymentsInit PROVE L!LedgerInit
    OBVIOUS
  <2>1. payments.latest_execution_payload_bid.slot \in Slots /\ payments.paid = [s \in Slots |-> 0]
    BY DEF PaymentsInit
  <2>2. OpenSlots(payments) = {}
    BY OpenMember DEF PaymentsInit, NoPayment
  <2> QED
    BY <2>1, <2>2 DEF L!LedgerInit, L!Slots, Slots
<1>2. PaymentsConsistent /\ [PaymentsNext]_payments => [L!LedgerNext]_(L!ledger)
  <2> SUFFICES ASSUME PaymentsConsistent, [PaymentsNext]_payments
               PROVE  L!LedgerNext \/ UNCHANGED L!ledger
    OBVIOUS
  <2>1. CASE PaymentsSlot
    BY <2>1, PlainSlot, BoundarySlot
  <2>2. CASE PaymentsBlock
    BY <2>2, BlockStep
  <2>3. CASE UNCHANGED payments
    BY <2>3 DEF L!ledger
  <2> QED
    BY <2>1, <2>2, <2>3 DEF PaymentsNext
<1> QED
  BY <1>1, <1>2, Consistency, PTL DEF Payments, LedgerSpec, L!Ledger

-----------------------------------------------------------------------------
(***************************************************************************)
(* The follower.                                                           *)
(***************************************************************************)
BackfillType == [peers : Seq(Peers), in_flight : Peers \cup {NoPeer}]
NoDuplicates(s) == \A i, j \in DOMAIN s : s[i] = s[j] => i = j

\* The requests, those lost and the connections agree with a BackfillState.  Beyond
\* the two properties: a peer with a failure still to be reported is not a candidate,
\* unless it is the one in flight, so it cannot be asked again before.
Agrees(bf, reqs, gone, conns) ==
  /\ bf \in BackfillType /\ NoDuplicates(bf.peers)
  /\ conns \in [Peers -> Nat]
  /\ \A r \in reqs : r.peer \in Peers /\ r.peer = bf.in_flight
  /\ \A r, q \in reqs : r = q
  /\ bf.in_flight # NoPeer => \E r \in reqs \cup gone : r.peer = bf.in_flight
  /\ \A r \in gone : r.peer \in Peers /\ (r.peer = bf.in_flight \/ r.peer \notin Range(bf.peers))
  /\ \A r \in gone, q \in reqs : r.peer # q.peer
  /\ \A p \in Range(bf.peers) : conns[p] > 0
  /\ bf.in_flight # NoPeer => conns[bf.in_flight] > 0

BackfillAgrees == Agrees(backfill, requests, lost, connections)

--------------------------------------------------------------------------------
(* The list of candidates *)

\* retain takes out one peer and keeps the others.
LEMMA RetainRemoves ==
  ASSUME NEW s \in Seq(Peers), NoDuplicates(s), NEW p
  PROVE  /\ retain(s, p) \in Seq(Peers)
         /\ NoDuplicates(retain(s, p))
         /\ Range(retain(s, p)) = Range(s) \ {p}
<1>1. CASE p \notin Range(s)
  BY <1>1 DEF retain
<1>2. CASE p \in Range(s)
  <2> DEFINE k == CHOOSE i \in DOMAIN s : s[i] = p
             n == Len(s)
             t == [i \in 1 .. n - 1 |-> s[IF i < k THEN i ELSE i + 1]]
  <2>1. n \in Nat /\ DOMAIN s = 1..n /\ \A i \in 1..n : s[i] \in Peers
    OBVIOUS
  <2>2. k \in 1..n /\ s[k] = p
    BY <1>2, <2>1 DEF Range
  <2>3. retain(s, p) = t
    BY <1>2 DEF retain
  <2>4. \A i, j \in 1..n : s[i] = s[j] => i = j
    BY <2>1 DEF NoDuplicates
  <2> HIDE DEF k, n
  <2>5. n - 1 \in Nat /\ DOMAIN t = 1 .. n - 1
    BY <2>1, <2>2
  <2>6. \A i \in 1 .. n - 1 : t[i] \in Peers /\ t[i] # p
    BY <2>1, <2>2, <2>4
  <2>7. t \in Seq(Peers)
    BY <2>5, <2>6
  <2>8. NoDuplicates(t)
    BY <2>1, <2>2, <2>4, <2>5 DEF NoDuplicates
  <2>9. ASSUME NEW q \in Range(s) \ {p}
        PROVE  q \in Range(t)
    <3>1. PICK i \in 1..n : s[i] = q
      BY <2>1 DEF Range
    <3>2. i # k
      BY <2>2, <3>1
    <3>3. CASE i < k
      <4>1. i \in 1 .. n - 1 /\ t[i] = q
        BY <2>1, <2>2, <3>1, <3>3
      <4> QED BY <4>1, <2>5 DEF Range
    <3>4. CASE i > k
      <4>1. i - 1 \in 1 .. n - 1 /\ t[i - 1] = q
        BY <2>1, <2>2, <3>1, <3>4
      <4> QED BY <4>1, <2>5 DEF Range
    <3> QED BY <3>2, <3>3, <3>4, <2>1, <2>2
  <2>10. ASSUME NEW i \in 1 .. n - 1
         PROVE  t[i] \in Range(s) \ {p}
    <3>1. t[i] # p
      BY <2>6
    <3>2. t[i] \in Range(s)
      BY <2>1, <2>2 DEF Range
    <3> QED BY <3>1, <3>2
  <2>11. Range(t) = Range(s) \ {p}
    <3>1. \A q \in Range(t) : q \in Range(s) \ {p}
      BY <2>5, <2>10 DEF Range
    <3> QED BY <3>1, <2>9
  <2> QED BY <2>3, <2>7, <2>8, <2>11
<1> QED BY <1>1, <1>2

--------------------------------------------------------------------------------
(* BackfillState, field by field *)

LEMMA CompleteFields ==
  ASSUME NEW bf \in BackfillType, NEW p \in Peers
  PROVE  /\ complete(bf, p) \in BackfillType
         /\ complete(bf, p).peers = bf.peers
         /\ complete(bf, p).in_flight = IF bf.in_flight = p THEN NoPeer ELSE bf.in_flight
BY DEF complete, BackfillType

LEMMA RemovePeerFields ==
  ASSUME NEW bf \in BackfillType, NoDuplicates(bf.peers), NEW p \in Peers
  PROVE  /\ remove_peer(bf, p) \in BackfillType
         /\ NoDuplicates(remove_peer(bf, p).peers)
         /\ Range(remove_peer(bf, p).peers) = Range(bf.peers) \ {p}
         /\ remove_peer(bf, p).in_flight = IF bf.in_flight = p THEN NoPeer ELSE bf.in_flight
<1> DEFINE cut == [bf EXCEPT !.peers = retain(@, p)]
<1>1. bf.peers \in Seq(Peers)
  BY DEF BackfillType
<1>2. /\ retain(bf.peers, p) \in Seq(Peers)
      /\ NoDuplicates(retain(bf.peers, p))
      /\ Range(retain(bf.peers, p)) = Range(bf.peers) \ {p}
  BY <1>1, RetainRemoves
<1>3. /\ cut \in BackfillType
      /\ cut.peers = retain(bf.peers, p)
      /\ cut.in_flight = bf.in_flight
  BY <1>2 DEF BackfillType
<1>4. remove_peer(bf, p) = complete(cut, p)
  BY DEF remove_peer
<1> HIDE DEF cut
<1> QED BY <1>2, <1>3, <1>4, CompleteFields

LEMMA AddPeerFields ==
  ASSUME NEW bf \in BackfillType, NoDuplicates(bf.peers), NEW p \in Peers
  PROVE  /\ add_peer(bf, p) \in BackfillType
         /\ NoDuplicates(add_peer(bf, p).peers)
         /\ Range(add_peer(bf, p).peers) = Range(bf.peers) \cup {p}
         /\ add_peer(bf, p).in_flight = bf.in_flight
<1>1. CASE p \in Range(bf.peers)
  BY <1>1 DEF add_peer
<1>2. CASE p \notin Range(bf.peers)
  <2> DEFINE s == bf.peers
             t == Append(s, p)
  <2>1. s \in Seq(Peers)
    BY DEF BackfillType
  <2>2. /\ add_peer(bf, p) \in BackfillType
        /\ add_peer(bf, p).peers = t
        /\ add_peer(bf, p).in_flight = bf.in_flight
    <3>1. add_peer(bf, p) = [bf EXCEPT !.peers = t]
      BY <1>2, Zenon DEF add_peer
    <3>2. t \in Seq(Peers)
      BY <2>1
    <3> HIDE DEF t
    <3>3. /\ [bf EXCEPT !.peers = t] \in BackfillType
          /\ [bf EXCEPT !.peers = t].peers = t
          /\ [bf EXCEPT !.peers = t].in_flight = bf.in_flight
      BY <3>2 DEF BackfillType
    <3> QED BY <3>1, <3>3, Zenon
  <2> HIDE DEF s
  <2>3. /\ DOMAIN s = 1 .. Len(s) /\ Len(s) \in Nat
        /\ DOMAIN t = 1 .. Len(s) + 1
        /\ \A i \in 1 .. Len(s) : t[i] = s[i]
        /\ t[Len(s) + 1] = p
    BY <2>1
  <2> HIDE DEF t
  <2>4. \A i \in 1 .. Len(s) : s[i] # p
    BY <1>2, <2>3 DEF Range, s
  <2>5. NoDuplicates(t)
    BY <2>3, <2>4 DEF NoDuplicates, s
  <2>6. Range(t) = Range(s) \cup {p}
    BY <2>3 DEF Range
  <2> QED BY <2>2, <2>5, <2>6 DEF s
<1> QED BY <1>1, <1>2

--------------------------------------------------------------------------------
(* Asking *)

\* One more request keeps the agreement: it is sent only with none in flight, and to
\* a candidate.
LEMMA RequestAgrees ==
  ASSUME NEW bf, NEW known, NEW slot, NEW pending, NEW gone, NEW conns,
         Agrees(bf, pending, gone, conns),
         request_backfill(bf, known, slot, pending)
  PROVE  Agrees(backfill', requests', gone, conns)
<1> DEFINE p == next_peer(bf)
           asked == IF p = NoPeer THEN {} ELSE backfill_request(known, slot)
           new == {[peer |-> p, start |-> q.start, count |-> q.count] : q \in asked}
<1>1. /\ backfill' = IF asked = {} THEN bf ELSE start(bf, p)
      /\ requests' = pending \cup new
  BY DEF request_backfill
<1>2. asked = {} \/ \E q : asked = {q}
  BY DEF backfill_request
<1>3. CASE asked = {}
  <2>1. new = {}
    BY <1>3
  <2> QED BY <1>1, <1>3, <2>1
<1>4. CASE asked # {}
  <2>1. p # NoPeer
    BY <1>4
  <2>2. bf \in BackfillType /\ NoDuplicates(bf.peers) /\ bf.peers \in Seq(Peers)
    BY DEF Agrees, BackfillType
  <2>3. bf.in_flight = NoPeer /\ bf.peers # <<>> /\ p = Last(bf.peers)
    BY <2>1 DEF next_peer
  <2>4. p \in Range(bf.peers) /\ p \in Peers
    <3>1. Len(bf.peers) \in 1 .. Len(bf.peers) /\ DOMAIN bf.peers = 1 .. Len(bf.peers)
      BY <2>2, <2>3
    <3> QED BY <2>2, <2>3, <3>1 DEF Range, Last
  <2>5. pending = {}
    BY <2>3, FollowerAssumption DEF Agrees
  <2>6. PICK r : new = {r} /\ r.peer = p
    <3>1. PICK q : asked = {q}
      BY <1>2, <1>4
    <3> HIDE DEF asked, p
    <3> DEFINE r == [peer |-> p, start |-> q.start, count |-> q.count]
    <3>2. new = {r} /\ r.peer = p
      BY <3>1
    <3> QED BY Zenon, <3>2
  <2>7. /\ backfill' \in BackfillType
        /\ backfill'.peers = bf.peers
        /\ backfill'.in_flight = p
    BY <1>1, <1>4, <2>2, <2>4 DEF start, BackfillType
  <2>8. \A q \in gone : q.peer \in Peers /\ q.peer # p /\ q.peer \notin Range(bf.peers)
    BY <2>3, <2>4, FollowerAssumption DEF Agrees
  <2>9. requests' = {r}
    BY <1>1, <2>5, <2>6
  <2>10. conns \in [Peers -> Nat] /\ \A q \in Range(bf.peers) : conns[q] > 0
    BY DEF Agrees
  <2> HIDE DEF p, asked, new
  <2> QED BY <2>2, <2>4, <2>6, <2>7, <2>8, <2>9, <2>10 DEF Agrees
<1> QED BY <1>3, <1>4

--------------------------------------------------------------------------------
(* The invariant *)

LEMMA InitAgrees == Init => BackfillAgrees
<1> SUFFICES ASSUME Init PROVE BackfillAgrees
  OBVIOUS
<1>1. backfill = [peers |-> <<>>, in_flight |-> NoPeer] /\ requests = {} /\ lost = {}
  BY DEF Init
<1>2. backfill \in BackfillType /\ backfill.peers = <<>> /\ backfill.in_flight = NoPeer
  BY <1>1 DEF BackfillType
<1>3. Range(<<>>) = {} /\ NoDuplicates(<<>>)
  BY DEF Range, NoDuplicates
<1>4. connections \in [Peers -> Nat]
  BY DEF Init
<1> QED BY <1>1, <1>2, <1>3, <1>4 DEF BackfillAgrees, Agrees

\* The state an answer or a failure of p leaves before the next request, whether
\* or not p stays a candidate.
LEMMA CompletedAgrees ==
  ASSUME BackfillAgrees, NEW p \in Peers, NEW r \in requests, r.peer = p
  PROVE  /\ Agrees(complete(backfill, p), requests \ {r}, lost, connections)
         /\ Agrees(remove_peer(complete(backfill, p), p), requests \ {r}, lost, connections)
<1> DEFINE bf == complete(backfill, p)
           cut == remove_peer(bf, p)
<1>1. backfill \in BackfillType /\ NoDuplicates(backfill.peers)
  BY DEF BackfillAgrees, Agrees
<1>2. backfill.in_flight = p /\ requests = {r} /\ \A q \in lost : q.peer # p
  BY DEF BackfillAgrees, Agrees
<1>3. bf \in BackfillType /\ bf.peers = backfill.peers /\ bf.in_flight = NoPeer
  BY <1>1, <1>2, CompleteFields
<1> HIDE DEF bf
<1>4. /\ cut \in BackfillType /\ NoDuplicates(cut.peers)
      /\ Range(cut.peers) = Range(backfill.peers) \ {p}
      /\ cut.in_flight = NoPeer
  BY <1>1, <1>3, RemovePeerFields, FollowerAssumption
<1> HIDE DEF cut
<1>5. Agrees(bf, requests \ {r}, lost, connections)
  BY <1>1, <1>2, <1>3 DEF BackfillAgrees, Agrees
<1>6. Agrees(cut, requests \ {r}, lost, connections)
  BY <1>1, <1>2, <1>4 DEF BackfillAgrees, Agrees
<1> QED BY <1>5, <1>6 DEF bf, cut

\* The state the report of a lost request of p leaves before the next request.
LEMMA FailureAgrees ==
  ASSUME BackfillAgrees, NEW p \in Peers, NEW r \in lost, r.peer = p
  PROVE  Agrees(remove_peer(complete(backfill, p), p), requests, lost \ {r}, connections)
<1> DEFINE bf == complete(backfill, p)
           cut == remove_peer(bf, p)
<1>1. backfill \in BackfillType /\ NoDuplicates(backfill.peers)
  BY DEF BackfillAgrees, Agrees
<1>2. \A q \in requests : q.peer # p
  BY DEF BackfillAgrees, Agrees
<1>3. /\ bf \in BackfillType /\ bf.peers = backfill.peers
      /\ bf.in_flight = IF backfill.in_flight = p THEN NoPeer ELSE backfill.in_flight
  BY <1>1, CompleteFields
<1> HIDE DEF bf
<1>4. /\ cut \in BackfillType /\ NoDuplicates(cut.peers)
      /\ Range(cut.peers) = Range(backfill.peers) \ {p}
      /\ cut.in_flight = IF backfill.in_flight = p THEN NoPeer ELSE backfill.in_flight
  BY <1>1, <1>3, RemovePeerFields, FollowerAssumption
<1> HIDE DEF cut
<1>5. Agrees(cut, requests, lost \ {r}, connections)
  BY <1>1, <1>2, <1>4 DEF BackfillAgrees, Agrees
<1> QED BY <1>5 DEF bf, cut

\* The state a new connection of p leaves before the next request.
LEMMA EstablishedAgrees ==
  ASSUME BackfillAgrees, NEW p \in Peers, Lost(p) = {}
  PROVE  Agrees(add_peer(backfill, p), requests, lost, [connections EXCEPT ![p] = @ + 1])
<1> DEFINE bf == add_peer(backfill, p)
           conns == [connections EXCEPT ![p] = @ + 1]
<1>1. backfill \in BackfillType /\ NoDuplicates(backfill.peers)
  BY DEF BackfillAgrees, Agrees
<1>2. /\ bf \in BackfillType /\ NoDuplicates(bf.peers)
      /\ Range(bf.peers) = Range(backfill.peers) \cup {p}
      /\ bf.in_flight = backfill.in_flight
  BY <1>1, AddPeerFields
<1>3. /\ conns \in [Peers -> Nat]
      /\ conns[p] > 0
      /\ \A q \in Peers : connections[q] > 0 => conns[q] > 0
  BY DEF BackfillAgrees, Agrees
<1>4. \A q \in Range(backfill.peers) : q \in Peers /\ conns[q] > 0
  BY <1>1, <1>3 DEF BackfillAgrees, Agrees, BackfillType, Range
<1>5. backfill.in_flight # NoPeer => conns[backfill.in_flight] > 0
  BY <1>1, <1>3 DEF BackfillAgrees, Agrees, BackfillType
<1>6. \A r \in lost : r.peer # p
  BY DEF Lost
<1> HIDE DEF bf, conns
<1>7. Agrees(bf, requests, lost, conns)
  BY <1>1, <1>2, <1>3, <1>4, <1>5, <1>6 DEF BackfillAgrees, Agrees
<1> QED BY <1>7 DEF bf, conns

\* The state the end of p's last connection leaves before the next request.
LEMMA GoneAgrees ==
  ASSUME BackfillAgrees, NEW p \in Peers, connections[p] = 1
  PROVE  Agrees(remove_peer(backfill, p), requests \ Live(p), lost \cup Live(p),
                [connections EXCEPT ![p] = @ - 1])
<1> DEFINE bf == remove_peer(backfill, p)
           conns == [connections EXCEPT ![p] = @ - 1]
<1>1. backfill \in BackfillType /\ NoDuplicates(backfill.peers)
  BY DEF BackfillAgrees, Agrees
<1>2. /\ bf \in BackfillType /\ NoDuplicates(bf.peers)
      /\ Range(bf.peers) = Range(backfill.peers) \ {p}
      /\ bf.in_flight = IF backfill.in_flight = p THEN NoPeer ELSE backfill.in_flight
  BY <1>1, RemovePeerFields
<1>3. /\ conns \in [Peers -> Nat]
      /\ \A q \in Peers : q # p => conns[q] = connections[q]
  BY DEF BackfillAgrees, Agrees
<1>a. \A q \in Range(backfill.peers) : q \in Peers /\ connections[q] > 0
  BY <1>1 DEF BackfillAgrees, Agrees, BackfillType, Range
<1> HIDE DEF bf, conns
<1>4. \A q \in Range(bf.peers) : q \in Peers /\ conns[q] > 0
  BY <1>2, <1>3, <1>a
<1>5. bf.in_flight # NoPeer => conns[bf.in_flight] > 0
  BY <1>1, <1>2, <1>3 DEF BackfillAgrees, Agrees, BackfillType
<1>6. \A r \in requests \ Live(p) : r.peer # p
  BY DEF Live
<1>7. \A r \in Live(p) : r \in requests /\ r.peer = p
  BY DEF Live
<1>8. Agrees(bf, requests \ Live(p), lost \cup Live(p), conns)
  <2> DEFINE reqs == requests \ Live(p)
             gone == lost \cup Live(p)
  <2>1. \A r \in reqs : r.peer \in Peers /\ r.peer = bf.in_flight
    BY <1>2, <1>6 DEF BackfillAgrees, Agrees
  <2>2. \A r, q \in reqs : r = q
    BY DEF BackfillAgrees, Agrees
  <2>3. bf.in_flight # NoPeer => \E r \in reqs \cup gone : r.peer = bf.in_flight
    BY <1>2 DEF BackfillAgrees, Agrees
  <2>4. \A r \in gone : r.peer \in Peers /\ (r.peer = bf.in_flight \/ r.peer \notin Range(bf.peers))
    BY <1>2, <1>7 DEF BackfillAgrees, Agrees
  <2>5. \A r \in gone, q \in reqs : r.peer # q.peer
    BY <1>6, <1>7 DEF BackfillAgrees, Agrees
  <2> HIDE DEF reqs, gone
  <2>6. Agrees(bf, reqs, gone, conns)
    BY <1>2, <1>3, <1>4, <1>5, <2>1, <2>2, <2>3, <2>4, <2>5 DEF Agrees
  <2> QED BY <2>6 DEF reqs, gone
<1> QED BY <1>8 DEF bf, conns

\* A connection closes while p has another: its request may be lost with it.
LEMMA ClosedAgrees ==
  ASSUME BackfillAgrees, NEW p \in Peers, connections[p] > 0, connections[p] # 1,
         NEW dropped \in SUBSET Live(p)
  PROVE  Agrees(backfill, requests \ dropped, lost \cup dropped,
                [connections EXCEPT ![p] = @ - 1])
<1> DEFINE conns == [connections EXCEPT ![p] = @ - 1]
<1>1. backfill \in BackfillType /\ NoDuplicates(backfill.peers)
  BY DEF BackfillAgrees, Agrees
<1>2. /\ conns \in [Peers -> Nat]
      /\ \A q \in Peers : connections[q] > 0 => conns[q] > 0
  BY DEF BackfillAgrees, Agrees
<1>3. \A q \in Range(backfill.peers) : q \in Peers /\ conns[q] > 0
  BY <1>1, <1>2 DEF BackfillAgrees, Agrees, BackfillType, Range
<1>4. backfill.in_flight # NoPeer => conns[backfill.in_flight] > 0
  BY <1>1, <1>2 DEF BackfillAgrees, Agrees, BackfillType
<1>5. \A r \in dropped : r \in requests /\ r.peer = p
  BY DEF Live
<1> HIDE DEF conns
<1>6. Agrees(backfill, requests \ dropped, lost \cup dropped, conns)
  BY <1>1, <1>2, <1>3, <1>4, <1>5 DEF BackfillAgrees, Agrees
<1> QED BY <1>6 DEF conns

\* Every event of the loop keeps the agreement.
LEMMA StepAgrees == BackfillAgrees /\ [Next]_vars => BackfillAgrees'
<1> SUFFICES ASSUME BackfillAgrees, [Next]_vars PROVE BackfillAgrees'
  OBVIOUS
<1>a. Agrees(backfill, requests, lost, connections)
  BY DEF BackfillAgrees
<1>b. Agrees(backfill', requests', lost', connections') => BackfillAgrees'
  BY DEF BackfillAgrees
<1>c. CASE UNCHANGED <<backfill, requests, lost, connections>>
  BY <1>a, <1>b, <1>c
<1>1. CASE UNCHANGED vars
  BY <1>1, <1>c DEF vars
<1>2. CASE Clock
  BY <1>2, <1>c DEF Clock
<1>3. CASE Ticker
  BY <1>3, <1>a, <1>b, RequestAgrees DEF Ticker
<1>4. CASE \E b \in Blocks : GossipBlock(b)
  BY <1>4, <1>c DEF GossipBlock
<1>5. CASE \E b \in Full : GossipEnvelope(b)
  BY <1>5, <1>c DEF GossipEnvelope
<1>6. ASSUME NEW p \in Peers, Answer(p) PROVE BackfillAgrees'
  <2>1. PICK r \in Live(p) : \E response \in Responses(r) : Response(r, response)
    BY <1>6 DEF Answer
  <2>a. PICK response \in Responses(r) : Response(r, response)
    BY <2>1
  <2>2. r \in requests /\ r.peer = p
    BY <2>1 DEF Live
  <2> DEFINE done == apply_backfill(response)
             completed == complete(backfill, p)
             bf == IF response # <<>> /\ done.applied = 0 THEN remove_peer(completed, p)
                   ELSE completed
  <2>3. Agrees(bf, requests \ {r}, lost, connections)
    BY <2>2, CompletedAgrees
  <2>4. /\ IF response # <<>> THEN request_backfill(bf, done.known, now, requests \ {r})
           ELSE backfill' = bf /\ requests' = requests \ {r}
        /\ lost' = lost /\ connections' = connections
    BY <2>a, <2>2 DEF Response
  <2> HIDE DEF bf, done
  <2> QED BY Zenon, <2>3, <2>4, <1>b, RequestAgrees
<1>7. ASSUME NEW p \in Peers, Timeout(p) PROVE BackfillAgrees'
  <2>1. PICK r \in Live(p) : OutboundFailure(p, requests \ {r})
    BY <1>7 DEF Timeout
  <2>2. r \in requests /\ r.peer = p
    BY DEF Live
  <2>3. lost' = lost /\ connections' = connections
    BY <1>7, <2>1 DEF Timeout, OutboundFailure
  <2> QED BY <2>1, <2>2, <2>3, <1>b, CompletedAgrees, RequestAgrees DEF OutboundFailure
<1>8. ASSUME NEW p \in Peers, Failure(p) PROVE BackfillAgrees'
  <2>1. PICK r \in Lost(p) : OutboundFailure(p, requests) /\ lost' = lost \ {r}
    BY <1>8 DEF Failure
  <2>2. r \in lost /\ r.peer = p
    BY DEF Lost
  <2> QED BY <2>1, <2>2, <1>b, FailureAgrees, RequestAgrees DEF OutboundFailure
<1>9. ASSUME NEW p \in Peers, Connect(p) PROVE BackfillAgrees'
  BY Zenon, <1>9, <1>b, EstablishedAgrees, RequestAgrees DEF Connect, ConnectionEstablished
<1>10. ASSUME NEW p \in Peers, Disconnect(p) PROVE BackfillAgrees'
  <2>1. PICK dropped \in SUBSET Live(p) :
          (connections[p] = 1 => dropped = Live(p)) /\ ConnectionClosed(p, dropped)
    BY <1>10 DEF Disconnect
  <2>2. /\ connections[p] > 0
        /\ connections' = [connections EXCEPT ![p] = @ - 1]
        /\ lost' = lost \cup dropped
    BY <1>10, <2>1 DEF Disconnect, ConnectionClosed
  <2>3. CASE connections[p] = 1
    BY Zenon, <2>1, <2>2, <2>3, <1>b, GoneAgrees, RequestAgrees DEF ConnectionClosed
  <2>4. CASE connections[p] # 1
    BY Zenon, <2>1, <2>2, <2>4, <1>b, ClosedAgrees DEF ConnectionClosed
  <2> QED BY <2>3, <2>4
<1> QED BY <1>1, <1>2, <1>3, <1>4, <1>5, <1>6, <1>7, <1>8, <1>9, <1>10 DEF Next

LEMMA AgreementHolds == Spec => []BackfillAgrees
BY InitAgrees, StepAgrees, PTL DEF Spec

\* At most one range request is in flight, BackfillState names its peer, and an
\* event that ends it is always still to come.
THEOREM OneRequest == Spec => []SingleInFlight
<1>1. BackfillAgrees => SingleInFlight
  BY DEF BackfillAgrees, Agrees, SingleInFlight
<1> QED BY <1>1, AgreementHolds, PTL

\* request_backfill only asks connected peers.
THEOREM AsksConnected == Spec => []CandidatesConnected
<1>1. BackfillAgrees => CandidatesConnected
  BY DEF BackfillAgrees, Agrees, CandidatesConnected
<1> QED BY <1>1, AgreementHolds, PTL
=============================================================================
