----------------------------- MODULE Arithmetic -----------------------------
(***************************************************************************)
(* The pure calculations of the state transition that the theorems of      *)
(* ComponentProofs are about: the churn cursor (state_transition/          *)
(* validator.rs), one round of the swap-or-not shuffle and the committee   *)
(* slices (state_transition/committee.rs).                                 *)
(***************************************************************************)
EXTENDS Integers

CONSTANT MAX_SEED_LOOKAHEAD

ASSUME LookaheadAssumption == MAX_SEED_LOOKAHEAD \in Nat

AtMost(a, b) == IF a < b THEN a ELSE b
AtLeast(a, b) == IF a > b THEN a ELSE b
saturating_sub(a, b) == IF a > b THEN a - b ELSE 0

Mutant_compute_activation_exit_epoch(epoch) == epoch + 1

compute_activation_exit_epoch(epoch) == epoch + 1 + MAX_SEED_LOOKAHEAD

\* Where the cursor stands when a request arrives: a cursor that fell behind the
\* earliest admissible epoch moves there with a fresh budget.
CursorEpoch(current, cursor_epoch) ==
  AtLeast(cursor_epoch, compute_activation_exit_epoch(current))

CursorBalance(current, cursor_epoch, cursor_balance, per_epoch) ==
  IF cursor_epoch < CursorEpoch(current, cursor_epoch) THEN per_epoch ELSE cursor_balance

\* Whole epochs of budget added to cover what the cursor's epoch cannot.
additional_epochs(requested, available, per_epoch) ==
  IF requested > available THEN (requested - available - 1) \div per_epoch + 1 ELSE 0

Mutant_consume_churn_budget(current, cursor_epoch, cursor_balance, requested, per_epoch) ==
  [epoch |-> CursorEpoch(current, cursor_epoch)
              + (IF requested > per_epoch THEN (requested - 1) \div per_epoch ELSE 0),
   remaining |-> saturating_sub(per_epoch, requested)]

consume_churn_budget(current, cursor_epoch, cursor_balance, requested, per_epoch) ==
  LET available == CursorBalance(current, cursor_epoch, cursor_balance, per_epoch)
      additional == additional_epochs(requested, available, per_epoch)
  IN [epoch |-> CursorEpoch(current, cursor_epoch) + additional,
      remaining |-> available + additional * per_epoch - requested]

-----------------------------------------------------------------------------
\* One round of compute_shuffled_index_checked: the index swaps with its mirror
\* image around the pivot when the bit of the larger of the two is set.
Flip(pivot, n, x) == IF pivot >= x THEN pivot - x ELSE n - (x - pivot)

ShuffleRound(pivot, bits, n, x) ==
  IF bits[AtLeast(x, Flip(pivot, n, x))] = 1 THEN Flip(pivot, n, x) ELSE x

\* compute_committee: the bounds of slice `index` out of `count`.
SliceStart(total, index, count) == (total * index) \div count
SliceEnd(total, index, count) == (total * (index + 1)) \div count
=============================================================================
