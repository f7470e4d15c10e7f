--------------------------------- MODULE Lists ---------------------------------
(***************************************************************************)
(* The few operations on lists that the modules with theorems need.  They  *)
(* are written with the folds over sets: SequencesExt, which has them too, *)
(* brings the theory of bags into the scope of every proof.                *)
(***************************************************************************)
EXTENDS Integers, Sequences, FiniteSetsExt

\* A loop over a list with an accumulator.
FoldLeft(op(_, _), base, list) ==
  MapThenFoldSet(LAMBDA x, acc : op(acc, x), base, LAMBDA i : list[i], Max, DOMAIN list)

\* The lists of a list, one after the other.
FlattenSeq(lists) == FoldLeft(LAMBDA all, list : all \o list, << >>, lists)

Last(list) == list[Len(list)]

\* The members of a set of numbers in ascending order.
Ascending(S) ==
  [k \in 1..Cardinality(S) |-> CHOOSE x \in S : Cardinality({y \in S : y < x}) = k - 1]
================================================================================
