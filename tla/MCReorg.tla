-------------------------------- MODULE MCReorg --------------------------------
(***************************************************************************)
(* The proposer of slot 3 may build on block 3 of slot 2 or, when 3 is     *)
(* late and weak, on its parent 2 (block 4).  Block 5 is a second block of *)
(* slot 2 by the proposer of block 3.                                      *)
(***************************************************************************)
EXTENDS MCForkChoice

Checkpoints == [r \in 1..6 |-> Old(0, 0)]
Table == BlockTree(<<0, 1, 2, 3, 2, 3>>, <<ZERO, 1, 2, 2, 2, 3>>, {3, 4}, {},
                   Empty, Empty, Unexposed, Checkpoints, Checkpoints)
Tree == Table   \* TLC evaluates Table once, but what replaces a constant at every use

Genesis == Cp(0, 1)
Duties == [s \in 0..4 |-> CASE s = 1 -> {1} [] s = 2 -> {2, 4} [] s = 3 -> {3} [] OTHER -> {}]
PTCs == [s \in 0..4 |-> <<1>>]
GossipAttestations ==
  {Att({1}, 1, 2, 0, Genesis)} \cup {Att({2}, 2, r, 0, Genesis) : r \in {2, 3, 5}}
  \cup {Att({4}, 2, 2, 1, Genesis), Att({4}, 2, 3, 0, Genesis)}
LateVote == {Att({3}, 3, 3, 0, Genesis)}   \* by a committee after block 3's
================================================================================
