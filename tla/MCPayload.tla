------------------------------- MODULE MCPayload -------------------------------
(***************************************************************************)
(* One payload decision: block 2 of slot 1, whose payload has blobs in two *)
(* columns, a child 3 on that payload and a child 4 without it, both of    *)
(* slot 2, and a vote of every kind.                                       *)
(***************************************************************************)
EXTENDS MCForkChoice

PayloadVotes == [r \in Roots |->
  IF r = 3 THEN <<[validators |-> {1}, present |-> TRUE, available |-> TRUE]>> ELSE <<>>]
Checkpoints == [r \in 1..4 |-> Old(0, 0)]
Table == BlockTree(<<0, 1, 2, 2>>, <<ZERO, 1, 2, 2>>, {3}, {2},
                   PayloadVotes, Empty, Unexposed, Checkpoints, Checkpoints)
Tree == Table   \* TLC evaluates Table once, but what replaces a constant at every use

Genesis == Cp(0, 1)
Duties == [s \in 0..3 |-> CASE s = 1 -> {1} [] s = 2 -> {2, 3} [] OTHER -> {}]
PTCs == [s \in 0..3 |-> <<1>>]
GossipAttestations ==
  {Att({1}, 1, 2, 0, Genesis)} \cup
  {Att({2}, 2, r, 0, Genesis) : r \in 2..4} \cup
  {Att({3}, 2, 2, i, Genesis) : i \in 0..1}
GossipPtcMessages == {PtcMsg(1, 2, p, TRUE) : p \in BOOLEAN}
================================================================================
