------------------------------- MODULE MCAnchor -------------------------------
(***************************************************************************)
(* A store anchored at a finalized block of epoch 2, two slots an epoch,   *)
(* that is not in its epoch's first slot.  The clock may be anywhere after *)
(* it.                                                                     *)
(***************************************************************************)
EXTENDS MCForkChoice

AnchorSlot == 5

Atts == [r \in Roots |->
  CASE r = 2 -> <<Att({1, 2}, 5, 1, 0, Cp(2, 1))>>
    [] r = 4 -> <<Att({1}, 7, 2, 0, Cp(3, 2))>>
    [] OTHER -> <<>>]
Justified == [r \in 1..5 |-> IF r \in {2, 4} THEN Cp(2, 1) ELSE Old(AnchorSlot, 1)]
Finalized == [r \in 1..5 |-> Old(AnchorSlot, 2)]
Table == BlockTree(<<AnchorSlot, 6, 7, 8, 9>>, <<ZERO, 1, 1, 2, 3>>, {3}, {},
                   Empty, Atts, Unexposed, Justified, Finalized)
Tree == Table   \* TLC evaluates Table once, but what replaces a constant at every use
Duties == [s \in 0..10 |-> {2 - (s % 2)}]
PTCs == [s \in 0..10 |-> <<1>>]
GossipAttestations == {Att({2}, 8, 4, 0, Cp(4, 4)), Att({2}, 6, 1, 0, Cp(3, 1))}
GossipPtcMessages == {PtcMsg(1, 1, TRUE, TRUE), PtcMsg(1, 4, FALSE, TRUE)}
===============================================================================
