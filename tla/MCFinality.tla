------------------------------- MODULE MCFinality -------------------------------
(***************************************************************************)
(* A store anchored at a finalized block of epoch 2, and the four epochs   *)
(* of two slots after it.  The chain 1-2-3-4-5-6 justifies epochs 3, 4 and *)
(* 5 with the votes of validators 1 and 2 out of three and finalizes epoch *)
(* 4; blocks 7 and 8 fork off at block 2 and vote from an older source,    *)
(* 8 on the payload of 7.  The checkpoints of the post-states are those of *)
(* process_justification_and_finalization.                                 *)
(***************************************************************************)
EXTENDS MCForkChoice

AnchorSlot == 4
Two == {1, 2}
Atts == [r \in Roots |->
  CASE r \in {3, 7} -> <<Att(Two, 6, 2, 0, Cp(3, 2))>>
    [] r = 4 -> <<Att(Two, 8, 3, 0, Cp(4, 3))>>
    [] r = 6 -> <<Att(Two, 10, 5, 0, Cp(5, 5))>>
    [] OTHER -> <<>>]
Exposed == [r \in Roots |-> IF r = 6 THEN {3} ELSE {}]
J == Old(AnchorSlot, 1)
F == Old(AnchorSlot, 2)
Justified == <<J, J, Cp(3, 2), Cp(4, 3), Cp(4, 3), Cp(5, 5), Cp(3, 2), Cp(3, 2)>>
Finalized == <<F, F, F, F, F, Cp(4, 3), F, F>>
Table == BlockTree(<<AnchorSlot, 6, 8, 9, 10, 11, 9, 11>>, <<ZERO, 1, 2, 3, 4, 5, 2, 7>>, {8}, {},
                   Empty, Atts, Exposed, Justified, Finalized)
Tree == Table   \* TLC evaluates Table once, but what replaces a constant at every use

Duties == [s \in 0..13 |-> IF s % 2 = 0 THEN Two ELSE {3}]
PTCs == [s \in 0..13 |-> <<1>>]
GossipAttestations ==
  {Att(Two, 8, 3, 0, Cp(4, 3)), Att({3}, 9, 7, 0, Cp(4, 2)), Att({3}, 11, 8, 0, Cp(5, 7))}
GossipPtcMessages == {PtcMsg(1, 1, TRUE, TRUE)}

\* The blocks of this tree meet the hypotheses of the theorems on the head.
ASSUME FinalityInstance == AnchorAligned /\ FinalityHolds
================================================================================
