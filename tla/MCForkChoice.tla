----------------------------- MODULE MCForkChoice -----------------------------
(* How the model-checking modules write down a block tree. *)
EXTENDS ForkChoice

Cp(e, r) == [epoch |-> e, root |-> r]

\* The anchor, with root 1, has checkpoints older than itself; their blocks,
\* root ZERO here, are not in the store.
Old(slot, n) == Cp(Max({0, (slot \div SLOTS_PER_EPOCH) - n}), ZERO)

Empty == [r \in Roots |-> <<>>]
Unexposed == [r \in Roots |-> {}]

\* A block tree by columns: slots, parents, the blocks built on their parent's
\* payload and those with blobs, what they carry, and the checkpoints of their
\* pulled-up states, which a child in a later epoch realizes.
BlockTree(slot, parent, full, blobs, pas, atts, slashings, uj, uf) ==
  LET first(r) == epoch(slot[r]) > epoch(slot[parent[r]])
      voted[r \in DOMAIN slot] ==
        IF r = 1 THEN {}
        ELSE voted[parent[r]] \cup {atts[r][i].target : i \in DOMAIN atts[r]}
      realized[r \in DOMAIN slot] ==
        IF r = 1 THEN 1 ELSE IF first(r) THEN parent[r] ELSE realized[parent[r]]
  IN  <<>> \o   \* has TLC evaluate the tree once
      [r \in DOMAIN slot |->
        [slot |-> slot[r], parent |-> parent[r], full |-> r \in full,
         proposer |-> IF r = 1 THEN 1 ELSE 1 + (slot[r] % Cardinality(Validators)),
         blobs |-> r \in blobs, payload_attestations |-> pas[r],
         attestations |-> atts[r], slashings |-> slashings[r], slashed |-> {},
         voted |-> voted[r],
         justified |-> uj[realized[r]], finalized |-> uf[realized[r]],
         ujustified |-> uj[r], ufinalized |-> uf[r]]]

Att(vs, slot, root, index, target) ==
  [validators |-> vs, slot |-> slot, root |-> root, index |-> index, target |-> target]
PtcMsg(v, root, present, available) ==
  [root |-> root, slot |-> Block[root].slot, validator |-> v,
   present |-> present, available |-> available]

EqualBalance == [v \in Validators |-> 10]
==============================================================================
