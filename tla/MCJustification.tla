---------------------------- MODULE MCJustification ----------------------------
(* Two chains that fork after the genesis epoch, three equal validators.       *)
EXTENDS Justification, TLC

EqualBalance == [v \in Validators |-> 1]
Supermajorities == {S \in SUBSET Validators : Cardinality(S) = 2}
Interchangeable == Permutations(Branches) \cup Permutations(Validators \ Dishonest)
================================================================================
