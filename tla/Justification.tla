----------------------------- MODULE Justification -----------------------------
(***************************************************************************)
(* Justification and finalization (state_transition/epoch/finality.rs) on  *)
(* competing chains.  Each branch has its own BeaconState, of which the    *)
(* fields that finality reads are kept; a validator's attestation reaches  *)
(* a state through process_attestation (operations/attestations.rs).  The  *)
(* registry does not change and no validator is slashed on chain.          *)
(*                                                                         *)
(* process_slots advances a state through empty slots, so all branches are *)
(* in the epoch of the clock and their boundaries are taken together.      *)
(***************************************************************************)
EXTENDS Integers, FiniteSets, FiniteSetsExt

CONSTANTS
  Branches,    \* chains that fork after epoch ForkEpoch
  Validators,
  Balance,     \* effective balances
  Aggregates,  \* sets of validators an attestation may come from
  Dishonest,   \* validators that may break the slashing conditions
  ForkEpoch,   \* last epoch whose first block all branches share
  MaxEpoch     \* bound on the clock: the epoch after the last one modelled

ASSUME JustificationAssumption ==
  /\ IsFiniteSet(Validators) /\ Dishonest \subseteq Validators
  /\ Aggregates \subseteq SUBSET Validators
  /\ Balance \in [Validators -> Nat]
  /\ ForkEpoch \in Nat /\ MaxEpoch \in Nat

VARIABLES
  epoch,    \* state.slot.epoch() of every branch
  state,    \* what finality reads of the state of each branch
  votes     \* every attestation a validator signed

vars == <<epoch, state, votes>>

GENESIS_EPOCH == 0
EFFECTIVE_BALANCE_INCREMENT == 1     \* the unit of Balance
JUSTIFICATION_BITS_LENGTH == 4

\* A block root: the first block of an epoch, and the branch it is on.
Root == [epoch : Nat, branch : Branches \cup {"shared"}]
ZeroRoot == [epoch |-> 0, branch |-> "shared"]
Checkpoint == [epoch : Nat, root : Root]
GenesisCheckpoint == [epoch |-> GENESIS_EPOCH, root |-> ZeroRoot]

BranchState ==
  [justification_bits : SUBSET (0 .. JUSTIFICATION_BITS_LENGTH - 1),
   previous_justified_checkpoint : Checkpoint,
   current_justified_checkpoint : Checkpoint,
   finalized_checkpoint : Checkpoint,
   previous_epoch_participation : SUBSET Validators,   \* timely-target flags
   current_epoch_participation : SUBSET Validators]

SignedVote == [validator : Validators, source : Checkpoint, target : Checkpoint]

previous_epoch == IF epoch = GENESIS_EPOCH THEN GENESIS_EPOCH ELSE epoch - 1

\* block_root_at_slot of the first slot of epoch e on branch b.
block_root(b, e) ==
  [epoch |-> e, branch |-> IF e <= ForkEpoch THEN "shared" ELSE b]
CheckpointAt(b, e) == [epoch |-> e, root |-> block_root(b, e)]

--------------------------------------------------------------------------------

Stake(S) == MapThenSumSet(LAMBDA v : Balance[v], S)
\* Sums are floored at one increment, so the empty set never weighs nothing.
get_total_balance(S) == Max({Stake(S), EFFECTIVE_BALANCE_INCREMENT})
has_two_thirds_support(S) == 3 * get_total_balance(S) >= 2 * get_total_balance(Validators)

\* A validator stays active only above EJECTION_BALANCE, sixteen increments, so the
\* floor never stands in for the stake of the whole registry.
ASSUME StakeAssumption == Stake(Validators) > EFFECTIVE_BALANCE_INCREMENT

Shifted(bits) == {i + 1 : i \in bits} \cap (0 .. JUSTIFICATION_BITS_LENGTH - 1)

Mutant_finalized_checkpoint(s, bits) ==
  IF 0..1 \subseteq bits THEN s.current_justified_checkpoint
  ELSE IF 1..2 \subseteq bits THEN s.previous_justified_checkpoint
  ELSE s.finalized_checkpoint

Mutant_finalized_default(s, bits) ==
  IF 0..1 \subseteq bits THEN s.current_justified_checkpoint
  ELSE IF 1..2 \subseteq bits THEN s.previous_justified_checkpoint
  ELSE GenesisCheckpoint

\* The four rules in order, the last that matches winning; s is the state before
\* the update and bits the new bits.
finalized_checkpoint(s, bits) ==
  LET previous_is(delta) == s.previous_justified_checkpoint.epoch + delta = epoch
      current_is(delta)  == s.current_justified_checkpoint.epoch + delta = epoch
  IN  IF (0..1 \subseteq bits /\ current_is(1)) \/ (0..2 \subseteq bits /\ current_is(2))
      THEN s.current_justified_checkpoint
      ELSE IF (1..2 \subseteq bits /\ previous_is(2)) \/ (1..3 \subseteq bits /\ previous_is(3))
      THEN s.previous_justified_checkpoint
      ELSE s.finalized_checkpoint

process_justification_and_finalization(b, s) ==
  LET previous_supported == has_two_thirds_support(s.previous_epoch_participation)
      current_supported  == has_two_thirds_support(s.current_epoch_participation)
      bits == Shifted(s.justification_bits)
                \cup (IF previous_supported THEN {1} ELSE {})
                \cup (IF current_supported THEN {0} ELSE {})
  IN  IF epoch <= GENESIS_EPOCH + 1 THEN s
      ELSE [s EXCEPT
              !.justification_bits = bits,
              !.previous_justified_checkpoint = s.current_justified_checkpoint,
              !.current_justified_checkpoint =
                 IF current_supported THEN CheckpointAt(b, epoch)
                 ELSE IF previous_supported THEN CheckpointAt(b, previous_epoch)
                 ELSE @,
              !.finalized_checkpoint = finalized_checkpoint(s, bits)]

Mutant_process_participation_flag_updates(s) ==
  [s EXCEPT !.previous_epoch_participation = s.current_epoch_participation]
process_participation_flag_updates(s) ==
  [s EXCEPT !.previous_epoch_participation = s.current_epoch_participation,
            !.current_epoch_participation = {}]

process_epoch(b) ==
  process_participation_flag_updates(process_justification_and_finalization(b, state[b]))

\* The source an attestation with the given target epoch must name to be accepted.
RequiredSource(s, e) == IF e = epoch THEN s.current_justified_checkpoint
                        ELSE s.previous_justified_checkpoint

--------------------------------------------------------------------------------

Mutant_is_slashable_attestation_data(d1, d2) ==
  d1.source.epoch < d2.source.epoch /\ d2.target.epoch < d1.target.epoch
is_slashable_attestation_data(d1, d2) ==
  \/ d1 # d2 /\ d1.target.epoch = d2.target.epoch
  \/ d1.source.epoch < d2.source.epoch /\ d2.target.epoch < d1.target.epoch

VotesOf(v) == {w \in votes : w.validator = v}

\* An honest validator signs nothing it could be slashed for.
MaySign(vote) ==
  \/ vote.validator \in Dishonest
  \/ \A w \in VotesOf(vote.validator) : /\ ~is_slashable_attestation_data(vote, w)
                                        /\ ~is_slashable_attestation_data(w, vote)

\* Votes of the genesis epoch justify nothing, so the model starts after it.
Init ==
  /\ epoch = GENESIS_EPOCH + 1
  /\ state = [b \in Branches |->
                [justification_bits |-> {},
                 previous_justified_checkpoint |-> GenesisCheckpoint,
                 current_justified_checkpoint |-> GenesisCheckpoint,
                 finalized_checkpoint |-> GenesisCheckpoint,
                 previous_epoch_participation |-> {},
                 current_epoch_participation |-> {}]]
  /\ votes = {}

\* The timely-target flags an attestation of S with target epoch e sets.
Flagged(s, S, e) ==
  IF e = epoch THEN [s EXCEPT !.current_epoch_participation = @ \cup S]
  ELSE [s EXCEPT !.previous_epoch_participation = @ \cup S]

\* An aggregate of the validators S with target epoch e, which names the source
\* and the target checkpoint of branch b, is included in branch b.
process_attestation(b, S, e) ==
  LET signed == [validator : S, source : {RequiredSource(state[b], e)},
                 target : {CheckpointAt(b, e)}]
  IN  /\ \A vote \in signed : MaySign(vote)
      /\ votes' = votes \cup signed
      /\ state' = [state EXCEPT ![b] = Flagged(state[b], S, e)]
      /\ UNCHANGED epoch

Attest == /\ epoch < MaxEpoch
          /\ \E b \in Branches, S \in Aggregates, e \in {previous_epoch, epoch} :
                process_attestation(b, S, e)

EpochBoundary ==
  /\ epoch < MaxEpoch
  /\ epoch' = epoch + 1
  /\ state' = [b \in Branches |-> process_epoch(b)]
  /\ UNCHANGED votes

Next == Attest \/ EpochBoundary
Spec == Init /\ [][Next]_vars
--------------------------------------------------------------------------------

\* The fields finality reads keep their types on every branch.
TypeOK ==
  /\ epoch \in Nat
  /\ state \in [Branches -> BranchState]
  /\ votes \subseteq SignedVote

Voters(c) == {w.validator : w \in {x \in votes : x.target = c}}
Linked(c, d) == {w.validator : w \in {x \in votes : x.source = c /\ x.target = d}}

\* A checkpoint of a branch is justified only by votes of two thirds of the stake
\* for it: the participation flags, rotated at each boundary, never credit a vote
\* to another epoch.
JustifiedByVotes ==
  \A b \in Branches :
     LET c == state[b].current_justified_checkpoint
     IN  c # GenesisCheckpoint => has_two_thirds_support(Voters(c))

\* The four rules on the shifting bits find exactly what makes a checkpoint final:
\* two thirds of the stake voted from it to the checkpoint one or two epochs on,
\* and for every checkpoint between.
FinalizedByLink ==
  \A b \in Branches :
     LET f == state[b].finalized_checkpoint
     IN  f # GenesisCheckpoint =>
           \E k \in 1..2 :
              /\ has_two_thirds_support(Linked(f, CheckpointAt(b, f.epoch + k)))
              /\ \A i \in 1..(k - 1) :
                    has_two_thirds_support(Voters(CheckpointAt(b, f.epoch + i)))

\* Two branches never finalize conflicting checkpoints unless validators with a
\* third of the stake signed votes that is_slashable_attestation_data convicts.
Conflict(c, d) ==
  c.root.branch # d.root.branch /\ "shared" \notin {c.root.branch, d.root.branch}
Convicted == {v \in Validators : \E w, x \in VotesOf(v) : is_slashable_attestation_data(w, x)}
AccountableSafety ==
  \A b, c \in Branches :
     Conflict(state[b].finalized_checkpoint, state[c].finalized_checkpoint)
       => 3 * Stake(Convicted) >= Stake(Validators)

\* The checkpoints of a state are ordered, and stay so in the pulled-up state that
\* compute_pulled_up_tip derives from it in the middle of an epoch: fork choice
\* relies on this for every post-state.
Ordered(s) ==
  /\ s.finalized_checkpoint.epoch <= s.previous_justified_checkpoint.epoch
  /\ s.previous_justified_checkpoint.epoch <= s.current_justified_checkpoint.epoch
  /\ s.current_justified_checkpoint.epoch <= epoch
PostStatesOrdered ==
  \A b \in Branches :
     LET s == state[b]
         pulled_up == process_justification_and_finalization(b, s)
     IN  /\ Ordered(s) /\ Ordered(pulled_up)
         /\ s.current_justified_checkpoint.epoch <= pulled_up.current_justified_checkpoint.epoch
         /\ s.finalized_checkpoint.epoch <= pulled_up.finalized_checkpoint.epoch

================================================================================
