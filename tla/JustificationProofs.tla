-------------------------- MODULE JustificationProofs --------------------------
(***************************************************************************)
(* Finality for any number of chains, validators and epochs, any balances  *)
(* and any votes: the checkpoints of every state, and of the state pulled  *)
(* up from it, are typed and ordered; they are justified and finalized by  *)
(* the votes cast; and conflicting ones convict a third of the stake.      *)
(***************************************************************************)
EXTENDS Justification, Induction

\* One epoch more than the order of the checkpoints: nothing of the running epoch
\* is justified before its end.
Behind(s) == s.current_justified_checkpoint.epoch < epoch
Consistent ==
  /\ TypeOK /\ epoch > GENESIS_EPOCH
  /\ \A b \in Branches : Ordered(state[b]) /\ Behind(state[b])

LEMMA CheckpointAtType ==
  ASSUME NEW b \in Branches, NEW e \in Nat
  PROVE  CheckpointAt(b, e) \in Checkpoint /\ CheckpointAt(b, e).epoch = e
BY DEF CheckpointAt, block_root, Checkpoint, Root

LEMMA ShiftedType ==
  ASSUME NEW bits
  PROVE  Shifted(bits) \subseteq 0 .. JUSTIFICATION_BITS_LENGTH - 1
BY DEF Shifted

\* The rules choose one of the three checkpoints of the state.
LEMMA FinalizedChoice ==
  ASSUME NEW s, NEW bits
  PROVE  finalized_checkpoint(s, bits) \in
           {s.current_justified_checkpoint, s.previous_justified_checkpoint,
            s.finalized_checkpoint}
BY DEF finalized_checkpoint

\* What process_justification_and_finalization does to the checkpoints of a state.
LEMMA PulledUp ==
  ASSUME NEW b \in Branches, NEW s \in BranchState, epoch \in Nat, epoch > GENESIS_EPOCH,
         Ordered(s), Behind(s)
  PROVE  LET u == process_justification_and_finalization(b, s)
         IN  /\ u \in BranchState
             /\ Ordered(u)
             /\ s.current_justified_checkpoint.epoch <= u.current_justified_checkpoint.epoch
             /\ s.finalized_checkpoint.epoch <= u.finalized_checkpoint.epoch
<1> DEFINE u == process_justification_and_finalization(b, s)
<1>a. /\ s.current_justified_checkpoint \in Checkpoint
      /\ s.previous_justified_checkpoint \in Checkpoint
      /\ s.finalized_checkpoint \in Checkpoint
  BY DEF BranchState
<1>b. /\ s.current_justified_checkpoint.epoch \in Nat
      /\ s.previous_justified_checkpoint.epoch \in Nat
      /\ s.finalized_checkpoint.epoch \in Nat
  BY <1>a DEF Checkpoint
<1>1. CASE epoch <= GENESIS_EPOCH + 1
  <2>1. u = s
    BY <1>1 DEF process_justification_and_finalization
  <2> QED BY <2>1, <1>b
<1>2. CASE ~(epoch <= GENESIS_EPOCH + 1)
  <2> DEFINE ps == has_two_thirds_support(s.previous_epoch_participation)
             cs == has_two_thirds_support(s.current_epoch_participation)
             bits == Shifted(s.justification_bits) \cup (IF ps THEN {1} ELSE {})
                       \cup (IF cs THEN {0} ELSE {})
             cur == IF cs THEN CheckpointAt(b, epoch)
                    ELSE IF ps THEN CheckpointAt(b, previous_epoch)
                    ELSE s.current_justified_checkpoint
             fin == finalized_checkpoint(s, bits)
  <2>1. u = [s EXCEPT !.justification_bits = bits,
                      !.previous_justified_checkpoint = s.current_justified_checkpoint,
                      !.current_justified_checkpoint = cur,
                      !.finalized_checkpoint = fin]
    BY <1>2 DEF process_justification_and_finalization
  <2>2. previous_epoch \in Nat /\ previous_epoch = epoch - 1
    BY DEF previous_epoch, GENESIS_EPOCH
  <2>3. bits \subseteq 0 .. JUSTIFICATION_BITS_LENGTH - 1
    BY ShiftedType DEF JUSTIFICATION_BITS_LENGTH
  <2>4. /\ CheckpointAt(b, epoch) \in Checkpoint
        /\ CheckpointAt(b, epoch).epoch = epoch
        /\ CheckpointAt(b, previous_epoch) \in Checkpoint
        /\ CheckpointAt(b, previous_epoch).epoch = previous_epoch
    BY <2>2, CheckpointAtType
  <2>5. cur \in {CheckpointAt(b, epoch), CheckpointAt(b, previous_epoch),
                 s.current_justified_checkpoint}
    OBVIOUS
  <2>6. fin \in {s.current_justified_checkpoint, s.previous_justified_checkpoint,
                 s.finalized_checkpoint}
    BY FinalizedChoice
  <2> HIDE DEF bits, cur, fin, u
  <2>7. /\ u \in BranchState
        /\ u.previous_justified_checkpoint = s.current_justified_checkpoint
        /\ u.current_justified_checkpoint = cur
        /\ u.finalized_checkpoint = fin
    <3>1. cur \in Checkpoint /\ fin \in Checkpoint
      BY <1>a, <2>4, <2>5, <2>6
    <3> QED BY Zenon, <1>a, <2>1, <2>3, <3>1 DEF BranchState
  <2>8. /\ s.current_justified_checkpoint.epoch <= cur.epoch
        /\ cur.epoch <= epoch
    BY <1>b, <2>2, <2>4, <2>5 DEF Behind
  <2>9. /\ s.finalized_checkpoint.epoch <= fin.epoch
        /\ fin.epoch <= s.current_justified_checkpoint.epoch
    BY <1>b, <2>6 DEF Ordered
  <2>10. Ordered(u)
    BY <2>7, <2>8, <2>9 DEF Ordered
  <2> QED BY <2>7, <2>8, <2>9, <2>10 DEF u
<1> QED BY <1>1, <1>2

\* Rotating the participation flags leaves the checkpoints alone.
LEMMA Rotated ==
  ASSUME NEW s \in BranchState
  PROVE  LET u == process_participation_flag_updates(s)
         IN  /\ u \in BranchState
             /\ u.current_justified_checkpoint = s.current_justified_checkpoint
             /\ u.previous_justified_checkpoint = s.previous_justified_checkpoint
             /\ u.finalized_checkpoint = s.finalized_checkpoint
BY Zenon DEF process_participation_flag_updates, BranchState

--------------------------------------------------------------------------------

LEMMA InitConsistent == Init => Consistent
<1> SUFFICES ASSUME Init PROVE Consistent
  OBVIOUS
<1> DEFINE s0 == [justification_bits |-> {},
                  previous_justified_checkpoint |-> GenesisCheckpoint,
                  current_justified_checkpoint |-> GenesisCheckpoint,
                  finalized_checkpoint |-> GenesisCheckpoint,
                  previous_epoch_participation |-> {},
                  current_epoch_participation |-> {}]
<1>1. epoch = 1 /\ votes = {} /\ state = [b \in Branches |-> s0]
  BY DEF Init, GENESIS_EPOCH
<1>2. GenesisCheckpoint \in Checkpoint /\ GenesisCheckpoint.epoch = 0
  BY DEF GenesisCheckpoint, Checkpoint, Root, ZeroRoot, GENESIS_EPOCH
<1>3. /\ s0 \in BranchState
      /\ s0.current_justified_checkpoint = GenesisCheckpoint
      /\ s0.previous_justified_checkpoint = GenesisCheckpoint
      /\ s0.finalized_checkpoint = GenesisCheckpoint
  BY <1>2 DEF BranchState
<1> HIDE DEF s0
<1>4. Ordered(s0) /\ Behind(s0)
  BY <1>1, <1>2, <1>3 DEF Ordered, Behind
<1>5. TypeOK
  BY <1>1, <1>3 DEF TypeOK
<1> QED BY <1>1, <1>4, <1>5 DEF Consistent, GENESIS_EPOCH

LEMMA AttestConsistent ==
  ASSUME Consistent, Attest
  PROVE  Consistent'
<1>1. PICK b \in Branches, S \in Aggregates, e \in {previous_epoch, epoch} :
        process_attestation(b, S, e)
  BY DEF Attest
<1> DEFINE s == state[b]
           flagged == Flagged(s, S, e)
           signed == [validator : S, source : {RequiredSource(s, e)},
                      target : {CheckpointAt(b, e)}]
<1>2. /\ epoch \in Nat /\ epoch > GENESIS_EPOCH
      /\ state \in [Branches -> BranchState]
      /\ votes \subseteq SignedVote
  BY DEF Consistent, TypeOK
<1>3. /\ votes' = votes \cup signed
      /\ state' = [state EXCEPT ![b] = flagged]
      /\ epoch' = epoch
  BY <1>1 DEF process_attestation
<1>4. S \subseteq Validators
  BY JustificationAssumption
<1>5. s \in BranchState /\ Ordered(s) /\ Behind(s)
  BY <1>2 DEF Consistent
<1>6. e \in Nat
  BY <1>2 DEF previous_epoch, GENESIS_EPOCH
<1>7. RequiredSource(s, e) \in Checkpoint /\ CheckpointAt(b, e) \in Checkpoint
  BY <1>5, <1>6, CheckpointAtType DEF RequiredSource, BranchState
<1>8. signed \subseteq SignedVote
  BY <1>4, <1>7 DEF SignedVote
<1>9. /\ flagged \in BranchState
      /\ flagged.current_justified_checkpoint = s.current_justified_checkpoint
      /\ flagged.previous_justified_checkpoint = s.previous_justified_checkpoint
      /\ flagged.finalized_checkpoint = s.finalized_checkpoint
  BY <1>4, <1>5 DEF Flagged, BranchState
<1> HIDE DEF flagged, signed
<1>10. Ordered(flagged) /\ Behind(flagged)
  BY <1>5, <1>9 DEF Ordered, Behind
<1>11. /\ state' \in [Branches -> BranchState]
       /\ \A c \in Branches : Ordered(state'[c]) /\ Behind(state'[c])
  BY <1>2, <1>3, <1>9, <1>10 DEF Consistent
<1>12. (\A c \in Branches : Ordered(state[c]) /\ Behind(state[c]))'
  BY <1>3, <1>11 DEF Ordered, Behind
<1>13. TypeOK'
  BY <1>2, <1>3, <1>8, <1>11 DEF TypeOK
<1> QED BY <1>2, <1>3, <1>12, <1>13 DEF Consistent

LEMMA BoundaryConsistent ==
  ASSUME Consistent, EpochBoundary
  PROVE  Consistent'
<1>1. /\ epoch \in Nat /\ epoch > GENESIS_EPOCH
      /\ state \in [Branches -> BranchState]
      /\ votes \subseteq SignedVote
  BY DEF Consistent, TypeOK
<1>2. epoch' = epoch + 1 /\ votes' = votes /\ state' = [b \in Branches |-> process_epoch(b)]
  BY DEF EpochBoundary
<1>3. ASSUME NEW b \in Branches
      PROVE  process_epoch(b) \in BranchState /\ Ordered(process_epoch(b))
  <2> DEFINE u == process_justification_and_finalization(b, state[b])
             w == process_participation_flag_updates(u)
  <2>1. state[b] \in BranchState /\ Ordered(state[b]) /\ Behind(state[b])
    BY <1>1 DEF Consistent
  <2>2. u \in BranchState /\ Ordered(u)
    BY <1>1, <2>1, PulledUp
  <2> HIDE DEF u
  <2>3. /\ w \in BranchState
        /\ w.current_justified_checkpoint = u.current_justified_checkpoint
        /\ w.previous_justified_checkpoint = u.previous_justified_checkpoint
        /\ w.finalized_checkpoint = u.finalized_checkpoint
    BY <2>2, Rotated
  <2>4. process_epoch(b) = w
    BY DEF process_epoch, u
  <2> HIDE DEF w
  <2>5. Ordered(w)
    BY <2>2, <2>3 DEF Ordered
  <2> QED BY <2>3, <2>4, <2>5
<1>4. TypeOK'
  BY <1>1, <1>2, <1>3 DEF TypeOK
<1>5. ASSUME NEW b \in Branches
      PROVE  Ordered(state[b])' /\ Behind(state[b])'
  <2> DEFINE w == process_epoch(b)
  <2>1. state'[b] = w /\ w \in BranchState /\ Ordered(w)
    BY <1>2, <1>3
  <2> HIDE DEF w
  <2>2. /\ w.finalized_checkpoint.epoch \in Nat
        /\ w.previous_justified_checkpoint.epoch \in Nat
        /\ w.current_justified_checkpoint.epoch \in Nat
    BY <2>1 DEF BranchState, Checkpoint
  <2> QED BY <1>1, <1>2, <2>1, <2>2 DEF Ordered, Behind
<1> QED BY <1>1, <1>2, <1>4, <1>5 DEF Consistent, GENESIS_EPOCH

LEMMA StepConsistent == Consistent /\ [Next]_vars => Consistent'
<1> SUFFICES ASSUME Consistent, [Next]_vars PROVE Consistent'
  OBVIOUS
<1>1. CASE UNCHANGED vars
  BY <1>1 DEF vars, Consistent, TypeOK, Ordered, Behind
<1>2. CASE Attest
  BY <1>2, AttestConsistent
<1>3. CASE EpochBoundary
  BY <1>3, BoundaryConsistent
<1> QED BY <1>1, <1>2, <1>3 DEF Next

LEMMA AlwaysConsistent == Spec => []Consistent
BY InitConsistent, StepConsistent, PTL DEF Spec

\* The checkpoints of every post-state and of the state compute_pulled_up_tip derives
\* from it are ordered, and pulling up never lowers them.
THEOREM PostStatesAlwaysOrdered == Spec => []PostStatesOrdered
<1>1. ASSUME Consistent PROVE PostStatesOrdered
  <2> SUFFICES ASSUME NEW b \in Branches
               PROVE  LET s == state[b]
                          pulled_up == process_justification_and_finalization(b, s)
                      IN  /\ Ordered(s) /\ Ordered(pulled_up)
                          /\ s.current_justified_checkpoint.epoch
                               <= pulled_up.current_justified_checkpoint.epoch
                          /\ s.finalized_checkpoint.epoch <= pulled_up.finalized_checkpoint.epoch
    BY DEF PostStatesOrdered
  <2>1. /\ epoch \in Nat /\ epoch > GENESIS_EPOCH
        /\ state[b] \in BranchState /\ Ordered(state[b]) /\ Behind(state[b])
    BY <1>1 DEF Consistent, TypeOK
  <2> QED BY <2>1, PulledUp
<1> QED BY <1>1, AlwaysConsistent, PTL

--------------------------------------------------------------------------------
(* Stakes and supermajorities.                                                 *)

\* The larger of two naturals.
LEMMA MaxOfTwo ==
  ASSUME NEW m \in Nat, NEW n \in Nat
  PROVE  Max({m, n}) = IF m >= n THEN m ELSE n
<1> DEFINE top == IF m >= n THEN m ELSE n
<1>1. top \in {m, n} /\ \A y \in {m, n} : top >= y
  OBVIOUS
<1>2. \A x \in {m, n} : (\A y \in {m, n} : x >= y) => x = top
  OBVIOUS
<1> HIDE DEF top
<1>3. Max({m, n}) = top
  BY <1>1, <1>2 DEF Max
<1> QED BY <1>3 DEF top

LEMMA StakeIsTotal ==
  ASSUME NEW S
  PROVE  Stake(S) = Total(Balance, S)
BY Zenon DEF Stake, Total

\* Stake is a sum of naturals, and a larger set has more of it.
LEMMA StakeFacts ==
  ASSUME NEW A \in SUBSET Validators, NEW B \in SUBSET A
  PROVE  /\ Stake(A) \in Nat /\ Stake(B) \in Nat
         /\ Stake(B) <= Stake(A)
<1>1. /\ IsFiniteSet(Validators) /\ Balance \in [Validators -> Nat]
      /\ Balance \in [Validators -> Int]
  BY JustificationAssumption
<1>2. B \in SUBSET Validators
  OBVIOUS
<1>3. Stake(A) = Total(Balance, A) /\ Stake(B) = Total(Balance, B)
  BY StakeIsTotal
<1> QED BY <1>1, <1>2, <1>3, TotalType, TotalMonotone

\* What get_total_balance returns.
LEMMA TotalBalance ==
  ASSUME NEW A \in SUBSET Validators
  PROVE  /\ get_total_balance(A) \in Nat /\ Stake(A) \in Nat
         /\ get_total_balance(A) = IF Stake(A) >= 1 THEN Stake(A) ELSE 1
<1>1. Stake(A) \in Nat
  BY StakeFacts
<1> QED BY <1>1, MaxOfTwo DEF get_total_balance, EFFECTIVE_BALANCE_INCREMENT

\* More participation never loses a supermajority.
LEMMA SupportMonotone ==
  ASSUME NEW A \in SUBSET Validators, NEW B \in SUBSET A, has_two_thirds_support(B)
  PROVE  has_two_thirds_support(A)
<1>1. B \in SUBSET Validators /\ Validators \in SUBSET Validators
  OBVIOUS
<1>2. Stake(A) \in Nat /\ Stake(B) \in Nat /\ Stake(B) <= Stake(A)
  BY StakeFacts
<1> DEFINE a == get_total_balance(A)
           b == get_total_balance(B)
           t == get_total_balance(Validators)
<1>3. a \in Nat /\ b \in Nat /\ t \in Nat /\ b <= a
  BY <1>1, <1>2, TotalBalance
<1>4. 3 * b >= 2 * t
  BY DEF has_two_thirds_support
<1> HIDE DEF a, b, t
<1>5. 3 * a >= 2 * t
  BY <1>3, <1>4
<1> QED BY <1>5 DEF has_two_thirds_support, a, t

\* Two supermajorities share a third of the stake.
LEMMA QuorumsIntersect ==
  ASSUME NEW A \in SUBSET Validators, NEW B \in SUBSET Validators,
         has_two_thirds_support(A), has_two_thirds_support(B)
  PROVE  3 * Stake(A \cap B) >= Stake(Validators)
<1>1. /\ IsFiniteSet(Validators) /\ Balance \in [Validators -> Int]
      /\ A \cup B \in SUBSET Validators /\ A \cap B \in SUBSET Validators
  BY JustificationAssumption
<1> DEFINE a == Stake(A)
           b == Stake(B)
           i == Stake(A \cap B)
           u == Stake(A \cup B)
           t == Stake(Validators)
<1>2. a \in Nat /\ b \in Nat /\ i \in Nat /\ u \in Nat /\ t \in Nat /\ u <= t
  BY <1>1, StakeFacts
<1>3. u + i = a + b
  BY <1>1, TotalModular, StakeIsTotal
<1>4. t > 1
  BY StakeAssumption DEF EFFECTIVE_BALANCE_INCREMENT
<1>5. 3 * a >= 2 * t
  <2>1. 3 * get_total_balance(A) >= 2 * get_total_balance(Validators)
    BY DEF has_two_thirds_support
  <2>2. /\ get_total_balance(A) = IF a >= 1 THEN a ELSE 1
        /\ get_total_balance(Validators) = IF t >= 1 THEN t ELSE 1
    BY TotalBalance
  <2> HIDE DEF a, t
  <2> QED BY <1>2, <1>4, <2>1, <2>2
<1>6. 3 * b >= 2 * t
  <2>1. 3 * get_total_balance(B) >= 2 * get_total_balance(Validators)
    BY DEF has_two_thirds_support
  <2>2. /\ get_total_balance(B) = IF b >= 1 THEN b ELSE 1
        /\ get_total_balance(Validators) = IF t >= 1 THEN t ELSE 1
    BY TotalBalance
  <2> HIDE DEF b, t
  <2> QED BY <1>2, <1>4, <2>1, <2>2
<1> HIDE DEF a, b, i, u, t
<1>7. 3 * i >= t
  BY <1>2, <1>3, <1>5, <1>6
<1> QED BY <1>7 DEF i, t

--------------------------------------------------------------------------------
(* What carries JustifiedByVotes and FinalizedByLink over a boundary: every flag, *)
(* bit and checkpoint of a state is backed by recorded votes, and the justified   *)
(* checkpoints of a branch form a chain of links down to genesis.                *)

\* Voters and Linked, of any set of votes.
VotersIn(V, c) == {w.validator : w \in {x \in V : x.target = c}}
LinkedIn(V, c, d) == {w.validator : w \in {x \in V : x.source = c /\ x.target = d}}

\* A supermajority voted from the checkpoint of branch b in epoch d to that in epoch e.
Link(V, b, d, e) == has_two_thirds_support(LinkedIn(V, CheckpointAt(b, d), CheckpointAt(b, e)))

\* Every epoch of J but genesis is linked from an earlier one of J.
Chain(V, b, J) == \A e \in J : e = 0 \/ \E d \in J : d < e /\ Link(V, b, d, e)

Finalizing(V, b, f) ==
  f # GenesisCheckpoint =>
    \E k \in 1..2 :
       /\ has_two_thirds_support(LinkedIn(V, f, CheckpointAt(b, f.epoch + k)))
       /\ \A i \in 1..(k - 1) : has_two_thirds_support(VotersIn(V, CheckpointAt(b, f.epoch + i)))

\* The state s of branch b in epoch e says nothing that the votes V do not.
BackedFlags(V, b, s, e) ==
  /\ s.current_epoch_participation
       \subseteq LinkedIn(V, s.current_justified_checkpoint, CheckpointAt(b, e))
  /\ s.previous_epoch_participation
       \subseteq LinkedIn(V, s.previous_justified_checkpoint, CheckpointAt(b, e - 1))
BackedBits(V, b, s, e) ==
  /\ \A i \in s.justification_bits :
        i + 1 < e /\ has_two_thirds_support(VotersIn(V, CheckpointAt(b, e - 1 - i)))
  /\ 0 \in s.justification_bits =>
       has_two_thirds_support(LinkedIn(V, s.previous_justified_checkpoint, CheckpointAt(b, e - 1)))
OnBranch(b, s) ==
  \A c \in {s.current_justified_checkpoint, s.previous_justified_checkpoint,
            s.finalized_checkpoint} : c = CheckpointAt(b, c.epoch)
Lagging(s, e) ==
  IF e = 1 THEN /\ s.current_justified_checkpoint = GenesisCheckpoint
                /\ s.previous_justified_checkpoint = GenesisCheckpoint
  ELSE s.previous_justified_checkpoint.epoch < e - 1
Chained(V, b, s) ==
  \E J \in SUBSET Nat :
     /\ Chain(V, b, J)
     /\ {s.current_justified_checkpoint.epoch, s.previous_justified_checkpoint.epoch,
         s.finalized_checkpoint.epoch} \subseteq J
Backed ==
  \A b \in Branches :
     /\ OnBranch(b, state[b]) /\ Lagging(state[b], epoch)
     /\ BackedFlags(votes, b, state[b], epoch) /\ BackedBits(votes, b, state[b], epoch)
     /\ Chained(votes, b, state[b]) /\ Finalizing(votes, b, state[b].finalized_checkpoint)

\* Votes are never withdrawn, so what they support stays supported.
LEMMA VotesGrow ==
  ASSUME NEW V, NEW W \in SUBSET SignedVote, V \subseteq W, NEW c, NEW d
  PROVE  /\ LinkedIn(V, c, d) \subseteq LinkedIn(W, c, d)
         /\ VotersIn(V, c) \subseteq VotersIn(W, c)
         /\ LinkedIn(V, c, d) \subseteq VotersIn(W, d)
         /\ has_two_thirds_support(LinkedIn(V, c, d)) => has_two_thirds_support(LinkedIn(W, c, d))
         /\ has_two_thirds_support(LinkedIn(V, c, d)) => has_two_thirds_support(VotersIn(W, d))
         /\ has_two_thirds_support(VotersIn(V, c)) => has_two_thirds_support(VotersIn(W, c))
<1>1. /\ LinkedIn(V, c, d) \subseteq LinkedIn(W, c, d)
      /\ VotersIn(V, c) \subseteq VotersIn(W, c)
      /\ LinkedIn(V, c, d) \subseteq VotersIn(W, d)
  BY DEF LinkedIn, VotersIn
<1>2. /\ LinkedIn(W, c, d) \subseteq Validators /\ VotersIn(W, d) \subseteq Validators
      /\ VotersIn(W, c) \subseteq Validators
  BY DEF LinkedIn, VotersIn, SignedVote
<1> QED BY <1>1, <1>2, SupportMonotone

LEMMA ChainGrows ==
  ASSUME NEW V, NEW W \in SUBSET SignedVote, V \subseteq W, NEW b, NEW J, Chain(V, b, J)
  PROVE  Chain(W, b, J)
BY VotesGrow DEF Chain, Link

LEMMA FinalizingGrows ==
  ASSUME NEW V, NEW W \in SUBSET SignedVote, V \subseteq W, NEW b, NEW f, Finalizing(V, b, f)
  PROVE  Finalizing(W, b, f)
BY Zenon, VotesGrow DEF Finalizing

LEMMA BitsGrow ==
  ASSUME NEW V, NEW W \in SUBSET SignedVote, V \subseteq W, NEW b, NEW s, NEW e,
         BackedBits(V, b, s, e)
  PROVE  BackedBits(W, b, s, e)
BY Zenon, VotesGrow DEF BackedBits

LEMMA InitBacked == Init => Backed
<1> SUFFICES ASSUME Init, NEW b \in Branches
             PROVE  /\ OnBranch(b, state[b]) /\ Lagging(state[b], epoch)
                    /\ BackedFlags(votes, b, state[b], epoch) /\ BackedBits(votes, b, state[b], epoch)
                    /\ Chained(votes, b, state[b])
                    /\ Finalizing(votes, b, state[b].finalized_checkpoint)
  BY DEF Backed
<1> DEFINE s == state[b]
<1>1. /\ epoch = 1 /\ s.justification_bits = {}
      /\ s.current_justified_checkpoint = GenesisCheckpoint
      /\ s.previous_justified_checkpoint = GenesisCheckpoint
      /\ s.finalized_checkpoint = GenesisCheckpoint
      /\ s.previous_epoch_participation = {} /\ s.current_epoch_participation = {}
  BY DEF Init, GENESIS_EPOCH
<1>2. GenesisCheckpoint.epoch = 0 /\ GenesisCheckpoint = CheckpointAt(b, 0)
  BY JustificationAssumption
     DEF GenesisCheckpoint, CheckpointAt, block_root, ZeroRoot, GENESIS_EPOCH
<1> HIDE DEF s
<1>3. Chain(votes, b, {0}) /\ {0} \in SUBSET Nat
  BY DEF Chain
<1>4. Chained(votes, b, s)
  BY <1>1, <1>2, <1>3 DEF Chained
<1>5. OnBranch(b, s) /\ Lagging(s, epoch) /\ Finalizing(votes, b, s.finalized_checkpoint)
  BY <1>1, <1>2 DEF OnBranch, Lagging, Finalizing
<1>6. BackedFlags(votes, b, s, epoch) /\ BackedBits(votes, b, s, epoch)
  BY <1>1 DEF BackedFlags, BackedBits
<1> QED BY <1>4, <1>5, <1>6 DEF s

\* An included attestation flags only validators whose vote it records.
LEMMA AttestBacked ==
  ASSUME Consistent, Consistent', Backed, Attest
  PROVE  Backed'
<1>1. PICK b \in Branches, S \in Aggregates, e \in {previous_epoch, epoch} :
        process_attestation(b, S, e)
  BY DEF Attest
<1> DEFINE s == state[b]
           t == state'[b]
           signed == [validator : S, source : {RequiredSource(s, e)},
                      target : {CheckpointAt(b, e)}]
<1>2. /\ epoch \in Nat /\ epoch > 0 /\ state \in [Branches -> BranchState]
      /\ votes' \in SUBSET SignedVote
  BY DEF Consistent, TypeOK, GENESIS_EPOCH
<1>3. /\ votes' = votes \cup signed /\ epoch' = epoch
      /\ state' = [state EXCEPT ![b] = Flagged(s, S, e)]
  BY <1>1 DEF process_attestation
<1>4. s \in BranchState /\ t = Flagged(s, S, e)
  BY <1>2, <1>3
<1>5. /\ t.current_justified_checkpoint = s.current_justified_checkpoint
      /\ t.previous_justified_checkpoint = s.previous_justified_checkpoint
      /\ t.finalized_checkpoint = s.finalized_checkpoint
      /\ t.justification_bits = s.justification_bits
      /\ e = epoch => /\ t.current_epoch_participation = s.current_epoch_participation \cup S
                      /\ t.previous_epoch_participation = s.previous_epoch_participation
      /\ e # epoch => /\ t.previous_epoch_participation = s.previous_epoch_participation \cup S
                      /\ t.current_epoch_participation = s.current_epoch_participation
  BY <1>4 DEF Flagged, BranchState
<1>6. previous_epoch = epoch - 1 /\ previous_epoch # epoch
  BY <1>2 DEF previous_epoch, GENESIS_EPOCH
<1>7. S \subseteq LinkedIn(votes', RequiredSource(s, e), CheckpointAt(b, e))
  <2> SUFFICES ASSUME NEW v \in S
               PROVE  v \in LinkedIn(votes', RequiredSource(s, e), CheckpointAt(b, e))
    OBVIOUS
  <2> DEFINE w == [validator |-> v, source |-> RequiredSource(s, e), target |-> CheckpointAt(b, e)]
  <2>1. w \in signed
    OBVIOUS
  <2>2. w \in votes' /\ w.validator = v /\ w.source = RequiredSource(s, e)
        /\ w.target = CheckpointAt(b, e)
    BY <1>3, <2>1
  <2> HIDE DEF w
  <2> QED BY <2>2 DEF LinkedIn
<1>8. votes \subseteq votes'
  BY <1>3
<1>9. ASSUME NEW c \in Branches
      PROVE  BackedFlags(votes', c, state[c], epoch)
  BY Zenon, <1>2, <1>8, VotesGrow DEF Backed, BackedFlags
<1>10. BackedFlags(votes', b, t, epoch)
  <2> HIDE DEF s, t, signed
  <2>1. CASE e = epoch
    <3>1. RequiredSource(s, e) = s.current_justified_checkpoint
      BY <2>1 DEF RequiredSource
    <3> QED BY <1>5, <1>7, <1>9, <2>1, <3>1 DEF BackedFlags, s
  <2>2. CASE e # epoch
    <3>1. RequiredSource(s, e) = s.previous_justified_checkpoint /\ e = epoch - 1
      BY <1>6, <2>2 DEF RequiredSource
    <3> QED BY <1>5, <1>7, <1>9, <2>2, <3>1 DEF BackedFlags, s
  <2> QED BY <2>1, <2>2
<1> HIDE DEF s, t, signed
<1>11. ASSUME NEW c \in Branches
       PROVE  /\ OnBranch(c, state'[c]) /\ Lagging(state'[c], epoch)
              /\ BackedFlags(votes', c, state'[c], epoch) /\ BackedBits(votes', c, state'[c], epoch)
              /\ Chained(votes', c, state'[c])
              /\ Finalizing(votes', c, state'[c].finalized_checkpoint)
  <2> DEFINE p == state[c]
             q == state'[c]
  <2>1. /\ q.current_justified_checkpoint = p.current_justified_checkpoint
        /\ q.previous_justified_checkpoint = p.previous_justified_checkpoint
        /\ q.finalized_checkpoint = p.finalized_checkpoint
        /\ q.justification_bits = p.justification_bits
        /\ BackedFlags(votes', c, q, epoch)
    <3>1. CASE c = b
      BY <1>5, <1>10, <3>1 DEF s, t
    <3>2. CASE c # b
      BY <1>2, <1>3, <1>9, <3>2
    <3> QED BY <3>1, <3>2
  <2>2. /\ OnBranch(c, p) /\ Lagging(p, epoch) /\ BackedBits(votes, c, p, epoch)
        /\ Chained(votes, c, p) /\ Finalizing(votes, c, p.finalized_checkpoint)
    BY DEF Backed
  <2> HIDE DEF p, q
  <2>3. OnBranch(c, q) /\ Lagging(q, epoch)
    BY <2>1, <2>2 DEF OnBranch, Lagging
  <2>4. BackedBits(votes', c, q, epoch)
    <3>1. BackedBits(votes', c, p, epoch)
      BY <1>2, <1>8, <2>2, BitsGrow
    <3> QED BY <2>1, <3>1 DEF BackedBits
  <2>5. Chained(votes', c, q)
    BY <1>2, <1>8, <2>1, <2>2, ChainGrows DEF Chained
  <2>6. Finalizing(votes', c, q.finalized_checkpoint)
    BY <1>2, <1>8, <2>1, <2>2, FinalizingGrows
  <2> QED BY <2>1, <2>3, <2>4, <2>5, <2>6 DEF q
<1> QED BY <1>3, <1>11 DEF Backed

\* The fields of the state after an epoch boundary.
LEMMA BoundaryFields ==
  ASSUME Consistent, NEW b \in Branches
  PROVE  LET s == state[b]
             t == process_epoch(b)
             ps == has_two_thirds_support(s.previous_epoch_participation)
             cs == has_two_thirds_support(s.current_epoch_participation)
             bits == Shifted(s.justification_bits)
                       \cup (IF ps THEN {1} ELSE {}) \cup (IF cs THEN {0} ELSE {})
         IN  /\ t.current_epoch_participation = {}
             /\ t.previous_epoch_participation = s.current_epoch_participation
             /\ epoch = 1 =>
                  /\ t.justification_bits = s.justification_bits
                  /\ t.current_justified_checkpoint = s.current_justified_checkpoint
                  /\ t.previous_justified_checkpoint = s.previous_justified_checkpoint
                  /\ t.finalized_checkpoint = s.finalized_checkpoint
             /\ epoch # 1 =>
                  /\ t.justification_bits = bits
                  /\ t.previous_justified_checkpoint = s.current_justified_checkpoint
                  /\ t.current_justified_checkpoint =
                       IF cs THEN CheckpointAt(b, epoch)
                       ELSE IF ps THEN CheckpointAt(b, epoch - 1)
                       ELSE s.current_justified_checkpoint
                  /\ t.finalized_checkpoint = finalized_checkpoint(s, bits)
<1> DEFINE s == state[b]
           u == process_justification_and_finalization(b, s)
           t == process_epoch(b)
           ps == has_two_thirds_support(s.previous_epoch_participation)
           cs == has_two_thirds_support(s.current_epoch_participation)
           bits == Shifted(s.justification_bits)
                     \cup (IF ps THEN {1} ELSE {}) \cup (IF cs THEN {0} ELSE {})
           cur == IF cs THEN CheckpointAt(b, epoch)
                  ELSE IF ps THEN CheckpointAt(b, epoch - 1)
                  ELSE s.current_justified_checkpoint
           fin == finalized_checkpoint(s, bits)
<1>1. s \in BranchState /\ epoch \in Nat /\ epoch > 0
  BY DEF Consistent, TypeOK, GENESIS_EPOCH
<1>2. t = [u EXCEPT !.previous_epoch_participation = u.current_epoch_participation,
                    !.current_epoch_participation = {}]
  BY DEF process_epoch, process_participation_flag_updates
<1>3. CASE epoch = 1
  <2>1. u = s
    BY <1>3 DEF process_justification_and_finalization, GENESIS_EPOCH
  <2> HIDE DEF u, t, s
  <2> QED BY <1>1, <1>2, <1>3, <2>1 DEF BranchState, u, t, s
<1>4. CASE epoch # 1
  <2>1. ~(epoch <= GENESIS_EPOCH + 1) /\ previous_epoch = epoch - 1
    BY <1>1, <1>4 DEF previous_epoch, GENESIS_EPOCH
  <2>2. u = [s EXCEPT !.justification_bits = bits,
                      !.previous_justified_checkpoint = s.current_justified_checkpoint,
                      !.current_justified_checkpoint = cur,
                      !.finalized_checkpoint = fin]
    BY <2>1 DEF process_justification_and_finalization
  <2> HIDE DEF u, t, s, bits, cur, fin
  <2>3. /\ t.current_epoch_participation = {}
        /\ t.previous_epoch_participation = s.current_epoch_participation
        /\ t.justification_bits = bits
        /\ t.previous_justified_checkpoint = s.current_justified_checkpoint
        /\ t.current_justified_checkpoint = cur
        /\ t.finalized_checkpoint = fin
    BY <1>1, <1>2, <2>2 DEF BranchState
  <2> QED BY <1>4, <2>3 DEF u, t, s, bits, cur, fin
<1> QED BY <1>3, <1>4

\* The bits after a boundary are backed: each by the flags just counted or by the
\* bit it was shifted from.
LEMMA BoundaryBits ==
  ASSUME Consistent, Backed, epoch # 1, NEW b \in Branches, NEW i \in process_epoch(b).justification_bits
  PROVE  /\ i \in Nat /\ i + 1 < epoch + 1
         /\ has_two_thirds_support(VotersIn(votes, CheckpointAt(b, epoch - i)))
         /\ i = 0 => /\ has_two_thirds_support(state[b].current_epoch_participation)
                     /\ has_two_thirds_support(LinkedIn(votes, state[b].current_justified_checkpoint,
                                                        CheckpointAt(b, epoch)))
         /\ i = 1 => has_two_thirds_support(LinkedIn(votes, state[b].previous_justified_checkpoint,
                                                     CheckpointAt(b, epoch - 1)))
<1> DEFINE s == state[b]
           cjc == s.current_justified_checkpoint
           pjc == s.previous_justified_checkpoint
           cur == CheckpointAt(b, epoch)
           prev == CheckpointAt(b, epoch - 1)
           ps == has_two_thirds_support(s.previous_epoch_participation)
           cs == has_two_thirds_support(s.current_epoch_participation)
<1>1. /\ epoch \in Nat /\ epoch > 1 /\ votes \in SUBSET SignedVote /\ s \in BranchState
      /\ epoch - 1 \in Nat
  BY DEF Consistent, TypeOK, GENESIS_EPOCH
<1>2. BackedFlags(votes, b, s, epoch) /\ BackedBits(votes, b, s, epoch)
  BY DEF Backed
<1>3. ASSUME NEW c, NEW d
      PROVE  LinkedIn(votes, c, d) \subseteq Validators /\ VotersIn(votes, d) \subseteq Validators
             /\ LinkedIn(votes, c, d) \subseteq VotersIn(votes, d)
  BY <1>1 DEF LinkedIn, VotersIn, SignedVote
<1>4. i \in Shifted(s.justification_bits) \/ (i = 1 /\ ps) \/ (i = 0 /\ cs)
  BY Zenon, BoundaryFields
<1> HIDE DEF s, cur, prev
<1>5. CASE i = 0 /\ cs
  <2>1. has_two_thirds_support(LinkedIn(votes, cjc, cur))
    BY <1>2, <1>3, <1>5, SupportMonotone DEF BackedFlags, cur
  <2>2. has_two_thirds_support(VotersIn(votes, cur))
    BY <1>3, <2>1, SupportMonotone
  <2>3. epoch - i = epoch
    BY <1>1, <1>5
  <2> QED BY <1>1, <1>5, <2>1, <2>2, <2>3 DEF s, cur
<1>6. CASE i = 1 /\ ps
  <2>1. has_two_thirds_support(LinkedIn(votes, pjc, prev))
    BY <1>2, <1>3, <1>6, SupportMonotone DEF BackedFlags, prev
  <2>2. has_two_thirds_support(VotersIn(votes, prev))
    BY <1>3, <2>1, SupportMonotone
  <2> QED BY <1>1, <1>6, <2>1, <2>2 DEF s, prev
<1>7. CASE i \in Shifted(s.justification_bits)
  <2>1. PICK j \in s.justification_bits : i = j + 1
    BY <1>7 DEF Shifted
  <2>2. j \in Nat
    BY <1>1 DEF BranchState
  <2>3. j + 1 < epoch /\ has_two_thirds_support(VotersIn(votes, CheckpointAt(b, epoch - 1 - j)))
    BY <1>2, <2>1 DEF BackedBits
  <2>4. i \in Nat /\ i + 1 < epoch + 1 /\ epoch - 1 - j = epoch - i /\ i # 0
    BY <1>1, <2>1, <2>2, <2>3
  <2>5. i = 1 => has_two_thirds_support(LinkedIn(votes, pjc, prev))
    <3>1. i = 1 => j = 0
      BY <2>1, <2>2
    <3> QED BY <1>2, <2>1, <3>1 DEF BackedBits, prev
  <2> QED BY <2>3, <2>4, <2>5 DEF s, prev
<1> QED BY <1>4, <1>5, <1>6, <1>7

\* The four rules finalize a checkpoint only along the links that make it final.
LEMMA BoundaryFinalizes ==
  ASSUME Consistent, Backed, epoch # 1, NEW b \in Branches
  PROVE  Finalizing(votes, b, process_epoch(b).finalized_checkpoint)
<1> DEFINE s == state[b]
           t == process_epoch(b)
           cjc == s.current_justified_checkpoint
           pjc == s.previous_justified_checkpoint
           bits == t.justification_bits
           f == t.finalized_checkpoint
           Voted(e) == has_two_thirds_support(VotersIn(votes, CheckpointAt(b, e)))
           From(c, e) == has_two_thirds_support(LinkedIn(votes, c, CheckpointAt(b, e)))
<1>1. /\ epoch \in Nat /\ epoch > 1 /\ s \in BranchState
  BY DEF Consistent, TypeOK, GENESIS_EPOCH
<1>2. cjc.epoch \in Nat /\ pjc.epoch \in Nat
  BY <1>1 DEF BranchState, Checkpoint
<1>3. f = finalized_checkpoint(s, bits)
  BY Zenon, BoundaryFields
<1>4. \A i \in bits : Voted(epoch - i)
  BY BoundaryBits
<1>5. /\ 0 \in bits => From(cjc, epoch)
      /\ 1 \in bits => From(pjc, epoch - 1)
  BY BoundaryBits
<1>6. /\ 0 \in 0..1 /\ 1 \in 0..1 /\ 0 \in 0..2 /\ 1 \in 0..2 /\ 1 \in 1..2
      /\ 1 \in 1..3 /\ 2 \in 1..3
  OBVIOUS
<1> HIDE DEF s, t, bits, f, Voted, From
<1>7. ASSUME NEW c, NEW k \in 1..2, From(c, c.epoch + k),
             \A i \in 1..(k - 1) : Voted(c.epoch + i)
      PROVE  Finalizing(votes, b, c)
  BY <1>7 DEF Finalizing, Voted, From
<1>8. CASE 0..1 \subseteq bits /\ cjc.epoch + 1 = epoch
  <2>1. f = cjc /\ From(cjc, cjc.epoch + 1) /\ \A i \in 1..(1 - 1) : Voted(cjc.epoch + i)
    BY <1>3, <1>5, <1>6, <1>8 DEF finalized_checkpoint
  <2> QED BY <1>7, <2>1 DEF f, t
<1>9. CASE 0..2 \subseteq bits /\ cjc.epoch + 2 = epoch
  <2>1. f = cjc /\ From(cjc, cjc.epoch + 2)
    BY <1>3, <1>5, <1>6, <1>9 DEF finalized_checkpoint
  <2>2. epoch - 1 = cjc.epoch + 1
    BY <1>1, <1>2, <1>9
  <2>3. Voted(cjc.epoch + 1)
    BY <1>4, <1>6, <1>9, <2>2
  <2>4. \A i \in 1..(2 - 1) : Voted(cjc.epoch + i)
    BY <2>3
  <2> QED BY <1>7, <2>1, <2>4 DEF f, t
<1>10. CASE /\ ~(0..1 \subseteq bits /\ cjc.epoch + 1 = epoch)
            /\ ~(0..2 \subseteq bits /\ cjc.epoch + 2 = epoch)
            /\ 1..2 \subseteq bits /\ pjc.epoch + 2 = epoch
  <2>1. f = pjc
    BY <1>3, <1>10 DEF finalized_checkpoint
  <2>2. epoch - 1 = pjc.epoch + 1
    BY <1>1, <1>2, <1>10
  <2>3. From(pjc, pjc.epoch + 1) /\ \A i \in 1..(1 - 1) : Voted(pjc.epoch + i)
    BY <1>5, <1>6, <1>10, <2>2
  <2> QED BY <1>7, <2>1, <2>3 DEF f, t
<1>11. CASE /\ ~(0..1 \subseteq bits /\ cjc.epoch + 1 = epoch)
            /\ ~(0..2 \subseteq bits /\ cjc.epoch + 2 = epoch)
            /\ 1..3 \subseteq bits /\ pjc.epoch + 3 = epoch
  <2>1. f = pjc
    BY <1>3, <1>11 DEF finalized_checkpoint
  <2>2. epoch - 1 = pjc.epoch + 2 /\ epoch - 2 = pjc.epoch + 1
    BY <1>1, <1>2, <1>11
  <2>3. From(pjc, pjc.epoch + 2) /\ Voted(pjc.epoch + 1)
    BY <1>4, <1>5, <1>6, <1>11, <2>2
  <2>4. \A i \in 1..(2 - 1) : Voted(pjc.epoch + i)
    BY <2>3
  <2> QED BY <1>7, <2>1, <2>3, <2>4 DEF f, t
<1>12. CASE /\ ~(0..1 \subseteq bits /\ cjc.epoch + 1 = epoch)
            /\ ~(0..2 \subseteq bits /\ cjc.epoch + 2 = epoch)
            /\ ~(1..2 \subseteq bits /\ pjc.epoch + 2 = epoch)
            /\ ~(1..3 \subseteq bits /\ pjc.epoch + 3 = epoch)
  <2>1. f = s.finalized_checkpoint
    BY <1>3, <1>12 DEF finalized_checkpoint
  <2> QED BY <2>1 DEF Backed, f, t, s
<1> QED BY <1>8, <1>9, <1>10, <1>11, <1>12

\* The justified checkpoints of a branch keep forming a chain of links.
LEMMA BoundaryChained ==
  ASSUME Consistent, Backed, epoch # 1, NEW b \in Branches
  PROVE  /\ Chained(votes, b, process_epoch(b))
         /\ OnBranch(b, process_epoch(b))
<1> DEFINE s == state[b]
           t == process_epoch(b)
           cjc == s.current_justified_checkpoint
           pjc == s.previous_justified_checkpoint
           cur == t.current_justified_checkpoint
           ps == has_two_thirds_support(s.previous_epoch_participation)
           cs == has_two_thirds_support(s.current_epoch_participation)
<1>1. /\ epoch \in Nat /\ epoch > 1 /\ epoch - 1 \in Nat /\ s \in BranchState
      /\ votes \in SUBSET SignedVote
  BY DEF Consistent, TypeOK, GENESIS_EPOCH
<1>2. cjc.epoch \in Nat /\ pjc.epoch \in Nat /\ cjc.epoch < epoch /\ pjc.epoch < epoch - 1
  BY <1>1 DEF BranchState, Checkpoint, Consistent, Behind, Backed, Lagging
<1>3. PICK J \in SUBSET Nat :
        /\ Chain(votes, b, J)
        /\ {cjc.epoch, pjc.epoch, s.finalized_checkpoint.epoch} \subseteq J
  BY DEF Backed, Chained
<1>4. OnBranch(b, s) /\ BackedFlags(votes, b, s, epoch)
  BY DEF Backed
<1>5. /\ t.previous_justified_checkpoint = cjc
      /\ cur = IF cs THEN CheckpointAt(b, epoch)
               ELSE IF ps THEN CheckpointAt(b, epoch - 1) ELSE cjc
      /\ t.finalized_checkpoint \in {cjc, pjc, s.finalized_checkpoint}
  <2>1. t.previous_justified_checkpoint = cjc
    BY BoundaryFields, ZenonT(30)
  <2>2. cur = IF cs THEN CheckpointAt(b, epoch)
              ELSE IF ps THEN CheckpointAt(b, epoch - 1) ELSE cjc
    BY BoundaryFields, ZenonT(30)
  <2>3. \E bits : t.finalized_checkpoint = finalized_checkpoint(s, bits)
    BY BoundaryFields, ZenonT(30)
  <2>4. t.finalized_checkpoint \in {cjc, pjc, s.finalized_checkpoint}
    BY <2>3, FinalizedChoice, ZenonT(30)
  <2> QED BY <2>1, <2>2, <2>4
<1>6. /\ CheckpointAt(b, epoch).epoch = epoch /\ CheckpointAt(b, epoch - 1).epoch = epoch - 1
  BY DEF CheckpointAt
<1>7. ASSUME NEW c, NEW d PROVE LinkedIn(votes, c, d) \in SUBSET Validators
  BY <1>1 DEF LinkedIn, SignedVote
<1> HIDE DEF s, t, cur, cs, ps
<1>8. /\ cs => has_two_thirds_support(LinkedIn(votes, cjc, CheckpointAt(b, epoch)))
      /\ ps => has_two_thirds_support(LinkedIn(votes, pjc, CheckpointAt(b, epoch - 1)))
  BY <1>4, <1>7, SupportMonotone DEF BackedFlags, cs, ps
<1>9. cjc = CheckpointAt(b, cjc.epoch) /\ pjc = CheckpointAt(b, pjc.epoch)
  BY <1>4 DEF OnBranch
<1>10. /\ cur.epoch \in Nat
       /\ cur.epoch \in J \/ \E d \in J : d < cur.epoch /\ Link(votes, b, d, cur.epoch)
       /\ cur = CheckpointAt(b, cur.epoch)
  <2>1. CASE cs
    BY <1>1, <1>2, <1>3, <1>5, <1>6, <1>8, <1>9, <2>1 DEF Link
  <2>2. CASE ~cs /\ ps
    BY <1>1, <1>2, <1>3, <1>5, <1>6, <1>8, <1>9, <2>2 DEF Link
  <2>3. CASE ~cs /\ ~ps
    BY <1>2, <1>3, <1>5, <1>9, <2>3
  <2> QED BY <2>1, <2>2, <2>3
<1> DEFINE K == J \cup {cur.epoch}
<1>11. K \in SUBSET Nat /\ Chain(votes, b, K)
  BY Zenon, <1>3, <1>10 DEF Chain
<1>12. {cur.epoch, t.previous_justified_checkpoint.epoch, t.finalized_checkpoint.epoch} \subseteq K
  BY <1>3, <1>5
<1> HIDE DEF K
<1>13. Chained(votes, b, t)
  BY <1>11, <1>12 DEF Chained, cur
<1>14. OnBranch(b, t)
  BY <1>4, <1>5, <1>10 DEF OnBranch, cur
<1> QED BY <1>13, <1>14 DEF t

\* Rotating the flags and shifting the bits together keeps every one of them backed.
LEMMA BoundaryBacked ==
  ASSUME Consistent, Backed, EpochBoundary
  PROVE  Backed'
<1>1. /\ epoch \in Nat /\ epoch > 0 /\ state \in [Branches -> BranchState]
  BY DEF Consistent, TypeOK, GENESIS_EPOCH
<1>2. epoch' = epoch + 1 /\ votes' = votes /\ state' = [b \in Branches |-> process_epoch(b)]
  BY DEF EpochBoundary
<1>3. ASSUME NEW b \in Branches
      PROVE  /\ OnBranch(b, process_epoch(b)) /\ Lagging(process_epoch(b), epoch + 1)
             /\ BackedFlags(votes, b, process_epoch(b), epoch + 1)
             /\ BackedBits(votes, b, process_epoch(b), epoch + 1)
             /\ Chained(votes, b, process_epoch(b))
             /\ Finalizing(votes, b, process_epoch(b).finalized_checkpoint)
  <2> DEFINE s == state[b]
             t == process_epoch(b)
             n == epoch + 1
  <2>1. /\ OnBranch(b, s) /\ Lagging(s, epoch) /\ BackedFlags(votes, b, s, epoch)
        /\ BackedBits(votes, b, s, epoch) /\ Chained(votes, b, s)
        /\ Finalizing(votes, b, s.finalized_checkpoint)
    BY DEF Backed
  <2>2. s \in BranchState /\ n # 1 /\ n - 1 = epoch
    BY <1>1
  <2>3. s.current_justified_checkpoint.epoch < epoch
    BY DEF Consistent, Behind
  <2>4. /\ t.current_epoch_participation = {}
        /\ t.previous_epoch_participation = s.current_epoch_participation
    BY Zenon, BoundaryFields
  <2>5. CASE epoch = 1
    <3>1. /\ t.justification_bits = s.justification_bits
          /\ t.current_justified_checkpoint = s.current_justified_checkpoint
          /\ t.previous_justified_checkpoint = s.previous_justified_checkpoint
          /\ t.finalized_checkpoint = s.finalized_checkpoint
      BY <2>5, BoundaryFields
    <3>2. /\ s.current_justified_checkpoint = GenesisCheckpoint
          /\ s.previous_justified_checkpoint = GenesisCheckpoint
          /\ GenesisCheckpoint.epoch = 0
      BY <2>1, <2>5 DEF Lagging, GenesisCheckpoint, GENESIS_EPOCH
    <3>3. s.justification_bits = {}
      BY <2>1, <2>2, <2>5, SMTT(30) DEF BackedBits, BranchState
    <3> HIDE DEF s, t, n
    <3>4. BackedFlags(votes, b, t, n)
      BY <2>1, <2>2, <2>4, <3>1, <3>2 DEF BackedFlags
    <3>5. OnBranch(b, t) /\ Chained(votes, b, t) /\ Finalizing(votes, b, t.finalized_checkpoint)
      BY <2>1, <3>1 DEF OnBranch, Chained
    <3>6. BackedBits(votes, b, t, n)
      BY <3>1, <3>3 DEF BackedBits
    <3>7. Lagging(t, n)
      BY <2>2, <2>5, <3>1, <3>2 DEF Lagging
    <3> QED BY <3>4, <3>5, <3>6, <3>7 DEF t, n
  <2>6. CASE epoch # 1
    <3>1. t.previous_justified_checkpoint = s.current_justified_checkpoint
      BY Zenon, <2>6, BoundaryFields
    <3>2. ASSUME NEW i \in t.justification_bits
          PROVE  /\ i + 1 < n
                 /\ has_two_thirds_support(VotersIn(votes, CheckpointAt(b, n - 1 - i)))
                 /\ i = 0 => has_two_thirds_support(LinkedIn(votes, s.current_justified_checkpoint,
                                                             CheckpointAt(b, epoch)))
      <4>1. n - 1 - i = epoch - i
        BY <2>2
      <4> QED BY <2>6, <4>1, BoundaryBits
    <3>3. OnBranch(b, t) /\ Chained(votes, b, t)
      BY <2>6, BoundaryChained
    <3>4. Finalizing(votes, b, t.finalized_checkpoint)
      BY <2>6, BoundaryFinalizes
    <3> HIDE DEF s, t, n
    <3>5. BackedFlags(votes, b, t, n)
      BY <2>1, <2>2, <2>4, <3>1 DEF BackedFlags
    <3>6. BackedBits(votes, b, t, n)
      BY <2>2, <3>1, <3>2 DEF BackedBits
    <3>7. Lagging(t, n)
      BY <2>2, <2>3, <3>1 DEF Lagging
    <3> QED BY <3>3, <3>4, <3>5, <3>6, <3>7 DEF t, n
  <2> QED BY <2>5, <2>6
<1> QED BY <1>2, <1>3 DEF Backed

LEMMA AlwaysBacked == Spec => [](Consistent /\ Backed)
<1>1. Consistent /\ Consistent' /\ Backed /\ [Next]_vars => Backed'
  <2> SUFFICES ASSUME Consistent, Consistent', Backed, [Next]_vars PROVE Backed'
    OBVIOUS
  <2>1. CASE UNCHANGED vars
    BY <2>1 DEF vars, Backed
  <2> QED BY <2>1, AttestBacked, BoundaryBacked DEF Next
<1> QED BY <1>1, InitBacked, AlwaysConsistent, PTL DEF Spec

--------------------------------------------------------------------------------

\* An epoch after genesis in a chain of links has votes of two thirds.
LEMMA ChainVoted ==
  ASSUME NEW b, NEW J, Chain(votes, b, J), NEW e \in J, e # 0, votes \in SUBSET SignedVote
  PROVE  has_two_thirds_support(VotersIn(votes, CheckpointAt(b, e)))
BY Zenon, VotesGrow DEF Chain, Link

\* A checkpoint of a branch is justified only by votes of two thirds of the stake for
\* it (JustifiedByVotes), whatever the balances, the votes and their order.
THEOREM JustifiedByVotesAlways == Spec => []JustifiedByVotes
<1>1. ASSUME Consistent, Backed PROVE JustifiedByVotes
  <2> SUFFICES ASSUME NEW b \in Branches,
                      state[b].current_justified_checkpoint # GenesisCheckpoint
               PROVE  has_two_thirds_support(Voters(state[b].current_justified_checkpoint))
    BY DEF JustifiedByVotes
  <2> DEFINE c == state[b].current_justified_checkpoint
  <2>1. PICK J \in SUBSET Nat : Chain(votes, b, J) /\ c.epoch \in J
    BY <1>1 DEF Backed, Chained
  <2>2. c = CheckpointAt(b, c.epoch)
    BY <1>1 DEF Backed, OnBranch
  <2>3. c.epoch # 0
    BY <2>2, JustificationAssumption
       DEF GenesisCheckpoint, CheckpointAt, block_root, ZeroRoot, GENESIS_EPOCH
  <2>4. votes \in SUBSET SignedVote
    BY <1>1 DEF Consistent, TypeOK
  <2>5. Voters(c) = VotersIn(votes, c)
    BY DEF Voters, VotersIn
  <2> HIDE DEF c
  <2> QED BY <2>1, <2>2, <2>3, <2>4, <2>5, ChainVoted DEF c
<1> QED BY <1>1, AlwaysBacked, PTL

\* The four rules on the shifting bits finalize only along links (FinalizedByLink).
THEOREM FinalizedByLinkAlways == Spec => []FinalizedByLink
<1>1. ASSUME Backed PROVE FinalizedByLink
  <2>1. ASSUME NEW c, NEW d PROVE Linked(c, d) = LinkedIn(votes, c, d) /\ Voters(c) = VotersIn(votes, c)
    BY DEF Linked, LinkedIn, Voters, VotersIn
  <2> QED BY <1>1, <2>1 DEF Backed, Finalizing, FinalizedByLink
<1> QED BY <1>1, AlwaysBacked, PTL

\* Those who signed both a vote of V1 and a vote of V2 are convicted when every such
\* pair is slashable.
LEMMA QuorumsConvict ==
  ASSUME votes \in SUBSET SignedVote,
         NEW V1 \in SUBSET votes, NEW V2 \in SUBSET votes,
         has_two_thirds_support({w.validator : w \in V1}),
         has_two_thirds_support({w.validator : w \in V2}),
         \A w \in V1, x \in V2 : is_slashable_attestation_data(w, x)
  PROVE  3 * Stake(Convicted) >= Stake(Validators)
<1> DEFINE A == {w.validator : w \in V1}
           B == {w.validator : w \in V2}
<1>1. A \in SUBSET Validators /\ B \in SUBSET Validators
  BY DEF SignedVote
<1>2. A \cap B \subseteq Convicted
  <2> SUFFICES ASSUME NEW v \in A \cap B PROVE v \in Convicted
    OBVIOUS
  <2>1. PICK w \in V1 : w.validator = v
    OBVIOUS
  <2>2. PICK x \in V2 : x.validator = v
    OBVIOUS
  <2>3. w \in VotesOf(v) /\ x \in VotesOf(v) /\ v \in Validators
    BY <1>1, <2>1, <2>2 DEF VotesOf
  <2> QED BY <2>1, <2>2, <2>3 DEF Convicted
<1>3. Convicted \in SUBSET Validators
  BY DEF Convicted
<1> HIDE DEF A, B
<1>4. 3 * Stake(A \cap B) >= Stake(Validators)
  BY <1>1, QuorumsIntersect DEF A, B
<1>5. /\ Stake(A \cap B) \in Nat /\ Stake(Convicted) \in Nat /\ Stake(Validators) \in Nat
      /\ Stake(A \cap B) <= Stake(Convicted)
  BY <1>2, <1>3, StakeFacts
<1> QED BY <1>4, <1>5

\* Two thirds voting for different checkpoints of one epoch convict a third.
LEMMA DoubleVotesConvict ==
  ASSUME votes \in SUBSET SignedVote, NEW c, NEW d, c # d, c.epoch = d.epoch,
         has_two_thirds_support(VotersIn(votes, c)), has_two_thirds_support(VotersIn(votes, d))
  PROVE  3 * Stake(Convicted) >= Stake(Validators)
<1> DEFINE V1 == {x \in votes : x.target = c}
           V2 == {x \in votes : x.target = d}
<1>1. \A w \in V1, x \in V2 : is_slashable_attestation_data(w, x)
  BY DEF is_slashable_attestation_data
<1>2. /\ has_two_thirds_support({w.validator : w \in V1})
      /\ has_two_thirds_support({w.validator : w \in V2})
      /\ V1 \in SUBSET votes /\ V2 \in SUBSET votes
  BY DEF VotersIn
<1> HIDE DEF V1, V2
<1> QED BY Zenon, <1>1, <1>2, QuorumsConvict

\* A link of two thirds around another convicts a third.
LEMMA SurroundVotesConvict ==
  ASSUME votes \in SUBSET SignedVote, NEW c, NEW d, NEW p, NEW q,
         c.epoch < p.epoch, q.epoch < d.epoch,
         has_two_thirds_support(LinkedIn(votes, c, d)), has_two_thirds_support(LinkedIn(votes, p, q))
  PROVE  3 * Stake(Convicted) >= Stake(Validators)
<1> DEFINE V1 == {x \in votes : x.source = c /\ x.target = d}
           V2 == {x \in votes : x.source = p /\ x.target = q}
<1>1. \A w \in V1, x \in V2 : is_slashable_attestation_data(w, x)
  BY DEF is_slashable_attestation_data
<1>2. /\ has_two_thirds_support({w.validator : w \in V1})
      /\ has_two_thirds_support({w.validator : w \in V2})
      /\ V1 \in SUBSET votes /\ V2 \in SUBSET votes
  BY DEF LinkedIn
<1> HIDE DEF V1, V2
<1> QED BY Zenon, <1>1, <1>2, QuorumsConvict

\* Once branch b has finalized a checkpoint of its own, another branch c justifies
\* nothing of that epoch or later on top of a chain of links unless a third of the
\* stake is convicted: the first such epoch of c meets or surrounds b's link.
LEMMA LaterJustifiedConvicts ==
  ASSUME Consistent, Backed, NEW b \in Branches, NEW c \in Branches, b # c,
         state[b].finalized_checkpoint.epoch > ForkEpoch,
         NEW J \in SUBSET Nat, Chain(votes, c, J),
         NEW top \in J, top >= state[b].finalized_checkpoint.epoch
  PROVE  3 * Stake(Convicted) >= Stake(Validators)
<1> DEFINE f == state[b].finalized_checkpoint
           m == f.epoch
           Bad == {e \in J : e >= m}
<1>1. /\ votes \in SUBSET SignedVote /\ m \in Nat /\ ForkEpoch \in Nat /\ m > ForkEpoch
  BY JustificationAssumption DEF Consistent, TypeOK, BranchState, Checkpoint
<1>2. ASSUME NEW e \in Nat, e > ForkEpoch
      PROVE  /\ CheckpointAt(b, e) # CheckpointAt(c, e)
             /\ CheckpointAt(b, e).epoch = e /\ CheckpointAt(c, e).epoch = e
  BY <1>1, <1>2 DEF CheckpointAt, block_root
<1>3. PICK n \in Bad : \A e \in Bad : n <= e
  <2>1. Bad \in SUBSET Nat /\ Bad # {}
    BY Zenon
  <2> HIDE DEF Bad
  <2> QED BY <2>1, LeastNatural
<1>4. n \in J /\ n \in Nat /\ n >= m /\ n > ForkEpoch /\ n # 0
  BY <1>1, <1>3
<1>5. PICK d \in J : d < n /\ Link(votes, c, d, n)
  BY <1>4 DEF Chain
<1>6. d \in Nat /\ d < m
  BY <1>1, <1>3, <1>4, <1>5
<1>7. has_two_thirds_support(VotersIn(votes, CheckpointAt(c, n)))
  BY <1>1, <1>4, ChainVoted
<1>8. f = CheckpointAt(b, m) /\ Finalizing(votes, b, f)
  BY DEF Backed, OnBranch
<1>9. f # GenesisCheckpoint
  BY <1>1 DEF GenesisCheckpoint, GENESIS_EPOCH
<1> HIDE DEF f, m, Bad
<1>10. PICK k \in 1..2 :
         /\ has_two_thirds_support(LinkedIn(votes, f, CheckpointAt(b, m + k)))
         /\ \A i \in 1..(k - 1) : has_two_thirds_support(VotersIn(votes, CheckpointAt(b, m + i)))
  BY <1>8, <1>9 DEF Finalizing, m
<1>11. has_two_thirds_support(VotersIn(votes, CheckpointAt(b, m)))
  <2>1. PICK K \in SUBSET Nat : Chain(votes, b, K) /\ m \in K
    BY DEF Backed, Chained, m, f
  <2>2. m # 0
    BY <1>1
  <2> QED BY <1>1, <2>1, <2>2, ChainVoted
<1>12. CASE n <= m + k
  <2>1. has_two_thirds_support(VotersIn(votes, CheckpointAt(b, n)))
    <3>1. CASE n = m
      BY <1>11, <3>1
    <3>2. CASE n = m + k
      BY Zenon, <1>1, <1>10, <3>2, VotesGrow
    <3>3. CASE n # m /\ n # m + k
      <4>1. n = m + 1 /\ 1 \in 1..(k - 1)
        BY <1>1, <1>4, <1>12, <3>3
      <4> QED BY <1>10, <4>1
    <3> QED BY <3>1, <3>2, <3>3
  <2> QED BY <1>1, <1>2, <1>4, <1>7, <2>1, DoubleVotesConvict
<1>13. CASE n > m + k
  <2>1. /\ CheckpointAt(c, d).epoch = d /\ CheckpointAt(c, n).epoch = n
        /\ CheckpointAt(b, m + k).epoch = m + k /\ f.epoch = m
    BY DEF CheckpointAt, m
  <2>2. has_two_thirds_support(LinkedIn(votes, CheckpointAt(c, d), CheckpointAt(c, n)))
    BY <1>5 DEF Link
  <2> QED BY <1>1, <1>6, <1>10, <1>13, <2>1, <2>2, SurroundVotesConvict
<1> QED BY <1>1, <1>4, <1>12, <1>13

\* The branch named in the root of a checkpoint of a branch.
LEMMA BranchOfCheckpoint ==
  ASSUME NEW b, NEW x, x = CheckpointAt(b, x.epoch), x.root.branch # "shared"
  PROVE  x.root.branch = b /\ ~(x.epoch <= ForkEpoch)
<1>1. x.root.branch = IF x.epoch <= ForkEpoch THEN "shared" ELSE b
  BY DEF CheckpointAt, block_root
<1> QED BY <1>1

\* What a branch finalized binds every other branch: none justifies a conflicting
\* checkpoint of that epoch or later unless a third of the stake is convicted by
\* is_slashable_attestation_data.
FinalityBinds ==
  \A b, c \in Branches :
     LET f == state[b].finalized_checkpoint
         j == state[c].current_justified_checkpoint
     IN  Conflict(f, j) /\ j.epoch >= f.epoch => 3 * Stake(Convicted) >= Stake(Validators)

LEMMA ConflictConvicts ==
  ASSUME Consistent, Backed, NEW b \in Branches, NEW c \in Branches,
         NEW x \in {state[c].current_justified_checkpoint, state[c].finalized_checkpoint},
         Conflict(state[b].finalized_checkpoint, x), x.epoch >= state[b].finalized_checkpoint.epoch
  PROVE  3 * Stake(Convicted) >= Stake(Validators)
<1> DEFINE f == state[b].finalized_checkpoint
<1>1. f = CheckpointAt(b, f.epoch) /\ x = CheckpointAt(c, x.epoch)
  BY DEF Backed, OnBranch
<1>2. f.root.branch # "shared" /\ x.root.branch # "shared" /\ f.root.branch # x.root.branch
  BY DEF Conflict
<1>3. b # c /\ ~(f.epoch <= ForkEpoch)
  BY <1>1, <1>2, BranchOfCheckpoint
<1>4. f.epoch \in Nat /\ ForkEpoch \in Nat
  BY JustificationAssumption DEF Consistent, TypeOK, BranchState, Checkpoint
<1>5. f.epoch > ForkEpoch
  BY <1>3, <1>4
<1>6. PICK J \in SUBSET Nat : Chain(votes, c, J) /\ x.epoch \in J
  BY DEF Backed, Chained
<1> QED BY Zenon, <1>3, <1>5, <1>6, LaterJustifiedConvicts

\* A finalized checkpoint binds the other branches (FinalityBinds).
THEOREM FinalityBindsAlways == Spec => []FinalityBinds
<1>1. ASSUME Consistent, Backed PROVE FinalityBinds
  BY <1>1, ConflictConvicts DEF FinalityBinds
<1> QED BY <1>1, AlwaysBacked, PTL

\* Two branches never finalize conflicting checkpoints unless validators with a third
\* of the stake can be slashed (AccountableSafety): for any number of branches,
\* validators and epochs, any balances above the floor, and any votes.
THEOREM AccountableSafetyAlways == Spec => []AccountableSafety
<1>1. ASSUME Consistent, Backed PROVE AccountableSafety
  <2> SUFFICES ASSUME NEW b \in Branches, NEW c \in Branches,
                      Conflict(state[b].finalized_checkpoint, state[c].finalized_checkpoint)
               PROVE  3 * Stake(Convicted) >= Stake(Validators)
    BY DEF AccountableSafety
  <2>1. /\ state[b].finalized_checkpoint.epoch \in Nat
        /\ state[c].finalized_checkpoint.epoch \in Nat
    BY <1>1 DEF Consistent, TypeOK, BranchState, Checkpoint
  <2>2. Conflict(state[c].finalized_checkpoint, state[b].finalized_checkpoint)
    BY DEF Conflict
  <2>3. CASE state[c].finalized_checkpoint.epoch >= state[b].finalized_checkpoint.epoch
    BY <1>1, <2>3, ConflictConvicts
  <2>4. CASE state[b].finalized_checkpoint.epoch >= state[c].finalized_checkpoint.epoch
    BY <1>1, <2>2, <2>4, ConflictConvicts
  <2> QED BY <2>1, <2>3, <2>4
<1> QED BY <1>1, AlwaysBacked, PTL

\* The slashing conditions never convict a validator that keeps to MaySign.
HonestUnconvicted == Convicted \subseteq Dishonest

\* An honest validator is never convicted (HonestUnconvicted), although its votes
\* reach the branches as aggregates and with the sources those branches require.
THEOREM HonestUnconvictedAlways == Spec => []HonestUnconvicted
<1>1. Init => HonestUnconvicted
  BY DEF Init, HonestUnconvicted, Convicted, VotesOf
<1>2. Consistent /\ HonestUnconvicted /\ [Next]_vars => HonestUnconvicted'
  <2> SUFFICES ASSUME Consistent, HonestUnconvicted, [Next]_vars PROVE HonestUnconvicted'
    OBVIOUS
  <2>1. CASE votes' = votes
    BY <2>1 DEF HonestUnconvicted, Convicted, VotesOf
  <2>2. CASE Attest
    <3>1. PICK b \in Branches, S \in Aggregates, e \in {previous_epoch, epoch} :
            process_attestation(b, S, e)
      BY <2>2 DEF Attest
    <3> DEFINE signed == [validator : S, source : {RequiredSource(state[b], e)},
                          target : {CheckpointAt(b, e)}]
    <3>2. votes' = votes \cup signed /\ \A vote \in signed : MaySign(vote)
      BY <3>1 DEF process_attestation
    <3>3. \A w, x \in signed : w.validator = x.validator => w = x
      OBVIOUS
    <3>4. ASSUME NEW w \in signed PROVE w.source.epoch \in Nat /\ w.target.epoch \in Nat
      <4>1. RequiredSource(state[b], e) \in Checkpoint
        BY DEF RequiredSource, Consistent, TypeOK, BranchState
      <4>2. e \in Nat
        BY DEF previous_epoch, Consistent, TypeOK, GENESIS_EPOCH
      <4> QED BY <3>4, <4>1, <4>2, CheckpointAtType DEF Checkpoint
    <3> HIDE DEF signed
    <3>5. ASSUME NEW v \in Validators \ Dishonest, NEW w \in votes', NEW x \in votes',
                 w.validator = v, x.validator = v
          PROVE  ~is_slashable_attestation_data(w, x)
      <4>1. CASE w \in votes /\ x \in votes
        BY <3>5, <4>1 DEF HonestUnconvicted, Convicted, VotesOf
      <4>2. CASE w \in signed /\ x \in votes
        BY <3>2, <3>5, <4>2 DEF MaySign, VotesOf
      <4>3. CASE w \in votes /\ x \in signed
        BY <3>2, <3>5, <4>3 DEF MaySign, VotesOf
      <4>4. CASE w \in signed /\ x \in signed
        <5>1. w = x
          BY <3>3, <3>5, <4>4
        <5> QED BY <3>4, <4>4, <5>1 DEF is_slashable_attestation_data
      <4> QED BY <3>2, <4>1, <4>2, <4>3, <4>4
    <3> QED BY <3>5 DEF HonestUnconvicted, Convicted, VotesOf
  <2> QED BY <2>1, <2>2 DEF Next, EpochBoundary, vars
<1> QED BY <1>1, <1>2, AlwaysConsistent, PTL DEF Spec

\* Finality is safe while the dishonest hold less than a third of the stake: no two
\* branches finalize conflicting checkpoints.
Safety ==
  3 * Stake(Dishonest) < Stake(Validators) =>
    \A b, c \in Branches :
       ~Conflict(state[b].finalized_checkpoint, state[c].finalized_checkpoint)

\* Less than a third of dishonest stake never finalizes two branches (Safety).
THEOREM SafetyAlways == Spec => []Safety
<1>1. ASSUME AccountableSafety, HonestUnconvicted PROVE Safety
  <2>1. /\ Stake(Convicted) \in Nat /\ Stake(Dishonest) \in Nat /\ Stake(Validators) \in Nat
        /\ Stake(Convicted) <= Stake(Dishonest)
    BY <1>1, StakeFacts, JustificationAssumption DEF HonestUnconvicted
  <2>2. (3 * Stake(Dishonest) < Stake(Validators)) => ~(3 * Stake(Convicted) >= Stake(Validators))
    BY <2>1
  <2> QED BY <1>1, <2>2 DEF Safety, AccountableSafety
<1> QED BY <1>1, AccountableSafetyAlways, HonestUnconvictedAlways, PTL

================================================================================
