----------------------------- MODULE Committees -----------------------------
(***************************************************************************)
(* Committees and proposers (state_transition/committee.rs): the active    *)
(* set is shuffled under a seed and cut into slices; proposers and the     *)
(* payload-timeliness committee are sampled by effective balance.          *)
(*                                                                         *)
(* SHA-256 is external.  Hash stands for it: a fixed function that spreads *)
(* its inputs over HashSpace.  A RANDAO mix is the set of reveals folded   *)
(* into it, since XOR takes a reveal out again when it comes twice.        *)
(***************************************************************************)
EXTENDS Validators

HashSpace == 97
Hash(a, b) == (a * 31 + b * 17 + 11) % HashSpace
HashMix(mix) == MapThenSumSet(LAMBDA r : Hash(r.proposer, r.epoch), mix) % HashSpace

DOMAIN_BEACON_PROPOSER == 1
DOMAIN_BEACON_ATTESTER == 2
DOMAIN_PTC_ATTESTER == 3
DOMAIN_SYNC_COMMITTEE == 4

seed_from_parts(domain_type, epoch, mix) == Hash(Hash(domain_type, epoch), HashMix(mix))

get_beacon_proposer_index(s) == s.proposer_lookahead[s.slot % SLOTS_PER_EPOCH]

\* Index sets in the order of the registry.
InOrder(s, set) ==
  FoldLeft(LAMBDA list, n : IF n - 1 \in set THEN Append(list, n - 1) ELSE list,
           << >>, [n \in 1..Size(s.validators) |-> n])

active_unslashed_validator_indices(s, epoch) ==
  {i \in get_active_validator_indices(s, epoch) : ~s.validators[i].slashed}

get_randao_mix(s, epoch) == s.randao_mixes[epoch % EPOCHS_PER_HISTORICAL_VECTOR]

Mutant_get_seed(s, epoch, domain_type) ==
  seed_from_parts(domain_type, epoch, get_randao_mix(s, epoch))

get_seed(s, epoch, domain_type) ==
  seed_from_parts(domain_type, epoch,
    get_randao_mix(s, epoch + EPOCHS_PER_HISTORICAL_VECTOR - MIN_SEED_LOOKAHEAD - 1))

get_committee_count_per_slot(s, epoch) ==
  AtLeast(1, AtMost(MAX_COMMITTEES_PER_SLOT,
    (Cardinality(get_active_validator_indices(s, epoch)) \div SLOTS_PER_EPOCH)
      \div TARGET_COMMITTEE_SIZE))

-----------------------------------------------------------------------------
\* Shuffling.
pivot_for_round(seed, round, n) == Hash(seed, round) % n
source_bit(seed, round, position) == (Hash(Hash(seed, round), position) \div 4) % 2

compute_shuffled_index(index, n, seed) ==
  LET after[r \in 0..SHUFFLE_ROUND_COUNT] ==
        IF r = 0 THEN index
        ELSE ShuffleRound(pivot_for_round(seed, r - 1, n),
                          [x \in 0..(n - 1) |-> source_bit(seed, r - 1, x)], n, after[r - 1])
  IN after[SHUFFLE_ROUND_COUNT]

Mutant_compute_committee(indices, seed, index, count) ==
  LET start == SliceStart(Len(indices), index, count)
  IN [k \in 1..(SliceEnd(Len(indices), index, count) - start) |->
        indices[compute_shuffled_index(start + k - 1, Len(indices), Hash(seed, index)) + 1]]

compute_committee(indices, seed, index, count) ==
  LET start == SliceStart(Len(indices), index, count)
  IN [k \in 1..(SliceEnd(Len(indices), index, count) - start) |->
        indices[compute_shuffled_index(start + k - 1, Len(indices), seed) + 1]]

get_beacon_committee(s, slot, committee_index) ==
  LET per_slot == get_committee_count_per_slot(s, Epoch(slot))
  IN compute_committee(
       InOrder(s, get_active_validator_indices(s, Epoch(slot))),
       get_seed(s, Epoch(slot), DOMAIN_BEACON_ATTESTER),
       (slot % SLOTS_PER_EPOCH) * per_slot + committee_index,
       per_slot * SLOTS_PER_EPOCH)

\* The committees of a slot, one after the other.
SlotCommittees(s, slot) ==
  FoldLeft(LAMBDA all, ci : all \o get_beacon_committee(s, slot, ci), << >>,
           [k \in 1..get_committee_count_per_slot(s, Epoch(slot)) |-> k - 1])

-----------------------------------------------------------------------------
\* Sampling by effective balance.
RandomValue(seed, i) == Hash(seed, i) % (MAX_RANDOM_VALUE + 1)

Accepted(s, index, random_value) ==
  s.validators[index].effective_balance * MAX_RANDOM_VALUE
    >= MAX_EFFECTIVE_BALANCE * random_value

compute_proposer_index(s, indices, seed) ==
  LET candidate(i) == indices[compute_shuffled_index(i % Len(indices), Len(indices), seed) + 1]
      from[i \in Nat] == IF Accepted(s, candidate(i), RandomValue(seed, i)) THEN candidate(i)
                         ELSE from[i + 1]
  IN from[0]

compute_balance_weighted_selection(s, candidates, seed, size, shuffle_indices) ==
  LET total == Len(candidates)
      next(i) == candidates[1 + IF shuffle_indices
                                THEN compute_shuffled_index(i % total, total, seed)
                                ELSE i % total]
      from[i \in Nat, wanted \in 0..size] ==
        IF wanted = 0 THEN << >>
        ELSE IF Accepted(s, next(i), RandomValue(seed, i))
        THEN <<next(i)>> \o from[i + 1, wanted - 1]
        ELSE from[i + 1, wanted]
  IN from[0, size]

compute_ptc(s, slot) ==
  compute_balance_weighted_selection(s, SlotCommittees(s, slot),
    Hash(get_seed(s, Epoch(slot), DOMAIN_PTC_ATTESTER), slot), PTC_SIZE, FALSE)

\* The window holds the previous epoch, the current one and the lookahead.
PtcWindowIndices == 0..((2 + MIN_SEED_LOOKAHEAD) * SLOTS_PER_EPOCH - 1)

PtcKnown(s, slot) ==
  Epoch(slot) \in (get_current_epoch(s) - 1)..(get_current_epoch(s) + MIN_SEED_LOOKAHEAD)

get_ptc(s, slot) ==
  s.ptc_window[(Epoch(slot) + 1 - get_current_epoch(s)) * SLOTS_PER_EPOCH
                 + (slot % SLOTS_PER_EPOCH)]
=============================================================================
