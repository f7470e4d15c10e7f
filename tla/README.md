# Moonglass in TLA+

TLA+ modules of the consensus engine `moonglass-core` (Gloas fork, with
enshrined proposer-builder separation) and of the follower `moonglass-node`,
checked with TLC on small instances and, where TLAPS reaches, proved for every
value of the constants.

## The system

| Part | Source | State | Operations |
| --- | --- | --- | --- |
| Fork choice | `fork_choice/` | `Store`: clock, checkpoints (realized and unrealized), blocks and states, latest messages, equivocators, PTC votes, envelopes, data columns | `on_tick`, `on_block_with_embedded_messages`, `on_attestation`, `on_attester_slashing`, `on_payload_attestation_message`, `on_execution_payload_envelope`, `record_data_column_sidecar`; queries `get_head`, `get_proposer_head` |
| State transition | `state_transition/` | `BeaconState` of each branch | `process_slots`, `process_epoch`, `process_block` and their parts: finality, registry and churn, deposits, withdrawals, builders, attestations, slashings, sync committee |
| Containers, primitives, SSZ, crypto | `containers/`, `primitives/`, `ssz/`, `crypto/` | none | codecs, merkleization, BLS, KZG |
| Follower | `moonglass-node/src/follower` | a `FollowEngine` around one `Store` | `advance_to`, `handle_gossip`, anchor download, replay |
| Node loop | `moonglass-node/src/node` | peers, the in-flight backfill request, API snapshot | gossip, range responses and failures, connections, one-second ticks |

A delivered block runs the state transition on a copy of its parent's state; the
post-state goes into the store, and its checkpoints, and the ones a pulled-up
copy implies, raise those of the store. Votes arrive by gossip and inside
blocks; payloads arrive apart from their blocks, as envelopes with data columns.
One task owns the store, so handlers never run concurrently; what is hard is
that messages come in any order, late, repeatedly or never, that each handler
has several ways to fail half way, and that facts recorded in one epoch
(checkpoint states, vote vectors, timeliness) are needed epochs later.
PROJECT.json lists the hazards line by line.

## Modules

| Module | What it models |
| --- | --- |
| `ForkChoiceStore` | the `Store` and all that only reads it: ancestry, voting sources, viability filter, weights, boost, payload branches, head walk, re-org decision |
| `ForkChoice` | the handlers as actions, the properties of the store |
| `Justification` | target participation, justification bits, the finality rules and slashable votes on competing chains |
| `Arithmetic` | churn cursor, activation delay, one shuffle round, committee slices |
| `Lists` | folds, flattening and sorting of lists for the modules with theorems; `SequencesExt` would bring the theory of bags into the scope of every proof |
| `PaymentWindow` | the builder-payment window and the queue it feeds |
| `Preset` | the constants of the state transition and what is assumed of them |
| `Validators`, `Committees`, `Accounting` | registry predicates, balances, exits and churn; shuffling, committees, proposer and PTC sampling; finality, scores, rewards, penalties and slashing of one state |
| `Requests`, `Operations`, `Withdrawals` | execution requests and builder funding; block operations; the withdrawal list |
| `EpochProcessing` | the registry, queues, windows and resets, and `process_epoch` |
| `BeaconState` | slots, blocks and envelopes of one chain as actions, and the properties of the state transition |
| `StatePayments` | the payment fields of the beacon state as the state of `BuilderPayments` |
| `BuilderPayments` | the payment fields alone, under everything the rest of the transition may do to them |
| `PaymentLedger` | what is promised about payments, without a window |
| `SSZ` | encoding, decoding and hash tree roots over byte sequences |
| `Primitives`, `Containers` | the byte types, and every container with its fields and their order |
| `Wire` | a container sent, damaged and received |
| `Follower` | the node loop: clock, gossip, backfill, peers |
| `MCForkChoice` | helpers to write down block trees |
| `MCPayload`, `MCFinality`, `MCReorg`, `MCAnchor`, `MCJustification`, `MCBuilders`, `MCRegistry` | instances |
| `Induction`, `FoldFacts` | lemmas on finite sets, on functions defined by recursion along a rank, and on folds over sequences |
| `ForkChoiceProofs`, `HeadProofs`, `MajorityProofs` | theorems on the store and on walks over the block tree; on the head; on majorities |
| `JustificationProofs` | theorems on finality |
| `ComponentProofs` | theorems on the components that stand on their own: `Arithmetic`, `BuilderPayments`, `Follower` |
| `BeaconStateProofs` | what each handler of the state transition keeps; theorems on withdrawals and on the life of validators |

The modules of the state transition extend each other in the order of the
table, from `Preset` (on `Arithmetic`, `Lists` and `PaymentWindow`) to `StatePayments`.

### How the fork choice modules read the code

* Names are those of the code. A block root is a positive number, because
  `head_selection_key` compares roots; `ZERO` is `Root::ZERO`.
* The constant `Block` gives, for every root that may ever be delivered, the
  block's fields and what fork choice reads from its post-state: slashed
  validators, checkpoints, and the checkpoints after
  `process_justification_and_finalization` on a copy. The assumptions on it
  (`ParentAssumption`, `PostStateAssumption`) say what the state transition
  guarantees; the ordering of checkpoints in post-states and pulled-up states is
  what `PostStatesOrdered` of module `Justification` checks.
* A handler works on a copy of the store and replaces it only on success
  (`on_block` and the others clone `self`), so a rejected message is no step.
  `record_data_column_sidecar` is the exception: a failed release of the queued
  envelope leaves the sidecar stored, and the action keeps that.
* An error of a query is a value: `NoNode` for a failed walk or head. The ways
  `get_head` can fail (`FilterFails`, `KeyFails`) are spelled out, because
  `on_block` calls it.
* Loops have closed forms: `on_tick` steps through every slot, so the boost is
  cleared when any slot is crossed and checkpoints are realized when an epoch
  start is (`SlotsStepped`, `EpochStepped`); a sequence of attestations leaves
  the first with the highest slot (`LatestOf`).
* Signatures, bids, KZG proofs and the block's own state transition are taken to
  pass: a message for which they fail is never applied and changes nothing.
* Time is in fractions of a slot; the deadlines are constants of each instance.

### How Justification reads the code

A branch has the six fields of its `BeaconState` that finality reads. An
aggregate with the right source and target (`RequiredSource`,
`CheckpointAt`) sets the timely-target flags of its validators; what has another
target earns no such flag and changes nothing here. All branches go through each
epoch boundary together because `process_slots` advances a state through empty
slots. Honest validators sign nothing `is_slashable_attestation_data` convicts;
those in `Dishonest` sign anything. The registry and balances do not change.

### How the state transition modules read the code

* A function of the code that takes `&mut self` is an operator from a state
  record to a state record. `Reject` sets the field `error`, later steps leave a
  rejected state alone, and an action with an error is no step, because
  `state_transition` works on a copy. An epoch transition that failed would
  therefore leave the run with no next step: deadlock checking in `builders` and
  `registry` says that none fails.
* A block root is the slot of the block, a payload's block hash the slot of the
  bid that committed to it, and a request list stands for its own root: one chain
  has one of each per slot. State roots are recorded and not compared.
* The hash of seeds is a fixed small function; a RANDAO mix is the set of reveals
  in it. What the properties say of committees does not depend on the hash.
* `Offers`, `Bodies` and `Votes` give what a block may carry at each slot;
  `Contested` are the slots that may stay empty or lose their payload. A block may
  build on its parent's payload once its envelope was verified, as fork choice
  demands.
* History fields record what happened and are read by properties only: `paid`
  (releases per slot), `exit_log` (balance, epoch and churn of each exit),
  `received`, `withdrawn` and `delivered`.
* Loops over lists are folds (`FoldLeft`), one operator per step of the loop:
  `VisitPartial`, `VisitBuilder` and `VisitValidator` are the bodies of the three
  withdrawal sweeps, `ProcessOne` that of the loops over operations.
* The checkpoint state is an epoch start with two justified epochs behind it, all
  its windows filled as the code fills them.

`BuilderPayments` keeps six fields of the state and replaces the rest of a block
by a relation: a proposer slashing may void an entry, votes may add weight to
entries of earlier slots, the withdrawal phase may drain the queue. TLC checks
that `BeaconState` behaves so (`Payments` of `StatePayments`); TLAPS proves that whatever behaves so
implements `PaymentLedger`.

### How the codec modules read the code

A result is a set: one value for `Ok`, empty for `Err`. Types are records (kind,
size or limit, element or fields) and `serialize`, `deserialize` and
`hash_tree_root` go by the kind, one branch per trait impl of the code. `XFields`
is struct `X`; `X` adds the order in which the hand-written impls of `X` list the
fields. Widths (bytes of an integer, an offset, a chunk) are constants, since the
real ones make encodings too long to enumerate; integers wrap at their width.
SHA-256 is a constructor of pairs, so equal roots are equal trees.

### How Follower reads the code

The actions are the arms of `run`'s select loop. The chain of the network is a
line, `Full` are the blocks whose payload the next block builds on, and the head
is the last block imported; which blocks `on_block` refuses (future, unknown
parent, missing payload) is kept. `libp2p` is external: a connection that closes
takes its requests along and reports their failure later, a request ends with an
answer or a failure, and a peer may hold several connections. An honest peer
answers with a non-empty first part of the range it was asked for; another one
sends any blocks, junk or nothing.

## Runs

| Run | Question | Result |
| --- | --- | --- |
| `payload` | one payload decision under all deliveries: two children of a block, on its payload and not, votes of every kind, envelopes, two columns, a slashing, PTC messages | backed payload branches, vote order, boost, envelope queue and majority hold |
| `finality` | a store anchored at an epoch's first slot far from genesis, four epochs, a fork, votes by block and by gossip | checkpoints are ordered, only advance and stay usable; the head stays on the finalized chain and is undefined only at the slot after the anchor with its payload recorded; proposer boost, and with it every import, works from the second epoch after the anchor's on |
| `reorg` | a late or equivocating head, and the block built as `get_proposer_head` says | the advised re-org succeeds |
| `anchor_unaligned` | an anchor in the middle of an epoch | violated: no head at all |
| `reimport` | a stored block delivered again | violated: PTC votes and timeliness are erased |
| `equivocation_weakens` | a slashing of a voter for the head | violated: the head can become weak |
| `justification` | two forks, a dishonest third, votes in time or an epoch late | justified means voted for by two thirds, finalized means linked by two thirds, two forks finalize only if the dishonest third is convicted, post-states and pulled-up states are ordered |
| `builders` | two builders, four validators, bids, empty slots, withheld payloads, votes around the quorum, an exit and a deposit that reuses the index | each payment is released at most once and always covered; each withdrawal is carried by one payload; committees partition the active set and contain the PTC sampled earlier; full participation never costs |
| `registry` | eight validators at every stage, deposits with and without proof, exits, partial withdrawals, consolidations, slashings, a credential change | value is conserved, exits stay within churn, schedules stand, proposers are active, effective balances track balances, cursors and lists stay in bounds |
| `wire` | every container, unharmed, with a byte changed, cut off or added, and all short byte strings for four types | decoding inverts encoding and accepts canonical encodings only; roots commit to values and equal those of the padded tree; header and block have one root |
| `follower` | an honest and a faulty peer, connections and failures in any order | one request at a time, to a connected peer; the head reaches the tip unless no honest candidate is left or the peer asked keeps sending nothing |
| `backfill_stalls` | one honest peer, always connected, never late | violated: dropped for blocks refused for want of an envelope, it is not asked again |

Each cfg lists its bounds. They are chosen so that the cases occur:

* `payload` has three slots (the block's, the decision's, and one after, when the
  rule of the previous slot no longer applies); `finality` has epochs enough to
  justify twice, finalize, and realize at a tick; `reorg` has the slot triple the
  re-org rule needs and a fraction of a slot before and after each deadline.
* `justification` has the five epochs in which two forks could finalize across
  votes cast from different sources (with one epoch less a wrong source rule is
  not caught). Supermajorities of three equal validators are pairs; honest
  validators and branches are interchangeable, and the symmetry set permutes only
  those. It stops at the last epoch, hence no deadlock check there.
* `builders` runs through three epochs of two slots, so that the payment window is
  filled, shifted and aged out, with every slot after the anchor contested. Its
  queue and registry limits are never met, as those of the code are not.
* `registry` runs through seven epochs, long enough for an exit to be scheduled,
  taken and withdrawn, and for a deposit to be postponed and applied. Rewards are
  switched off (`BASE_REWARD_FACTOR = 0`), so that value can be summed; every slot
  has a block and votes, unless its proposer was slashed. The churn of an epoch is
  less than the balances that want to leave together.
* `wire` takes one value per container with different bytes at every leaf, lists
  of up to two elements and four kinds of raw strings of up to five bytes: enough
  for two offsets and a payload.
* `follower` has a chain with an empty slot, a full block, and a request limit
  smaller than the gap. Two connections per peer are needed for a connection to
  close while the peer stays.

Fairness is assumed in `Follower` only: the one-second timer keeps firing
(`ticker` is an interval, and the loop never blocks), and every request ends with
an answer or a failure, which `request_response` guarantees by its timeout.
Nothing is assumed of peers, of gossip or of connections. All other properties
are safety properties, of states or of steps.

## What is proved

For every value of the constants that satisfies the named assumptions of the
modules. A handler or an action is one step of each invariant's proof.

**The store.**

* `TypeCorrect`: the type invariant of the store, one lemma per action.
* `PayloadBranchesBackedAlways`, `VotesResolveAlways`, `VotesOnlyAdvanceAlways`:
  these rest on `StoreGrows` (blocks and payloads are never removed) and
  `NewMessageValid` (a new latest message is one of the validated attestations).
* `BoostIsCurrentAlways`, `BoostOncePerSlotAlways`: `BoostStep` lists what a step
  may do to the boost.
* `PayloadsHaveDataAlways`, `NoStrandedEnvelopeAlways`.
* `CheckpointOrderAlways`, `CheckpointsAdvanceAlways`: from the order of each
  post-state's checkpoints.
* `JustifiedCheckpointUsableAlways`: not inductive, since a tick realizes a
  checkpoint imported long before. The strengthening `SourcesCached` says that
  every target voted for on a stored chain has a stored block and a cached state,
  and that the two justified checkpoints do; block imports preserve it because
  what a post-state justifies was voted for on its chain.

**The head.** `get_ancestor`, the viability filter and the head walk are recursive
functions over the block tree. They are shown to terminate, and what they return
is shown by induction along a rank: a parent has an earlier slot
(`ParentAssumption`, and `AnchorAssumption` for the anchor itself), and a payload
branch lies between a block and its children. The invariants are `Rooted` (the
stored blocks are finitely many, closed under parents down to the anchor, none
later than the clock), `FinalizedSinceAnchor` and `Sourced` (where the store takes
checkpoints from).

* `DependentRootKnownAlways`: from the second epoch after the anchor's on, the
  dependent root of a block is found, so proposer boost never fails an import.
* `HeadDefinedAlways`: `get_head` returns a node in every reachable store, but for
  the one slot named in the property. It assumes `AnchorAligned` (the anchor is in
  the first slot of its epoch); without that the theorem is false, as run
  `anchor_unaligned` shows.
* `MajorityWinsAlways`: weights only shrink down the tree and siblings share what
  is above them, so the walk follows a viable node with more than half of the
  stake and the boost. Two sums over disjoint sets of voters are compared, which
  is the part that no small instance settles.
* `HeadExtendsFinalizedAlways`: assumes `FinalityHolds` of the post-states, that
  no chain justifies, from the epoch of a finalized checkpoint on, what does not
  descend from it. Fork choice cannot ensure this; `FinalityBindsAlways` of
  `Justification` says that the state transition does, as long as less than a
  third of the stake can be convicted.

TLC evaluates both hypotheses on the tree of run `finality`
(`FinalityInstance` in `MCFinality`), so they are not empty.

**Finality.** For any number of branches, epochs and validators with any balances.

* `PostStatesAlwaysOrdered`: the order of checkpoints in every state and pulled-up
  state. It is what the fork choice modules assume of post-states
  (`PostStateAssumption`).
* `JustifiedByVotesAlways`, `FinalizedByLinkAlways`: the inductive invariant
  `Backed` says what each bit and each flag means: a participation flag was earned
  by a vote with the source the state requires, a set bit of age *i* stands for a
  supermajority for the checkpoint *i* epochs back, linked to the justified
  checkpoint of its time, and the justified checkpoints of a branch form a chain of
  supermajority links from genesis. The bits shift at every epoch, so no weaker
  statement survives the four finality rules.
* `FinalityBindsAlways`, `AccountableSafetyAlways`: the least epoch at which a chain
  of links leaves a finalized checkpoint has a link that is a double vote with, or
  surrounds, the finalizing one; two supermajorities share a third of the stake
  (`Stake` is additive by induction over finite sets), and those are convicted by
  `is_slashable_attestation_data`.
* `HonestUnconvictedAlways`, `SafetyAlways`: who signs by `MaySign` is never
  convicted; hence no conflict with less than a third of dishonest stake.

They assume `StakeAssumption`, that the whole stake exceeds one increment:
`get_total_balance` floors every sum at one increment, so without it the empty set
would be a supermajority. A validator stays active only above `EJECTION_BALANCE`,
sixteen increments.

**Builder payments.** `Consistency`, `NeverPaidTwice`, `ImplementsLedger`: the
inductive invariant is `PaymentsConsistent`. Its two essential parts are that a
live entry is where its slot belongs in the window, after any number of shifts,
and that the entry of the last block has no weight. The second is why the quorum
rule never releases what the next block may still release from the bid: same-slot
votes count only for slots before the block that carries them. The refinement maps
the window and the last bid to the set of open slots.

**Follower.** `OneRequest`, `AsksConnected`: for any number of peers and
connections, with any answers. The invariant ties `in_flight`, the live requests,
those of closed connections and the connection counts together.

**Withdrawals.** `WithdrawalsAlwaysDeliveredOnce`: in every behaviour of
`BeaconState`, whatever blocks, payloads, requests, operations and votes come, the
payloads that the chain builds on carry each numbered withdrawal once and in order.
The property relates three fields only and is not inductive. `DeliveryInv` adds

* that the payload of the last block has not been built on yet
  (`latest_block_hash` is earlier than the last header, and the bid's hash is that
  of the header): otherwise `process_withdrawals` would replace a list that no
  payload carried;
* that an envelope let in for the last block carries the list the state expects;
* that the registries are finite and the queues are sequences.

The proof goes through all of the state transition. `Safe` says that a handler
leaves the numbering, the header, the hashes and the bid alone, and keeps the
validators as below; there is a lemma for each request, operation, epoch step
and reset. `WithdrawalsDone` shows that the
four sources of a withdrawal list number it without gaps from
`next_withdrawal_index` on, through their shared limits. `Progress` follows the
phases of `process_block`: the parent's payload first, then the header, the
withdrawals, and the bid last; in another order the list would be checked against
the wrong payload. It assumes that ring sizes and sweep limits are naturals and
that a payload has room for two withdrawals (`PresetAssumption`), and that the
lists in the checkpoint state and in the blocks are sequences
(`CheckpointAssumption`, `ProposalAssumption`). Nothing is assumed of balances,
hashes or votes. TLC checked `DeliveryInv` on the instance of `builders` before it
was proved.

**The life of a validator.** `LifecycleAlwaysFinal`: in every behaviour of
`BeaconState` a validator keeps its key, is activated once, exits once, stays
slashed, and withdraws when its exit said unless a slashing puts that off. A step
of the chain is a slot with its epoch transition, or a block with all that it
carries, so one step may exit a validator and slash it, through any of five
handlers. `Stands` is therefore stated so that it composes: only a validator not
yet slashed may have its withdrawal put off, and then it is slashed afterwards.
`Kept` says it of a registry that may also grow. `SlashSafe` needs that the
validator was not slashed before; its callers are the two slashing handlers, which
skip or reject a validator that `is_slashable_validator` refuses. The other setters
write an epoch only where it is `FAR_FUTURE_EPOCH`. The assumptions are those of
the withdrawals; in particular nothing is assumed of the epochs in the checkpoint
state.

**Arithmetic.** `ChurnBudget`, `RoundIsInvolution`, `SlicesTile`: what the exit
queue, the shuffle and the committees rest on, for all naturals.

The library's induction theorems take an operator as parameter, which the provers
cannot instantiate. `Induction` states them for sets instead: a non-empty set of
naturals has a least element, a family of finite sets that has a member has a
minimal one, and a recursive definition whose arguments decrease along a rank has
a solution. Each induction of the other modules is the set of counterexamples and
its least member. For folds the step and the invariant have to be operators:
`FoldFacts` takes them as constants, and each loop of the state transition is an
instance of it (`INSTANCE FoldFacts WITH`).

Only model-checked:

* liveness (`CatchesUp`), which the prover does not do;
* `ReorgBlockBecomesHead`, a step property that compares two whole head walks;
* the other properties of `BeaconState`. `ValueConserved`, `ExitChurnBounded` and
  `EffectiveBalanceTracks` need every amount of every queue through every handler;
  `PromisesCovered` needs them for the builders. `CommitteesPartition` and
  `PtcSitsInCommittees` rest on the shuffle as a whole, of which the single round
  and the slices are proved. `ProposersActive` cannot be proved from the code
  alone: that the sampling of proposers ends rests on the hash. `PerfectAttestersKeep`
  compares all balances before and after an epoch;
* that `BeaconState` behaves as `BuilderPayments` (`Payments`), checked on the
  instance of `builders`; from there on the proof is general;
* the codec, whose operators are recursive.

## Disagreements between code and comments

* `get_forkchoice_store` with an anchor that is not in its epoch's first slot
  (run `anchor_unaligned`): every `get_head` and `on_block` fails.
* `on_block` of a stored block (run `reimport`) resets evidence the comments of
  `store.rs` describe as facts of the past.
* `is_head_weak` (run `equivocation_weakens`) adds back equivocators of one
  slot's committees, not of all that were subtracted.
* Backfill (run `backfill_stalls`) fetches blocks and no envelopes. A peer whose
  blocks are refused for that reason is dropped until it connects anew, although
  the module comment says that the head can walk forward to the live tip.

Read but not turned into a run: `settle_builder_payment_if_quorum` does not test
the amount its comment speaks of, which changes nothing, since an entry without
an amount never has weight (`PaymentsConsistent`). `next_peer` always takes the
last candidate, so a peer that answers with nothing is asked again and again while
others wait; a stretch of empty slots longer than `MAX_BACKFILL_BLOCKS` makes
every peer such a peer. `CatchesUp` names both as exceptions.

## Not modelled

* Cryptography: field arithmetic is out of reach. Signatures, KZG proofs and
  proofs of possession hold or do not hold by choice, or the message is not
  delivered.
* Network and file I/O: discovery, transport, REST API, configuration, anchor
  download, replay files, Snappy and varint framing, genesis from files.
* `gossip.rs` and `networking.rs`: topic names, and lookups nothing calls.
* In fork choice, `should_build_on_full` and `get_safe_execution_block_hash`, two
  queries whose answers nothing in the repository acts on.
* The fork choice modules take post-states as data (with the assumptions named
  above) rather than composing with `BeaconState`: a block tree of full states is
  beyond TLC. `Follower` has a chain without forks for the same reason.
* The overflow checks of 64-bit arithmetic in the state transition: the small
  instances stay far below, and an overflow is an error that rejects the block.
* The reference-test harness, which is no part of the running system.
