--------------------------- MODULE ForkChoiceProofs ----------------------------
(***************************************************************************)
(* Type correctness, votes, boost, payload envelopes, checkpoints and      *)
(* chains: the invariants and action properties of module ForkChoice that  *)
(* do not depend on the head, for every block tree, registry and set of    *)
(* messages.                                                               *)
(***************************************************************************)
EXTENDS ForkChoice, Induction, TLAPS

USE DEF ZERO

\* WriteVotes fills the seats of one vote vector.
LEMMA WriteVotesType ==
  ASSUME NEW old \in [Seats -> Vote], NEW slot, NEW pas, NEW field
  PROVE  WriteVotes(old, slot, pas, field) \in [Seats -> Vote]
BY DEF WriteVotes, AsVote, Vote

\* A vote resolved by update_latest_messages is the stored one or one of the
\* attestations that name the validator and are newer.
LEMMA LatestOfChoice ==
  ASSUME NEW v \in Validators, NEW atts \in Seq(Attestation)
  PROVE  \/ LatestOf(v, atts) = latest_messages[v]
         \/ \E i \in DOMAIN atts :
               /\ LatestOf(v, atts) = MessageOf(atts[i])
               /\ v \notin equivocating_indices
               /\ \/ latest_messages[v] = NoMessage
                  \/ atts[i].slot > latest_messages[v].slot
<1> DEFINE newer == {i \in DOMAIN atts :
                       /\ v \in atts[i].validators
                       /\ \/ latest_messages[v] = NoMessage
                          \/ atts[i].slot > latest_messages[v].slot}
           first == {i \in newer : \A j \in newer :
                       \/ atts[i].slot > atts[j].slot
                       \/ atts[i].slot = atts[j].slot /\ i <= j}
           w == CHOOSE i \in first : TRUE
<1>1. CASE v \in equivocating_indices \/ first = {}
  BY <1>1 DEF LatestOf
<1>2. CASE v \notin equivocating_indices /\ first # {}
  <2>1. LatestOf(v, atts) = MessageOf(atts[w])
    BY <1>2 DEF LatestOf
  <2>2. w \in newer
    BY <1>2
  <2> QED BY <1>2, <2>1, <2>2, ZenonT(40)
<1> QED BY <1>1, <1>2

\* What fork choice reads of a block has the right type.
LEMMA BlockFields ==
  ASSUME NEW r \in Roots
  PROVE  /\ Block[r].slot \in Nat
         /\ Block[r].full \in BOOLEAN
         /\ Block[r].slashings \subseteq Validators
         /\ Block[r].attestations \in Seq(Attestation)
         /\ Block[r].justified \in Checkpoint /\ Block[r].finalized \in Checkpoint
         /\ Block[r].ujustified \in Checkpoint /\ Block[r].ufinalized \in Checkpoint
<1>1. Block[r] \in BlockRecord
  BY BlockAssumption
<1> QED BY <1>1 DEF BlockRecord

\* An element of a sequence over S is in S.
LEMMA SeqElement ==
  ASSUME NEW S, NEW s \in Seq(S), NEW i \in DOMAIN s
  PROVE  s[i] \in S
OBVIOUS

\* An attestation of a block or of gossip names a checkpoint and gives a message.
LEMMA AttestationFields ==
  ASSUME NEW atts \in Seq(Attestation), NEW i \in DOMAIN atts
  PROVE  /\ atts[i].target \in Checkpoint
         /\ MessageOf(atts[i]) \in LatestMessage
<1>1. atts[i] \in Attestation
  BY SeqElement
<1>2. /\ atts[i].target \in Checkpoint
      /\ atts[i].slot \in Nat /\ atts[i].root \in Roots
  BY <1>1 DEF Attestation
<1> QED BY <1>2 DEF MessageOf, LatestMessage

\* Division of a slot or a time stays in Nat.
LEMMA DivNat ==
  ASSUME NEW a \in Nat, NEW b \in Nat \ {0}
  PROVE  a \div b \in Nat
OBVIOUS

\* The anchor's start time stays in Nat.
LEMMA MulNat ==
  ASSUME NEW a \in Nat, NEW b \in Nat
  PROVE  a * b \in Nat
OBVIOUS

\* Time passing does not lower the slot.
LEMMA DivMonotone ==
  ASSUME NEW a \in Nat, NEW c \in Nat, NEW b \in Nat \ {0}, a <= c
  PROVE  a \div b <= c \div b
OBVIOUS

\* get_forkchoice_store starts from a well-typed checkpoint.
LEMMA AnchorCheckpointType == AnchorCheckpoint \in Checkpoint
BY ConfigAssumption, BlockAssumption, BlockFields, DivNat
   DEF AnchorCheckpoint, Checkpoint, epoch

\* The initial store is well typed.
LEMMA TypeInit == Init => TypeOK
<1> SUFFICES ASSUME Init PROVE TypeOK OBVIOUS
<1>1. time \in Nat
  BY Zenon, ConfigAssumption, BlockAssumption, BlockFields, MulNat DEF Init
<1>2. NoVotes \in [Seats -> Vote]
  BY DEF NoVotes, Vote
<1> QED BY <1>1, <1>2, AnchorCheckpointType, BlockAssumption DEF Init, TypeOK

\* Attestations that pass validate_on_attestation give well-typed messages.
LEMMA LatestOfType ==
  ASSUME TypeOK, NEW v \in Validators, NEW atts \in Seq(Attestation)
  PROVE  LatestOf(v, atts) \in LatestMessage \cup {NoMessage}
<1>1. latest_messages[v] \in LatestMessage \cup {NoMessage}
  BY DEF TypeOK
<1> QED BY <1>1, AttestationFields, LatestOfChoice

\* Raising a checkpoint keeps it a checkpoint.
LEMMA RaiseType ==
  ASSUME NEW c \in Checkpoint, NEW d \in Checkpoint
  PROVE  Raise(c, d) \in Checkpoint
BY DEF Raise

\* update_latest_messages and store_target_checkpoint_state keep their types.
LEMMA TypeVotes ==
  ASSUME TypeOK, NEW atts \in Seq(Attestation),
         store_target_checkpoint_state(atts), update_latest_messages(atts)
  PROVE  /\ checkpoint_states' \subseteq Checkpoint
         /\ latest_messages' \in [Validators -> LatestMessage \cup {NoMessage}]
<1>1. checkpoint_states' \subseteq Checkpoint
  BY AttestationFields DEF TypeOK, store_target_checkpoint_state
<1>2. latest_messages' \in [Validators -> LatestMessage \cup {NoMessage}]
  BY LatestOfType DEF update_latest_messages
<1> QED BY <1>1, <1>2

\* on_tick keeps the store well typed.
LEMMA TypeTick == ASSUME TypeOK, Tick PROVE TypeOK'
<1> PICK t \in time .. MaxTime : on_tick(t)
  BY DEF Tick
<1>1. time' \in Nat
  BY InputAssumption DEF TypeOK, on_tick
<1>2. /\ justified_checkpoint' \in Checkpoint
      /\ finalized_checkpoint' \in Checkpoint
  BY RaiseType DEF TypeOK, on_tick, update_checkpoints
<1>3. proposer_boost_root' \in Roots \cup {ZERO}
  BY DEF TypeOK, on_tick, BoostAfter
<1> QED BY <1>1, <1>2, <1>3 DEF TypeOK, on_tick, votes, ptc_votes, envelopes

\* on_attestation keeps the store well typed.
LEMMA TypeAttestation == ASSUME TypeOK, ReceiveAttestation PROVE TypeOK'
<1> PICK a \in Attestations : on_attestation(a)
  BY DEF ReceiveAttestation
<1>1. <<a>> \in Seq(Attestation)
  BY InputAssumption
<1>2. /\ checkpoint_states' \subseteq Checkpoint
      /\ latest_messages' \in [Validators -> LatestMessage \cup {NoMessage}]
  BY <1>1, TypeVotes, ZenonT(40) DEF on_attestation
<1> QED BY <1>2 DEF TypeOK, on_attestation, checkpoints, imports, ptc_votes, envelopes

\* on_attester_slashing keeps the store well typed.
LEMMA TypeSlashing == ASSUME TypeOK, ReceiveSlashing PROVE TypeOK'
BY InputAssumption DEF TypeOK, ReceiveSlashing, on_attester_slashing,
   checkpoints, imports, ptc_votes, envelopes

\* on_payload_attestation_message keeps the store well typed.
LEMMA TypePtcMessage == ASSUME TypeOK, ReceivePtcMessage PROVE TypeOK'
<1> PICK m \in PtcMessages : on_payload_attestation_message(m)
  BY DEF ReceivePtcMessage
<1>1. m.root \in Roots
  BY DEF TypeOK, on_payload_attestation_message
<1> DEFINE pas == <<[validators |-> {m.validator}, present |-> m.present,
                     available |-> m.available]>>
<1>2. /\ WriteTimeliness(m.root, pas) \in [Seats -> Vote]
      /\ WriteAvailability(m.root, pas) \in [Seats -> Vote]
  BY <1>1, WriteVotesType, ZenonT(40) DEF TypeOK, WriteTimeliness, WriteAvailability
<1>3. /\ payload_timeliness_vote' \in [Roots -> [Seats -> Vote]]
      /\ payload_data_availability_vote' \in [Roots -> [Seats -> Vote]]
  BY <1>2, ZenonT(40) DEF TypeOK, on_payload_attestation_message
<1> QED BY <1>3, ZenonT(40) DEF TypeOK, on_payload_attestation_message,
                    checkpoints, imports, votes, envelopes

\* on_execution_payload_envelope keeps the store well typed.
LEMMA TypeEnvelope == ASSUME TypeOK, ReceiveEnvelope PROVE TypeOK'
BY InputAssumption DEF TypeOK, ReceiveEnvelope, on_execution_payload_envelope,
   record_verified_execution_payload_envelope, checkpoints, imports, votes, ptc_votes

\* record_data_column_sidecar keeps the store well typed.
LEMMA TypeColumn == ASSUME TypeOK, ReceiveColumn PROVE TypeOK'
BY DEF TypeOK, ReceiveColumn, record_data_column_sidecar,
   process_queued_payload_envelope, record_verified_execution_payload_envelope,
   checkpoints, imports, votes, ptc_votes

\* on_block_with_embedded_messages keeps the store well typed.
LEMMA TypeImport == ASSUME TypeOK, ImportBlock PROVE TypeOK'
<1> PICK r \in Roots \ {Anchor} : on_block_with_embedded_messages(r)
  BY DEF ImportBlock
<1> USE DEF on_block_with_embedded_messages, on_block_inner
<1>1. time' \in Nat /\ blocks' \subseteq Roots
  BY DEF TypeOK
<1>2. /\ justified_checkpoint' \in Checkpoint
      /\ finalized_checkpoint' \in Checkpoint
      /\ unrealized_justified_checkpoint' \in Checkpoint
      /\ unrealized_finalized_checkpoint' \in Checkpoint
      /\ unrealized_justifications' \in [Roots -> Checkpoint]
  BY RaiseType, BlockFields DEF TypeOK, ImportCheckpoints
<1>3. proposer_boost_root' \in Roots \cup {ZERO}
  BY DEF TypeOK, update_proposer_boost_root
<1>4. block_timeliness' \in [Roots -> [attestation : BOOLEAN, payload_attestation : BOOLEAN]]
  BY DEF TypeOK, record_block_timeliness, BeforeDeadline
<1>5. /\ checkpoint_states' \subseteq Checkpoint
      /\ latest_messages' \in [Validators -> LatestMessage \cup {NoMessage}]
  BY BlockFields, TypeVotes
<1>6. equivocating_indices' \subseteq Validators
  BY BlockFields DEF TypeOK
<1>7. /\ payload_timeliness_vote' \in [Roots -> [Seats -> Vote]]
      /\ payload_data_availability_vote' \in [Roots -> [Seats -> Vote]]
  <2> DEFINE parent == Block[r].parent
             pas == ParentPayloadAttestations(r)
  <2>1. NoVotes \in [Seats -> Vote]
    BY DEF NoVotes, Vote
  <2>2. parent \in Roots
    BY ParentAssumption
  <2>3. /\ WriteTimeliness(parent, pas) \in [Seats -> Vote]
        /\ WriteAvailability(parent, pas) \in [Seats -> Vote]
    BY <2>2, WriteVotesType, ZenonT(40) DEF TypeOK, WriteTimeliness, WriteAvailability
  <2> QED BY <2>1, <2>3, ZenonT(40) DEF TypeOK, notify_ptc_messages
<1> QED BY <1>1, <1>2, <1>3, <1>4, <1>5, <1>6, <1>7 DEF TypeOK, envelopes

\* Every handler keeps the store well typed (TypeOK), whatever is delivered.
THEOREM TypeCorrect == Spec => []TypeOK
<1>1. TypeOK /\ [Next]_vars => TypeOK'
  <2> SUFFICES ASSUME TypeOK, [Next]_vars PROVE TypeOK' OBVIOUS
  <2>1. CASE UNCHANGED vars
    BY <2>1 DEF TypeOK, vars, checkpoints, imports, votes, ptc_votes, envelopes
  <2> QED BY <2>1, TypeTick, TypeImport, TypeAttestation, TypeSlashing,
             TypePtcMessage, TypeEnvelope, TypeColumn DEF Next
<1> QED BY <1>1, TypeInit, PTL DEF Spec

--------------------------------------------------------------------------------
(* Votes, boost and payload envelopes. *)

USE DEF ZERO, checkpoints, imports, votes, ptc_votes, envelopes

\* The clock only moves forward, and with it the current slot.
LEMMA SlotMonotone ==
  ASSUME TypeOK, [Next]_vars
  PROVE  /\ get_current_slot \in Nat /\ get_current_slot' \in Nat
         /\ get_current_slot <= get_current_slot'
<1>1. time \in Nat /\ time' \in Nat /\ time <= time'
  <2>1. CASE Tick
    BY <2>1, InputAssumption DEF Tick, on_tick, TypeOK
  <2>2. CASE ~Tick
    <3>1. UNCHANGED time
      BY <2>2, ZenonT(40) DEF Next, vars, ImportBlock, on_block_with_embedded_messages,
         on_block_inner, ReceiveAttestation, on_attestation, ReceiveSlashing,
         on_attester_slashing, ReceivePtcMessage, on_payload_attestation_message,
         ReceiveEnvelope, on_execution_payload_envelope, ReceiveColumn,
         record_data_column_sidecar
    <3> QED BY <3>1 DEF TypeOK
  <2> QED BY <2>1, <2>2
<1> QED BY <1>1, DivNat, DivMonotone, ConfigAssumption, ZenonT(40) DEF get_current_slot, slot_at_time

\* Stored blocks and recorded payloads are never dropped.
LEMMA StoreGrows ==
  ASSUME [Next]_vars
  PROVE  blocks \subseteq blocks' /\ payloads \subseteq payloads'
BY ZenonT(40) DEF Next, vars, Tick, on_tick, ImportBlock, on_block_with_embedded_messages,
   on_block_inner, ReceiveAttestation, on_attestation, ReceiveSlashing,
   on_attester_slashing, ReceivePtcMessage, on_payload_attestation_message,
   ReceiveEnvelope, on_execution_payload_envelope, ReceiveColumn,
   record_data_column_sidecar, process_queued_payload_envelope,
   record_verified_execution_payload_envelope

\* A new latest message comes from an attestation that passed
\* validate_on_attestation in the new store.
LEMMA NewMessageValid ==
  ASSUME TypeOK, [Next]_vars, NEW v \in Validators,
         latest_messages'[v] # latest_messages[v]
  PROVE  \E a \in Attestation :
            /\ latest_messages'[v] = MessageOf(a)
            /\ validate_on_attestation(a)'
            /\ v \notin equivocating_indices
            /\ latest_messages[v] = NoMessage \/ a.slot > latest_messages[v].slot
<1>1. CASE ReceiveAttestation
  <2> PICK a \in Attestations : on_attestation(a)
    BY <1>1 DEF ReceiveAttestation
  <2>1. <<a>> \in Seq(Attestation) /\ DOMAIN <<a>> = {1} /\ <<a>>[1] = a /\ a \in Attestation
    BY InputAssumption
  <2>2. latest_messages'[v] = LatestOf(v, <<a>>)
    BY DEF on_attestation, update_latest_messages
  <2>3. validate_on_attestation(a)'
    BY DEF on_attestation, validate_on_attestation, get_checkpoint_block, get_ancestor,
       is_payload_verified, get_current_slot
  <2> QED BY <2>1, <2>2, <2>3, LatestOfChoice, ZenonT(40)
<1>2. CASE ImportBlock
  <2> PICK r \in Roots \ {Anchor} : on_block_with_embedded_messages(r)
    BY <1>2 DEF ImportBlock
  <2> DEFINE atts == Block[r].attestations
  <2>1. atts \in Seq(Attestation)
    BY BlockFields
  <2>2. latest_messages'[v] = LatestOf(v, atts)
    BY DEF on_block_with_embedded_messages, update_latest_messages
  <2>3. PICK i \in DOMAIN atts :
          /\ latest_messages'[v] = MessageOf(atts[i])
          /\ v \notin equivocating_indices
          /\ latest_messages[v] = NoMessage \/ atts[i].slot > latest_messages[v].slot
    BY <2>1, <2>2, LatestOfChoice
  <2>4. atts[i] \in Attestation /\ validate_on_attestation(atts[i])'
    BY <2>1, SeqElement DEF on_block_with_embedded_messages
  <2> QED BY <2>3, <2>4
<1>3. CASE ~ReceiveAttestation /\ ~ImportBlock
  BY <1>3, ZenonT(40) DEF Next, vars, Tick, on_tick, ReceiveSlashing, on_attester_slashing,
     ReceivePtcMessage, on_payload_attestation_message, ReceiveEnvelope,
     on_execution_payload_envelope, ReceiveColumn, record_data_column_sidecar
<1> QED BY <1>1, <1>2, <1>3

\* Full is never taken on trust (PayloadBranchesBacked): the store holds a block
\* or a vote on a payload only once the payload's envelope is recorded.
THEOREM PayloadBranchesBackedAlways == Spec => []PayloadBranchesBacked
<1>1. Init => PayloadBranchesBacked
  <2> SUFFICES ASSUME Init PROVE PayloadBranchesBacked
    OBVIOUS
  <2>1. blocks \ {Anchor} = {}
    BY DEF Init
  <2>2. \A v \in Validators : latest_messages[v] = NoMessage
    BY DEF Init
  <2>3. ~NoMessage.payload_present
    BY DEF NoMessage
  <2> QED BY <2>1, <2>2, <2>3, Zenon DEF PayloadBranchesBacked
<1>2. TypeOK /\ PayloadBranchesBacked /\ [Next]_vars => PayloadBranchesBacked'
  <2> SUFFICES ASSUME TypeOK, PayloadBranchesBacked, [Next]_vars
               PROVE  PayloadBranchesBacked'
    OBVIOUS
  <2>1. blocks \subseteq blocks' /\ payloads \subseteq payloads'
    BY StoreGrows
  <2>2. ASSUME NEW r \in blocks' \ {Anchor}
        PROVE  Block[r].parent \in blocks' /\ (Block[r].full => Block[r].parent \in payloads')
    <3>1. CASE r \in blocks
      BY <2>1, <3>1 DEF PayloadBranchesBacked
    <3>2. CASE r \notin blocks
      <4>1. on_block_inner(r)
        BY <3>2, ZenonT(40) DEF Next, vars, Tick, on_tick, ImportBlock, on_block_with_embedded_messages,
           on_block_inner, ReceiveAttestation, on_attestation, ReceiveSlashing,
           on_attester_slashing, ReceivePtcMessage, on_payload_attestation_message,
           ReceiveEnvelope, on_execution_payload_envelope, ReceiveColumn,
           record_data_column_sidecar
      <4> QED BY <4>1, <2>1 DEF on_block_inner, CanImport, is_payload_verified
    <3> QED BY <3>1, <3>2
  <2>3. ASSUME NEW v \in Validators, latest_messages'[v].payload_present
        PROVE  latest_messages'[v].root \in payloads'
    <3>1. CASE latest_messages'[v] = latest_messages[v]
      BY <2>1, <2>3, <3>1 DEF PayloadBranchesBacked
    <3>2. CASE latest_messages'[v] # latest_messages[v]
      <4> PICK a \in Attestation : /\ latest_messages'[v] = MessageOf(a)
                                   /\ validate_on_attestation(a)'
        BY <3>2, NewMessageValid
      <4>1. MessageOf(a).payload_present = (a.index = 1) /\ MessageOf(a).root = a.root
        BY DEF MessageOf
      <4>2. a.index = 1
        BY <2>3, <4>1, Zenon
      <4> QED BY <4>1, <4>2 DEF validate_on_attestation, is_payload_verified
    <3> QED BY <3>1, <3>2
  <2> QED BY <2>2, <2>3 DEF PayloadBranchesBacked
<1> QED BY <1>1, <1>2, TypeCorrect, PTL DEF Spec

\* Every stored vote resolves to a stored block no later than the vote, and the
\* vote's slot is over (VotesResolve): get_supported_node never fails.
THEOREM VotesResolveAlways == Spec => []VotesResolve
<1>1. Init => VotesResolve
  BY DEF Init, VotesResolve
<1>2. TypeOK /\ VotesResolve /\ [Next]_vars => VotesResolve'
  <2> SUFFICES ASSUME TypeOK, VotesResolve, [Next]_vars, NEW v \in Validators,
                      latest_messages'[v] # NoMessage
               PROVE  /\ latest_messages'[v].root \in blocks'
                      /\ Block[latest_messages'[v].root].slot <= latest_messages'[v].slot
                      /\ latest_messages'[v].slot < get_current_slot'
    BY DEF VotesResolve
  <2>1. CASE latest_messages'[v] = latest_messages[v]
    <3>1. latest_messages[v].slot \in Nat
      BY DEF TypeOK, LatestMessage, NoMessage
    <3> QED BY <2>1, <3>1, SlotMonotone, StoreGrows DEF VotesResolve
  <2>2. CASE latest_messages'[v] # latest_messages[v]
    <3> PICK a \in Attestation : /\ latest_messages'[v] = MessageOf(a)
                                 /\ validate_on_attestation(a)'
      BY <2>2, NewMessageValid
    <3>1. /\ a.root \in blocks' /\ Block[a.root].slot <= a.slot
          /\ get_current_slot' >= a.slot + 1 /\ a.slot \in Nat
      BY DEF validate_on_attestation, is_at_or_after_next_slot, Attestation
    <3> QED BY <3>1, SlotMonotone DEF MessageOf
  <2> QED BY <2>1, <2>2
<1> QED BY <1>1, <1>2, TypeCorrect, PTL DEF Spec

\* A latest message is only replaced by a later one, and never after its
\* validator equivocated (VotesOnlyAdvance).
THEOREM VotesOnlyAdvanceAlways == Spec => VotesOnlyAdvance
<1>1. TypeOK /\ [Next]_vars =>
        [\A v \in Validators :
           latest_messages'[v] # latest_messages[v] =>
             /\ v \notin equivocating_indices
             /\ \/ latest_messages[v] = NoMessage
                \/ latest_messages'[v].slot > latest_messages[v].slot]_vars
  <2> SUFFICES ASSUME TypeOK, [Next]_vars, NEW v \in Validators,
                      latest_messages'[v] # latest_messages[v]
               PROVE  /\ v \notin equivocating_indices
                      /\ \/ latest_messages[v] = NoMessage
                         \/ latest_messages'[v].slot > latest_messages[v].slot
    OBVIOUS
  <2> PICK a \in Attestation :
         /\ latest_messages'[v] = MessageOf(a)
         /\ v \notin equivocating_indices
         /\ latest_messages[v] = NoMessage \/ a.slot > latest_messages[v].slot
    BY NewMessageValid
  <2> QED BY DEF MessageOf
<1> QED BY <1>1, TypeCorrect, PTL DEF Spec, VotesOnlyAdvance

\* What a step does to the boost: on_tick drops it when the slot advances, a
\* block of the current slot receives it, and nothing else touches it.
LEMMA BoostStep ==
  ASSUME TypeOK, [Next]_vars
  PROVE  \/ /\ proposer_boost_root' = proposer_boost_root
            /\ proposer_boost_root # ZERO => get_current_slot' = get_current_slot
         \/ /\ proposer_boost_root' = ZERO
            /\ get_current_slot' # get_current_slot
         \/ /\ proposer_boost_root = ZERO
            /\ proposer_boost_root' \in blocks'
            /\ Block[proposer_boost_root'].slot = get_current_slot
            /\ get_current_slot' = get_current_slot
<1>1. CASE Tick
  <2> PICK t \in time .. MaxTime : on_tick(t)
    BY <1>1 DEF Tick
  <2>1. get_current_slot' = slot_at_time(t)
    BY DEF on_tick, get_current_slot
  <2>2. get_current_slot \in Nat /\ slot_at_time(t) \in Nat /\ get_current_slot <= slot_at_time(t)
    BY <2>1, SlotMonotone
  <2>3. CASE SlotsStepped(t) = {}
    <3>1. get_current_slot' = get_current_slot
      BY <2>1, <2>2, <2>3 DEF SlotsStepped
    <3> QED BY <2>3, <3>1 DEF on_tick, BoostAfter
  <2>4. CASE SlotsStepped(t) # {}
    <3>1. get_current_slot' # get_current_slot
      BY <2>1, <2>2, <2>4 DEF SlotsStepped
    <3> QED BY <2>4, <3>1 DEF on_tick, BoostAfter
  <2> QED BY <2>3, <2>4
<1>2. CASE ImportBlock
  <2> PICK r \in Roots \ {Anchor} : on_block_with_embedded_messages(r)
    BY <1>2 DEF ImportBlock
  <2>1. get_current_slot' = get_current_slot /\ r \in blocks'
    BY DEF on_block_with_embedded_messages, on_block_inner, get_current_slot
  <2>2. \/ proposer_boost_root' = proposer_boost_root
        \/ /\ proposer_boost_root = ZERO /\ proposer_boost_root' = r
           /\ Block[r].slot = get_current_slot
    BY DEF on_block_with_embedded_messages, on_block_inner,
       update_proposer_boost_root, BeforeDeadline
  <2> QED BY <2>1, <2>2
<1>3. CASE ~Tick /\ ~ImportBlock
  <2>1. UNCHANGED <<time, proposer_boost_root>>
    BY <1>3, ZenonT(40) DEF Next, vars, ReceiveAttestation, on_attestation, ReceiveSlashing,
       on_attester_slashing, ReceivePtcMessage, on_payload_attestation_message,
       ReceiveEnvelope, on_execution_payload_envelope, ReceiveColumn,
       record_data_column_sidecar
  <2> QED BY <2>1 DEF get_current_slot
<1> QED BY <1>1, <1>2, <1>3

\* The boosted block is a stored block of the current slot (BoostIsCurrent),
\* through ticks that skip slots and imports of old blocks.
THEOREM BoostIsCurrentAlways == Spec => []BoostIsCurrent
<1>1. Init => BoostIsCurrent
  BY DEF Init, BoostIsCurrent
<1>2. TypeOK /\ BoostIsCurrent /\ [Next]_vars => BoostIsCurrent'
  BY BoostStep, StoreGrows DEF BoostIsCurrent
<1> QED BY <1>1, <1>2, TypeCorrect, PTL DEF Spec

\* Within a slot the boost is granted once and stays (BoostOncePerSlot).
THEOREM BoostOncePerSlotAlways == Spec => BoostOncePerSlot
<1>1. TypeOK /\ [Next]_vars =>
        [proposer_boost_root # ZERO /\ get_current_slot' = get_current_slot
         => proposer_boost_root' = proposer_boost_root]_vars
  BY BoostStep
<1> QED BY <1>1, TypeCorrect, PTL DEF Spec, BoostOncePerSlot

\* A recorded payload has all its data columns and is not queued
\* (PayloadsHaveData), on the direct path and on the queued one.
THEOREM PayloadsHaveDataAlways == Spec => []PayloadsHaveData
<1>1. Init => PayloadsHaveData
  BY DEF Init, PayloadsHaveData
<1>2. TypeOK /\ PayloadsHaveData /\ [Next]_vars => PayloadsHaveData'
  <2> SUFFICES ASSUME TypeOK, PayloadsHaveData, [Next]_vars
               PROVE  PayloadsHaveData'
    OBVIOUS
  <2>1. CASE ReceiveEnvelope
    BY <2>1 DEF PayloadsHaveData, is_data_available, ReceiveEnvelope,
       on_execution_payload_envelope, record_verified_execution_payload_envelope
  <2>2. CASE ReceiveColumn
    <3> PICK r \in Roots, c \in Columns, v \in Verdicts : record_data_column_sidecar(r, c, v)
      BY <2>2 DEF ReceiveColumn
    <3>1. \A q \in Roots : data_column_sidecars[q] = Columns => data_column_sidecars'[q] = Columns
      BY DEF record_data_column_sidecar, TypeOK
    <3>2. \A q \in Roots : is_data_available(q) => is_data_available(q)'
      BY <3>1 DEF is_data_available
    <3> QED BY <3>2 DEF PayloadsHaveData, TypeOK, record_data_column_sidecar,
            process_queued_payload_envelope, record_verified_execution_payload_envelope
  <2>3. CASE ~ReceiveEnvelope /\ ~ReceiveColumn
    <3>1. UNCHANGED envelopes
      BY <2>3, ZenonT(40) DEF Next, vars, Tick, on_tick, ImportBlock, on_block_with_embedded_messages,
         on_block_inner, ReceiveAttestation, on_attestation, ReceiveSlashing,
         on_attester_slashing, ReceivePtcMessage, on_payload_attestation_message
    <3> QED BY <3>1 DEF PayloadsHaveData, is_data_available
  <2> QED BY <2>1, <2>2, <2>3
<1> QED BY <1>1, <1>2, TypeCorrect, PTL DEF Spec

\* With an engine that accepts every payload, a queued envelope still waits for
\* data (NoStrandedEnvelope): the call that completes its columns releases it.
THEOREM NoStrandedEnvelopeAlways == Spec => []NoStrandedEnvelope
<1>1. Init => NoStrandedEnvelope
  BY DEF Init, NoStrandedEnvelope
<1>2. TypeOK /\ NoStrandedEnvelope /\ [Next]_vars => NoStrandedEnvelope'
  <2> SUFFICES ASSUME TypeOK, NoStrandedEnvelope, [Next]_vars, Verdicts = {"Valid"},
                      NEW q \in queued_payload_envelopes'
               PROVE  ~is_data_available(q)'
    BY DEF NoStrandedEnvelope
  <2>1. CASE ReceiveEnvelope
    BY <2>1 DEF NoStrandedEnvelope, is_data_available, ReceiveEnvelope,
       on_execution_payload_envelope, record_verified_execution_payload_envelope
  <2>2. CASE ReceiveColumn
    <3> PICK r \in Roots, c \in Columns, v \in Verdicts : record_data_column_sidecar(r, c, v)
      BY <2>2 DEF ReceiveColumn
    <3>1. CASE q = r
      BY <3>1 DEF record_data_column_sidecar, process_queued_payload_envelope,
         record_verified_execution_payload_envelope
    <3>2. CASE q # r
      <4>1. q \in queued_payload_envelopes
        BY DEF record_data_column_sidecar, process_queued_payload_envelope,
           record_verified_execution_payload_envelope
      <4>2. data_column_sidecars'[q] = data_column_sidecars[q]
        BY <3>2, <4>1 DEF TypeOK, record_data_column_sidecar
      <4> QED BY <4>1, <4>2 DEF NoStrandedEnvelope, is_data_available
    <3> QED BY <3>1, <3>2
  <2>3. CASE ~ReceiveEnvelope /\ ~ReceiveColumn
    <3>1. UNCHANGED envelopes
      BY <2>3, ZenonT(40) DEF Next, vars, Tick, on_tick, ImportBlock, on_block_with_embedded_messages,
         on_block_inner, ReceiveAttestation, on_attestation, ReceiveSlashing,
         on_attester_slashing, ReceivePtcMessage, on_payload_attestation_message
    <3> QED BY <3>1 DEF NoStrandedEnvelope, is_data_available
  <2> QED BY <2>1, <2>2, <2>3
<1> QED BY <1>1, <1>2, TypeCorrect, PTL DEF Spec

--------------------------------------------------------------------------------
(* Checkpoints. *)

\* Naturals in order, one fact each, for the steps that need no other arithmetic.
LEMMA LeRefl == \A a \in Nat : a <= a
OBVIOUS

\* A strict order is an order.
LEMMA LtLe == \A a, b \in Nat : a < b => a <= b
OBVIOUS

\* And excludes the opposite one.
LEMMA LtNotLe == \A a, b \in Nat : a < b => ~(b <= a)
OBVIOUS

\* Orders compose.
LEMMA LeLe == \A a, b, c \in Nat : a <= b /\ b <= c => a <= c
OBVIOUS

\* An order and a strict one compose to a strict one.
LEMMA LeLt == \A a, b, c \in Nat : a <= b /\ b < c => a < c
OBVIOUS

\* An order is strict or an equality.
LEMMA LeCases == \A a, b \in Nat : a <= b => b > a \/ b = a
OBVIOUS

\* Any two naturals are ordered.
LEMMA LeOrGt == \A a, b \in Nat : a <= b \/ a > b
OBVIOUS

\* Descending orders compose.
LEMMA GtGe == \A a, b, c \in Nat : a > b /\ b >= c => a > c
OBVIOUS

\* A natural is an integer, and comparable with one.
LEMMA NatInt == \A a \in Nat : a \in Int /\ \A b \in Int : a <= b \/ a > b
OBVIOUS

\* The strict order on naturals and integers excludes the other one, both ways of writing it.
LEMMA GtLt == \A a \in Nat, b \in Int : a > b => ~(a <= b) /\ b < a
OBVIOUS

\* An order is an equality or strict.
LEMMA LeSplit == \A a, b \in Nat : a <= b => a = b \/ a < b
OBVIOUS

\* A bound that is raised.
LEMMA GeLe == \A a, b, c \in Nat : b >= a /\ b <= c => a <= c
OBVIOUS

\* A multiple divided by its factor.
LEMMA DivMultiple ==
  ASSUME NEW a \in Nat, NEW d \in Nat \ {0}
  PROVE  (a * d) \div d = a
OBVIOUS

\* The post-states of a block name well-ordered checkpoints (PostStateAssumption).
LEMMA PostStateOrder ==
  ASSUME NEW r \in Roots \ {Anchor}
  PROVE  LET b == Block[r]
         IN  /\ b.justified.epoch \in Nat /\ b.finalized.epoch \in Nat
             /\ b.ujustified.epoch \in Nat /\ b.ufinalized.epoch \in Nat
             /\ b.finalized.epoch <= b.justified.epoch
             /\ b.ufinalized.epoch <= b.ujustified.epoch
             /\ b.justified.epoch <= b.ujustified.epoch
             /\ b.finalized.epoch <= b.ufinalized.epoch
<1>1. /\ Block[r].justified.epoch \in Nat /\ Block[r].finalized.epoch \in Nat
      /\ Block[r].ujustified.epoch \in Nat /\ Block[r].ufinalized.epoch \in Nat
  BY BlockFields DEF Checkpoint
<1> QED BY <1>1, PostStateAssumption

\* Raising a checkpoint gives one of the two, no earlier than either.
LEMMA RaiseFacts ==
  ASSUME NEW c, NEW d, c.epoch \in Nat, d.epoch \in Nat
  PROVE  /\ Raise(c, d).epoch \in Nat /\ Advances(c, Raise(c, d))
         /\ Raise(c, d).epoch = c.epoch \/ Raise(c, d).epoch = d.epoch
         /\ c.epoch <= Raise(c, d).epoch /\ d.epoch <= Raise(c, d).epoch
BY DEF Raise, Advances

\* Raising a checkpoint twice takes it forward.
LEMMA RaiseTwice ==
  ASSUME NEW c, NEW d, NEW e, c.epoch \in Nat, d.epoch \in Nat, e.epoch \in Nat
  PROVE  Advances(c, Raise(Raise(c, d), e))
BY DEF Raise, Advances

\* Raising keeps the order of two checkpoints, and stays below what both are below.
LEMMA RaiseOrder ==
  ASSUME NEW c, NEW d, NEW x, NEW y, c.epoch \in Nat, d.epoch \in Nat,
         x.epoch \in Nat, y.epoch \in Nat, c.epoch <= x.epoch
  PROVE  /\ d.epoch <= y.epoch => Raise(c, d).epoch <= Raise(x, y).epoch
         /\ d.epoch <= x.epoch => Raise(c, d).epoch <= x.epoch
BY DEF Raise

\* The four checkpoints of a well-typed store have natural epochs.
LEMMA CheckpointEpochs ==
  ASSUME TypeOK
  PROVE  /\ justified_checkpoint.epoch \in Nat /\ finalized_checkpoint.epoch \in Nat
         /\ unrealized_justified_checkpoint.epoch \in Nat
         /\ unrealized_finalized_checkpoint.epoch \in Nat
BY DEF TypeOK, Checkpoint

\* Only a tick and a block import move a checkpoint.
LEMMA OtherStepsKeepCheckpoints ==
  ASSUME [Next]_vars, ~Tick, ~ImportBlock
  PROVE  UNCHANGED checkpoints
BY ZenonT(40) DEF Next, vars, ReceiveAttestation, on_attestation, ReceiveSlashing,
   on_attester_slashing, ReceivePtcMessage, on_payload_attestation_message,
   ReceiveEnvelope, on_execution_payload_envelope, ReceiveColumn,
   record_data_column_sidecar

\* The store's checkpoints stay ordered (CheckpointOrder) although each is raised
\* on its own, by post-states, pulled-up tips and epoch ticks.
THEOREM CheckpointOrderAlways == Spec => []CheckpointOrder
<1>1. Init => CheckpointOrder
  <2>1. AnchorCheckpoint.epoch \in Nat
    BY AnchorCheckpointType DEF Checkpoint
  <2> QED BY <2>1 DEF Init, CheckpointOrder
<1>2. TypeOK /\ CheckpointOrder /\ [Next]_vars => CheckpointOrder'
  <2> SUFFICES ASSUME TypeOK, CheckpointOrder, [Next]_vars
               PROVE  CheckpointOrder'
    OBVIOUS
  <2>1. CASE Tick
    <3> PICK t \in time .. MaxTime : on_tick(t)
      BY <2>1 DEF Tick
    <3>1. CASE EpochStepped(t)
      BY <3>1, CheckpointEpochs DEF on_tick, update_checkpoints, Raise, CheckpointOrder
    <3>2. CASE ~EpochStepped(t)
      BY <3>2 DEF on_tick, CheckpointOrder
    <3> QED BY <3>1, <3>2
  <2>2. CASE ImportBlock
    <3> PICK r \in Roots \ {Anchor} : on_block_with_embedded_messages(r)
      BY <2>2 DEF ImportBlock
    <3>1. ImportCheckpoints(r)
      BY DEF on_block_with_embedded_messages, on_block_inner
    <3> DEFINE j == justified_checkpoint
               f == finalized_checkpoint
               uj == unrealized_justified_checkpoint
               uf == unrealized_finalized_checkpoint
               b == Block[r]
    <3>2. PICK x, y :
            /\ x.epoch \in Nat /\ y.epoch \in Nat /\ y.epoch <= x.epoch
            /\ x.epoch <= b.ujustified.epoch /\ y.epoch <= b.ufinalized.epoch
            /\ j' = Raise(Raise(j, b.justified), x) /\ uj' = Raise(uj, b.ujustified)
            /\ f' = Raise(Raise(f, b.finalized), y) /\ uf' = Raise(uf, b.ufinalized)
      <4>1. \A n \in Nat : n <= n
        OBVIOUS
      <4>2. CASE epoch(b.slot) < get_current_store_epoch
        <5> WITNESS b.ujustified, b.ufinalized
        <5> QED BY <3>1, <4>1, <4>2, PostStateOrder, Zenon DEF ImportCheckpoints
      <4>3. CASE ~(epoch(b.slot) < get_current_store_epoch)
        <5> WITNESS b.justified, b.finalized
        <5> QED BY <3>1, <4>3, PostStateOrder, Zenon DEF ImportCheckpoints
      <4> QED BY <4>2, <4>3, Zenon
    <3>3. /\ j.epoch \in Nat /\ f.epoch \in Nat /\ uj.epoch \in Nat /\ uf.epoch \in Nat
          /\ f.epoch <= j.epoch /\ j.epoch <= uj.epoch /\ f.epoch <= uf.epoch /\ uf.epoch <= uj.epoch
      BY CheckpointEpochs, Zenon DEF CheckpointOrder
    <3> DEFINE bj == b.justified
               bf == b.finalized
               buj == b.ujustified
               buf == b.ufinalized
    <3>4. /\ bj.epoch \in Nat /\ bf.epoch \in Nat /\ buj.epoch \in Nat /\ buf.epoch \in Nat
          /\ bf.epoch <= bj.epoch /\ bj.epoch <= buj.epoch /\ bf.epoch <= buf.epoch
          /\ buf.epoch <= buj.epoch
      BY PostStateOrder, Zenon
    <3> HIDE DEF bj, bf, buj, buf
    <3>5. /\ Raise(j, bj).epoch \in Nat /\ Raise(f, bf).epoch \in Nat
          /\ Raise(uj, buj).epoch \in Nat /\ Raise(uf, buf).epoch \in Nat
      BY <3>3, <3>4, RaiseFacts, Zenon
    <3>6. /\ Raise(f, bf).epoch <= Raise(j, bj).epoch /\ Raise(j, bj).epoch <= Raise(uj, buj).epoch
          /\ Raise(f, bf).epoch <= Raise(uf, buf).epoch /\ Raise(uf, buf).epoch <= Raise(uj, buj).epoch
      BY <3>3, <3>4, RaiseOrder, Zenon
    <3>7. x.epoch <= Raise(uj, buj).epoch /\ y.epoch <= Raise(uf, buf).epoch
      <4>1. buj.epoch <= Raise(uj, buj).epoch /\ buf.epoch <= Raise(uf, buf).epoch
        BY <3>3, <3>4, RaiseFacts, Zenon
      <4>2. x.epoch <= buj.epoch /\ y.epoch <= buf.epoch /\ x.epoch \in Nat /\ y.epoch \in Nat
        BY <3>2, Zenon DEF buj, buf
      <4>3. \A k, m, n \in Nat : k <= m /\ m <= n => k <= n
        OBVIOUS
      <4> QED BY <3>4, <3>5, <4>1, <4>2, <4>3, Zenon
    <3>8. /\ Raise(Raise(f, bf), y).epoch <= Raise(Raise(j, bj), x).epoch
          /\ Raise(Raise(j, bj), x).epoch <= Raise(uj, buj).epoch
          /\ Raise(Raise(f, bf), y).epoch <= Raise(uf, buf).epoch
      BY <3>2, <3>5, <3>6, <3>7, RaiseOrder, Zenon
    <3> QED BY <3>2, <3>6, <3>8, Zenon DEF CheckpointOrder, bj, bf, buj, buf
  <2>3. CASE ~Tick /\ ~ImportBlock
    BY <2>3, OtherStepsKeepCheckpoints DEF CheckpointOrder
  <2> QED BY <2>1, <2>2, <2>3
<1> QED BY <1>1, <1>2, TypeCorrect, PTL DEF Spec

\* No step takes the justified or the finalized checkpoint back, or swaps it for
\* another of its epoch (CheckpointsAdvance).
THEOREM CheckpointsAdvanceAlways == Spec => CheckpointsAdvance
<1>1. TypeOK /\ [Next]_vars =>
        [/\ Advances(justified_checkpoint, justified_checkpoint')
         /\ Advances(finalized_checkpoint, finalized_checkpoint')]_vars
  <2> SUFFICES ASSUME TypeOK, [Next]_vars
               PROVE  /\ Advances(justified_checkpoint, justified_checkpoint')
                      /\ Advances(finalized_checkpoint, finalized_checkpoint')
    OBVIOUS
  <2>1. CASE Tick
    BY <2>1, CheckpointEpochs DEF Tick, on_tick, update_checkpoints, Raise, Advances
  <2>2. CASE ImportBlock
    <3> PICK r \in Roots \ {Anchor} : on_block_with_embedded_messages(r)
      BY <2>2 DEF ImportBlock
    <3>1. ImportCheckpoints(r)
      BY DEF on_block_with_embedded_messages, on_block_inner
    <3>2. Advances(justified_checkpoint, justified_checkpoint')
      <4>1. \E d : /\ d.epoch \in Nat
                  /\ justified_checkpoint' = Raise(Raise(justified_checkpoint, Block[r].justified), d)
        BY <3>1, PostStateOrder, Zenon DEF ImportCheckpoints
      <4> QED BY <4>1, CheckpointEpochs, PostStateOrder, RaiseTwice, Zenon
    <3>3. Advances(finalized_checkpoint, finalized_checkpoint')
      <4>1. \E d : /\ d.epoch \in Nat
                  /\ finalized_checkpoint' = Raise(Raise(finalized_checkpoint, Block[r].finalized), d)
        BY <3>1, PostStateOrder, Zenon DEF ImportCheckpoints
      <4> QED BY <4>1, CheckpointEpochs, PostStateOrder, RaiseTwice, Zenon
    <3> QED BY <3>2, <3>3
  <2>3. CASE ~Tick /\ ~ImportBlock
    BY <2>3, OtherStepsKeepCheckpoints DEF Advances
  <2> QED BY <2>1, <2>2, <2>3
<1> QED BY <1>1, TypeCorrect, PTL DEF Spec, CheckpointsAdvance

--------------------------------------------------------------------------------
(* JustifiedCheckpointUsable is not inductive: a tick realizes a checkpoint that *)
(* a block was imported with epochs ago.  What carries over is that every target *)
(* attested to on a stored chain has a stored block and a cached state, and that *)
(* nothing after the anchor's epoch is justified without such attestations.      *)

\* Checkpoint c can be weighed against: get_justified_state would find its state.
Usable(c) == c \in checkpoint_states /\ c.root \in blocks

\* Every target attested to on a stored chain is usable, and so are the justified
\* checkpoints of the store.
SourcesCached ==
  /\ \A r \in blocks : \A c \in Block[r].voted : Usable(c)
  /\ Usable(justified_checkpoint) /\ justified_checkpoint.epoch >= AnchorEpoch
  /\ Usable(unrealized_justified_checkpoint)
  /\ unrealized_justified_checkpoint.epoch >= AnchorEpoch

\* Cached states are never evicted.
LEMMA UsableStays ==
  ASSUME [Next]_vars, NEW c, Usable(c)
  PROVE  c \in checkpoint_states' /\ c.root \in blocks'
<1>1. checkpoint_states \subseteq checkpoint_states'
  BY ZenonT(40) DEF Next, vars, Tick, on_tick, ImportBlock, on_block_with_embedded_messages,
     on_block_inner, ReceiveAttestation, on_attestation, ReceiveSlashing,
     on_attester_slashing, ReceivePtcMessage, on_payload_attestation_message,
     ReceiveEnvelope, on_execution_payload_envelope, ReceiveColumn,
     record_data_column_sidecar, store_target_checkpoint_state
<1> QED BY <1>1, StoreGrows DEF Usable

\* The targets attested to on the chain of a freshly imported block are usable:
\* its own attestations passed validate_on_attestation and cached their targets.
LEMMA ImportedTargetsUsable ==
  ASSUME TypeOK, SourcesCached, [Next]_vars, NEW r \in Roots \ {Anchor},
         on_block_with_embedded_messages(r), NEW c \in Block[r].voted
  PROVE  c \in checkpoint_states' /\ c.root \in blocks'
<1> DEFINE atts == Block[r].attestations
<1>1. c \in Block[Block[r].parent].voted \/ \E i \in DOMAIN atts : c = atts[i].target
  <2>1. Block[r].voted = Block[Block[r].parent].voted \cup {atts[i].target : i \in DOMAIN atts}
    BY PostStateAssumption, Zenon
  <2> QED BY <2>1, Zenon
<1>2. CASE c \in Block[Block[r].parent].voted
  <2>1. Block[r].parent \in blocks
    BY DEF on_block_with_embedded_messages, on_block_inner, CanImport
  <2> QED BY <1>2, <2>1, UsableStays DEF SourcesCached
<1>3. ASSUME NEW i \in DOMAIN atts, c = atts[i].target
      PROVE  c \in checkpoint_states' /\ c.root \in blocks'
  <2>1. validate_on_attestation(atts[i])'
    BY DEF on_block_with_embedded_messages
  <2>2. c.root \in blocks'
    BY <1>3, <2>1 DEF validate_on_attestation
  <2>3. c \in checkpoint_states'
    BY <1>3 DEF on_block_with_embedded_messages, store_target_checkpoint_state
  <2> QED BY <2>2, <2>3
<1> QED BY <1>1, <1>2, <1>3

\* SourcesCached is inductive.
LEMMA SourcesCachedStep == TypeOK /\ SourcesCached /\ [Next]_vars => SourcesCached'
<1> SUFFICES ASSUME TypeOK, SourcesCached, [Next]_vars
             PROVE  SourcesCached'
  OBVIOUS
<1>0. AnchorEpoch \in Nat
  BY Zenon, BlockFields, BlockAssumption, ConfigAssumption, DivNat DEF AnchorEpoch
<1> DEFINE Good(c) == c \in checkpoint_states' /\ c.root \in blocks' /\ c.epoch >= AnchorEpoch
<1>1. Good(justified_checkpoint) /\ Good(unrealized_justified_checkpoint)
  BY UsableStays DEF SourcesCached
<1>2. CASE Tick
  <2>1. justified_checkpoint' \in {justified_checkpoint, unrealized_justified_checkpoint}
    BY <1>2 DEF Tick, on_tick, update_checkpoints, Raise
  <2>2. UNCHANGED <<blocks, unrealized_justified_checkpoint>>
    BY <1>2 DEF Tick, on_tick
  <2> QED BY <1>1, <2>1, <2>2, UsableStays DEF SourcesCached, Usable
<1>3. CASE ImportBlock
  <2> PICK r \in Roots \ {Anchor} : on_block_with_embedded_messages(r)
    BY <1>3 DEF ImportBlock
  <2> DEFINE b == Block[r]
  <2>1. \A c \in b.voted : c \in checkpoint_states' /\ c.root \in blocks'
    BY ImportedTargetsUsable
  <2>2. \A c \in {b.justified, b.ujustified} : c.epoch > AnchorEpoch => Good(c)
    <3>1. \A c \in {b.justified, b.ujustified} :
            c.epoch \in Nat /\ (c.epoch > AnchorEpoch => c \in b.voted)
      BY PostStateOrder, PostStateAssumption, Zenon
    <3>2. \A n \in Nat : n > AnchorEpoch => n >= AnchorEpoch
      BY <1>0
    <3> QED BY <2>1, <3>1, <3>2, Zenon
  <2>3. ASSUME NEW c, Good(c), c.epoch \in Nat, NEW d \in {b.justified, b.ujustified}
        PROVE  Good(Raise(c, d)) /\ Raise(c, d).epoch \in Nat
    <3>1. d.epoch \in Nat
      BY PostStateOrder, Zenon
    <3>2. CASE d.epoch > c.epoch
      <4>1. d.epoch > AnchorEpoch
        BY <1>0, <2>3, <3>1, <3>2, GtGe, Zenon
      <4> QED BY <2>2, <3>1, <3>2, <4>1, Zenon DEF Raise
    <3>3. CASE ~(d.epoch > c.epoch)
      BY <2>3, <3>3, Zenon DEF Raise
    <3> QED BY <3>2, <3>3, Zenon
  <2> HIDE DEF Good
  <2>4. Good(justified_checkpoint')
    <3>1. Good(Raise(justified_checkpoint, b.justified))
          /\ Raise(justified_checkpoint, b.justified).epoch \in Nat
      BY <1>1, <2>3, CheckpointEpochs
    <3>2. \E d \in {b.justified, b.ujustified} :
             justified_checkpoint' = Raise(Raise(justified_checkpoint, b.justified), d)
      BY DEF on_block_with_embedded_messages, on_block_inner, ImportCheckpoints
    <3> QED BY <3>1, <3>2, <2>3
  <2>5. Good(unrealized_justified_checkpoint')
    BY <1>1, <2>3, CheckpointEpochs
       DEF on_block_with_embedded_messages, on_block_inner, ImportCheckpoints
  <2>6. \A q \in blocks' : \A c \in Block[q].voted : c \in checkpoint_states' /\ c.root \in blocks'
    <3>1. blocks' = blocks \cup {r}
      BY DEF on_block_with_embedded_messages, on_block_inner
    <3> QED BY <2>1, <3>1, UsableStays DEF SourcesCached
  <2> QED BY <2>4, <2>5, <2>6 DEF SourcesCached, Good, Usable
<1>4. CASE ~Tick /\ ~ImportBlock
  <2>1. UNCHANGED blocks
    BY <1>4, ZenonT(40) DEF Next, vars, ReceiveAttestation, on_attestation, ReceiveSlashing,
       on_attester_slashing, ReceivePtcMessage, on_payload_attestation_message,
       ReceiveEnvelope, on_execution_payload_envelope, ReceiveColumn,
       record_data_column_sidecar
  <2> QED BY <1>1, <1>4, <2>1, UsableStays, OtherStepsKeepCheckpoints DEF SourcesCached, Usable
<1> QED BY <1>2, <1>3, <1>4

\* Whichever path raised the justified checkpoint, its block is stored and its
\* state cached (JustifiedCheckpointUsable): get_justified_state cannot fail
\* between handlers, so get_head always has a state to weigh against.
THEOREM JustifiedCheckpointUsableAlways == Spec => []JustifiedCheckpointUsable
<1>1. Init => SourcesCached
  <2>1. AnchorCheckpoint.epoch = AnchorEpoch /\ AnchorEpoch \in Nat
    BY BlockFields, BlockAssumption, ConfigAssumption, DivNat
       DEF AnchorCheckpoint, AnchorEpoch, epoch
  <2>2. AnchorCheckpoint.root = Anchor
    BY DEF AnchorCheckpoint
  <2>3. ASSUME Init PROVE Usable(AnchorCheckpoint)
    BY <2>2, <2>3 DEF Init, Usable
  <2>4. AnchorCheckpoint.epoch >= AnchorEpoch
    BY <2>1
  <2>5. Block[Anchor].voted = {}
    BY AnchorAssumption
  <2>6. ASSUME Init
        PROVE  /\ blocks = {Anchor} /\ justified_checkpoint = AnchorCheckpoint
               /\ unrealized_justified_checkpoint = AnchorCheckpoint
    BY <2>6 DEF Init
  <2> QED BY <2>3, <2>4, <2>5, <2>6 DEF SourcesCached
<1>2. SourcesCached => JustifiedCheckpointUsable
  BY DEF SourcesCached, Usable, JustifiedCheckpointUsable, JustifiedStateCached
<1> QED BY <1>1, <1>2, SourcesCachedStep, TypeCorrect, PTL DEF Spec

--------------------------------------------------------------------------------
(***************************************************************************)
(* Chains of the block tree: get_ancestor terminates, composes and stays in*)
(* the store, is_ancestor is transitive with payload statuses, and every   *)
(* stored block has a dependent root.  The recursion of get_ancestor is    *)
(* resolved by RecursionExists of module Induction, with the slot of the   *)
(* block as its rank.                                                      *)
(***************************************************************************)
\* A node of the walks: a stored block with a payload status, or the error.
Nodes == Node \cup {NoNode}

\* The fields of a node, and that the error is none.
LEMMA NodeFields ==
  /\ \A r \in Roots : Pending(r) \in Node /\ Pending(r).root = r /\ Pending(r).status = "Pending"
  /\ \A n \in Node : n.root \in Roots /\ n.status \in PayloadStatus
  /\ NoNode.root \notin Roots /\ NoNode \notin Node
BY BlockAssumption DEF Node, NoNode, Pending, PayloadStatus, ZERO

\* A parent is earlier than its child, at the anchor too.
LEMMA ParentEarlier ==
  ASSUME NEW r \in Roots, Block[r].parent \in Roots
  PROVE  /\ Block[Block[r].parent].slot < Block[r].slot
         /\ ParentNode(r) \in Node /\ ParentNode(r).root = Block[r].parent
         /\ ParentNode(r).status \in {"Empty", "Full"}
         /\ ParentNode(r).status = IF Block[r].full THEN "Full" ELSE "Empty"
<1>1. Block[r].slot \in Nat /\ Block[Block[r].parent].slot \in Nat
  BY BlockFields
<1>2. Block[Block[r].parent].slot < Block[r].slot
  BY <1>1, ParentAssumption, AnchorAssumption
<1> QED BY <1>2 DEF ParentNode, Node, get_parent_payload_status, PayloadStatus

\* The body of get_ancestor, with `walk` for the recursive call.
AncestorStep(walk, n, slot) ==
  IF n.root \notin blocks THEN NoNode
  ELSE IF Block[n.root].slot <= slot THEN n
  ELSE IF Block[n.root].parent \notin blocks THEN NoNode
  ELSE walk[ParentNode(n.root)]

\* get_ancestor terminates: it satisfies the equation it is written by.
LEMMA AncestorEquation ==
  ASSUME TypeOK, NEW n \in Nodes, NEW slot
  PROVE  /\ get_ancestor(n, slot) \in Nodes
         /\ get_ancestor(n, slot) =
              IF n.root \notin blocks THEN NoNode
              ELSE IF Block[n.root].slot <= slot THEN n
              ELSE IF Block[n.root].parent \notin blocks THEN NoNode
              ELSE get_ancestor(ParentNode(n.root), slot)
<1> DEFINE rank == [m \in Nodes |-> IF m.root \in Roots THEN Block[m.root].slot + 1 ELSE 0]
           F == [g \in [Nodes -> Nodes] |-> [m \in Nodes |-> AncestorStep(g, m, slot)]]
           Is(w) == w = [m \in Nodes |-> AncestorStep(w, m, slot)]
<1>0. blocks \subseteq Roots
  BY DEF TypeOK
<1>1. ASSUME NEW m \in Nodes, m.root \in blocks, Block[m.root].parent \in blocks
      PROVE  ParentNode(m.root) \in Nodes /\ rank[ParentNode(m.root)] < rank[m]
  <2>1. /\ m.root \in Roots /\ Block[m.root].parent \in Roots
        /\ Block[m.root].slot \in Nat /\ Block[Block[m.root].parent].slot \in Nat
    BY <1>0, <1>1, BlockFields
  <2> DEFINE q == ParentNode(m.root)
             sm == Block[m.root].slot
             sq == Block[q.root].slot
  <2>2. q \in Nodes /\ q.root \in Roots /\ sm \in Nat /\ sq \in Nat /\ sq < sm
    BY <2>1, ParentEarlier, Zenon DEF Nodes
  <2>3. rank[q] = sq + 1 /\ rank[m] = sm + 1
    BY <2>1, <2>2, Zenon
  <2> HIDE DEF rank, q, sm, sq
  <2>4. rank[q] < rank[m]
    BY <2>2, <2>3
  <2> QED BY <2>2, <2>4, Zenon DEF q
<1>2. rank \in [Nodes -> Nat]
  BY BlockFields
<1>3. NoNode \in Nodes
  BY DEF Nodes
<1>4. F \in [[Nodes -> Nodes] -> [Nodes -> Nodes]]
  BY Zenon, <1>1, <1>3 DEF AncestorStep
<1>5. ASSUME NEW g \in [Nodes -> Nodes], NEW h \in [Nodes -> Nodes], NEW m \in Nodes,
             \A x \in Nodes : rank[x] < rank[m] => g[x] = h[x]
      PROVE  F[g][m] = F[h][m]
  BY Zenon, <1>1, <1>5 DEF AncestorStep
<1>6. \E w : Is(w)
  <2>1. WellRanked(Nodes, Nodes, rank, F)
    <3> HIDE DEF F, rank, Nodes
    <3> QED BY <1>2, <1>3, <1>4, <1>5 DEF WellRanked
  <2> HIDE DEF F, rank, Nodes
  <2>2. PICK w \in [Nodes -> Nodes] : w = F[w]
    BY <2>1, RecursionExists
  <2> QED BY <2>2 DEF F
<1> DEFINE walk == CHOOSE w : Is(w)
<1>7. Is(walk)
  <2> HIDE DEF Is
  <2> QED BY <1>6
<1>8. ASSUME NEW m \in Nodes PROVE get_ancestor(m, slot) = walk[m]
  BY DEF get_ancestor, AncestorStep, Nodes
<1>9. ASSUME NEW m \in Nodes PROVE walk[m] = AncestorStep(walk, m, slot)
  <2> HIDE DEF walk
  <2> QED BY <1>7
<1> HIDE DEF walk, Is, F
<1>10. n \in Nodes => walk[n] \in Nodes
  <2> DEFINE Bad == {rank[m] : m \in {m \in Nodes : walk[m] \notin Nodes}}
  <2>1. SUFFICES ASSUME Bad # {} PROVE FALSE
    OBVIOUS
  <2>2. PICK k \in Bad : \A j \in Bad : k <= j
    <3>1. Bad \in SUBSET Nat
      BY <1>2
    <3> HIDE DEF Bad
    <3> QED BY <2>1, <3>1, LeastNatural
  <2>3. PICK m \in Nodes : k = rank[m] /\ walk[m] \notin Nodes
    OBVIOUS
  <2>4. /\ m.root \in blocks /\ Block[m.root].parent \in blocks
        /\ walk[ParentNode(m.root)] \notin Nodes
    BY <1>3, <1>9, <2>3 DEF AncestorStep
  <2>5. ParentNode(m.root) \in Nodes /\ rank[ParentNode(m.root)] < rank[m]
    BY <1>1, <2>4
  <2>6. rank[ParentNode(m.root)] \in Nat /\ rank[m] \in Nat
    BY <1>2, <2>5
  <2>7. rank[m] <= rank[ParentNode(m.root)]
    BY <2>2, <2>3, <2>4, <2>5
  <2> HIDE DEF rank
  <2> QED BY <2>5, <2>6, <2>7
<1> QED BY Zenon, <1>1, <1>8, <1>9, <1>10 DEF AncestorStep

\* The store as the head is computed on it.
Rooted ==
  /\ IsFiniteSet(blocks) /\ Anchor \in blocks
  /\ \A r \in blocks : /\ Block[Anchor].slot <= Block[r].slot
                       /\ Block[r].slot <= get_current_slot
  /\ \A r \in blocks \ {Anchor} : Block[r].parent \in blocks

\* Only the import of a block changes the set of stored blocks, by the block
\* imported.
LEMMA BlocksStep ==
  ASSUME [Next]_vars
  PROVE  \/ blocks' = blocks
         \/ /\ ImportBlock
            /\ \E r \in Roots \ {Anchor} : /\ blocks' = blocks \cup {r} /\ CanImport(r)
                                           /\ time' = time
<1> USE DEF imports
<1>1. CASE Tick
  BY <1>1 DEF Tick, on_tick
<1>2. CASE ImportBlock
  BY <1>2 DEF ImportBlock, on_block_with_embedded_messages, on_block_inner
<1>3. CASE ReceiveAttestation
  BY <1>3 DEF ReceiveAttestation, on_attestation
<1>4. CASE ReceiveSlashing
  BY <1>4 DEF ReceiveSlashing, on_attester_slashing
<1>5. CASE ReceivePtcMessage
  BY <1>5 DEF ReceivePtcMessage, on_payload_attestation_message
<1>6. CASE ReceiveEnvelope
  BY <1>6 DEF ReceiveEnvelope, on_execution_payload_envelope
<1>7. CASE ReceiveColumn
  BY <1>7 DEF ReceiveColumn, record_data_column_sidecar
<1>8. CASE UNCHANGED vars
  BY <1>8 DEF vars
<1> QED BY <1>1, <1>2, <1>3, <1>4, <1>5, <1>6, <1>7, <1>8 DEF Next

\* The store that on_anchor builds is rooted.
LEMMA InitRooted == Init => Rooted
<1> SUFFICES ASSUME Init PROVE Rooted
  OBVIOUS
<1>1. Block[Anchor].slot \in Nat /\ SLOT_DURATION \in Nat \ {0}
  BY BlockFields, BlockAssumption, ConfigAssumption
<1>2. get_current_slot = Block[Anchor].slot
  <2>1. time = Block[Anchor].slot * SLOT_DURATION
    BY Zenon DEF Init
  <2> QED BY <1>1, <2>1, DivMultiple, Zenon DEF get_current_slot, slot_at_time
<1>3. IsFiniteSet({Anchor})
  BY FS_Singleton
<1>4. blocks = {Anchor}
  BY Zenon DEF Init
<1> QED BY <1>1, <1>2, <1>3, <1>4, LeRefl, Zenon DEF Rooted

\* Every handler keeps the store rooted: on_block asks for the parent and for the
\* slot.
LEMMA RootedStep == TypeOK /\ TypeOK' /\ Rooted /\ [Next]_vars => Rooted'
<1> SUFFICES ASSUME TypeOK, TypeOK', Rooted, [Next]_vars PROVE Rooted'
  OBVIOUS
<1>1. /\ get_current_slot \in Nat /\ get_current_slot' \in Nat
      /\ get_current_slot <= get_current_slot'
  BY SlotMonotone
<1>2. \A r \in blocks' : r \in Roots /\ Block[r].slot \in Nat
  BY BlockFields DEF TypeOK
<1>3. CASE blocks' = blocks
  <2>1. ASSUME NEW r \in blocks'
        PROVE  Block[Anchor].slot <= Block[r].slot /\ Block[r].slot <= get_current_slot'
    <3>1. /\ Block[Anchor].slot <= Block[r].slot /\ Block[r].slot <= get_current_slot
          /\ Block[r].slot \in Nat
      BY <1>2, <1>3, <2>1, Zenon DEF Rooted
    <3> QED BY <1>1, <3>1, LeLe, Zenon
  <2> QED BY <1>3, <2>1, Zenon DEF Rooted
<1>4. ASSUME NEW r \in Roots \ {Anchor}, blocks' = blocks \cup {r}, CanImport(r)
      PROVE  Rooted'
  <2>1. IsFiniteSet(blocks')
    BY <1>4, FS_AddElement DEF Rooted
  <2>2. Block[r].parent \in blocks /\ get_current_slot >= Block[r].slot
    BY <1>4 DEF CanImport
  <2>3. r \in blocks' /\ Block[r].parent \in blocks' /\ Anchor \in blocks'
    BY <1>4, <2>2, Zenon DEF Rooted
  <2>4. Block[r].slot <= get_current_slot'
    BY <1>1, <1>2, <2>2, <2>3, GeLe, Zenon
  <2>5. Block[Anchor].slot <= Block[r].slot
    <3>1. Block[Anchor].slot <= Block[Block[r].parent].slot
      BY <2>2, Zenon DEF Rooted
    <3>2. Block[Block[r].parent].slot <= Block[r].slot
      BY <1>2, <2>3, ParentEarlier, LtLe, Zenon
    <3> QED BY <1>2, <2>3, <3>1, <3>2, LeLe, Zenon
  <2>6. ASSUME NEW x \in blocks
        PROVE  Block[Anchor].slot <= Block[x].slot /\ Block[x].slot <= get_current_slot'
    <3>1. Block[Anchor].slot <= Block[x].slot /\ Block[x].slot <= get_current_slot
      BY <2>6, Zenon DEF Rooted
    <3>2. Block[x].slot \in Nat
      BY <1>2, <1>4, <2>6, Zenon
    <3> QED BY <1>1, <3>1, <3>2, LeLe, Zenon
  <2>7. \A x \in blocks' \ {Anchor} : Block[x].parent \in blocks'
    BY <1>4, <2>2, Zenon DEF Rooted
  <2> QED BY <1>4, <2>1, <2>3, <2>4, <2>5, <2>6, <2>7, Zenon DEF Rooted
<1> QED BY <1>3, <1>4, BlocksStep

\* The store is always rooted.
LEMMA RootedAlways == Spec => []Rooted
<1> QED BY InitRooted, RootedStep, TypeCorrect, PTL DEF Spec

\* The anchor's parent is not in the store.
LEMMA AnchorIsRoot ==
  ASSUME TypeOK, Rooted
  PROVE  Block[Anchor].parent \notin blocks
<1> SUFFICES ASSUME Block[Anchor].parent \in blocks PROVE FALSE
  OBVIOUS
<1>1. /\ Anchor \in Roots /\ Block[Anchor].parent \in Roots
      /\ Block[Anchor].slot \in Nat /\ Block[Block[Anchor].parent].slot \in Nat
  BY BlockFields DEF TypeOK, Rooted
<1>2. Block[Anchor].slot <= Block[Block[Anchor].parent].slot
  BY Zenon DEF Rooted
<1> QED BY <1>1, <1>2, ParentEarlier, LtNotLe, Zenon

\* The nodes of stored blocks.
Stored == {n \in Node : n.root \in blocks}

\* What holds of a node whenever it holds of the parent node holds of them all.
LEMMA ChainInduction ==
  ASSUME TypeOK, Rooted, NEW S,
         \A n \in Stored : (n.root # Anchor => ParentNode(n.root) \in S) => n \in S
  PROVE  Stored \subseteq S
<1> DEFINE Bad == {Block[n.root].slot : n \in Stored \ S}
<1>1. SUFFICES ASSUME Bad # {} PROVE FALSE
  OBVIOUS
<1>2. \A n \in Stored : n.root \in Roots /\ Block[n.root].slot \in Nat
  BY NodeFields, BlockFields DEF Stored
<1>3. PICK k \in Bad : \A j \in Bad : k <= j
  <2>1. Bad \in SUBSET Nat
    BY <1>2
  <2> HIDE DEF Bad
  <2> QED BY <1>1, <2>1, LeastNatural
<1>4. PICK n \in Stored \ S : k = Block[n.root].slot
  OBVIOUS
<1>5. n.root # Anchor /\ ParentNode(n.root) \notin S
  BY <1>4
<1>6. Block[n.root].parent \in blocks /\ Block[n.root].parent \in Roots /\ n.root \in Roots
  BY <1>2, <1>4, <1>5 DEF Rooted, Stored, TypeOK
<1>7. /\ ParentNode(n.root) \in Stored
      /\ Block[ParentNode(n.root).root].slot < Block[n.root].slot
  BY <1>6, ParentEarlier DEF Stored
<1>8. k <= Block[ParentNode(n.root).root].slot
  BY <1>3, <1>5, <1>7
<1> HIDE DEF Bad
<1>9. /\ Block[ParentNode(n.root).root].slot \in Nat /\ Block[n.root].slot \in Nat
      /\ Block[n.root].slot <= Block[ParentNode(n.root).root].slot
  BY <1>2, <1>4, <1>7, <1>8, Zenon
<1> QED BY <1>7, <1>9, LtNotLe, Zenon

\* The root of a parent node.
LEMMA ParentRoot == \A r : ParentNode(r).root = Block[r].parent
BY DEF ParentNode

\* A stored node has a slot, and below the anchor a stored parent of an earlier
\* slot.
LEMMA StoredFacts ==
  ASSUME TypeOK, Rooted, NEW n \in Stored
  PROVE  /\ n \in Node /\ n \in Nodes /\ n # NoNode
         /\ n.root \in blocks /\ n.root \in Roots /\ Block[n.root].slot \in Nat
         /\ n.root # Anchor =>
              /\ ParentNode(n.root) \in Stored
              /\ Block[n.root].parent \in blocks
              /\ ParentNode(n.root).root = Block[n.root].parent
              /\ Block[Block[n.root].parent].slot \in Nat
              /\ Block[Block[n.root].parent].slot < Block[n.root].slot
<1>1. n \in Node /\ n.root \in blocks /\ n.root \in Roots /\ Block[n.root].slot \in Nat
  BY NodeFields, BlockFields DEF Stored
<1>2. n.root # Anchor =>
        Block[n.root].parent \in blocks /\ Block[n.root].parent \in Roots
  BY <1>1 DEF Rooted, TypeOK
<1>3. n # NoNode
  BY <1>1, NodeFields
<1> QED BY <1>1, <1>2, <1>3, ParentEarlier, BlockFields DEF Nodes, Stored

\* The steps of get_ancestor in a rooted store.
LEMMA AncestorSteps ==
  ASSUME TypeOK, Rooted, NEW n \in Stored, NEW slot \in Int
  PROVE  /\ Block[n.root].slot <= slot => get_ancestor(n, slot) = n
         /\ Block[n.root].slot > slot /\ n.root # Anchor =>
              get_ancestor(n, slot) = get_ancestor(ParentNode(n.root), slot)
         /\ Block[n.root].slot > slot /\ n.root = Anchor =>
              get_ancestor(n, slot) = NoNode
<1>1. /\ n \in Nodes /\ n.root \in blocks /\ Block[n.root].slot \in Nat
      /\ n.root # Anchor => Block[n.root].parent \in blocks
  BY StoredFacts
<1>2. get_ancestor(n, slot) =
              IF n.root \notin blocks THEN NoNode
              ELSE IF Block[n.root].slot <= slot THEN n
              ELSE IF Block[n.root].parent \notin blocks THEN NoNode
              ELSE get_ancestor(ParentNode(n.root), slot)
  BY <1>1, AncestorEquation
<1>3. Block[n.root].slot > slot => ~(Block[n.root].slot <= slot)
  BY <1>1, GtLt, Zenon
<1> QED BY <1>1, <1>2, <1>3, AnchorIsRoot, Zenon

\* The walk to an ancestor stops at a node no later than the slot asked for.
LEMMA WalkStays ==
  ASSUME TypeOK, Rooted, NEW n \in Stored, NEW s \in Nat, Block[n.root].slot <= s
  PROVE  get_ancestor(n, s) = n
BY AncestorSteps

\* It stops at once when asked for the node's own slot.
LEMMA WalkSelf ==
  ASSUME TypeOK, Rooted, NEW n \in Stored
  PROVE  get_ancestor(n, Block[n.root].slot) = n
<1>1. Block[n.root].slot \in Nat
  BY StoredFacts, Zenon
<1>2. Block[n.root].slot <= Block[n.root].slot
  BY <1>1, LeRefl, Zenon
<1> QED BY <1>1, <1>2, WalkStays, Zenon

\* It goes on at the parent of a later node.
LEMMA WalkClimbs ==
  ASSUME TypeOK, Rooted, NEW n \in Stored, NEW s \in Nat, s < Block[n.root].slot, n.root # Anchor
  PROVE  get_ancestor(n, s) = get_ancestor(ParentNode(n.root), s)
<1>1. Block[n.root].slot \in Nat
  BY StoredFacts, Zenon
<1> QED BY <1>1, AncestorSteps

\* What get_ancestor returns: a stored node of the slot or before it, or an error when
\* the walk leaves the store.
LEMMA AncestorResult ==
  ASSUME TypeOK, Rooted, NEW n \in Stored, NEW slot \in Int
  PROVE  \/ /\ get_ancestor(n, slot) = NoNode /\ slot < Block[Anchor].slot
         \/ /\ get_ancestor(n, slot) \in Stored
            /\ Block[get_ancestor(n, slot).root].slot <= slot
            /\ Block[get_ancestor(n, slot).root].slot <= Block[n.root].slot
<1> DEFINE Goal(m) == 
         \/ get_ancestor(m, slot) = NoNode /\ slot < Block[Anchor].slot
         \/ /\ get_ancestor(m, slot) \in Stored
            /\ Block[get_ancestor(m, slot).root].slot <= slot
            /\ Block[get_ancestor(m, slot).root].slot <= Block[m.root].slot
           S == {m \in Node : Goal(m)}
<1>1. ASSUME NEW m \in Stored, m.root # Anchor => ParentNode(m.root) \in S
      PROVE  m \in S
  <2>1. m \in Node /\ Block[m.root].slot \in Nat
    BY StoredFacts
  <2>2. CASE Block[m.root].slot <= slot
    <3>1. get_ancestor(m, slot) = m
      BY <2>2, AncestorSteps, Zenon
    <3> QED BY <2>1, <2>2, <3>1, LeRefl, Zenon
  <2>3. CASE Block[m.root].slot > slot /\ m.root = Anchor
    <3>1. get_ancestor(m, slot) = NoNode
      BY <2>3, AncestorSteps, Zenon
    <3> QED BY <2>1, <2>3, <3>1, GtLt, Zenon
  <2>4. CASE Block[m.root].slot > slot /\ m.root # Anchor
    <3> DEFINE a == get_ancestor(m, slot)
               p == ParentNode(m.root)
    <3>1. a = get_ancestor(p, slot)
      BY <2>4, AncestorSteps
    <3>2. p.root = Block[m.root].parent /\ Block[p.root].slot \in Nat /\ Block[p.root].slot < Block[m.root].slot
      BY <2>4, StoredFacts
    <3>3. Goal(p)
      BY <1>1, <2>4
    <3>4. a \in Stored => Block[a.root].slot \in Nat
      BY StoredFacts
    <3> HIDE DEF a, p
    <3>5. \/ a = NoNode /\ slot < Block[Anchor].slot
          \/ /\ a \in Stored
             /\ Block[a.root].slot <= slot
             /\ Block[a.root].slot <= Block[p.root].slot
      BY <3>1, <3>3
    <3>6. \/ a = NoNode /\ slot < Block[Anchor].slot
          \/ /\ a \in Stored
             /\ Block[a.root].slot <= slot
             /\ Block[a.root].slot <= Block[m.root].slot
      <4>1. Block[p.root].slot <= Block[m.root].slot
        BY <2>1, <3>2, LtLe, Zenon
      <4>2. ASSUME a \in Stored, Block[a.root].slot <= Block[p.root].slot
            PROVE  Block[a.root].slot <= Block[m.root].slot
        BY <2>1, <3>2, <3>4, <4>1, <4>2, LeLe, Zenon
      <4> QED BY <3>5, <4>2, Zenon
    <3> QED BY <2>1, <3>6 DEF a
  <2> QED BY <2>1, <2>2, <2>3, <2>4, NatInt, Zenon
<1>2. Stored \subseteq S
  <2> HIDE DEF S
  <2> QED BY <1>1, ChainInduction
<1> QED BY <1>2

\* Where it ends.
LEMMA WalkEnds ==
  ASSUME TypeOK, Rooted, NEW n \in Stored, NEW s \in Nat, get_ancestor(n, s).root \in Roots
  PROVE  /\ get_ancestor(n, s) \in Stored /\ get_ancestor(n, s) # NoNode
         /\ Block[get_ancestor(n, s).root].slot <= s
         /\ Block[get_ancestor(n, s).root].slot <= Block[n.root].slot
<1>1. s \in Int
  OBVIOUS
<1>2. get_ancestor(n, s) # NoNode
  BY NodeFields, Zenon
<1> QED BY <1>1, <1>2, AncestorResult, Zenon

\* The walk depends on the payload status of the node it starts from only when it ends there.
LEMMA AncestorOfRoot ==
  ASSUME TypeOK, Rooted, NEW n \in Stored, NEW m \in Stored, n.root = m.root, NEW slot \in Int
  PROVE  /\ get_ancestor(n, slot).root = get_ancestor(m, slot).root
         /\ Block[n.root].slot > slot => get_ancestor(n, slot) = get_ancestor(m, slot)
<1>1. Block[n.root].slot \in Nat
  BY StoredFacts
<1> HIDE DEF get_ancestor
<1>2. CASE Block[n.root].slot <= slot
  BY <1>1, <1>2, AncestorSteps
<1>3. CASE Block[n.root].slot > slot /\ n.root = Anchor
  BY Zenon, <1>3, AncestorSteps
<1>4. CASE Block[n.root].slot > slot /\ n.root # Anchor
  BY <1>4, AncestorSteps
<1> QED BY <1>1, <1>2, <1>3, <1>4, NatInt, Zenon

\* It depends on the root of the node it starts from.
LEMMA WalkOfRoot ==
  ASSUME TypeOK, Rooted, NEW n \in Stored, NEW m \in Stored, n.root = m.root, NEW s \in Nat
  PROVE  get_ancestor(n, s).root = get_ancestor(m, s).root
<1>1. s \in Int
  OBVIOUS
<1> QED BY <1>1, AncestorOfRoot, Zenon

\* Walking in two legs is walking in one.
LEMMA AncestorComposes ==
  ASSUME TypeOK, Rooted, NEW n \in Stored, NEW s \in Int, NEW t \in Int, t <= s,
         get_ancestor(n, s) # NoNode
  PROVE  get_ancestor(get_ancestor(n, s), t) = get_ancestor(n, t)
<1> DEFINE Goal(m) == get_ancestor(m, s) # NoNode
                        => get_ancestor(get_ancestor(m, s), t) = get_ancestor(m, t)
           S == {m \in Node : Goal(m)}
<1>1. ASSUME NEW m \in Stored, m.root # Anchor => ParentNode(m.root) \in S
      PROVE  m \in S
  <2>1. m \in Node /\ Block[m.root].slot \in Nat
    BY StoredFacts
  <2>2. CASE Block[m.root].slot <= s
    <3>1. get_ancestor(m, s) = m
      BY <2>2, AncestorSteps
    <3> QED BY <2>1, <3>1
  <2>3. CASE Block[m.root].slot > s /\ m.root = Anchor
    <3>1. get_ancestor(m, s) = NoNode
      BY <2>3, AncestorSteps
    <3> QED BY <2>1, <3>1
  <2>4. CASE Block[m.root].slot > s /\ m.root # Anchor
    <3>0. Block[m.root].slot > t
      BY <2>1, <2>4
    <3>1. /\ get_ancestor(m, s) = get_ancestor(ParentNode(m.root), s)
          /\ get_ancestor(m, t) = get_ancestor(ParentNode(m.root), t)
      BY <2>4, <3>0, AncestorSteps
    <3>2. Goal(ParentNode(m.root))
      BY <1>1, <2>4
    <3> HIDE DEF get_ancestor
    <3> QED BY <2>1, <3>1, <3>2
  <2> QED BY <2>1, <2>2, <2>3, <2>4, NatInt, Zenon
<1>2. Stored \subseteq S
  <2> HIDE DEF S
  <2> QED BY <1>1, ChainInduction
<1> QED BY <1>2

\* A walk may be broken at any slot on the way.
LEMMA WalkComposes ==
  ASSUME TypeOK, Rooted, NEW n \in Stored, NEW s \in Nat, NEW t \in Nat, t <= s,
         get_ancestor(n, s) # NoNode
  PROVE  get_ancestor(get_ancestor(n, s), t) = get_ancestor(n, t)
<1>1. s \in Int /\ t \in Int
  OBVIOUS
<1> QED BY <1>1, AncestorComposes, Zenon

\* The block c comes next after a on the chain of n.
NextOnChain(n, a, c) ==
  /\ c \in blocks \ {Anchor} /\ ParentNode(c) = a
  /\ get_ancestor(n, Block[c].slot).root = c

\* A walk that moved came to its end from a child of it.
LEMMA AncestorChild ==
  ASSUME TypeOK, Rooted, NEW n \in Stored, NEW s \in Int, Block[n.root].slot > s,
         get_ancestor(n, s) # NoNode
  PROVE  \E c : NextOnChain(n, get_ancestor(n, s), c) /\ Block[c].slot > s
<1> DEFINE Goal(m) == Block[m.root].slot > s /\ get_ancestor(m, s) # NoNode
                        => \E c : NextOnChain(m, get_ancestor(m, s), c) /\ Block[c].slot > s
           S == {m \in Node : Goal(m)}
<1>1. ASSUME NEW m \in Stored, m.root # Anchor => ParentNode(m.root) \in S
      PROVE  m \in S
  <2>1. m \in Node /\ Block[m.root].slot \in Nat
    BY StoredFacts
  <2> SUFFICES ASSUME Block[m.root].slot > s, get_ancestor(m, s) # NoNode
               PROVE  \E c : NextOnChain(m, get_ancestor(m, s), c) /\ Block[c].slot > s
    BY <2>1
  <2> DEFINE p == ParentNode(m.root)
  <2>2. m.root # Anchor /\ get_ancestor(m, s) = get_ancestor(p, s)
    BY AncestorSteps
  <2>3. /\ p \in Stored /\ Block[p.root].slot \in Nat /\ Block[p.root].slot < Block[m.root].slot
        /\ m.root \in blocks
    BY <2>2, StoredFacts
  <2>4. CASE Block[p.root].slot <= s
    <3>1. get_ancestor(m, s) = p
      BY <2>2, <2>3, <2>4, AncestorSteps, Zenon
    <3>2. NextOnChain(m, get_ancestor(m, s), m.root)
      BY <2>2, <2>3, <3>1, WalkSelf, Zenon DEF NextOnChain
    <3> QED BY <3>2
  <2>5. CASE Block[p.root].slot > s
    <3>1. PICK c : NextOnChain(p, get_ancestor(p, s), c) /\ Block[c].slot > s
      <4>1. p \in S
        BY <1>1, <2>2
      <4> HIDE DEF p
      <4> QED BY <2>2, <2>5, <4>1
    <3>2. c \in Roots /\ Block[c].slot \in Nat
      BY <3>1, BlockFields DEF NextOnChain, TypeOK
    <3>3. Block[c].slot <= Block[p.root].slot
      <4>1. get_ancestor(p, Block[c].slot).root = c
        BY <3>1 DEF NextOnChain
      <4> QED BY <2>3, <3>2, <4>1, WalkEnds, Zenon
    <3>4. get_ancestor(m, Block[c].slot) = get_ancestor(p, Block[c].slot)
      <4>1. Block[c].slot < Block[m.root].slot
        BY <2>1, <2>3, <3>2, <3>3, LeLt, Zenon
      <4> QED BY <2>2, <3>2, <4>1, WalkClimbs, Zenon
    <3>5. NextOnChain(m, get_ancestor(m, s), c)
      <4> HIDE DEF p, get_ancestor
      <4> QED BY <2>2, <3>1, <3>4 DEF NextOnChain
    <3> QED BY <3>1, <3>5
  <2> QED BY <2>3, <2>4, <2>5, NatInt, Zenon
<1>2. Stored \subseteq S
  <2> HIDE DEF S
  <2> QED BY <1>1, ChainInduction
<1> QED BY <1>2

\* is_ancestor is transitive, payload statuses included.
LEMMA AncestorTransitive ==
  ASSUME TypeOK, Rooted, NEW n \in Stored, NEW a \in Stored, NEW b \in Stored,
         is_ancestor(n, a), is_ancestor(a, b)
  PROVE  is_ancestor(n, b)
<1> DEFINE sa == Block[a.root].slot
           sb == Block[b.root].slot
           f == get_ancestor(n, sa)
           g == get_ancestor(a, sb)
<1>1. /\ f.root = a.root /\ (f.status = a.status \/ a.status = "Pending")
      /\ g.root = b.root /\ (g.status = b.status \/ b.status = "Pending")
  BY DEF is_ancestor
<1>2. /\ sa \in Nat /\ sb \in Nat /\ a.root \in Roots /\ b.root \in Roots
      /\ a.root # NoNode.root /\ b.root # NoNode.root /\ a \in Node
  BY StoredFacts, NodeFields
<1>3. f \in Stored /\ f \in Node /\ f # NoNode
  <2>1. f \in Stored
    BY <1>1, <1>2, WalkEnds, Zenon
  <2> QED BY <2>1, StoredFacts, Zenon
<1>4. sb <= sa
  BY <1>1, <1>2, WalkEnds, Zenon
<1>5. get_ancestor(n, sb) = get_ancestor(f, sb)
  BY <1>2, <1>3, <1>4, WalkComposes, Zenon
<1>6. CASE sa > sb
  <2>1. get_ancestor(f, sb) = g
    <3>1. sb \in Int /\ Block[f.root].slot > sb
      BY <1>1, <1>2, <1>6, NatInt, Zenon
    <3> QED BY <1>1, <1>3, <3>1, AncestorOfRoot, Zenon
  <2> HIDE DEF get_ancestor
  <2> QED BY <1>1, <1>5, <2>1 DEF is_ancestor
<1>7. CASE sa = sb
  <2>1. get_ancestor(f, sb) = f /\ g = a
    <3>1. Block[f.root].slot <= sb /\ Block[a.root].slot <= sb
      BY <1>1, <1>2, <1>7, LeRefl, Zenon
    <3> QED BY <1>2, <1>3, <3>1, WalkStays, Zenon
  <2> HIDE DEF get_ancestor, f, g
  <2> QED BY <1>1, <1>5, <2>1 DEF is_ancestor
<1> QED BY <1>2, <1>4, <1>6, <1>7, LeCases, Zenon

\* The slots of an epoch lie between the starts of it and of the next.
LEMMA EpochOfSlot ==
  ASSUME NEW s \in Nat
  PROVE  /\ epoch(s) \in Nat /\ start_slot(epoch(s)) <= s /\ s < start_slot(epoch(s) + 1)
         /\ s % SLOTS_PER_EPOCH = 0 => start_slot(epoch(s)) = s
<1>1. SLOTS_PER_EPOCH \in Nat \ {0}
  BY ConfigAssumption
<1> QED BY <1>1 DEF epoch, start_slot

\* An epoch starts no earlier than the epochs before it.
LEMMA StartMonotone ==
  ASSUME NEW d \in Nat, NEW e \in Nat, d <= e
  PROVE  start_slot(d) \in Nat /\ start_slot(d) <= start_slot(e)
<1>1. SLOTS_PER_EPOCH \in Nat \ {0}
  BY ConfigAssumption
<1>2. PICK k \in Nat : e = d + k
  BY e - d \in Nat
<1>3. k * SLOTS_PER_EPOCH \in Nat /\ d * SLOTS_PER_EPOCH \in Nat
  BY <1>1, MulNat
<1>4. (d + k) * SLOTS_PER_EPOCH = d * SLOTS_PER_EPOCH + k * SLOTS_PER_EPOCH
  BY <1>1
<1> QED BY <1>2, <1>3, <1>4 DEF start_slot

\* In a rooted store the walk to the dependent root ends at a stored block.
LEMMA DependentRootFound == TypeOK /\ Rooted => DependentRootKnown
<1> DEFINE e == get_current_store_epoch
           a == Block[Anchor].slot
<1> SUFFICES ASSUME TypeOK, Rooted, e > AnchorEpoch + 1, NEW r \in blocks
             PROVE  HasDependentRoot(r)
  BY DEF DependentRootKnown, MIN_SEED_LOOKAHEAD
<1>1. a \in Nat /\ r \in Roots
  BY BlockFields, BlockAssumption DEF TypeOK
<1>2. get_current_slot \in Nat
  BY Zenon, DivNat, ConfigAssumption DEF TypeOK, get_current_slot, slot_at_time
<1>3. e \in Nat /\ AnchorEpoch \in Nat
  BY <1>1, <1>2, DivNat, ConfigAssumption DEF epoch, get_current_store_epoch, AnchorEpoch
<1>4. a < start_slot(AnchorEpoch + 1)
  BY <1>1, EpochOfSlot DEF AnchorEpoch, epoch
<1>5. start_slot(AnchorEpoch + 1) <= start_slot(e - 1) /\ start_slot(AnchorEpoch + 1) \in Nat
      /\ start_slot(e - 1) \in Nat
  <2> HIDE DEF e
  <2>1. AnchorEpoch + 1 \in Nat /\ e - 1 \in Nat /\ AnchorEpoch + 1 <= e - 1 /\ e - 1 <= e - 1
    BY <1>3
  <2> QED BY <2>1, StartMonotone
<1>6. DependentSlot \in Int /\ ~(DependentSlot < a)
  <2>1. DependentSlot = start_slot(e - 1) - 1
    BY DEF DependentSlot, MIN_SEED_LOOKAHEAD
  <2> HIDE DEF e, a
  <2> QED BY <1>1, <1>4, <1>5, <2>1
<1>7. Pending(r) \in Stored
  BY <1>1, NodeFields DEF Stored
<1>8. get_ancestor(Pending(r), DependentSlot) \in Stored
  <2> HIDE DEF get_ancestor
  <2> QED BY <1>6, <1>7, AncestorResult
<1>9. get_ancestor(Pending(r), DependentSlot) # NoNode
  <2> HIDE DEF get_ancestor
  <2> QED BY <1>8, StoredFacts
<1> QED BY <1>9 DEF HasDependentRoot

\* Proposer boost never fails the import of a block for want of a dependent root, from the
\* second epoch after the anchor's on.
THEOREM DependentRootKnownAlways == Spec => []DependentRootKnown
BY TypeCorrect, RootedAlways, DependentRootFound, PTL

================================================================================
