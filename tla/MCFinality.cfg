SPECIFICATION Spec
CONSTANTS
  Roots = {1, 2, 3, 4, 5, 6, 7, 8}
  Anchor = 1
  Block <- Tree
  Validators = {1, 2, 3}
  Balance <- EqualBalance
  Committee <- Duties
  Seats = {1}
  PTC <- PTCs
  Columns = {1}
  SLOTS_PER_EPOCH = 2
  SLOT_DURATION = 1
  ATTESTATION_DUE = 1
  PAYLOAD_ATTESTATION_DUE = 1
  PROPOSER_REORG_CUTOFF = 0
  Attestations <- GossipAttestations
  Slashings = {}
  PtcMessages <- GossipPtcMessages
  Envelopes = {1, 7}
  Verdicts = {"Valid"}
  MaxTime = 12
INVARIANTS
  CheckpointOrder
  JustifiedCheckpointUsable
  HeadDefined
  DependentRootKnown
  HeadExtendsFinalized
PROPERTIES
  CheckpointsAdvance
