SPECIFICATION Spec
CONSTANTS
  Roots = {1, 2, 3, 4}
  Anchor = 1
  Block <- Tree
  Validators = {1, 2, 3}
  Balance <- EqualBalance
  Committee <- Duties
  Seats = {1}
  PTC <- PTCs
  Columns = {1}
  SLOTS_PER_EPOCH = 4
  SLOT_DURATION = 2
  ATTESTATION_DUE = 1
  PAYLOAD_ATTESTATION_DUE = 2
  PROPOSER_REORG_CUTOFF = 0
  Attestations <- GossipAttestations
  Slashings = {{2}}
  PtcMessages <- GossipPtcMessages
  Envelopes = {1, 2}
  Verdicts = {"Valid"}
  MaxTime = 6
PROPERTY
  EvidenceKept
