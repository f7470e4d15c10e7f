SPECIFICATION Spec
CONSTANTS
  Roots = {1, 2, 3, 4, 5, 6}
  Anchor = 1
  Block <- Tree
  Validators = {1, 2, 3, 4}
  Balance <- EqualBalance
  Committee <- Duties
  Seats = {1}
  PTC <- PTCs
  Columns = {1}
  SLOTS_PER_EPOCH = 4
  SLOT_DURATION = 3
  ATTESTATION_DUE = 1
  PAYLOAD_ATTESTATION_DUE = 2
  PROPOSER_REORG_CUTOFF = 0
  Attestations <- LateVote
  Slashings = {{3}}
  PtcMessages = {}
  Envelopes = {2}
  Verdicts = {"Valid"}
  MaxTime = 12
PROPERTY
  EquivocationNeverWeakens
