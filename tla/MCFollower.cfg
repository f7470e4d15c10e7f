SPECIFICATION Spec
CONSTANTS
  Peers = {h, f}
  NoPeer = NoPeer
  Honest = {h}
  Unreliable = {h, f}
  Blocks = {1, 2, 4}
  Full = {1}
  MAX_BACKFILL_BLOCKS = 2
  LastSlot = 4
  MaxConnections = 2
INVARIANTS
  SingleInFlight
  CandidatesConnected
PROPERTIES
  CatchesUp
