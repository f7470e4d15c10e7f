SPECIFICATION Spec
CONSTANTS
  Peers = {h}
  NoPeer = NoPeer
  Honest = {h}
  Unreliable = {}
  Blocks = {1, 2, 3}
  Full = {1, 2}
  MAX_BACKFILL_BLOCKS = 2
  LastSlot = 3
  MaxConnections = 1
PROPERTIES
  WalksToTip
