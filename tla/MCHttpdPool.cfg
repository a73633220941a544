CONSTANTS
  Conns = {c1, c2}
  NoConn = NoConn
  MAX_CONN = 2
  MaxOpen = 2
  MaxChunks = 1
  MaxSends = 2
  MaxResets = 2
SPECIFICATION FairPoolSpec
INVARIANTS PoolTypeOK PoolSuffices OwnSlot ReleasedOnce
PROPERTIES Served SlotsComeBack
