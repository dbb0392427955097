SPECIFICATION Spec
CONSTANTS
  BLOCK_SIZE = 2
  NUM_BLOCKS = 2
  Workers = 1
  Cwnds = {1}
  LossFactors = {2}
  DataReorder = TRUE
  AckReorder = TRUE
  EarlyTimeout = TRUE
  CacheFills = TRUE
  TotalPackets = 5
  MaxCall = 5
  MaxFaults = 1
  MaxTimeouts = 1
  MaxSeqno = 7
INVARIANTS
  
  FreedOnlyWhenHeld
CHECK_DEADLOCK FALSE
