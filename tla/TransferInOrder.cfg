SPECIFICATION FairSpec
CONSTANTS
  BLOCK_SIZE = 2
  NUM_BLOCKS = 2
  Workers = 2
  Cwnds = {1, 2}
  LossFactors = {1}
  DataReorder = FALSE
  AckReorder = FALSE
  EarlyTimeout = FALSE
  CacheFills = FALSE
  TotalPackets = 3
  MaxCall = 2
  MaxFaults = 1
  MaxTimeouts = 1
  MaxSeqno = 20
INVARIANTS
  NeedNeverUnderestimated
  QueueCoversDofRemain
PROPERTIES
  FullBlocksDelivered
  EventuallyReceived
CHECK_DEADLOCK FALSE
