\* The client's use of the fifo: one decoder thread, two application threads,
\* packets longer than the free space and longer than the ring.
SPECIFICATION FairSpec
CONSTANTS
  Pushers = {decoder}
  Poppers = {r1, r2}
  Byte = {0, 1}
  MaxSize = 2
  MaxChunk = 3
  MaxPushed = 2
INVARIANTS StreamIntegrity NoLostWakeup SpaceStaysFree
PROPERTIES PipeSpec ReleaseFreesAll
CHECK_DEADLOCK FALSE
