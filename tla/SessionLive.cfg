\* One packet in flight each way, so that every second one is lost; two tries at closing on each side.
SPECIFICATION FairSpec
CONSTANTS
  CONTROL_MAX_RETRIES = 2
  POLL_MAX_TRIES = 2
  maxidle = 0
  Items = 1
  ChanCap = 1
INVARIANTS
  AgreedClose EofMeansClosed
PROPERTIES
   EventuallyEstablished
CHECK_DEADLOCK FALSE
