\* Two bytes up, three down, through buffers and connections of two: writes come up short.
SPECIFICATION FairSpec
CONSTANTS
  buf_size = 2
  Cap = 2
  AppBytes = 2
  TargetBytes = 3
INVARIANTS BytesAccounted
 
CHECK_DEADLOCK FALSE
