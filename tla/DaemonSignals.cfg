\* At most two connections, four children in all.
SPECIFICATION DaemonFairSpec
CONSTANTS
  max_con_cnt = 2
  START_PORT = 8001
  MaxForks = 4
INVARIANTS MaxRespected
PROPERTIES ZombiesReaped
CHECK_DEADLOCK FALSE
