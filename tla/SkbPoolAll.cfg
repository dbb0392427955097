\* Rings of four, so that coded_q wraps around; never more wanted than fits, so that only the mutexes can block.
SPECIFICATION PoolFairSpec
CONSTANTS
  App = app
  Srv = srv
  Workers = {w1, w2}
  None = None
  JobCap = 6
  QCap = 4
  LastBlock = 2
  MaxDofs = 1
  MaxNeed = 2
  MaxJobs = 4
INVARIANTS DeadlockFree FreeListSound BuffersAccounted
 
CHECK_DEADLOCK FALSE
