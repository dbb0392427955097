\* Two workers and their queue of four, jobs of both priorities from two threads.
SPECIFICATION FairSpec
CONSTANTS
  Workers = {w1, w2}
  Owner = app
  Others = {srv}
  Threads = {w1, w2, srv, app}
  Jobs = {1, 2, 3}
  Entry = {1, 2, 3, poison}
  Poison = poison
  NULL = null
  MaxSize = 4
INVARIANTS NoWakeupLost JobInOnePlace KilledMeansDone
PROPERTIES DequeSpec KillEnds JobsGetRun
CHECK_DEADLOCK FALSE
