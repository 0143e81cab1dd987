SPECIFICATION FairSpec
CONSTANTS
  Workers = {w1, w2, w3}
  Tasks = {watcher, t1, t2, t3}
  Endless = {watcher}
  NoTask = NoTask
INVARIANTS
  TypeOK
  NoLostWakeup
PROPERTIES
  QueueSpec
  TasksTaken
  DestructorReturns
CHECK_DEADLOCK FALSE
