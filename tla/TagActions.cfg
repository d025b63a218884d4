SPECIFICATION MCFairSpec
CONSTANTS
  t1 = t1
  Thread <- Threads
  Message <- Messages
  ThreadOf <- OneThread
  Tag <- Tags
  Unread = 2
  Diff <- Diffs
  MaxRequests = 2
  MaxRefreshes = 1
  MaxTroubles = 1
INVARIANTS ItemsTrail
PROPERTIES WorkerKeepsCopy UndoRestores ItemsCatchUp
CHECK_DEADLOCK FALSE
