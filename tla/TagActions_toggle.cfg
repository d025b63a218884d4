SPECIFICATION MCSpec
CONSTANTS
  t1 = t1
  Thread <- Threads
  Message <- Messages
  ThreadOf <- OneThread
  Tag <- Tags
  Unread = 2
  Diff <- Diffs
  MaxRequests = 1
  MaxRefreshes = 1
  MaxTroubles = 0
PROPERTY ToggleUndoIsDoit
CHECK_DEADLOCK FALSE
