SPECIFICATION FairSpec
CONSTANTS
  t1 = t1  t2 = t2
  unread = unread  archived = archived
  Tid <- Threads
  Value <- Values
  Query <- TwoQueries
  Batch = 2
  MaxChanges = 2
  MaxReloads = 1
INVARIANTS
  QuietListCorrect
  RowsMatchQuery
PROPERTIES
  GuiReturns
  Settles
CHECK_DEADLOCK FALSE
