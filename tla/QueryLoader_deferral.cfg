SPECIFICATION Spec
CONSTANTS
  t1 = t1  t2 = t2
  unread = unread  archived = archived
  Tid <- Threads
  Value <- Values
  Query <- OneQuery
  Batch = 1
  MaxChanges = 1
  MaxReloads = 0
PROPERTIES
  ChangesWaitForLoad
CHECK_DEADLOCK FALSE
