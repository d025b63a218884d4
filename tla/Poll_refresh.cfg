SPECIFICATION Spec
CONSTANTS
  t1 = t1  t2 = t2  p1 = p1  p2 = p2
  Tid <- Threads
  Pid <- OnePid
  NoPid = NoPid
  MaxRevision = 4
  MaxPipe = 3
INVARIANTS
  AllChangesTold
