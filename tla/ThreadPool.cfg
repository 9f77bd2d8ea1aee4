SPECIFICATION FairSpec
CONSTANTS
  Worker = {w1, w2}
  Task = {t1, t2, t3}
  Caller = caller
  Free = free
INVARIANTS
  ActiveCountsOutstanding
  EachTaskOnce
PROPERTIES
  RefinesTaskPool
  CallsReturn
