SPECIFICATION GuestSpec
CONSTANTS
  Guests = {"mutex", "cond"}
  MaxThreads = 3
  Mutexes = {m1, m2}
  MaxMutexIds = 2
  MutexTypes = {"normal", "errorcheck", "recursive"}
  MaxDepth = 2
  Conds = {c1}
  TimedWaits = {TRUE, FALSE}
  Sems = {}
  MaxSem = 2
  Files = {}
  MaxSuspend = 0
INVARIANTS
  MutualExclusion
  MutexInv
  CondQueuesExact
  WaitersKeepMutex
