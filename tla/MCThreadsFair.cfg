SPECIFICATION FairGuestSpec
CONSTANTS
  Guests = {"sem", "thread"}
  MaxThreads = 3
  Mutexes = {}
  MaxMutexIds = 0
  MutexTypes = {"normal"}
  MaxDepth = 2
  Conds = {}
  TimedWaits = {FALSE}
  Sems = {s1}
  MaxSem = 2
  Files = {f1}
  MaxSuspend = 2
INVARIANTS
  ThreadInv
  ThreadsSound
PROPERTIES
  WaitsEnd
