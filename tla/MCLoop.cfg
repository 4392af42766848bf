SPECIFICATION FairGuestSpec
CONSTANTS
  Guests = {"timer", "pair", "requests"}
  Timers = {t1, t2}
  Intervals = {1, 2}
  Requests = {r1, r2}
  Selectors = {s1, s2}
  MaxTime = 3
  MaxDepth = 2
INVARIANTS
  LoopSound
  RequestsKept

  
CHECK_DEADLOCK FALSE
