SPECIFICATION MCSpec
CONSTANTS
  Nil = Nil
  Guests = {"classes", "sync", "queues", "once", "operations", "sources", "locks", "threads", "posts"}
  Threads = {"t1", "t2", "t3"}
  Callers = {"t1", "t2"}
  Classes = {"base", "mid", "sub"}
  Super <- MCSuper
  Uses <- MCUses
  Locks = {"o"}
  MaxSends = 4
  Created = {"mine"}
  Objects = {"s"}
  Predicates = {"p"}
  Operations = {"op"}
  Blocks = {"b"}
  MaxDepth = 3
  MaxWork = 4
  MaxValue = 2
  PTHREAD_KEYS_MAX = 2
  Lockers = {"t1", "t2", "t3"}
  Conditions = {0, 1}
  NSThreads = {"n1", "n2"}
  Targets = {"x"}
  MaxRefs = 2
  Names = {"name"}
  Things = {"a", "b"}
  Tokens = {"k"}
  MaxEntries = 2
  MaxPosts = 2
INVARIANTS
  MeetingsTrue
  OnceTrue
  
PROPERTIES
  WorkGoesOn
CHECK_DEADLOCK FALSE
