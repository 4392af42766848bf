SPECIFICATION MCSpec
CONSTANTS
  Guests = {"debugger"}
  AddressBits = 5
  PAGE_SIZE = 4
  MIN_CHUNK_SIZE = 2
  HEAP_CHUNK_SIZE = 8
  HEAP_ALLOCATION_THRESHOLD = 5
  STACK_LOW_END = 20
  Reserved <- NullPage
  Zones = {z1}
  ZONE_SIZE = 2
  MallocSizes = {1, 3, 7}
  PageSizes = {3, 8}
  UnmapsOnlyMapped = TRUE
  MaxLive = 4
  File <- MCFile
  Main = "app"
  HostFunctions = {"puts", "both", "abort"}
  HostConstants = {"konst"}
  Constructors = {"ctor"}
  None = "none"
  MaxSvc = 6
  Template <- MCTemplate
  BinClass <- MCBinClass
  Fakes = {"FBView"}
  Category <- MCCategory
  Proto <- MCProto
  Selectors = {"init", "draw", "alloc"}
  Nil = "nil"
  Sizes = {0, 2}
  MaxAdded = 1
  Word = 16
  Byte = 4
  Top = 24
  ArgLists <- MCArgLists
  Rets <- MCRets
  Functions = {6, 9}
  MaxDepth = 3
  Threads = {"t1", "t2"}
  MaxPackets = 5
  Fds = {3, 4, 5}
  Conns = {"c1", "c2"}
  MaxBytes = 2
  MaxCalls = 5
CONSTRAINT Bounded
INVARIANTS
  ContinueResumes
CHECK_DEADLOCK FALSE
