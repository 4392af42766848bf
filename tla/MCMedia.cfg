SPECIFICATION MCSpec
CONSTANTS
  Buffers = {b1, b2}
  QueueKinds <- Kind
  OutputFails = TRUE
  MaxQueue = 3
  Guests = {"careful", "free", "openal", "units", "player", "movies"}
  Addr = {"g1", "g2", "g3"}
  HostDev = {"d1"}
  HostCtx = {"c1", "c2"}
  AlBuffers = {1, 2}
  MaxAlCalls = 9
  MaxCalls = 5
  Units = {"u1", "u2"}
  FirstTarget = 1
  LastTarget = 2
  MaxUnitCalls = 3
  Kinds <- MCKinds
  NumBuffers = 3
  PerBuffer = 2
  Movie = {"m1", "m2"}
  MaxPlays = 4
INVARIANTS
  QueueTrue
  
PROPERTIES
  PlaybackServed
CHECK_DEADLOCK FALSE
