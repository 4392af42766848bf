SPECIFICATION MCSpec
CONSTANTS
  Guests = {"settings", "arrays", "contexts", "frames", "scale"}
  Impls = {"gl2", "native"}
  Units = {0, 1}
  Caps = {"BLEND"}
  Modes = {"MODELVIEW", "TEXTURE"}
  MaxStack = 2
  FixedOne = 4
  MaxSettings = 2
  MaxArraySettings = 4
  Threads = {t1, t2}
  Contexts = {c1, c2}
  Layers = {l1, l2}
  Renderbuffers = {r1}
  Buffers = {b1}
  Interval = 2
  MaxTime = 8
  MaxFrames = 4
  Nobody = Nobody
  Images = {"r1", "t1", "t2"}
  Textures = {"t1", "t2"}
  Framebuffers = {"f1", "f2"}
  ScaleHack = 2
  Sizes = {1, 3}
INVARIANTS
  
  HoldersExact

  
  
CHECK_DEADLOCK FALSE
