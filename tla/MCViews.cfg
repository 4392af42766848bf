SPECIFICATION MCSpec
CONSTANTS
  Nil = Nil
  Guests = {"tree", "controllers", "fingers", "pad", "titles", "fields", "animations", "frames", "pace"}
  Windows = {"w"}
  Plain = {"a", "b", "c"}
  Controllers = {"n", "k"}
  Nav = "n"
  Touchscreen = {"f1", "f2"}
  Places = {"in", "on"}
  Moves = {"on"}
  Multiple = {"canvas"}
  TouchViews = {"button", "canvas"}
  MaxSdl = 3
  MaxTouches = 2
  Control = "button"
  States = {"Normal", "Highlighted"}
  Fields = {"name", "password"}
  Titles = {"x", "y"}
  Anims = {1, 2}
  Blocks = {"b1", "b2"}
  Durations = {0}
  Delays = {1}
  RepeatCounts = {2}
  MaxDepth = 2
  Pictures = {"p", "q"}
  Interval = 2
  Intervals = {2, 3}
  MaxLate = 5
INVARIANTS
  TreesTrue
  
  
PROPERTIES
  FramesTrue
CHECK_DEADLOCK FALSE
