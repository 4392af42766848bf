SPECIFICATION DataSpec
CONSTANTS
  Guests = {"tree", "careless", "rough", "stream", "archives", "nibs", "times", "defaults", "numbers", "bytes"}
  Names = {"a", "b"}
  MaxDepth = 2
  Inodes = {i1, i2}
  MaxFds = 2
  MaxLen = 2
  Streams = {f1, f2}
  Objects = {"o1", "o2", "o3", "o4"}
  Nil = "nil"
  Graphs <- MCGraphs
  NibFiles <- MCNibFiles
  Starts <- MCStarts
  Days = 400
  Seconds = {0, 86399}
  Layouts <- MCLayouts
  BufferSizes = {0, 1, 4, 6, 20}
  Keys = {"k", "AppleLanguages"}
  Global = "AppleLanguages"
  Values <- MCValues
  Launches = 2
  Changes = 2
  Width <- MCWidth
  Samples <- MCSamples
  MaxKeys = 2
  Datas = {1, 2}
  Addrs = {1, 2, 3}
  Grain = 1
  MaxLength = 2
  Bytes = {0, 1}
INVARIANTS
  FilesTrue
  StreamsTrue
  GraphsSound
  
  
CHECK_DEADLOCK FALSE
