SPECIFICATION MCSpec
CONSTANTS
  Objects = {"a", "b", "c"}
  HashOf <- MCHash
  ClassOf <- MCClass
  Nil = "nil"
  Kinds = {"NSArray", "CFArray", "NSDictionary", "NSSet", "CFDictionary", "CFDictionary plain", "NSCache"}
  MaxSize = 2
  Costs = {1, 2}
  Limits = {0, 2}
  Guests = {"collections", "pools", "weak"}
  Threads = {"t1", "t2"}
  Addresses = {"o", "p"}
  Locations = {"w", "x"}
  MaxRefs = 2
  MaxPools = 2
INVARIANTS
  CollectionsTrue
  
PROPERTIES
  TableIsMap
CHECK_DEADLOCK FALSE
