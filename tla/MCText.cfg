SPECIFICATION MCSpec
CONSTANTS
  Guests = {"c_strings", "formats", "ns_strings"}
  Letter <- MCLetter
  Sep = {"b"}
  Cap = 5
  Chars = {"0", "1", "8", "e", "x", "-", " ", ",", "."}
  MaxLen = 4
  Bits <- MCBits
  Scans <- MCScans
  Prints <- MCPrints
  Room = {0, 3, 8}
  Param <- MCParam
  Typed <- MCTyped
  MaxUnits = 4
  MaxTyped = 4
  MaxScanned = 2
INVARIANTS
  CStringsRight
  FormatsRight
  
CHECK_DEADLOCK FALSE
