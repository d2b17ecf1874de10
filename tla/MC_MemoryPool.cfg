SPECIFICATION RaceSpec
CONSTANTS
  Handle = {h1, h2, h3, h4}
  Request = {50, 200, 201, 1001}
  Bytes = 1250
  UInt = 65536
  MaxMallocs = 5
SYMMETRY Symmetry
INVARIANTS
  BlocksDisjoint
  BitsAreLive
  
PROPERTIES
  FallbackOnlyWhenFull
  
CHECK_DEADLOCK FALSE
