SPECIFICATION Spec
CONSTANTS
  Player = {p1, p2, p3, p4, p5}
  None = None
  MaxRoom = 2
  MaxEntries = 9
SYMMETRY Symmetry
INVARIANTS
  
  
  OverrunNeedsFullSweep

  
CHECK_DEADLOCK FALSE
