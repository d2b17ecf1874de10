SPECIFICATION Spec
CONSTANTS
  MaxPlayers = 2
  PerAddress = 3
  NoVerify = 1
  NoGame = 1
  NoOps = {0, 1}
  Epoch = 4
  MaxTicks = 2
  MaxSends = 3
CONSTRAINT Short
INVARIANTS
  FramesWhole
  
PROPERTIES
  
  RefusedOnlyWhenFull
CHECK_DEADLOCK FALSE
