SPECIFICATION Spec
CONSTANTS
  Player = {p1, p2}
  FishNode = {f1, f2}
  BulletNode = {b1, b2}
  None = None
  MaxFish = 2
  MaxInt = 4
  Coin = 1
  Reward = 1
  MaxShots = 2
SYMMETRY Symmetry
INVARIANTS
  FishPaysOnce
  BulletsCoverKills
  IdsUnique
  
CHECK_DEADLOCK FALSE
