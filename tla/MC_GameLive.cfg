SPECIFICATION FairSpec
CONSTANTS
  Player = {p1}
  FishNode = {f1, f2, f3}
  BulletNode = {b1}
  None = None
  MaxFish = 2
  MaxInt = 4
  Coin = 1
  Reward = 1
  MaxShots = 2
INVARIANTS
  FishBounded
PROPERTIES
  KilledFishReaped
CHECK_DEADLOCK FALSE
