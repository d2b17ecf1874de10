SPECIFICATION FairSpec
CONSTANTS
  Slot = {s1, s2}
  Account = {a1}
  User = {u1, u2}
  Verifier = {v1}
  None = None
INVARIANTS
  NotWhileSaving
CHECK_DEADLOCK FALSE
