SPECIFICATION Spec
CONSTANTS
  User = {u1, u2}
  Balance = 1
  MaxPlays = 2
  MaxDeposits = 1
SYMMETRY Symmetry
CONSTRAINT Few
INVARIANTS
  CoinsKept
  LogExplainsBalance
  
  
CHECK_DEADLOCK FALSE
