SPECIFICATION Spec
CONSTANTS
  Slot = {s1, s2}
  Account = {a1, a2}
  User = {u1, u2, u3}
  Verifier = {v1, v2}
  None = None
CONSTRAINT FewMishaps
SYMMETRY Symmetry
INVARIANTS
  SavedOnce
  UsersLive
  OneLogin

  
CHECK_DEADLOCK FALSE
