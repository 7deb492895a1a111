SPECIFICATION Spec
CONSTANTS
  s1 = s1
  s2 = s2
  r1 = r1
  r2 = r2
  r3 = r3
  None = None
  SignIns <- MCSignIns
  Refreshes <- MCRefreshes
SYMMETRY Symmetry
CHECK_DEADLOCK FALSE
PROPERTIES
  RefreshReplacesItsToken
