SPECIFICATION Spec
CONSTANTS
  w1 = w1
  w2 = w2
  j1 = j1
  j2 = j2
  j3 = j3
  u1 = u1
  u2 = u2
  None = None
  Absent = Absent
  Empty = Empty
  Garbled = Garbled
  Workers <- MCWorkers
  Jobs <- MCJobs
  Logins <- MCLogins
  SaveSetting = "false"
  MaxRedeploys = 1
SYMMETRY Symmetry
CHECK_DEADLOCK FALSE
INVARIANTS
  UnwantedIsNotSaved
