SPECIFICATION FairSpec
CONSTANTS
  c1 = c1
  c2 = c2
  None = None
  Dead = Dead
  Users = {"u1", "u2", "u3"}
  Calls = {c1, c2}
  Serves <- OnlyRemovals
  Faults = {"profile", "kill"}
INVARIANTS TypeOK AdminRemains AccountHasProfile
PROPERTIES LockIsFreed
