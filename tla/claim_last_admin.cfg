SPECIFICATION Spec
CONSTANTS
  c1 = c1
  c2 = c2
  None = None
  Dead = Dead
  Users = {"u1", "u2"}
  Calls = {c1, c2}
  Serves <- PromoteBesideDemote
  Faults = {}
INVARIANTS AdminRemains
