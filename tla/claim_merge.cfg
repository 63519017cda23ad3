SPECIFICATION Spec
CONSTANTS
  Projects = {p1, p2, p3, p4}
  Segments = {"a", "b"}
  Entities = {}
  Models = {}
  Archived = {}
  MaxDepth = 4
  Calls = {c1}
  c1 = c1
  c2 = c2
  Serves <- MergesAlone
  Overlapping = {}
  Faults = {}
  None = None
SYMMETRY ProjectIds
INVARIANT NothingIsLeftBelow
