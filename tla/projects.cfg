SPECIFICATION Spec
CONSTANTS
  Projects = {p1, p2, p3, p4}
  Segments = {"a", "b"}
  Entities = {m1}
  Models = {m1}
  Archived = {}
  MaxDepth = 3
  Calls = {c1, c2}
  c1 = c1
  c2 = c2
  Serves <- CreatesBeside
  Overlapping = {"create", "attach"}
  Faults = {"kill"}
  None = None
SYMMETRY ProjectIds
INVARIANTS TypeOK ProjectsAreATree EntitiesAreHeld DepthIsBounded NamesBelowAreFree
CONSTRAINT FewBeside
ACTION_CONSTRAINT UntilTorn
