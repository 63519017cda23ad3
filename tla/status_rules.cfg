SPECIFICATION Spec
CONSTANTS
  t1 = t1
  t2 = t2
  q1 = q1
  q2 = q2
  c1 = c1
  c2 = c2
  None = None
  Tasks = {t1}
  Queues = {q1}
  InitialQueues = {q1}
  Calls = {c1, c2}
  Serves <- StatusRequestsByBoth
  EnqueueFrom = {"created", "stopped", "failed"}
  Reports = {"in_progress", "stopped", "failed", "closed", "completed"}
  NewStatuses = {}
  Forces = {FALSE}
  Options = {TRUE}
  Moves = {}
  Faults = {"metrics", "crash"}
  Stamps = {1, 2, 3, 4, 5}
SYMMETRY Symmetric
PROPERTIES StatusFollowsRules
