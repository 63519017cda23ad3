SPECIFICATION Spec
CONSTANTS
  t1 = t1
  t2 = t2
  q1 = q1
  q2 = q2
  c1 = c1
  c2 = c2
  None = None
  Tasks = {t1}
  Queues = {q1, q2}
  InitialQueues = {q1}
  Calls = {c1}
  Serves <- EveryRequestButAddTask
  EnqueueFrom = {"created", "stopped", "failed", "in_progress", "completed"}
  Reports = {"in_progress", "stopped", "failed", "closed", "completed"}
  NewStatuses = {"created", "stopped"}
  Forces = {TRUE}
  Options = {TRUE}
  Moves = {1}
  Faults = {}
  Stamps = {1, 2, 3, 4, 5}
INVARIANTS TypeOK QueuedIsInItsQueue PriorIsRecorded
