SPECIFICATION Spec
CONSTANTS
  t1 = t1
  t2 = t2
  q1 = q1
  q2 = q2
  c1 = c1
  c2 = c2
  None = None
  Tasks = {t1}
  Queues = {q1, q2}
  InitialQueues = {q1, q2}
  Calls = {c1, c2}
  Serves <- OneWriterBesideOthers
  EnqueueFrom = {"created", "queued"}
  Reports = {"in_progress", "stopped"}
  NewStatuses = {}
  Forces = {FALSE}
  Options = {TRUE}
  Moves = {}
  Faults = {}
  Stamps = {1, 2, 3, 4, 5}
INVARIANTS SingleQueue PublishingEnds
