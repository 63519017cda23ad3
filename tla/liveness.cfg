SPECIFICATION FairSpec
CONSTANTS
  t1 = t1
  t2 = t2
  q1 = q1
  q2 = q2
  c1 = c1
  c2 = c2
  None = None
  Tasks = {t1, t2}
  Queues = {q1}
  InitialQueues = {q1}
  Calls = {c1, c2}
  Serves <- AgentBesideClients
  EnqueueFrom = {"created", "stopped"}
  Reports = {"stopped", "completed"}
  NewStatuses = {}
  Forces = {FALSE}
  Options = {TRUE}
  Moves = {}
  Faults = {}
  Stamps = {1, 2, 3, 4, 5}
INVARIANTS QueuedIsInQueue
PROPERTIES EveryEntryIsTaken QueuedTaskMovesOn
