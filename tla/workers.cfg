SPECIFICATION FairSpec
CONSTANTS
  Workers = {w1}
  Tasks = {t1}
  Tags = {g1}
  TagSets = {{g1}}
  Second = 1
  Timeouts = {1}
  default_worker_timeout = 1
  task_update_timeout = 1
  threshold = 1
  Interval = 1
  MaxKills = 1
  Impatient = FALSE
  None = None
INVARIANTS TypeOK TagsFindWorkers ReportedTaskIsNotSilent
PROPERTIES SilentTaskIsStopped StopIsHonoured
