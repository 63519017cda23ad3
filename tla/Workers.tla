-------------------------------- MODULE Workers --------------------------------
(***************************************************************************)
(* Agents, what the server knows of them, and the watchdog.  An agent      *)
(* reports to workers.status_report (bll/workers/__init__.py), which       *)
(* refreshes its registration, keys of Redis with a time to live, and the  *)
(* last_update of the task it runs.  Two decisions depend on that time:    *)
(* tasks.stop leaves a task to a worker that is active, and the watchdog   *)
(* (bll/task/non_responsive_tasks_watchdog.py) stops the tasks in progress *)
(* that nobody updates.  Time passes in ticks.                             *)
(***************************************************************************)
EXTENDS Naturals, FiniteSets

CONSTANTS
  Workers,         \* the agents, by the ids they report
  Tasks,
  Tags,            \* what agents tag themselves with
  TagSets,         \* the sets of them that agents report
  Second,          \* the ticks of a second
  Timeouts,        \* how long registrations live, in ticks
  default_worker_timeout,  \* and how long they do unless asked otherwise
  task_update_timeout, \* how long a worker counts as active
  threshold,           \* the watchdog's threshold_sec
  Interval,        \* an agent that is up reports at least so often
  MaxKills,        \* how often the server is killed, a bound of the model
  Impatient,       \* whether one asks again to stop a task that is asked to stop
  None

ASSUME WorkersAssumption ==
  /\ {Second, task_update_timeout, threshold, Interval} \subseteq Nat \ {0}
  /\ MaxKills \in Nat /\ Impatient \in BOOLEAN /\ TagSets \subseteq SUBSET Tags
  /\ None \notin Workers \cup Tasks \cup Tags \cup {"all"} \cup Nat /\ "all" \notin Tags
ASSUME TimeoutsAssumption ==
  /\ Timeouts \subseteq Nat \ {0} /\ default_worker_timeout \in Timeouts
  /\ \A timeout \in Timeouts : timeout % Second = 0

(* Ages count up to the first one that nobody tells from a greater one.    *)
MaxAge == IF threshold >= task_update_timeout THEN threshold + 1 ELSE task_update_timeout
Statuses == {"queued", "in_progress", "stopped"}

VARIABLES
  agent,      \* agent[w]: up, the task that it runs, the ticks since it last reported,
              \* and, a history, how many of its reports in a row did not update the task
  registered, \* registered[w]: the value of w's key and the ticks it has left, or None
  listed,     \* listed[n][w]: the ticks until w's score in the sorted set n, or None
  second,     \* the ticks since the last full second
  task,       \* task[t]: its status, the ticks since last_update, and two more fields
  report,     \* report[w]: the request of w that the server handles
  stop,       \* stop[t]: the status that a tasks.stop of t is about to write, or None
  watchdog,   \* the tasks that the watchdog's pass still has to stop
  kills,      \* how often the server was killed
  cut         \* history: the workers whose entry was cut short while it was saved

redis == <<registered, listed, second>>
vars == <<agent, registered, listed, second, task, report, stop, watchdog, kills, cut>>

(* Failures count up to threshold: after so many any task is silent.       *)
Agents == [up : BOOLEAN, task : Tasks \cup {None}, since : 0..Interval, failed : 0..threshold]
Entries == [left : Nat \ {0}, tags : SUBSET Tags, timeout : Timeouts]
ASSUME NoneIsNoEntry == None \notin Entries
TaskDocs == [status : Statuses, age : 0..MaxAge,
             stopping : BOOLEAN,       \* status_message is "stopping"
             last_worker : BOOLEAN]    \* a worker reported for it
SortedSets == Tags \cup {"all"}
Steps == {"idle", "register", "register_sets", "task", "save", "save_sets"}
Reports == [pc : Steps,
            reports : BOOLEAN,         \* workers.status_report, not workers.register
            task : Tasks \cup {None}, tags : SUBSET Tags, timeout : Timeouts,
            todo : SUBSET SortedSets,  \* the sets the entry still has to be added to
            score : Nat]               \* with this score
NoReport == [pc |-> "idle", reports |-> FALSE, task |-> None, tags |-> {},
             timeout |-> default_worker_timeout, todo |-> {}, score |-> 0]

Init ==
  /\ agent = [w \in Workers |-> [up |-> TRUE, task |-> None, since |-> 0, failed |-> 0]]
  /\ registered = [w \in Workers |-> None]
  /\ listed = [n \in SortedSets |-> [w \in Workers |-> None]]
  /\ second = 0
  /\ task = [t \in Tasks |->
       [status |-> "queued", age |-> 0, stopping |-> FALSE, last_worker |-> FALSE]]
  /\ report = [w \in Workers |-> NoReport]
  /\ stop = [t \in Tasks |-> None]
  /\ watchdog = {}
  /\ kills = 0
  /\ cut = {}

Busy(w) == report[w] # NoReport

(***************************************************************************)
(* Tasks.  Every change of status is an update of the task.                *)
(***************************************************************************)
Changed(t, status, stopping) ==
  task' = [task EXCEPT ![t].status = status, ![t].age = 0, ![t].stopping = stopping]

(* An agent takes a task from a queue and reports it started.              *)
Start(w, t) ==
  /\ agent[w].up /\ agent[w].task = None /\ ~Busy(w)
  /\ task[t].status = "queued"
  /\ Changed(t, "in_progress", FALSE)
  /\ agent' = [agent EXCEPT ![w].task = t, ![w].failed = 0]
  /\ UNCHANGED <<redis, report, stop, watchdog, kills, cut>>

(* The agent's task ends, by itself, because it is asked to stop, or       *)
(* because it no longer is in progress, when the report of it is refused.  *)
End(w) ==
  LET t == agent[w].task IN
  /\ agent[w].up /\ t # None /\ ~Busy(w)
  /\ IF task[t].status = "in_progress" THEN Changed(t, "stopped", FALSE) ELSE UNCHANGED task
  /\ agent' = [agent EXCEPT ![w].task = None]
  /\ UNCHANGED <<redis, report, stop, watchdog, kills, cut>>

(* tasks.enqueue.  A task is not run anew while an agent still has it.     *)
Enqueue(t) ==
  /\ task[t].status = "stopped"
  /\ \A w \in Workers : agent[w].task # t
  /\ Changed(t, "queued", FALSE)
  /\ UNCHANGED <<agent, redis, report, stop, watchdog, kills, cut>>

(* tasks.ping.                                                             *)
Ping(w) ==
  /\ agent[w].up /\ agent[w].task # None
  /\ task' = [task EXCEPT ![agent[w].task].age = 0]
  /\ UNCHANGED <<agent, redis, report, stop, watchdog, kills, cut>>

(* tasks.stop, of a task in progress that may have the development tag, in *)
(* two steps: the task is read, and what follows from it is written if the *)
(* task still is in progress.  Asking to stop updates the task too.        *)
is_run_by_worker(t) == task[t].last_worker /\ task[t].age < task_update_timeout

Stop(t, development) ==
  /\ task[t].status = "in_progress" /\ stop[t] = None
  /\ task[t].stopping => Impatient
  /\ stop' = [stop EXCEPT ![t] =
       IF development \/ ~is_run_by_worker(t) THEN "stopped" ELSE "in_progress"]
  /\ UNCHANGED <<agent, redis, task, report, watchdog, kills, cut>>

WriteStop(t) ==
  /\ stop[t] # None
  /\ IF task[t].status = "in_progress" THEN Changed(t, stop[t], stop[t] = "in_progress")
     ELSE UNCHANGED task
  /\ stop' = [stop EXCEPT ![t] = None]
  /\ UNCHANGED <<agent, redis, report, watchdog, kills, cut>>

(***************************************************************************)
(* workers.register and workers.status_report.  A worker that reports and  *)
(* is not registered is registered without tags first; then the task it    *)
(* runs is updated, by its id, and at the end the entry is saved.  Saving  *)
(* an entry writes the key and adds it to the set of all workers, then to  *)
(* the set of each tag, with the time it expires in whole seconds.         *)
(***************************************************************************)
Register(w, tags, timeout) ==
  /\ agent[w].up /\ ~Busy(w)
  /\ report' = [report EXCEPT ![w] =
       [NoReport EXCEPT !.pc = "register", !.tags = tags, !.timeout = timeout]]
  /\ UNCHANGED <<agent, redis, task, stop, watchdog, kills, cut>>

Report(w, tags) ==
  /\ agent[w].up /\ ~Busy(w)
  /\ report' = [report EXCEPT ![w] =
       [pc |-> IF registered[w] = None THEN "register" ELSE "task", reports |-> TRUE,
        task |-> agent[w].task, tags |-> tags,
        timeout |-> IF registered[w] = None THEN default_worker_timeout
                    ELSE registered[w].timeout,
        todo |-> {}, score |-> 0]]
  /\ agent' = [agent EXCEPT ![w].since = 0]
  /\ UNCHANGED <<redis, task, stop, watchdog, kills, cut>>

(* The tags of the entry that is being saved.                              *)
EntryTags(w) ==
  IF report[w].reports /\ report[w].pc \in {"register", "register_sets"} THEN {}
  ELSE report[w].tags

SetKey(w) ==
  LET r == report[w] IN
  /\ r.pc \in {"register", "save"}
  /\ registered' = [registered EXCEPT ![w] =
       [left |-> r.timeout, tags |-> EntryTags(w), timeout |-> r.timeout]]
  /\ report' = [report EXCEPT
       ![w].pc = IF r.pc = "register" THEN "register_sets" ELSE "save_sets",
       ![w].todo = EntryTags(w) \cup {"all"}]
  /\ UNCHANGED <<agent, listed, second, task, stop, watchdog, kills, cut>>

Saving(w) == report[w].pc \in {"register_sets", "save_sets"}
ExpiresIn(w) == report[w].timeout - second

(* ZADD: the score of a member that is in the set already is replaced.     *)
Zadd_New(n, w, score) ==
  listed' = IF listed[n][w] = None THEN [listed EXCEPT ![n][w] = score] ELSE listed
Zadd(n, w, score) == listed' = [listed EXCEPT ![n][w] = score]

AddToAll(w) ==
  /\ Saving(w) /\ "all" \in report[w].todo
  /\ Zadd("all", w, ExpiresIn(w))
  /\ report' = [report EXCEPT ![w].todo = @ \ {"all"}, ![w].score = ExpiresIn(w)]
  /\ UNCHANGED <<agent, registered, second, task, stop, watchdog, kills, cut>>

AddToTag(w, n) ==
  /\ Saving(w) /\ "all" \notin report[w].todo /\ n \in report[w].todo
  /\ Zadd(n, w, report[w].score)
  /\ report' = [report EXCEPT ![w].todo = @ \ {n}]
  /\ UNCHANGED <<agent, registered, second, task, stop, watchdog, kills, cut>>

Saved(w) ==
  /\ Saving(w) /\ report[w].todo = {}
  /\ report' = [report EXCEPT ![w] =
       IF report[w].pc = "register_sets" /\ report[w].reports THEN [@ EXCEPT !.pc = "task"]
       ELSE NoReport]
  /\ cut' = cut \ {w}
  /\ UNCHANGED <<agent, redis, task, stop, watchdog, kills>>

Updated_Nothing(t) == task' = task
Updated(t) == task' = [task EXCEPT ![t].age = 0, ![t].last_worker = TRUE]

UpdateTask(w) ==
  /\ report[w].pc = "task"
  /\ IF report[w].task = None THEN UNCHANGED task ELSE Updated(report[w].task)
  /\ report' = [report EXCEPT ![w].pc = "save"]
  /\ agent' = [agent EXCEPT ![w].failed = 0]
  /\ UNCHANGED <<redis, stop, watchdog, kills, cut>>

(***************************************************************************)
(* What fails.  A report that fails before the task is updated leaves the  *)
(* task as it is; whatever is raised there, the entry is saved.  A failing *)
(* write of the entry ends the request, which reports success if the entry *)
(* is saved at the end of a status report.                                 *)
(***************************************************************************)
Unhandled(w) ==
  \/ report[w].reports /\ report[w].pc \in {"register", "register_sets"}
  \/ report[w].pc = "task"
OneMore(failed) == IF failed = threshold THEN failed ELSE failed + 1
NotUpdated(w) ==
  agent' = [agent EXCEPT ![w].failed = IF Unhandled(w) THEN OneMore(@) ELSE @]

(* The server, or Redis, does not answer, and nothing is read or written.  *)
LoseReport(w) ==
  /\ agent[w].up /\ ~Busy(w)
  /\ agent' = [agent EXCEPT ![w].since = 0, ![w].failed = OneMore(@)]
  /\ UNCHANGED <<redis, task, report, stop, watchdog, kills, cut>>

(* The statistics cannot be logged to Elasticsearch, or the task cannot be *)
(* updated: the entry is saved all the same.                               *)
UpdateFails(w) ==
  /\ report[w].pc = "task"
  /\ NotUpdated(w)
  /\ report' = [report EXCEPT ![w].pc = "save"]
  /\ UNCHANGED <<redis, task, stop, watchdog, kills, cut>>

SaveFails(w) ==
  /\ report[w].pc \in {"register", "save"} \/ Saving(w)
  /\ NotUpdated(w)
  /\ report' = [report EXCEPT ![w] = NoReport]
  /\ cut' = IF Saving(w) THEN cut \cup {w} ELSE cut
  /\ UNCHANGED <<redis, task, stop, watchdog, kills>>

(* workers.unregister deletes the key, and only the key.                   *)
Unregister(w) ==
  /\ registered[w] # None
  /\ registered' = [registered EXCEPT ![w] = None]
  /\ UNCHANGED <<agent, listed, second, task, report, stop, watchdog, kills, cut>>

(* workers.get_all and get_count with tags: each set that is looked at is  *)
(* first rid of the members whose score has passed.                        *)
Found(n) == {w \in Workers : listed[n][w] \notin {None, 0}}

Purge(n) ==
  /\ \E w \in Workers : listed[n][w] = 0
  /\ listed' = [listed EXCEPT ![n] = [w \in Workers |-> IF @[w] = 0 THEN None ELSE @[w]]]
  /\ UNCHANGED <<agent, registered, second, task, report, stop, watchdog, kills, cut>>

(***************************************************************************)
(* cleanup_tasks: the tasks to stop are read at once, and stopped one by   *)
(* one if they have the status they had.                                   *)
(***************************************************************************)
IsSilent_Reported(t) ==
  task[t].status = "in_progress" /\ task[t].age > threshold /\ task[t].last_worker
IsSilent_NotAsked(t) ==
  task[t].status = "in_progress" /\ task[t].age > threshold /\ ~task[t].stopping
IsSilent(t) == task[t].status = "in_progress" /\ task[t].age > threshold

Watch ==
  /\ watchdog = {}
  /\ \E t \in Tasks : IsSilent(t)
  /\ watchdog' = {t \in Tasks : IsSilent(t)}
  /\ UNCHANGED <<agent, redis, task, report, stop, kills, cut>>

StopSilent(t) ==
  /\ t \in watchdog
  /\ watchdog' = watchdog \ {t}
  /\ IF task[t].status = "in_progress" THEN Changed(t, "stopped", FALSE) ELSE UNCHANGED task
  /\ UNCHANGED <<agent, redis, report, stop, kills, cut>>

(***************************************************************************)
(* Agents die, and come back without their task; the server is killed with *)
(* the requests and the pass it is at.                                     *)
(***************************************************************************)
Die(w) ==
  /\ agent[w].up
  /\ agent' = [agent EXCEPT ![w] = [up |-> FALSE, task |-> None, since |-> 0, failed |-> 0]]
  /\ UNCHANGED <<redis, task, report, stop, watchdog, kills, cut>>

Return(w) ==
  /\ ~agent[w].up /\ ~Busy(w)
  /\ agent' = [agent EXCEPT ![w].up = TRUE]
  /\ UNCHANGED <<redis, task, report, stop, watchdog, kills, cut>>

Kill ==
  /\ kills < MaxKills
  /\ kills' = kills + 1
  /\ \/ watchdog # {} \/ \E t \in Tasks : stop[t] # None
     \/ \E w \in Workers : Busy(w)
  /\ cut' = cut \cup {w \in Workers : Saving(w)}
  /\ agent' = [w \in Workers |->
       [agent[w] EXCEPT !.failed = IF Unhandled(w) THEN OneMore(@) ELSE @]]
  /\ report' = [w \in Workers |-> NoReport]
  /\ stop' = [t \in Tasks |-> None]
  /\ watchdog' = {}
  /\ UNCHANGED <<redis, task>>

(***************************************************************************)
(* Time: keys expire, scores pass, and their members stay; tasks age.  An  *)
(* agent that is up waits for the answer to its request, which takes less  *)
(* than a tick, and reports again in time; the requests of agents that     *)
(* died may stay in the server for longer.                                 *)
(***************************************************************************)
Aged_OffByOne(entry) ==
  IF entry = None \/ entry.left = 0 THEN None ELSE [entry EXCEPT !.left = @ - 1]
Aged(entry) == IF entry = None \/ entry.left = 1 THEN None ELSE [entry EXCEPT !.left = @ - 1]
Sooner(n) == IF n \in {None, 0} THEN n ELSE n - 1

Tick ==
  /\ \A w \in Workers : agent[w].up => ~Busy(w) /\ agent[w].since < Interval
  /\ agent' = [w \in Workers |-> [agent[w] EXCEPT !.since = IF agent[w].up THEN @ + 1 ELSE @]]
  /\ second' = (second + 1) % Second
  /\ registered' = [w \in Workers |-> Aged(registered[w])]
  /\ listed' = [n \in SortedSets |-> [w \in Workers |-> Sooner(listed[n][w])]]
  /\ report' = [w \in Workers |-> [report[w] EXCEPT !.score = Sooner(@)]]
  /\ task' = [t \in Tasks |-> [task[t] EXCEPT !.age = IF @ = MaxAge THEN @ ELSE @ + 1]]
  /\ UNCHANGED <<stop, watchdog, kills, cut>>

Handle(w) ==
  \/ SetKey(w) \/ AddToAll(w) \/ (\E n \in Tags : AddToTag(w, n)) \/ Saved(w)
  \/ UpdateTask(w) \/ UpdateFails(w) \/ SaveFails(w)

Reporting(w) == LoseReport(w) \/ \E tags \in TagSets : Report(w, tags)
Registering(w) == \E tags \in TagSets, timeout \in Timeouts : Register(w, tags, timeout)

Next ==
  \/ \E w \in Workers, t \in Tasks : Start(w, t)
  \/ \E w \in Workers : End(w) \/ Ping(w) \/ Die(w) \/ Return(w)
  \/ \E w \in Workers : Registering(w) \/ Reporting(w) \/ Handle(w) \/ Unregister(w)
  \/ \E n \in SortedSets : Purge(n)
  \/ \E t \in Tasks, development \in BOOLEAN : Stop(t, development)
  \/ \E t \in Tasks : Enqueue(t) \/ WriteStop(t) \/ StopSilent(t)
  \/ Watch \/ Tick \/ Kill

Spec == Init /\ [][Next]_vars

(***************************************************************************)
(* Time passes; an agent reports while it is up, whatever else it asks     *)
(* for, and ends a task that is asked to stop; the server handles what it  *)
(* has begun; the watchdog's thread runs for ever.                         *)
(***************************************************************************)
Obey(w) == agent[w].task # None /\ task[agent[w].task].stopping /\ End(w)

FairSpec ==
  /\ Spec
  /\ SF_vars(Tick)
  /\ \A w \in Workers :
       SF_vars(Reporting(w)) /\ SF_vars(Obey(w)) /\ WF_vars(Handle(w))
  /\ WF_vars(Watch) /\ \A t \in Tasks : WF_vars(StopSilent(t))

(* The types of the state: in particular, a key that expires is gone.      *)
TypeOK ==
  /\ agent \in [Workers -> Agents]
  /\ registered \in [Workers -> Entries \cup {None}]
  /\ listed \in [SortedSets -> [Workers -> Nat \cup {None}]]
  /\ second \in 0..Second - 1
  /\ task \in [Tasks -> TaskDocs]
  /\ report \in [Workers -> Reports]
  /\ stop \in [Tasks -> {None, "stopped", "in_progress"}]
  /\ watchdog \subseteq Tasks
  /\ kills \in 0..MaxKills
  /\ cut \subseteq Workers

(* Whoever looks for workers by a tag finds every worker that is           *)
(* registered with it for at least a second more: what is saved step by    *)
(* step, by requests that overlap with unregister and with looks that      *)
(* remove members, stays listed nearly as long as its key lives, unless a  *)
(* kill or a failing write came between.                                   *)
TagsFindWorkers ==
  \A w \in Workers \ cut :
    registered[w] # None /\ ~Saving(w) /\ registered[w].left >= Second =>
      \A n \in registered[w].tags \cup {"all"} : w \in Found(n)

(* The watchdog takes the task of an agent that is up for silent only      *)
(* after so many failed reports in a row that the threshold is not enough  *)
(* for them and one interval more: an agent whose reports update its task  *)
(* keeps the task out of every pass that begins.                           *)
ReportedTaskIsNotSilent ==
  \A w \in Workers, t \in Tasks :
    agent[w].task = t /\ IsSilent(t) => (agent[w].failed + 1) * Interval > threshold

(* A task in progress that nobody updates any more is stopped.             *)
SilentTaskIsStopped ==
  \A t \in Tasks :
    task[t].status = "in_progress" ~> (task[t].status # "in_progress" \/ task[t].age = 0)

(* A task that is asked to stop does: its worker obeys, or has died and    *)
(* the watchdog stops it.                                                  *)
StopIsHonoured ==
  \A t \in Tasks :
    (task[t].status = "in_progress" /\ task[t].stopping) ~> (task[t].status # "in_progress")
===============================================================================
