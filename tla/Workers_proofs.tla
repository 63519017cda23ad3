----------------------------- MODULE Workers_proofs -----------------------------
(***************************************************************************)
(* Proofs about the workers registry: for any number of workers, tasks and *)
(* tags and any times to live, the types hold, a look for workers by a tag *)
(* finds those that are registered with it, and the watchdog takes no task *)
(* for silent that its agent keeps updating.                               *)
(***************************************************************************)
EXTENDS Workers, TLAPS

(* The action that is taken, without the frames of the others.             *)
AgentStep ==
  \E w \in Workers :
    \/ \E t \in Tasks : Start(w, t)
    \/ End(w) \/ Ping(w) \/ Die(w) \/ Return(w) \/ LoseReport(w)
TaskStep ==
  \/ Watch
  \/ \E t \in Tasks : Enqueue(t) \/ WriteStop(t) \/ StopSilent(t)
  \/ \E t \in Tasks, development \in BOOLEAN : Stop(t, development)
RequestStep ==
  \E w \in Workers :
    \/ Handle(w) \/ Unregister(w) \/ Registering(w)
    \/ \E tags \in SUBSET Tags : Report(w, tags)
PurgeStep == \E n \in SortedSets : Purge(n)

LEMMA NextSteps == Next => AgentStep \/ TaskStep \/ RequestStep \/ PurgeStep \/ Tick \/ Kill
  BY WorkersAssumption DEF Next, AgentStep, TaskStep, RequestStep, PurgeStep, Reporting

LEMMA Constants ==
  /\ Second \in Nat /\ Second > 0 /\ threshold \in Nat /\ threshold > 0
  /\ Interval \in Nat /\ Interval > 0 /\ MaxKills \in Nat
  /\ MaxAge \in Nat /\ MaxAge > threshold
  /\ None \notin Nat /\ None \notin Tasks
  /\ Timeouts \subseteq Nat \ {0} /\ default_worker_timeout \in Timeouts
  BY WorkersAssumption, TimeoutsAssumption DEF MaxAge

(***************************************************************************)
(* Types.                                                                  *)
(***************************************************************************)
LEMMA NoReportType == NoReport \in Reports
  BY Constants DEF NoReport, Reports, Steps

LEMMA InitTypes == Init => TypeOK
  BY Constants, NoReportType DEF Init, TypeOK, Agents, TaskDocs, Statuses

(* A change of status.                                                     *)
LEMMA DocTypes ==
  ASSUME NEW doc \in TaskDocs, NEW status \in Statuses, NEW stopping \in BOOLEAN
  PROVE  /\ [doc EXCEPT !.status = status] \in TaskDocs
         /\ [doc EXCEPT !.age = 0] \in TaskDocs
         /\ [doc EXCEPT !.stopping = stopping] \in TaskDocs
  BY Constants DEF TaskDocs

LEMMA ChangedTypes ==
  ASSUME TypeOK, NEW t, NEW status \in Statuses, NEW stopping \in BOOLEAN,
         Changed(t, status, stopping)
  PROVE  task' \in [Tasks -> TaskDocs]
<1> DEFINE doc1 == [task[t] EXCEPT !.status = status]
           doc2 == [doc1 EXCEPT !.age = 0]
           doc3 == [doc2 EXCEPT !.stopping = stopping]
<1>1. task' = [task EXCEPT ![t] = doc3]
  BY DEF Changed
<1>2. ASSUME t \in Tasks
      PROVE  doc3 \in TaskDocs
  <2>1. doc1 \in TaskDocs
    BY <1>2, DocTypes DEF TypeOK
  <2> HIDE DEF doc1
  <2>2. doc2 \in TaskDocs
    BY <2>1, DocTypes
  <2> HIDE DEF doc2
  <2> QED
    BY <2>2, DocTypes
<1> HIDE DEF doc3
<1> QED
  BY <1>1, <1>2 DEF TypeOK

LEMMA FailedType ==
  ASSUME NEW failed \in 0..threshold
  PROVE  OneMore(failed) \in 0..threshold
  BY Constants DEF OneMore

(* One field of an agent's record after the other.                         *)
LEMMA AgentFields ==
  ASSUME NEW a \in Agents, NEW t \in Tasks \cup {None}, NEW since \in 0..Interval,
         NEW failed \in 0..threshold, NEW up \in BOOLEAN
  PROVE  /\ [a EXCEPT !.task = t] \in Agents /\ [a EXCEPT !.since = since] \in Agents
         /\ [a EXCEPT !.failed = failed] \in Agents /\ [a EXCEPT !.up = up] \in Agents
         /\ [a EXCEPT !.task = t, !.failed = failed] \in Agents
         /\ [a EXCEPT !.since = since, !.failed = failed] \in Agents
  BY DEF Agents

LEMMA AgentTypes == TypeOK /\ AgentStep => TypeOK'
<1> SUFFICES ASSUME TypeOK, NEW w \in Workers,
                    \/ \E t \in Tasks : Start(w, t)
                    \/ End(w) \/ Ping(w) \/ Die(w) \/ Return(w) \/ LoseReport(w)
             PROVE  TypeOK'
  BY DEF AgentStep
<1>0. agent[w] \in Agents /\ agent[w].failed \in 0..threshold /\ 0 \in 0..threshold
      /\ agent[w].task \in Tasks \cup {None} /\ 0 \in 0..Interval
  BY Constants DEF TypeOK, Agents
<1>1. CASE \E t \in Tasks : Start(w, t)
  <2> PICK t \in Tasks : Start(w, t)
    BY <1>1
  <2>1. task' \in [Tasks -> TaskDocs]
    BY ChangedTypes DEF Start, Statuses
  <2>2. agent' = [agent EXCEPT ![w] = [agent[w] EXCEPT !.task = t, !.failed = 0]]
    BY <1>0 DEF Start, TypeOK
  <2>3. agent' \in [Workers -> Agents]
    BY <1>0, <2>2, AgentFields DEF TypeOK
  <2> QED
    BY <2>1, <2>3 DEF Start, TypeOK, redis
<1>2. CASE End(w)
  <2>1. task' \in [Tasks -> TaskDocs]
    BY <1>2, ChangedTypes DEF End, Statuses, TypeOK
  <2>2. agent' \in [Workers -> Agents]
    BY <1>0, <1>2, AgentFields DEF End, TypeOK
  <2> QED
    BY <1>2, <2>1, <2>2 DEF End, TypeOK, redis
<1>3. CASE Ping(w)
  <2>1. task' \in [Tasks -> TaskDocs]
    BY <1>0, <1>3, Constants DEF Ping, TypeOK, TaskDocs
  <2> QED
    BY <1>3, <2>1 DEF Ping, TypeOK, redis
<1>4. CASE Die(w)
  <2>1. agent' \in [Workers -> Agents]
    BY <1>4, Constants DEF Die, TypeOK, Agents
  <2> QED
    BY <1>4, <2>1 DEF Die, TypeOK, redis
<1>5. CASE Return(w)
  <2>1. agent' \in [Workers -> Agents]
    BY <1>0, <1>5, AgentFields DEF Return, TypeOK
  <2> QED
    BY <1>5, <2>1 DEF Return, TypeOK, redis
<1>6. CASE LoseReport(w)
  <2>1. agent' =
          [agent EXCEPT ![w] = [agent[w] EXCEPT !.since = 0, !.failed = OneMore(agent[w].failed)]]
    BY <1>0, <1>6 DEF LoseReport, TypeOK, Agents
  <2>2. agent' \in [Workers -> Agents]
    BY <1>0, <2>1, AgentFields, FailedType DEF TypeOK
  <2> QED
    BY <1>6, <2>2 DEF LoseReport, TypeOK, redis
<1> QED
  BY <1>1, <1>2, <1>3, <1>4, <1>5, <1>6

LEMMA TaskTypes == TypeOK /\ TaskStep => TypeOK'
<1> SUFFICES ASSUME TypeOK, TaskStep
             PROVE  TypeOK'
  OBVIOUS
<1>1. CASE Watch
  BY <1>1 DEF Watch, TypeOK, redis
<1>2. ASSUME NEW t \in Tasks, Enqueue(t)
      PROVE  TypeOK'
  BY <1>2, ChangedTypes DEF Enqueue, Statuses, TypeOK, redis
<1>3. ASSUME NEW t \in Tasks, NEW development \in BOOLEAN, Stop(t, development)
      PROVE  TypeOK'
  BY <1>3 DEF Stop, TypeOK, redis
<1>4. ASSUME NEW t \in Tasks, WriteStop(t)
      PROVE  TypeOK'
  <2>1. stop[t] \in Statuses /\ stop' \in [Tasks -> {None, "stopped", "in_progress"}]
    BY <1>4 DEF WriteStop, TypeOK, Statuses
  <2>2. task' \in [Tasks -> TaskDocs]
    BY <1>4, <2>1, ChangedTypes DEF WriteStop, TypeOK
  <2> QED
    BY <1>4, <2>1, <2>2 DEF WriteStop, TypeOK, redis
<1>5. ASSUME NEW t \in Tasks, StopSilent(t)
      PROVE  TypeOK'
  BY <1>5, ChangedTypes DEF StopSilent, Statuses, TypeOK, redis
<1> QED
  BY <1>1, <1>2, <1>3, <1>4, <1>5 DEF TaskStep

(* The fields of a request that its steps change.                          *)
LEMMA ReportFields ==
  ASSUME NEW r \in Reports, NEW pc \in Steps, NEW todo \in SUBSET SortedSets, NEW score \in Nat
  PROVE  /\ [r EXCEPT !.pc = pc] \in Reports
         /\ [r EXCEPT !.pc = pc, !.todo = todo] \in Reports
         /\ [r EXCEPT !.todo = todo] \in Reports /\ [r EXCEPT !.score = score] \in Reports
         /\ [r EXCEPT !.todo = todo, !.score = score] \in Reports
  BY DEF Reports

LEMMA EntryTagsType ==
  ASSUME TypeOK, NEW w \in Workers
  PROVE  EntryTags(w) \subseteq Tags
  BY DEF EntryTags, TypeOK, Reports

(* A second is never longer than a timeout.                                *)
LEMMA ExpiresInType ==
  ASSUME TypeOK, NEW w \in Workers
  PROVE  ExpiresIn(w) \in Nat /\ report[w].timeout \in Nat
         /\ ExpiresIn(w) + second = report[w].timeout
<1>1. second \in 0..Second - 1 /\ report[w].timeout \in Timeouts
  BY DEF TypeOK, Reports
<1>2. report[w].timeout \in Nat \ {0}
  BY <1>1, Constants, Zenon
<1>3. report[w].timeout % Second = 0
  BY <1>1, TimeoutsAssumption, Zenon
<1>4. report[w].timeout >= Second
  BY <1>2, <1>3, Constants
<1> QED
  BY <1>1, <1>2, <1>4, Constants DEF ExpiresIn

LEMMA ZaddTypes ==
  ASSUME TypeOK, NEW w \in Workers, NEW n \in SortedSets, NEW score \in Nat, Zadd(n, w, score)
  PROVE  listed' \in [SortedSets -> [Workers -> Nat \cup {None}]]
<1>1. [listed[n] EXCEPT ![w] = score] \in [Workers -> Nat \cup {None}]
  BY DEF TypeOK
<1> QED
  BY <1>1 DEF Zadd, TypeOK

LEMMA NotUpdatedTypes ==
  ASSUME TypeOK, NEW w \in Workers, NotUpdated(w)
  PROVE  agent' \in [Workers -> Agents]
<1>1. agent[w] \in Agents /\ agent[w].failed \in 0..threshold
  BY DEF TypeOK, Agents
<1> DEFINE failed == IF Unhandled(w) THEN OneMore(agent[w].failed) ELSE agent[w].failed
<1>2. failed \in 0..threshold
  BY <1>1, FailedType
<1>3. agent' = [agent EXCEPT ![w] = [agent[w] EXCEPT !.failed = failed]]
  BY <1>1 DEF NotUpdated, Agents
<1> HIDE DEF failed
<1>4. [agent[w] EXCEPT !.failed = failed] \in Agents
  BY <1>1, <1>2 DEF Agents
<1> QED
  BY <1>3, <1>4 DEF TypeOK

LEMMA UpdatedTypes ==
  ASSUME TypeOK, NEW w \in Workers, UpdateTask(w)
  PROVE  task' \in [Tasks -> TaskDocs]
<1>1. ASSUME NEW t \in Tasks
      PROVE  [task[t] EXCEPT !.age = 0, !.last_worker = TRUE] \in TaskDocs
  <2>1. task[t] \in TaskDocs /\ 0 \in 0..MaxAge
    BY Constants DEF TypeOK
  <2> QED
    BY <2>1 DEF TaskDocs
<1>2. CASE report[w].task = None
  BY <1>2 DEF UpdateTask, TypeOK
<1>3. CASE report[w].task # None
  <2>1. report[w].task \in Tasks
    BY <1>3 DEF TypeOK, Reports
  <2>2. task' = [task EXCEPT ![report[w].task] =
                   [task[report[w].task] EXCEPT !.age = 0, !.last_worker = TRUE]]
    BY <1>3, <2>1 DEF UpdateTask, Updated, TypeOK, TaskDocs
  <2> QED
    BY <1>1, <2>1, <2>2 DEF TypeOK
<1> QED
  BY <1>2, <1>3

LEMMA HandlerTypes ==
  ASSUME TypeOK, NEW w \in Workers, Handle(w)
  PROVE  TypeOK'
<1> DEFINE r == report[w]
<1>0. r \in Reports /\ r.todo \subseteq SortedSets /\ r.timeout \in Timeouts /\ r.score \in Nat
      /\ agent[w] \in Agents
  BY DEF TypeOK, Reports
<1>1. CASE SetKey(w)
  <2> DEFINE entry == [left |-> r.timeout, tags |-> EntryTags(w), timeout |-> r.timeout]
             pc == IF r.pc = "register" THEN "register_sets" ELSE "save_sets"
  <2>1. entry \in Entries
    BY <1>0, EntryTagsType, Constants DEF Entries
  <2>2. registered' = [registered EXCEPT ![w] = entry]
    BY <1>1 DEF SetKey
  <2>3. registered' \in [Workers -> Entries \cup {None}]
    BY <2>1, <2>2 DEF TypeOK
  <2>4. pc \in Steps /\ EntryTags(w) \cup {"all"} \in SUBSET SortedSets
    BY EntryTagsType DEF Steps, SortedSets
  <2>5. report' = [report EXCEPT ![w] = [r EXCEPT !.pc = pc, !.todo = EntryTags(w) \cup {"all"}]]
    BY <1>0, <1>1 DEF SetKey, TypeOK, Reports
  <2>6. report' \in [Workers -> Reports]
    BY <1>0, <2>4, <2>5, ReportFields DEF TypeOK
  <2> QED
    BY <1>1, <2>3, <2>6 DEF SetKey, TypeOK
<1>2. CASE AddToAll(w)
  <2>1. "all" \in SortedSets /\ ExpiresIn(w) \in Nat
    BY ExpiresInType DEF SortedSets
  <2>2. listed' \in [SortedSets -> [Workers -> Nat \cup {None}]]
    BY <1>2, <2>1, ZaddTypes DEF AddToAll
  <2>3. report' =
          [report EXCEPT ![w] = [r EXCEPT !.todo = r.todo \ {"all"}, !.score = ExpiresIn(w)]]
    BY <1>0, <1>2 DEF AddToAll, TypeOK, Reports
  <2>4. r.todo \ {"all"} \in SUBSET SortedSets /\ r.pc \in Steps
    BY <1>0 DEF Reports
  <2>5. report' \in [Workers -> Reports]
    BY <1>0, <2>1, <2>3, <2>4, ReportFields DEF TypeOK
  <2> QED
    BY <1>2, <2>2, <2>5 DEF AddToAll, TypeOK
<1>3. ASSUME NEW n \in Tags, AddToTag(w, n)
      PROVE  TypeOK'
  <2>1. listed' \in [SortedSets -> [Workers -> Nat \cup {None}]]
    BY <1>0, <1>3, ZaddTypes DEF AddToTag, SortedSets
  <2>2. report' = [report EXCEPT ![w] = [r EXCEPT !.todo = r.todo \ {n}]]
    BY <1>0, <1>3 DEF AddToTag, TypeOK, Reports
  <2>3. r.todo \ {n} \in SUBSET SortedSets /\ r.pc \in Steps /\ 0 \in Nat
    BY <1>0 DEF Reports
  <2>4. report' \in [Workers -> Reports]
    BY <1>0, <2>2, <2>3, ReportFields DEF TypeOK
  <2> QED
    BY <1>3, <2>1, <2>4 DEF AddToTag, TypeOK
<1>4. CASE Saved(w)
  <2>1. [r EXCEPT !.pc = "task"] \in Reports
    BY <1>0 DEF Reports, Steps
  <2>2. report' \in [Workers -> Reports]
    BY <1>4, <2>1, NoReportType DEF Saved, TypeOK
  <2> QED
    BY <1>4, <2>2 DEF Saved, TypeOK, redis
<1>5. CASE UpdateTask(w) \/ UpdateFails(w)
  <2>1. [r EXCEPT !.pc = "save"] \in Reports
    BY <1>0 DEF Reports, Steps
  <2>2. report' \in [Workers -> Reports]
    BY <1>5, <2>1 DEF UpdateTask, UpdateFails, TypeOK
  <2>3. task' \in [Tasks -> TaskDocs]
    BY <1>5, UpdatedTypes DEF UpdateFails, TypeOK
  <2>4. [agent[w] EXCEPT !.failed = 0] \in Agents
    BY <1>0, Constants DEF Agents
  <2>5. agent' \in [Workers -> Agents]
    BY <1>5, <2>4, NotUpdatedTypes DEF UpdateTask, UpdateFails, TypeOK
  <2> QED
    BY <1>5, <2>2, <2>3, <2>5 DEF UpdateTask, UpdateFails, TypeOK, redis
<1>6. CASE SaveFails(w)
  <2>1. agent' \in [Workers -> Agents]
    BY <1>6, NotUpdatedTypes DEF SaveFails
  <2> QED
    BY <1>6, <2>1, NoReportType DEF SaveFails, TypeOK, redis
<1> QED
  BY <1>1, <1>2, <1>3, <1>4, <1>5, <1>6 DEF Handle

LEMMA RequestTypes == TypeOK /\ RequestStep => TypeOK'
<1> SUFFICES ASSUME TypeOK, NEW w \in Workers,
                    \/ Handle(w) \/ Unregister(w) \/ Registering(w)
                    \/ \E tags \in SUBSET Tags : Report(w, tags)
             PROVE  TypeOK'
  BY DEF RequestStep
<1>1. CASE Unregister(w)
  BY <1>1 DEF Unregister, TypeOK
<1>2. ASSUME NEW tags \in SUBSET Tags, NEW timeout \in Timeouts, Register(w, tags, timeout)
      PROVE  TypeOK'
  <2>1. [NoReport EXCEPT !.pc = "register", !.tags = tags, !.timeout = timeout] \in Reports
    BY NoReportType DEF Reports, Steps
  <2> QED
    BY <1>2, <2>1 DEF Register, TypeOK, redis
<1>3. ASSUME NEW tags \in SUBSET Tags, Report(w, tags)
      PROVE  TypeOK'
  <2> DEFINE timeout == IF registered[w] = None THEN default_worker_timeout
                        ELSE registered[w].timeout
             r == [pc |-> IF registered[w] = None THEN "register" ELSE "task", reports |-> TRUE,
                   task |-> agent[w].task, tags |-> tags, timeout |-> timeout,
                   todo |-> {}, score |-> 0]
  <2>1. agent[w] \in Agents /\ 0 \in 0..Interval
    BY Constants DEF TypeOK
  <2>2. timeout \in Timeouts
    BY Constants DEF TypeOK, Entries
  <2>3. report' = [report EXCEPT ![w] = r]
    BY <1>3 DEF Report
  <2> HIDE DEF timeout
  <2>4. r \in Reports
    BY <2>1, <2>2 DEF Agents, Reports, Steps
  <2>5. agent' \in [Workers -> Agents]
    BY <1>3, <2>1 DEF Report, TypeOK, Agents
  <2>6. report' \in [Workers -> Reports]
    BY <2>3, <2>4 DEF TypeOK
  <2> QED
    BY <1>3, <2>5, <2>6 DEF Report, TypeOK, redis
<1> QED
  BY <1>1, <1>2, <1>3, HandlerTypes, WorkersAssumption DEF Registering

LEMMA PurgeTypes == TypeOK /\ PurgeStep => TypeOK'
<1> SUFFICES ASSUME TypeOK, NEW n \in SortedSets, Purge(n)
             PROVE  TypeOK'
  BY DEF PurgeStep
<1>1. [w \in Workers |-> IF listed[n][w] = 0 THEN None ELSE listed[n][w]]
        \in [Workers -> Nat \cup {None}]
  BY DEF TypeOK
<1>2. listed' \in [SortedSets -> [Workers -> Nat \cup {None}]]
  BY <1>1 DEF Purge, TypeOK
<1> QED
  BY <1>2 DEF Purge, TypeOK

LEMMA SoonerNat ==
  ASSUME NEW n \in Nat
  PROVE  Sooner(n) \in Nat /\ n <= Sooner(n) + 1
  BY Constants DEF Sooner

LEMMA SoonerType ==
  ASSUME NEW n \in Nat \cup {None}
  PROVE  Sooner(n) \in Nat \cup {None} /\ (n = None => Sooner(n) = None)
  BY Constants DEF Sooner

LEMMA AgedType ==
  ASSUME NEW entry \in Entries \cup {None}
  PROVE  /\ Aged(entry) \in Entries \cup {None}
         /\ Aged(entry) # None =>
              /\ entry # None /\ entry.left > 1
              /\ Aged(entry).left = entry.left - 1 /\ Aged(entry).tags = entry.tags
  BY Constants, NoneIsNoEntry DEF Aged, Entries

LEMMA TickTypes == TypeOK /\ Tick => TypeOK'
<1> SUFFICES ASSUME TypeOK, Tick
             PROVE  TypeOK'
  OBVIOUS
<1>1. agent' \in [Workers -> Agents]
  <2>1. ASSUME NEW w \in Workers
        PROVE  [agent[w] EXCEPT !.since = IF agent[w].up THEN @ + 1 ELSE @] \in Agents
    <3>1. agent[w] \in Agents /\ (agent[w].up => agent[w].since < Interval)
      BY DEF TypeOK, Tick
    <3> QED
      BY <3>1, Constants DEF Agents
  <2> QED
    BY <2>1 DEF Tick
<1>2. registered' \in [Workers -> Entries \cup {None}]
  BY AgedType DEF Tick, TypeOK
<1>3. listed' \in [SortedSets -> [Workers -> Nat \cup {None}]]
  BY SoonerType DEF Tick, TypeOK
<1>4. task' \in [Tasks -> TaskDocs]
  <2>1. ASSUME NEW t \in Tasks
        PROVE  [task[t] EXCEPT !.age = IF @ = MaxAge THEN @ ELSE @ + 1] \in TaskDocs
    <3>1. task[t] \in TaskDocs
      BY DEF TypeOK
    <3> QED
      BY <3>1, Constants DEF TaskDocs
  <2> QED
    BY <2>1 DEF Tick
<1>5. report' \in [Workers -> Reports]
  <2>1. ASSUME NEW w \in Workers
        PROVE  [report[w] EXCEPT !.score = Sooner(@)] \in Reports
    <3>1. report[w] \in Reports /\ Sooner(report[w].score) \in Nat
      BY SoonerNat DEF TypeOK, Reports
    <3> QED
      BY <3>1 DEF Reports
  <2> QED
    BY <2>1 DEF Tick
<1>6. second' \in 0..Second - 1
  <2>1. second \in Nat
    BY Constants DEF TypeOK
  <2> QED
    BY <2>1, Constants DEF Tick
<1> QED
  BY <1>1, <1>2, <1>3, <1>4, <1>5, <1>6 DEF Tick, TypeOK

LEMMA KillTypes == TypeOK /\ Kill => TypeOK'
<1> SUFFICES ASSUME TypeOK, Kill
             PROVE  TypeOK'
  OBVIOUS
<1>1. agent' \in [Workers -> Agents]
  <2>1. ASSUME NEW w \in Workers
        PROVE  [agent[w] EXCEPT !.failed = IF Unhandled(w) THEN OneMore(@) ELSE @] \in Agents
    <3>1. agent[w] \in Agents /\ OneMore(agent[w].failed) \in 0..threshold
      BY FailedType DEF TypeOK, Agents
    <3> QED
      BY <3>1 DEF Agents
  <2> QED
    BY <2>1 DEF Kill
<1>2. kills' \in 0..MaxKills
  BY Constants DEF Kill, TypeOK
<1>3. stop' \in [Tasks -> {None, "stopped", "in_progress"}]
  BY DEF Kill
<1> QED
  BY <1>1, <1>2, <1>3, NoReportType DEF Kill, TypeOK, redis

(* Every step keeps the types of the state.                                *)
LEMMA NextTypes == TypeOK /\ [Next]_vars => TypeOK'
<1>1. TypeOK /\ UNCHANGED vars => TypeOK'
  BY DEF vars, TypeOK
<1> QED
  BY <1>1, NextSteps, AgentTypes, TaskTypes, RequestTypes, PurgeTypes, TickTypes, KillTypes

(* Agents, registrations, sorted sets, tasks, the requests in progress and *)
(* the watchdog's pass keep their types.                                   *)
THEOREM TypeCorrect == Spec => []TypeOK
  BY InitTypes, NextTypes, PTL DEF Spec

(***************************************************************************)
(* Registrations and the sets they are found by.  A worker's score in a    *)
(* set is at most a second sooner than its key expires: the time is cut to *)
(* whole seconds after the key was written.  A registration is complete    *)
(* before and after its entry is saved; in between, the request knows its  *)
(* tags and what is still to be written.                                   *)
(***************************************************************************)
Lasts(n, w) ==
  registered[w].left < IF listed[n][w] = None THEN Second ELSE listed[n][w] + Second

Complete(w) == registered[w] # None => \A n \in registered[w].tags \cup {"all"} : Lasts(n, w)

HalfSaved(w) ==
  LET r == report[w]  key == registered[w] IN
  key # None =>
    /\ key.tags = EntryTags(w)
    /\ \A n \in key.tags \cup {"all"} : n \notin r.todo => Lasts(n, w)
    /\ key.left <= r.timeout
    /\ "all" \notin r.todo => key.left < r.score + Second

SaveOK(w) == IF Saving(w) THEN HalfSaved(w) ELSE w \notin cut => Complete(w)

SInv == TypeOK /\ \A w \in Workers : SaveOK(w)

LEMMA InitSaved == Init => SInv
  BY InitTypes DEF Init, SInv, SaveOK, Saving, Complete, NoReport

(* What is known of a worker that is registered.                           *)
LEMMA KeyTypes ==
  ASSUME TypeOK, NEW w \in Workers, registered[w] # None
  PROVE  /\ registered[w].left \in Nat /\ registered[w].left > 0
         /\ registered[w].tags \subseteq Tags
         /\ registered[w].tags \cup {"all"} \subseteq SortedSets
<1>1. registered[w] \in Entries
  BY DEF TypeOK
<1> QED
  BY <1>1 DEF Entries, SortedSets

LEMMA ScoreTypes ==
  ASSUME TypeOK, NEW w \in Workers
  PROVE  /\ report[w] \in Reports /\ report[w].score \in Nat /\ report[w].timeout \in Nat
         /\ \A n \in SortedSets : listed[n][w] \in Nat \cup {None}
<1>1. report[w] \in Reports
  BY DEF TypeOK
<1>2. report[w].score \in Nat /\ report[w].timeout \in Timeouts
  BY <1>1 DEF Reports
<1>3. \A n \in SortedSets : listed[n][w] \in Nat \cup {None}
  BY DEF TypeOK
<1> QED
  BY <1>1, <1>2, <1>3, Constants

(* A step that leaves a worker's key, scores and tags alone.               *)
LEMMA CompleteFrame ==
  ASSUME TypeOK, NEW v \in Workers, Complete(v), registered'[v] = registered[v],
         \A n \in SortedSets : listed'[n][v] = listed[n][v]
  PROVE  Complete(v)'
  BY KeyTypes DEF Complete, Lasts

LEMMA SaveFrame ==
  ASSUME TypeOK, NEW v \in Workers, SaveOK(v),
         registered'[v] = registered[v], report'[v] = report[v], v \in cut' <=> v \in cut,
         \A n \in SortedSets : listed'[n][v] = listed[n][v]
  PROVE  SaveOK(v)'
<1>1. Complete(v) => Complete(v)'
  BY CompleteFrame
<1>2. Saving(v)' <=> Saving(v)
  BY DEF Saving
<1>3. EntryTags(v)' = EntryTags(v)
  BY DEF EntryTags
<1>4. HalfSaved(v) => HalfSaved(v)'
  BY <1>3, KeyTypes DEF HalfSaved, Lasts
<1> QED
  BY <1>1, <1>2, <1>4 DEF SaveOK

(* A member is added to one set, with one score.                           *)
LEMMA ZaddIs ==
  ASSUME TypeOK, NEW w \in Workers, NEW n \in SortedSets, NEW score \in Nat, Zadd(n, w, score)
  PROVE  /\ listed'[n][w] = score
         /\ \A m \in SortedSets \ {n} : listed'[m] = listed[m]
         /\ \A v \in Workers \ {w}, m \in SortedSets : listed'[m][v] = listed[m][v]
  BY DEF Zadd, TypeOK

LEMMA HandlerSaves ==
  ASSUME SInv, NEW w \in Workers, Handle(w)
  PROVE  SaveOK(w)'
<1> DEFINE r == report[w]
<1>0. /\ TypeOK /\ r \in Reports /\ SaveOK(w)
      /\ r.score \in Nat /\ r.timeout \in Nat /\ r.todo \subseteq SortedSets
  BY ScoreTypes DEF SInv, Reports
<1>1. CASE SetKey(w)
  <2>1. /\ report'[w].pc = IF r.pc = "register" THEN "register_sets" ELSE "save_sets"
        /\ report'[w].todo = EntryTags(w) \cup {"all"}
        /\ report'[w].timeout = r.timeout /\ report'[w].tags = r.tags
        /\ report'[w].reports = r.reports
    BY <1>0, <1>1 DEF SetKey, TypeOK, Reports
  <2>2. registered'[w].left = r.timeout /\ registered'[w].tags = EntryTags(w)
    BY <1>0, <1>1 DEF SetKey, TypeOK
  <2>3. Saving(w)' /\ EntryTags(w)' = EntryTags(w)
    <3>1. r.pc = "register" \/ r.pc = "save"
      BY <1>1 DEF SetKey
    <3>2. CASE r.pc = "register"
      BY <2>1, <3>2 DEF Saving, EntryTags
    <3>3. CASE r.pc = "save"
      BY <2>1, <3>3 DEF Saving, EntryTags
    <3> QED
      BY <3>1, <3>2, <3>3
  <2> QED
    BY <1>0, <2>1, <2>2, <2>3 DEF SaveOK, HalfSaved
<1>2. CASE AddToAll(w)
  <2>1. /\ report'[w].pc = r.pc /\ report'[w].todo = r.todo \ {"all"}
        /\ report'[w].timeout = r.timeout /\ report'[w].tags = r.tags
        /\ report'[w].reports = r.reports /\ report'[w].score = ExpiresIn(w)
    BY <1>0, <1>2 DEF AddToAll, TypeOK, Reports
  <2>2. Saving(w) /\ Saving(w)' /\ EntryTags(w)' = EntryTags(w) /\ registered' = registered
    BY <1>2, <2>1 DEF Saving, EntryTags, AddToAll
  <2>3. "all" \in SortedSets /\ ExpiresIn(w) \in Nat /\ r.timeout < ExpiresIn(w) + Second
    BY <1>0, ExpiresInType, Constants DEF SortedSets, TypeOK
  <2>4. /\ listed'["all"][w] = ExpiresIn(w)
        /\ \A n \in SortedSets \ {"all"} : listed'[n] = listed[n]
    BY <1>0, <1>2, <2>3, ZaddIs DEF AddToAll
  <2>5. ASSUME registered[w] # None
        PROVE  /\ registered[w].tags = EntryTags(w) /\ registered[w].left <= r.timeout
               /\ registered[w].left < ExpiresIn(w) + Second
               /\ \A n \in registered[w].tags \cup {"all"} : n \notin r.todo => Lasts(n, w)
    BY <1>0, <2>2, <2>3, <2>5, KeyTypes, Constants DEF SaveOK, HalfSaved
  <2>6. ASSUME registered[w] # None, NEW n \in registered[w].tags \cup {"all"},
               n \notin r.todo \ {"all"}
        PROVE  Lasts(n, w)'
    <3>1. CASE n = "all"
      BY <2>2, <2>3, <2>4, <2>5, <2>6, <3>1, Constants DEF Lasts
    <3>2. CASE n # "all"
      <4>1. Lasts(n, w) /\ n \in SortedSets
        BY <1>0, <2>5, <2>6, <3>2, KeyTypes
      <4> QED
        BY <2>2, <2>4, <3>2, <4>1 DEF Lasts
    <3> QED
      BY <3>1, <3>2
  <2> QED
    BY <2>1, <2>2, <2>5, <2>6 DEF SaveOK, HalfSaved
<1>3. ASSUME NEW n \in Tags, AddToTag(w, n)
      PROVE  SaveOK(w)'
  <2>1. /\ report'[w].pc = r.pc /\ report'[w].todo = r.todo \ {n}
        /\ report'[w].timeout = r.timeout /\ report'[w].tags = r.tags
        /\ report'[w].reports = r.reports /\ report'[w].score = r.score
    BY <1>0, <1>3 DEF AddToTag, TypeOK, Reports
  <2>2. Saving(w) /\ Saving(w)' /\ EntryTags(w)' = EntryTags(w) /\ registered' = registered
        /\ "all" \notin r.todo
    BY <1>3, <2>1 DEF Saving, EntryTags, AddToTag
  <2>3. n \in SortedSets
    BY DEF SortedSets
  <2>4. /\ listed'[n][w] = r.score
        /\ \A m \in SortedSets \ {n} : listed'[m] = listed[m]
    BY <1>0, <1>3, <2>3, ZaddIs DEF AddToTag
  <2>5. ASSUME registered[w] # None
        PROVE  /\ registered[w].tags = EntryTags(w) /\ registered[w].left <= r.timeout
               /\ registered[w].left < r.score + Second
               /\ \A m \in registered[w].tags \cup {"all"} : m \notin r.todo => Lasts(m, w)
    BY <1>0, <2>2, <2>5 DEF SaveOK, HalfSaved
  <2>6. ASSUME registered[w] # None, NEW m \in registered[w].tags \cup {"all"},
               m \notin r.todo \ {n}
        PROVE  Lasts(m, w)'
    <3>1. CASE m = n
      BY <1>0, <2>2, <2>4, <2>5, <2>6, <3>1, Constants DEF Lasts
    <3>2. CASE m # n
      <4>1. Lasts(m, w) /\ m \in SortedSets
        BY <1>0, <2>5, <2>6, <3>2, KeyTypes
      <4> QED
        BY <2>2, <2>4, <3>2, <4>1 DEF Lasts
    <3> QED
      BY <3>1, <3>2
  <2> QED
    BY <2>1, <2>2, <2>5, <2>6 DEF SaveOK, HalfSaved
<1>4. CASE Saved(w)
  <2>1. Saving(w) /\ r.todo = {} /\ registered' = registered /\ listed' = listed
    BY <1>4 DEF Saved, redis
  <2>2. ~Saving(w)'
    BY <1>0, <1>4 DEF Saved, Saving, NoReport, TypeOK, Reports
  <2>3. Complete(w)
    BY <1>0, <2>1 DEF SaveOK, HalfSaved, Complete
  <2>4. Complete(w)'
    BY <1>0, <2>1, <2>3, CompleteFrame
  <2> QED
    BY <2>2, <2>4 DEF SaveOK
<1>5. CASE UpdateTask(w) \/ UpdateFails(w)
  <2>1. registered' = registered /\ listed' = listed /\ cut' = cut /\ ~Saving(w)
    BY <1>5 DEF UpdateTask, UpdateFails, redis, Saving
  <2>2. ~Saving(w)'
    BY <1>0, <1>5 DEF UpdateTask, UpdateFails, Saving, TypeOK, Reports
  <2>3. Complete(w) => Complete(w)'
    BY <1>0, <2>1, CompleteFrame
  <2> QED
    BY <1>0, <2>1, <2>2, <2>3 DEF SaveOK
<1>6. CASE SaveFails(w)
  <2>1. registered' = registered /\ listed' = listed
    BY <1>6 DEF SaveFails, redis
  <2>2. ~Saving(w)'
    BY <1>0, <1>6 DEF SaveFails, Saving, NoReport, TypeOK
  <2>3. Complete(w) => Complete(w)'
    BY <1>0, <2>1, CompleteFrame
  <2>4. w \notin cut' => ~Saving(w) /\ w \notin cut
    BY <1>6 DEF SaveFails
  <2> QED
    BY <1>0, <2>2, <2>3, <2>4 DEF SaveOK
<1> QED
  BY <1>1, <1>2, <1>3, <1>4, <1>5, <1>6 DEF Handle

LEMMA HandlerSpares ==
  ASSUME SInv, NEW w \in Workers, Handle(w), NEW v \in Workers \ {w}
  PROVE  SaveOK(v)'
<1>0. TypeOK /\ SaveOK(v)
  BY DEF SInv
<1>1. registered'[v] = registered[v]
  BY <1>0 DEF Handle, SetKey, AddToAll, AddToTag, Saved, UpdateTask, UpdateFails, SaveFails,
         TypeOK, redis
<1>2. report'[v] = report[v]
  BY <1>0 DEF Handle, SetKey, AddToAll, AddToTag, Saved, UpdateTask, UpdateFails, SaveFails, TypeOK
<1>3. v \in cut' <=> v \in cut
  BY DEF Handle, SetKey, AddToAll, AddToTag, Saved, UpdateTask, UpdateFails, SaveFails
<1>4. \A n \in SortedSets : listed'[n][v] = listed[n][v]
  <2>1. CASE AddToAll(w)
    <3>1. "all" \in SortedSets /\ ExpiresIn(w) \in Nat /\ Zadd("all", w, ExpiresIn(w))
      BY <1>0, <2>1, ExpiresInType DEF AddToAll, SortedSets
    <3> QED
      BY <1>0, <3>1, ZaddIs
  <2>2. ASSUME NEW n \in Tags, AddToTag(w, n)
        PROVE  \A m \in SortedSets : listed'[m][v] = listed[m][v]
    <3>1. n \in SortedSets /\ report[w].score \in Nat /\ Zadd(n, w, report[w].score)
      BY <1>0, <2>2, ScoreTypes DEF AddToTag, SortedSets
    <3> QED
      BY <1>0, <3>1, ZaddIs
  <2>3. CASE SetKey(w) \/ Saved(w) \/ UpdateTask(w) \/ UpdateFails(w) \/ SaveFails(w)
    BY <2>3 DEF SetKey, Saved, UpdateTask, UpdateFails, SaveFails, redis
  <2> QED
    BY <2>1, <2>2, <2>3 DEF Handle
<1> QED
  BY <1>0, <1>1, <1>2, <1>3, <1>4, SaveFrame

(* A worker that asks for something, or that is unregistered.              *)
LEMMA RequestSaves == SInv /\ RequestStep => \A v \in Workers : SaveOK(v)'
<1> SUFFICES ASSUME SInv, NEW w \in Workers,
                    \/ Handle(w) \/ Unregister(w) \/ Registering(w)
                    \/ \E tags \in SUBSET Tags : Report(w, tags),
                    NEW v \in Workers
             PROVE  SaveOK(v)'
  BY DEF RequestStep
<1>0. TypeOK /\ SaveOK(v)
  BY DEF SInv
<1>1. CASE Unregister(w)
  <2>0. report' = report /\ listed' = listed /\ cut' = cut
    BY <1>1 DEF Unregister
  <2>1. CASE v = w
    <3>1. registered'[v] = None
      BY <1>0, <1>1, <2>1 DEF Unregister, TypeOK
    <3> QED
      BY <3>1 DEF SaveOK, HalfSaved, Complete
  <2>2. CASE v # w
    <3>1. registered'[v] = registered[v]
      BY <1>0, <1>1, <2>2 DEF Unregister, TypeOK
    <3> QED
      BY <1>0, <2>0, <3>1, SaveFrame
  <2> QED
    BY <2>1, <2>2
<1>2. CASE Registering(w) \/ \E tags \in SUBSET Tags : Report(w, tags)
  <2>0. registered' = registered /\ listed' = listed /\ cut' = cut
    BY <1>2 DEF Registering, Register, Report, redis
  <2>1. CASE v = w
    <3>0. report[w] = NoReport
      BY <1>2 DEF Registering, Register, Report, Busy
    <3>1. ~Saving(v)
      BY <2>1, <3>0 DEF Saving, NoReport
    <3>2. report'[w].pc \in {"register", "task"}
      <4>1. ASSUME NEW tags \in SUBSET Tags, NEW timeout \in Timeouts, Register(w, tags, timeout)
            PROVE  report'[w].pc = "register"
        BY <1>0, <4>1 DEF Register, NoReport, TypeOK
      <4>2. ASSUME NEW tags \in SUBSET Tags, Report(w, tags)
            PROVE  report'[w].pc \in {"register", "task"}
        BY <1>0, <4>2 DEF Report, TypeOK
      <4> QED
        BY <1>2, <4>1, <4>2, WorkersAssumption DEF Registering
    <3>4. ~Saving(v)'
      BY <2>1, <3>2 DEF Saving
    <3>3. Complete(v) => Complete(v)'
      BY <1>0, <2>0, CompleteFrame
    <3> QED
      BY <1>0, <2>0, <3>1, <3>3, <3>4 DEF SaveOK
  <2>2. CASE v # w
    <3>1. report'[v] = report[v]
      BY <1>0, <1>2, <2>2 DEF Registering, Register, Report, TypeOK
    <3> QED
      BY <1>0, <2>0, <3>1, SaveFrame
  <2> QED
    BY <2>1, <2>2
<1> QED
  BY <1>1, <1>2, HandlerSaves, HandlerSpares

(* A member whose score has passed counts as one that is gone.             *)
LEMMA PurgeSaves == SInv /\ PurgeStep => \A v \in Workers : SaveOK(v)'
<1> SUFFICES ASSUME SInv, NEW n \in SortedSets, Purge(n), NEW v \in Workers
             PROVE  SaveOK(v)'
  BY DEF PurgeStep
<1>0. /\ TypeOK /\ SaveOK(v) /\ registered' = registered /\ report' = report /\ cut' = cut
  BY DEF SInv, Purge
<1>1. ASSUME NEW m \in SortedSets
      PROVE  listed'[m][v] = listed[m][v] \/ (listed[m][v] = 0 /\ listed'[m][v] = None)
  <2> DEFINE purged == [w \in Workers |-> IF listed[n][w] = 0 THEN None ELSE listed[n][w]]
  <2>1. listed' = [listed EXCEPT ![n] = purged]
    BY DEF Purge
  <2>2. purged[v] = IF listed[n][v] = 0 THEN None ELSE listed[n][v]
    OBVIOUS
  <2> HIDE DEF purged
  <2>3. listed'[m] = IF m = n THEN purged ELSE listed[m]
    BY <1>0, <2>1 DEF TypeOK
  <2>4. CASE m = n
    <3>1. listed'[m][v] = purged[v] /\ listed[m][v] = listed[n][v]
      BY <2>3, <2>4
    <3> QED
      BY <2>2, <3>1
  <2>5. CASE m # n
    <3>1. listed'[m] = listed[m]
      BY <2>3, <2>5
    <3> QED
      BY <3>1
  <2> QED
    BY <2>4, <2>5
<1>2. ASSUME NEW m \in SortedSets, Lasts(m, v)
      PROVE  Lasts(m, v)'
  BY <1>0, <1>1, <1>2, Constants DEF Lasts
<1>3. Complete(v) => Complete(v)'
  BY <1>0, <1>2, KeyTypes DEF Complete
<1>4. HalfSaved(v) => HalfSaved(v)'
  <2>1. EntryTags(v)' = EntryTags(v)
    BY <1>0 DEF EntryTags
  <2> QED
    BY <1>0, <1>2, <2>1, KeyTypes DEF HalfSaved
<1> QED
  BY <1>0, <1>3, <1>4 DEF SaveOK, Saving

(* Keys and scores age together.                                           *)
LEMMA TickSaves == SInv /\ Tick => \A v \in Workers : SaveOK(v)'
<1> SUFFICES ASSUME SInv, Tick, NEW w \in Workers
             PROVE  SaveOK(w)'
  OBVIOUS
<1>0. TypeOK /\ SaveOK(w) /\ cut' = cut
  BY DEF SInv, Tick
<1>1. registered[w] \in Entries \cup {None} /\ registered'[w] = Aged(registered[w])
  BY <1>0 DEF Tick, TypeOK
<1>2. ASSUME registered'[w] # None
      PROVE  /\ registered[w] # None /\ registered[w].left \in Nat /\ registered[w].left > 1
             /\ registered'[w].left = registered[w].left - 1
             /\ registered'[w].tags = registered[w].tags
             /\ registered[w].tags \cup {"all"} \subseteq SortedSets
  BY <1>0, <1>1, <1>2, AgedType, KeyTypes
<1>3. ASSUME registered'[w] # None, NEW n \in SortedSets, Lasts(n, w)
      PROVE  Lasts(n, w)'
  <2>1. listed[n][w] \in Nat \cup {None} /\ listed'[n][w] = Sooner(listed[n][w])
    <3>1. listed' = [m \in SortedSets |-> [v \in Workers |-> Sooner(listed[m][v])]]
      BY DEF Tick
    <3> QED
      BY <1>0, <3>1 DEF TypeOK
  <2>2. CASE listed[n][w] = None
    <3>1. listed'[n][w] = None
      BY <2>1, <2>2, SoonerType
    <3>2. registered[w].left < Second
      BY <1>3, <2>2 DEF Lasts
    <3>3. registered'[w].left < Second
      BY <1>2, <1>3, <3>2, Constants
    <3> QED
      BY <3>1, <3>3 DEF Lasts
  <2>3. CASE listed[n][w] \in Nat
    <3>1. listed'[n][w] \in Nat /\ listed[n][w] <= listed'[n][w] + 1
      BY <2>1, <2>3, SoonerNat
    <3>2. listed[n][w] # None /\ listed'[n][w] # None
      BY <2>3, <3>1, Constants
    <3>3. registered[w].left < listed[n][w] + Second
      BY <1>3, <3>2 DEF Lasts
    <3>4. registered'[w].left < listed'[n][w] + Second
      BY <1>2, <1>3, <2>3, <3>1, <3>3, Constants
    <3> QED
      BY <3>2, <3>4 DEF Lasts
  <2> QED
    BY <2>1, <2>2, <2>3
<1>4. /\ report'[w].pc = report[w].pc /\ report'[w].tags = report[w].tags
      /\ report'[w].todo = report[w].todo /\ report'[w].timeout = report[w].timeout
      /\ report'[w].reports = report[w].reports
      /\ report'[w].score = Sooner(report[w].score) /\ report[w].score \in Nat
      /\ report[w].timeout \in Nat
  BY <1>0, ScoreTypes DEF Tick, TypeOK, Reports
<1>5. (Saving(w)' <=> Saving(w)) /\ EntryTags(w)' = EntryTags(w)
  BY <1>4 DEF Saving, EntryTags
<1>6. Complete(w) => Complete(w)'
  BY <1>2, <1>3 DEF Complete
<1>7. ASSUME HalfSaved(w), registered'[w] # None
      PROVE  HalfSaved(w)'
  <2>1. registered'[w].left <= report'[w].timeout
    BY <1>2, <1>4, <1>7 DEF HalfSaved
  <2>2. ASSUME "all" \notin report'[w].todo
        PROVE  registered'[w].left < report'[w].score + Second
    <3>1. registered[w].left < report[w].score + Second
      BY <1>2, <1>4, <1>7, <2>2 DEF HalfSaved
    <3>2. report'[w].score \in Nat /\ report[w].score <= report'[w].score + 1
      BY <1>4, SoonerNat
    <3>3. registered[w].left \in Nat /\ registered'[w].left = registered[w].left - 1
      BY <1>2, <1>7
    <3>4. report[w].score \in Nat /\ Second \in Nat
      BY <1>4, Constants
    <3> QED
      BY <3>1, <3>2, <3>3, <3>4
  <2>3. \A n \in registered'[w].tags \cup {"all"} : n \notin report'[w].todo => Lasts(n, w)'
    BY <1>2, <1>3, <1>4, <1>7 DEF HalfSaved
  <2> QED
    BY <1>2, <1>5, <1>7, <2>1, <2>2, <2>3 DEF HalfSaved
<1>8. HalfSaved(w) => HalfSaved(w)'
  BY <1>7 DEF HalfSaved
<1> QED
  BY <1>0, <1>5, <1>6, <1>8 DEF SaveOK

LEMMA KillSaves == SInv /\ Kill => \A v \in Workers : SaveOK(v)'
<1> SUFFICES ASSUME SInv, Kill, NEW w \in Workers
             PROVE  SaveOK(w)'
  OBVIOUS
<1>1. TypeOK /\ SaveOK(w) /\ registered' = registered /\ listed' = listed
  BY DEF SInv, Kill, redis
<1>2. ~Saving(w)'
  BY DEF Kill, NoReport, Saving
<1>3. w \notin cut' => ~Saving(w) /\ w \notin cut
  BY DEF Kill
<1>4. Complete(w) => Complete(w)'
  BY <1>1, CompleteFrame
<1> QED
  BY <1>1, <1>2, <1>3, <1>4 DEF SaveOK

LEMMA NextSaves == SInv /\ [Next]_vars => SInv'
<1> SUFFICES ASSUME SInv, [Next]_vars
             PROVE  \A w \in Workers : SaveOK(w)'
  BY NextTypes DEF SInv
<1>1. CASE AgentStep \/ TaskStep \/ UNCHANGED vars
  <2>1. UNCHANGED <<registered, listed, report, cut>>
    BY <1>1 DEF AgentStep, TaskStep, Start, End, Ping, Die, Return, LoseReport, Watch, Enqueue,
                Stop, WriteStop, StopSilent, vars, redis
  <2> QED
    BY <2>1, SaveFrame DEF SInv
<1> QED
  BY <1>1, NextSteps, RequestSaves, PurgeSaves, TickSaves, KillSaves

(* A look for workers by a tag finds every worker that is registered with  *)
(* it for a second more, unless its entry is being saved or the saving was *)
(* cut short.                                                              *)
THEOREM TagsFindTheirWorkers == Spec => []TagsFindWorkers
<1>1. SInv => TagsFindWorkers
  <2> SUFFICES ASSUME SInv, NEW w \in Workers \ cut, registered[w] # None, ~Saving(w),
                      registered[w].left >= Second,
                      NEW n \in registered[w].tags \cup {"all"}
               PROVE  w \in Found(n)
    BY DEF TagsFindWorkers
  <2>1. Lasts(n, w) /\ registered[w].left \in Nat
    BY KeyTypes DEF SInv, SaveOK, Complete
  <2>2. listed[n][w] # None
    BY <2>1, Constants DEF Lasts
  <2>3. listed[n][w] # 0
    BY <2>1, <2>2, Constants DEF Lasts
  <2> QED
    BY <2>2, <2>3 DEF Found
<1> QED
  BY <1>1, InitSaved, NextSaves, PTL DEF Spec

(***************************************************************************)
(* The watchdog and the agents that report.  A task that an agent has was  *)
(* updated since the last of the agent's reports that did not fail.        *)
(***************************************************************************)
LEMMA Times ==
  ASSUME NEW n \in Nat
  PROVE  n * Interval \in Nat /\ (n + 1) * Interval = n * Interval + Interval
<1> DEFINE I == Interval
<1>1. I \in Nat
  BY Constants
<1> HIDE DEF I
<1>2. n * I \in Nat /\ (n + 1) * I = n * I + I
  BY <1>1
<1> QED
  BY <1>2 DEF I

Since(w) == IF Unhandled(w) THEN Interval ELSE agent[w].since

Fresh(w) ==
  LET a == agent[w] IN
  a.task # None =>
    /\ a.up
    /\ a.failed < threshold => task[a.task].age <= a.failed * Interval + Since(w)
    /\ Unhandled(w) => report[w].task = a.task

WInv == TypeOK /\ \A w \in Workers : Fresh(w)

(* What is needed of the types.                                            *)
LEMMA Fields ==
  ASSUME TypeOK, NEW w \in Workers
  PROVE  /\ agent[w] \in Agents /\ agent[w].since \in 0..Interval
         /\ agent[w].since \in Nat /\ agent[w].since <= Interval
         /\ agent[w].failed \in Nat /\ agent[w].failed <= threshold
         /\ agent[w].task \in Tasks \cup {None} /\ report[w] \in Reports
         /\ Since(w) \in Nat /\ Since(w) <= Interval
         /\ \A t \in Tasks : task[t] \in TaskDocs /\ task[t].age \in Nat
<1>1. agent[w] \in Agents /\ report[w] \in Reports
  BY DEF TypeOK
<1>2. /\ agent[w].since \in 0..Interval /\ agent[w].failed \in 0..threshold
      /\ agent[w].task \in Tasks \cup {None}
  BY <1>1 DEF Agents
<1>3. \A t \in Tasks : task[t] \in TaskDocs /\ task[t].age \in Nat
  BY Constants DEF TypeOK, TaskDocs
<1> QED
  BY <1>1, <1>2, <1>3, Constants DEF Since

LEMMA IdleRequest == ASSUME NEW w, ~Busy(w) PROVE ~Unhandled(w)
  BY DEF Busy, NoReport, Unhandled

(* Whoever changes a task, other than time, updates it.                    *)
Touched(t) == task'[t].age \in {task[t].age, 0}

LEMMA ChangedTouches ==
  ASSUME TypeOK, NEW t \in Tasks, NEW status, NEW stopping, Changed(t, status, stopping)
  PROVE  (\A u \in Tasks : Touched(u)) /\ task'[t].age = 0
<1>1. task[t] \in TaskDocs
  BY DEF TypeOK
<1>2. task'[t].age = 0
  BY <1>1 DEF Changed, TypeOK, TaskDocs
<1>3. \A u \in Tasks \ {t} : task'[u] = task[u]
  BY DEF Changed, TypeOK
<1> QED
  BY <1>2, <1>3 DEF Touched

(* A step that leaves an agent alone, with the request it waits for, keeps *)
(* its task fresh; so does one that only takes the task away.              *)
LEMMA FreshFrame ==
  ASSUME TypeOK, NEW w \in Workers, Fresh(w), agent'[w] = agent[w],
         Unhandled(w)' = Unhandled(w), report'[w].task = report[w].task,
         \A t \in Tasks : Touched(t)
  PROVE  Fresh(w)'
<1>1. Since(w)' = Since(w)
  BY DEF Since
<1>2. CASE agent[w].task # None
  <2>1. agent[w].task \in Tasks
    BY <1>2, Fields
  <2>2. /\ task'[agent[w].task].age \in {task[agent[w].task].age, 0}
        /\ agent[w].failed * Interval \in Nat /\ Since(w) \in Nat
    BY <2>1, Fields, Times DEF Touched
  <2> QED
    BY <1>1, <1>2, <2>2 DEF Fresh
<1> QED
  BY <1>2 DEF Fresh

(* A report that did not update the task: one more failure allows for one  *)
(* more interval.                                                          *)
LEMMA FreshFailed ==
  ASSUME TypeOK, NEW w \in Workers, Fresh(w), task' = task,
         agent'[w].task = agent[w].task, agent'[w].up = agent[w].up,
         agent'[w].failed = OneMore(agent[w].failed),
         Since(w)' \in Nat, ~Unhandled(w)'
  PROVE  Fresh(w)'
<1> SUFFICES ASSUME agent[w].task # None, agent'[w].failed < threshold
             PROVE  task[agent[w].task].age <= agent'[w].failed * Interval + Since(w)'
  BY DEF Fresh
<1>1. agent[w].failed < threshold /\ agent'[w].failed = agent[w].failed + 1
  BY Fields, Constants DEF OneMore
<1>2. agent[w].failed \in Nat /\ Since(w) \in Nat /\ Since(w) <= Interval
      /\ task[agent[w].task].age \in Nat
  BY Fields
<1>3. task[agent[w].task].age <= agent[w].failed * Interval + Since(w)
  BY <1>1 DEF Fresh
<1>4. /\ agent[w].failed * Interval \in Nat
      /\ agent'[w].failed * Interval = agent[w].failed * Interval + Interval
  BY <1>1, <1>2, Times
<1> QED
  BY <1>2, <1>3, <1>4, Constants

LEMMA AgentFresh == WInv /\ AgentStep => \A v \in Workers : Fresh(v)'
<1> SUFFICES ASSUME WInv, NEW w \in Workers,
                    \/ \E t \in Tasks : Start(w, t)
                    \/ End(w) \/ Ping(w) \/ Die(w) \/ Return(w) \/ LoseReport(w),
                    NEW v \in Workers
             PROVE  Fresh(v)'
  BY DEF AgentStep
<1>0. TypeOK /\ Fresh(v) /\ report' = report /\ Unhandled(v)' = Unhandled(v)
  BY DEF WInv, Start, End, Ping, Die, Return, LoseReport, Unhandled
<1>1. \A t \in Tasks : Touched(t)
  <2>1. ASSUME NEW t \in Tasks, Start(w, t)
        PROVE  \A u \in Tasks : Touched(u)
    BY <1>0, <2>1, ChangedTouches DEF Start
  <2>2. CASE End(w)
    <3>1. agent[w].task \in Tasks
      BY <1>0, <2>2, Fields DEF End
    <3>2. task' = task \/ Changed(agent[w].task, "stopped", FALSE)
      BY <2>2 DEF End
    <3> QED
      BY <1>0, <3>1, <3>2, ChangedTouches DEF Touched
  <2>3. CASE Ping(w)
    BY <1>0, <2>3, Fields DEF Ping, Touched, TypeOK, TaskDocs
  <2>4. CASE Die(w) \/ Return(w) \/ LoseReport(w)
    BY <2>4 DEF Die, Return, LoseReport, Touched
  <2> QED
    BY <2>1, <2>2, <2>3, <2>4
<1>2. CASE v # w
  <2>1. agent'[v] = agent[v]
    BY <1>0, <1>2 DEF Start, End, Ping, Die, Return, LoseReport, TypeOK
  <2> QED
    BY <1>0, <1>1, <2>1, FreshFrame
<1>3. CASE v = w
  <2>1. ASSUME NEW t \in Tasks, Start(w, t)
        PROVE  Fresh(w)'
    <3>1. task'[t].age = 0
      BY <1>0, <2>1, ChangedTouches DEF Start
    <3>2. /\ agent'[w].task = t /\ agent'[w].up /\ agent'[w].failed = 0
          /\ agent'[w].since = agent[w].since
      BY <1>0, <2>1, Fields DEF Start, TypeOK, Agents
    <3>3. ~Unhandled(w)'
      BY <1>0, <1>3, <2>1, IdleRequest DEF Start
    <3>4. agent'[w].failed * Interval + Since(w)' >= 0
      <4>1. Since(w)' \in Nat
        BY <1>0, <3>2, <3>3, Fields DEF Since
      <4>2. agent'[w].failed * Interval \in Nat
        BY <3>2, Times
      <4> QED
        BY <4>1, <4>2
    <3> QED
      BY <3>1, <3>2, <3>3, <3>4 DEF Fresh
  <2>2. CASE End(w) \/ Die(w)
    <3>1. CASE End(w)
      <4>1. agent' = [agent EXCEPT ![w] = [agent[w] EXCEPT !.task = None]]
        BY <3>1 DEF End
      <4>2. agent'[w].task = None
        BY <1>0, <4>1, Fields DEF TypeOK, Agents
      <4> QED
        BY <1>3, <4>2 DEF Fresh
    <3>2. CASE Die(w)
      <4>1. agent'[w].task = None
        BY <1>0, <3>2 DEF Die, TypeOK
      <4> QED
        BY <1>3, <4>1 DEF Fresh
    <3> QED
      BY <2>2, <3>1, <3>2
  <2>3. CASE Return(w)
    <3>1. agent'[w].task = None
      BY <1>0, <1>3, <2>3, Fields DEF Return, TypeOK, Agents, Fresh
    <3> QED
      BY <1>3, <3>1 DEF Fresh
  <2>4. CASE Ping(w)
    <3>1. agent' = agent
      BY <2>4 DEF Ping
    <3> QED
      BY <1>0, <1>1, <1>3, <3>1, FreshFrame
  <2>5. CASE LoseReport(w)
    <3>1. agent' = [agent EXCEPT
            ![w] = [agent[w] EXCEPT !.since = 0, !.failed = OneMore(agent[w].failed)]]
      BY <1>0, <2>5, Fields DEF LoseReport, TypeOK, Agents
    <3>2. /\ agent'[w].task = agent[w].task /\ agent'[w].up = agent[w].up
          /\ agent'[w].failed = OneMore(agent[w].failed) /\ agent'[w].since = 0
      BY <1>0, <3>1, Fields DEF TypeOK, Agents
    <3>3. ~Unhandled(w)' /\ task' = task
      BY <1>0, <1>3, <2>5, IdleRequest DEF LoseReport
    <3>4. Since(w)' \in Nat
      BY <3>2, <3>3 DEF Since
    <3> QED
      BY <1>0, <1>3, <3>2, <3>3, <3>4, FreshFailed
  <2> QED
    BY <1>3, <2>1, <2>2, <2>3, <2>4, <2>5
<1> QED
  BY <1>2, <1>3

LEMMA TaskFresh == WInv /\ TaskStep => \A v \in Workers : Fresh(v)'
<1> SUFFICES ASSUME WInv, TaskStep, NEW v \in Workers
             PROVE  Fresh(v)'
  OBVIOUS
<1>0. TypeOK /\ Fresh(v)
  BY DEF WInv
<1>1. agent' = agent /\ report' = report
  BY DEF TaskStep, Watch, Enqueue, Stop, WriteStop, StopSilent
<1>2. task' = task \/ \E t \in Tasks : \E status, stopping : Changed(t, status, stopping)
  <2>1. Watch => task' = task
    BY DEF Watch
  <2>2. \A t, development : Stop(t, development) => task' = task
    BY DEF Stop
  <2>3. ASSUME NEW t \in Tasks, Enqueue(t)
        PROVE  Changed(t, "queued", FALSE)
    BY <2>3 DEF Enqueue
  <2>4. ASSUME NEW t \in Tasks, WriteStop(t)
        PROVE  task' = task \/ Changed(t, stop[t], stop[t] = "in_progress")
    BY <2>4 DEF WriteStop
  <2>5. ASSUME NEW t \in Tasks, StopSilent(t)
        PROVE  task' = task \/ Changed(t, "stopped", FALSE)
    BY <2>5 DEF StopSilent
  <2> QED
    BY <2>1, <2>2, <2>3, <2>4, <2>5 DEF TaskStep
<1>3. \A t \in Tasks : Touched(t)
  BY <1>0, <1>2, ChangedTouches DEF Touched
<1>4. Unhandled(v)' = Unhandled(v)
  BY <1>1 DEF Unhandled
<1> QED
  BY <1>0, <1>1, <1>3, <1>4, FreshFrame

(* What a step of a request does to the failures of its agent.             *)
LEMMA NotUpdatedIs ==
  ASSUME TypeOK, NEW w \in Workers, NotUpdated(w)
  PROVE  /\ agent'[w].task = agent[w].task /\ agent'[w].up = agent[w].up
         /\ agent'[w].since = agent[w].since
         /\ agent'[w].failed = IF Unhandled(w) THEN OneMore(agent[w].failed) ELSE agent[w].failed
         /\ ~Unhandled(w) => agent'[w] = agent[w]
         /\ \A v \in Workers \ {w} : agent'[v] = agent[v]
  BY Fields DEF NotUpdated, TypeOK, Agents

LEMMA HandlerFresh ==
  ASSUME WInv, NEW w \in Workers, Handle(w)
  PROVE  Fresh(w)'
<1> DEFINE r == report[w]
<1>0. TypeOK /\ Fresh(w) /\ r \in Reports
  BY Fields DEF WInv
<1>1. CASE SetKey(w) \/ AddToAll(w) \/ (\E n \in Tags : AddToTag(w, n)) \/ Saved(w)
  <2>1. task' = task /\ agent' = agent
    BY <1>1 DEF SetKey, AddToAll, AddToTag, Saved
  <2>2. /\ Unhandled(w)' <=> Unhandled(w)
        /\ Unhandled(w) => report'[w].task = r.task
    <3>1. CASE SetKey(w)
      <4>1. /\ report'[w].pc = IF r.pc = "register" THEN "register_sets" ELSE "save_sets"
            /\ report'[w].task = r.task /\ report'[w].reports = r.reports
        BY <1>0, <3>1 DEF SetKey, TypeOK, Reports
      <4>2. r.pc \in {"register", "save"}
        BY <3>1 DEF SetKey
      <4> QED
        BY <4>1, <4>2 DEF Unhandled
    <3>2. CASE AddToAll(w) \/ \E n \in Tags : AddToTag(w, n)
      <4>1. /\ report'[w].pc = r.pc
            /\ report'[w].task = r.task /\ report'[w].reports = r.reports
        BY <1>0, <3>2 DEF AddToAll, AddToTag, TypeOK, Reports
      <4> QED
        BY <4>1 DEF Unhandled
    <3>3. CASE Saved(w)
      <4>1. CASE r.pc = "register_sets" /\ r.reports
        <5>1. report' = [report EXCEPT ![w] = [r EXCEPT !.pc = "task"]]
          BY <3>3, <4>1 DEF Saved
        <5>2. report'[w].pc = "task" /\ report'[w].task = r.task
          BY <1>0, <5>1 DEF TypeOK, Reports
        <5> QED
          BY <4>1, <5>2 DEF Unhandled
      <4>2. CASE ~(r.pc = "register_sets" /\ r.reports)
        <5>1. report'[w] = NoReport
          BY <1>0, <3>3, <4>2 DEF Saved, TypeOK
        <5>2. ~Unhandled(w)' /\ ~Unhandled(w)
          BY <3>3, <4>2, <5>1 DEF Saved, Saving, Unhandled, NoReport
        <5> QED
          BY <5>2
      <4> QED
        BY <4>1, <4>2
    <3> QED
      BY <1>1, <3>1, <3>2, <3>3
  <2>3. Since(w)' = Since(w)
    BY <2>1, <2>2 DEF Since
  <2> QED
    BY <1>0, <2>1, <2>2, <2>3 DEF Fresh
<1>2. CASE UpdateTask(w)
  <2>1. ~Unhandled(w)'
    BY <1>0, <1>2 DEF UpdateTask, Unhandled, TypeOK, Reports
  <2>2. /\ agent'[w].task = agent[w].task /\ agent'[w].up = agent[w].up
        /\ agent'[w].since = agent[w].since /\ agent'[w].failed = 0
    BY <1>0, <1>2, Fields DEF UpdateTask, TypeOK, Agents
  <2>3. Since(w)' \in Nat /\ agent'[w].failed * Interval \in Nat
    BY <1>0, <2>1, <2>2, Fields, Times DEF Since
  <2>4. ASSUME agent[w].task # None
        PROVE  task'[agent[w].task].age = 0
    <3>1. r.task = agent[w].task /\ agent[w].task \in Tasks
      BY <1>0, <1>2, <2>4, Fields DEF UpdateTask, Unhandled, Fresh
    <3>2. Updated(agent[w].task)
      BY <1>2, <3>1, Constants DEF UpdateTask
    <3> QED
      BY <1>0, <3>1, <3>2 DEF Updated, TypeOK, TaskDocs
  <2> QED
    BY <1>0, <2>1, <2>2, <2>3, <2>4 DEF Fresh
<1>3. CASE UpdateFails(w) \/ SaveFails(w)
  <2>1. task' = task /\ NotUpdated(w)
    BY <1>3 DEF UpdateFails, SaveFails
  <2>2. ~Unhandled(w)'
    BY <1>0, <1>3 DEF UpdateFails, SaveFails, Unhandled, NoReport, TypeOK, Reports
  <2>3. Since(w)' \in Nat
    BY <1>0, <2>1, <2>2, NotUpdatedIs, Fields DEF Since
  <2>4. CASE Unhandled(w)
    BY <1>0, <2>1, <2>2, <2>3, <2>4, NotUpdatedIs, FreshFailed
  <2>5. CASE ~Unhandled(w)
    <3>1. agent'[w] = agent[w] /\ Since(w)' = Since(w)
      BY <1>0, <2>1, <2>2, <2>5, NotUpdatedIs DEF Since
    <3> QED
      BY <1>0, <2>1, <2>2, <2>5, <3>1 DEF Fresh
  <2> QED
    BY <2>4, <2>5
<1> QED
  BY <1>1, <1>2, <1>3 DEF Handle

LEMMA RequestFresh == WInv /\ RequestStep => \A v \in Workers : Fresh(v)'
<1> SUFFICES ASSUME WInv, NEW w \in Workers,
                    \/ Handle(w) \/ Unregister(w) \/ Registering(w)
                    \/ \E tags \in SUBSET Tags : Report(w, tags),
                    NEW v \in Workers
             PROVE  Fresh(v)'
  BY DEF RequestStep
<1>0. TypeOK /\ Fresh(v)
  BY DEF WInv
<1>1. \A t \in Tasks : Touched(t)
  <2>1. CASE UpdateTask(w)
    <3>1. CASE report[w].task = None
      BY <2>1, <3>1 DEF UpdateTask, Touched
    <3>2. CASE report[w].task # None
      <4>1. Updated(report[w].task) /\ report[w].task \in Tasks
        BY <1>0, <2>1, <3>2, Fields DEF UpdateTask, Reports
      <4>2. \A t \in Tasks : task[t] \in TaskDocs
        BY <1>0, Fields
      <4>3. task'[report[w].task].age = 0
        BY <1>0, <4>1, <4>2 DEF Updated, TypeOK, TaskDocs
      <4>4. \A t \in Tasks \ {report[w].task} : task'[t] = task[t]
        BY <1>0, <4>1 DEF Updated, TypeOK
      <4> QED
        BY <4>3, <4>4 DEF Touched
    <3> QED
      BY <3>1, <3>2
  <2>2. CASE ~UpdateTask(w)
    <3>1. task' = task
      BY <2>2 DEF Handle, SetKey, AddToAll, AddToTag, Saved, UpdateFails, SaveFails, Unregister,
             Registering, Register, Report
    <3> QED
      BY <3>1 DEF Touched
  <2> QED
    BY <2>1, <2>2
<1>2. CASE v # w
  <2>1. report'[v] = report[v]
    BY <1>0, <1>2 DEF Handle, SetKey, AddToAll, AddToTag, Saved, UpdateTask, UpdateFails,
           SaveFails, Unregister, Registering, Register, Report, TypeOK
  <2>2. agent'[v] = agent[v]
    <3>1. CASE UpdateFails(w) \/ SaveFails(w)
      BY <1>0, <1>2, <3>1, NotUpdatedIs DEF UpdateFails, SaveFails
    <3>2. CASE ~(UpdateFails(w) \/ SaveFails(w))
      BY <1>0, <1>2, <3>2 DEF Handle, SetKey, AddToAll, AddToTag, Saved, UpdateTask,
             Unregister, Registering, Register, Report, TypeOK
    <3> QED
      BY <3>1, <3>2
  <2>3. Unhandled(v)' = Unhandled(v)
    BY <2>1 DEF Unhandled
  <2> QED
    BY <1>0, <1>1, <2>1, <2>2, <2>3, FreshFrame
<1>3. CASE v = w
  <2>1. CASE Unregister(w)
    <3>1. agent' = agent /\ report' = report
      BY <2>1 DEF Unregister
    <3>2. Unhandled(v)' = Unhandled(v)
      BY <3>1 DEF Unhandled
    <3> QED
      BY <1>0, <1>1, <3>1, <3>2, FreshFrame
  <2>2. ASSUME NEW tags \in SUBSET Tags, NEW timeout \in Timeouts, Register(w, tags, timeout)
        PROVE  Fresh(w)'
    <3>1. agent' = agent /\ task' = task /\ ~Unhandled(w)
      BY <2>2, IdleRequest DEF Register
    <3>2. ~Unhandled(w)'
      BY <1>0, <2>2, NoReportType DEF Register, NoReport, Unhandled, TypeOK
    <3> QED
      BY <1>0, <1>3, <3>1, <3>2 DEF Fresh, Since
  <2>3. ASSUME NEW tags \in SUBSET Tags, Report(w, tags)
        PROVE  Fresh(w)'
    <3>1. /\ agent'[w].task = agent[w].task /\ agent'[w].up = agent[w].up
          /\ agent'[w].failed = agent[w].failed
      <4>1. agent' = [agent EXCEPT ![w] = [agent[w] EXCEPT !.since = 0]]
        BY <2>3 DEF Report
      <4> QED
        BY <1>0, <4>1, Fields DEF TypeOK, Agents
    <3>2. Unhandled(w)' /\ report'[w].task = agent[w].task /\ task' = task
      BY <1>0, <2>3 DEF Report, Unhandled, TypeOK
    <3>3. Since(w)' = Interval
      BY <3>2 DEF Since
    <3>4. agent[w].failed * Interval \in Nat /\ Since(w) \in Nat /\ Since(w) <= Interval
      BY <1>0, Fields, Times
    <3>5. ASSUME agent[w].task # None
          PROVE  task[agent[w].task].age \in Nat
      BY <1>0, <3>5, Fields
    <3> QED
      BY <1>0, <1>3, <3>1, <3>2, <3>3, <3>4, <3>5, Constants DEF Fresh
  <2> QED
    BY <1>3, <2>1, <2>2, <2>3, HandlerFresh, WorkersAssumption DEF Registering
<1> QED
  BY <1>2, <1>3

LEMMA PurgeFresh == WInv /\ PurgeStep => \A v \in Workers : Fresh(v)'
<1> SUFFICES ASSUME WInv, NEW n \in SortedSets, Purge(n), NEW v \in Workers
             PROVE  Fresh(v)'
  BY DEF PurgeStep
<1>1. agent' = agent /\ report' = report /\ task' = task
  BY DEF Purge
<1> QED
  BY <1>1 DEF WInv, Fresh, Since, Unhandled

LEMMA TickFresh == WInv /\ Tick => \A v \in Workers : Fresh(v)'
<1> SUFFICES ASSUME WInv, Tick, NEW w \in Workers
             PROVE  Fresh(w)'
  OBVIOUS
<1>0. TypeOK /\ Fresh(w)
  BY DEF WInv
<1>1. /\ agent'[w].task = agent[w].task /\ agent'[w].up = agent[w].up
      /\ agent'[w].failed = agent[w].failed
      /\ agent'[w].since = IF agent[w].up THEN agent[w].since + 1 ELSE agent[w].since
  BY <1>0, Fields DEF Tick, TypeOK, Agents
<1> SUFFICES ASSUME agent[w].task # None
             PROVE  Fresh(w)'
  BY <1>1 DEF Fresh
<1>2. agent[w].up /\ ~Busy(w) /\ ~Unhandled(w)
  BY <1>0, IdleRequest DEF Fresh, Tick
<1>3. ~Unhandled(w)'
  BY <1>0, <1>2 DEF Tick, Unhandled, TypeOK, Reports
<1>4. agent[w].task \in Tasks /\ task[agent[w].task].age \in Nat
  BY <1>0, Fields
<1>5. task'[agent[w].task].age \in {task[agent[w].task].age, task[agent[w].task].age + 1}
  <2>1. task[agent[w].task] \in TaskDocs
    BY <1>0, <1>4, Fields
  <2>2. task'[agent[w].task] =
          [task[agent[w].task] EXCEPT !.age = IF @ = MaxAge THEN @ ELSE @ + 1]
    BY <1>0, <1>4 DEF Tick, TypeOK
  <2> QED
    BY <2>1, <2>2 DEF TaskDocs
<1>6. Since(w) = agent[w].since /\ Since(w)' = agent[w].since + 1 /\ agent[w].since \in Nat
  BY <1>0, <1>1, <1>2, <1>3, Fields DEF Since
<1>7. agent[w].failed * Interval \in Nat
  BY <1>0, Fields, Times
<1> QED
  BY <1>0, <1>1, <1>2, <1>3, <1>4, <1>5, <1>6, <1>7 DEF Fresh

LEMMA KillFresh == WInv /\ Kill => \A v \in Workers : Fresh(v)'
<1> SUFFICES ASSUME WInv, Kill, NEW w \in Workers
             PROVE  Fresh(w)'
  OBVIOUS
<1>0. TypeOK /\ Fresh(w) /\ task' = task
  BY DEF WInv, Kill
<1>1. agent'[w] =
        [agent[w] EXCEPT !.failed = IF Unhandled(w) THEN OneMore(@) ELSE @]
  BY DEF Kill
<1>2. /\ agent'[w].task = agent[w].task /\ agent'[w].up = agent[w].up
      /\ agent'[w].since = agent[w].since
      /\ agent'[w].failed = IF Unhandled(w) THEN OneMore(agent[w].failed) ELSE agent[w].failed
  BY <1>0, <1>1, Fields DEF Agents
<1>3. ~Unhandled(w)'
  BY DEF Kill, NoReport, Unhandled
<1>4. Since(w)' = agent[w].since /\ Since(w)' \in Nat
  BY <1>0, <1>2, <1>3, Fields DEF Since
<1>5. CASE Unhandled(w)
  BY <1>0, <1>2, <1>3, <1>4, <1>5, FreshFailed
<1>6. CASE ~Unhandled(w)
  BY <1>0, <1>2, <1>3, <1>4, <1>6 DEF Fresh, Since
<1> QED
  BY <1>5, <1>6

LEMMA NextFresh == WInv /\ [Next]_vars => WInv'
<1> SUFFICES ASSUME WInv, [Next]_vars
             PROVE  \A w \in Workers : Fresh(w)'
  BY NextTypes DEF WInv
<1>1. CASE UNCHANGED vars
  BY <1>1 DEF vars, WInv, Fresh, Since, Unhandled
<1> QED
  BY <1>1, NextSteps, AgentFresh, TaskFresh, RequestFresh, PurgeFresh, TickFresh, KillFresh

(* For any number of agents and requests in flight, whatever fails and     *)
(* whatever the interval of the reports and the threshold are: a task that *)
(* the watchdog takes for silent while its agent is up has had as many     *)
(* failed reports in a row as it takes for the threshold to pass.          *)
THEOREM ReportedTasksAreNotSilent == Spec => []ReportedTaskIsNotSilent
<1>1. Init => WInv
  BY InitTypes DEF Init, WInv, Fresh
<1>2. WInv => ReportedTaskIsNotSilent
  <2> SUFFICES ASSUME WInv, NEW w \in Workers, NEW t \in Tasks, agent[w].task = t, IsSilent(t)
               PROVE  (agent[w].failed + 1) * Interval > threshold
    BY DEF ReportedTaskIsNotSilent
  <2>1. TypeOK /\ Fresh(w) /\ agent[w].task # None
    BY Constants DEF WInv
  <2>2. /\ agent[w].failed \in Nat /\ agent[w].failed <= threshold
        /\ Since(w) \in Nat /\ Since(w) <= Interval /\ task[t].age \in Nat
    BY <2>1, Fields
  <2>3. /\ agent[w].failed * Interval \in Nat
        /\ (agent[w].failed + 1) * Interval = agent[w].failed * Interval + Interval
    BY <2>2, Times
  <2>4. CASE agent[w].failed < threshold
    BY <2>1, <2>2, <2>3, <2>4, Constants DEF Fresh, IsSilent
  <2>5. CASE agent[w].failed = threshold
    <3> DEFINE I == Interval
    <3>1. I \in Nat /\ I > 0
      BY Constants
    <3> HIDE DEF I
    <3>2. threshold * I >= threshold
      BY <3>1, Constants
    <3> QED
      BY <2>3, <2>5, <3>1, <3>2, Constants DEF I
  <2> QED
    BY <2>2, <2>4, <2>5, Constants
<1> QED
  BY <1>1, <1>2, NextFresh, PTL DEF Spec
==============================================================================
