-------------------------- MODULE TaskStatus_proofs --------------------------
(***************************************************************************)
(* Theorems about the statuses that the requests of TaskQueues write.      *)
(***************************************************************************)
EXTENDS TaskQueues_proofs

(* The steps that write a status, and among them those that save the whole *)
(* document; no other does.                                                *)
Saves(c) == SavePublishing(c) \/ RestoreStatus(c) \/ SaveForTrash(c)
WritesStatus(c) ==
  \/ Change(c) \/ UndoEnqueue(c) \/ EraseTask(c) \/ RequeueStopped(c) \/ ReleaseTask(c)
  \/ Saves(c)

LEMMA StatusWriters ==
  ASSUME [Next]_vars
  PROVE  status' = status \/ \E c \in Calls : WritesStatus(c)
<1>1. ASSUME NEW q \in Queues, CreateQueue(q)
      PROVE  status' = status
  BY <1>1 DEF CreateQueue, docs
<1>2. ASSUME NEW c \in Calls, Begin(c)
      PROVE  status' = status
  <2>1. \A t, q, f, u : Enqueue(c, t, q, f, u) => status' = status
    BY DEF Enqueue, docs
  <2>2. \A t, q, p, u : AddTask(c, t, q, u) \/ RemoveTask(c, t, q, u)
                          \/ MoveTask(c, t, q, p, u) => status' = status
    BY DEF AddTask, RemoveTask, MoveTask, docs
  <2>3. \A t, q, by : Reposition(c, t, q, by) => status' = status
    BY DEF Reposition, docs
  <2>4. \A t, n, all : Dequeue(c, t, n, all) => status' = status
    BY DEF Dequeue, BeginDequeue, docs
  <2>5. \A t, f, op : Stop(c, t, f) \/ Reset(c, t, f) \/ Delete(c, t, f, op) =>
          status' = status
    BY DEF Stop, Reset, Delete, BeginDequeue, docs
  <2>6. \A t, s, f : Report(c, t, s, f) \/ Publish(c, t, f) => status' = status
    BY DEF Report, Publish, docs
  <2>7. \A t : DequeueDeleted(c, t) \/ Archive(c, t) \/ Unarchive(c, t) => status' = status
    BY DEF DequeueDeleted, Archive, Unarchive, BeginDequeue, docs
  <2>8. \A q, op, f : GetNextTask(c, q, op) \/ ClearQueue(c, q) \/ DeleteQueue(c, q, f) =>
          status' = status
    BY DEF GetNextTask, ClearQueue, DeleteQueue, docs
  <2> QED
    BY <1>2, <2>1, <2>2, <2>3, <2>4, <2>5, <2>6, <2>7, <2>8 DEF Begin
<1>3. ASSUME NEW c \in Calls, Proceed(c)
      PROVE  status' = status \/ WritesStatus(c)
  BY <1>3 DEF Proceed, WritesStatus, Saves, CheckQueue, PushEntry, LogPushed, SetExecutionQueue,
       Sweep, FindEntry, PullEntry, LogPulled, CleanupTask, TagArchived, LogPopped,
       RecheckStatus, StartTask, InspectTask, EmptyQueue, DropQueue, RepositionEntry, docs
<1>4. ASSUME NEW c \in Calls, Crash(c)
      PROVE  status' = status
  BY <1>4 DEF Crash, docs
<1>5. CASE UNCHANGED vars
  BY <1>5 DEF vars, docs
<1> QED
  BY <1>1, <1>2, <1>3, <1>4, <1>5 DEF Next

(***************************************************************************)
(* The rules.  They hold while clients neither force a change nor enqueue  *)
(* a task that is queued already, and the queues are neither polled,       *)
(* cleared nor deleted: the blind write of get_next_task and the forced    *)
(* release of queues.clear_queue are the two that break them.              *)
(***************************************************************************)
StatusRequests == {"enqueue", "report", "dequeue", "stop", "reset", "delete", "archive"}
PriorStatuses == {"created", "stopped", "failed"}

RulesRespected ==
  /\ \A c \in Calls : Serves[c] \subseteq StatusRequests
  /\ Forces \subseteq {FALSE}
  /\ "queued" \notin EnqueueFrom
  /\ NewStatuses \subseteq {"created", "stopped"}

Permitted(s, n) ==
  \/ s = n
  \/ validate_status_change(s, n)
  \/ s = "queued" /\ validate_status_change(n, "queued")

(* A request writes only what the rules permit for the status it read.     *)
RuleOK(r) ==
  /\ r.pc \notin {"popped", "recheck", "requeue", "start", "inspect", "release",
                  "set_publishing", "restore", "to_trash"}
  /\ r.op \in StatusRequests \cup {"none"}
  /\ r.pc \in {"check", "push", "pushed", "undo", "set_queue"} => r.op = "enqueue"
  /\ r.pc = "sweep" => r.op \in {"enqueue", "dequeue", "reset", "delete", "archive"}
  /\ r.pc = "change" => Permitted(r.st, r.tgt)
  /\ r.op = "enqueue" => r.st \in PriorStatuses /\ r.tgt = "queued" /\ r.es \in PriorStatuses
  /\ r.op \in {"dequeue", "delete", "archive"} /\ r.st # None => r.tgt \in PriorStatuses
  /\ r.op = "stop" => Permitted(r.st, r.tgt)
  /\ r.op = "reset" => r.tgt = "created" /\ r.opt = FALSE

RuleInv ==
  /\ \A c \in Calls : RuleOK(call[c])
  /\ \A t \in Tasks : enqueue_status[t] \in PriorStatuses \cup {None}

LEMMA Rules ==
  /\ \A s \in PriorStatuses : Permitted("queued", s) /\ Permitted("in_progress", s)
  /\ \A s \in PriorStatuses : Permitted(s, "queued")
  /\ \A s \in Statuses \ {"queued"} :
       validate_transition(s, "queued", FALSE) => s \in PriorStatuses
  /\ \A s, n : validate_transition(s, n, FALSE) => Permitted(s, n)
<1>1. \A s \in PriorStatuses : Permitted("queued", s)
  BY DEF PriorStatuses, Permitted, validate_status_change, state_machine
<1>2. \A s \in PriorStatuses : Permitted("in_progress", s)
  BY DEF PriorStatuses, Permitted, validate_status_change, state_machine
<1>3. \A s \in PriorStatuses : Permitted(s, "queued")
  BY DEF PriorStatuses, Permitted, validate_status_change, state_machine
<1>4. \A s \in Statuses \ {"queued"} :
        validate_transition(s, "queued", FALSE) => s \in PriorStatuses
  BY DEF PriorStatuses, validate_transition, validate_status_change, state_machine, Statuses
<1>5. \A s, n : validate_transition(s, n, FALSE) => Permitted(s, n)
  BY DEF validate_transition, Permitted
<1> QED
  BY <1>1, <1>2, <1>3, <1>4, <1>5

LEMMA IdleRule == RuleOK(Idle)
  BY IdleFields DEF RuleOK, StatusRequests

LEMMA AtRule ==
  ASSUME NEW r \in Requests, RuleOK(r),
         NEW pc \in {"check", "push", "pushed", "set_queue", "find", "cleanup", "erase", "tag",
                     "undo", "change"},
         pc \in {"check", "push", "pushed", "undo", "set_queue"} => r.op = "enqueue",
         pc = "change" => Permitted(r.st, r.tgt)
  PROVE  RuleOK(At(r, pc))
<1>1. pc \in Steps
  BY DEF Steps
<1> QED
  BY <1>1, AtOK DEF RuleOK

LEMMA SweepingRule ==
  ASSUME NEW r \in Requests, RequestOK(r), RuleOK(r), NEW qs \in SUBSET Queues, r.task \in Tasks,
         r.op \in {"enqueue", "dequeue", "reset", "delete", "archive"}
  PROVE  RuleOK(Sweeping(r, qs))
  BY SweepingOK DEF RuleOK

LEMMA ChangeDoneRule ==
  ASSUME NEW r \in Requests, RuleOK(r)
  PROVE  RuleOK(ChangeDone(r))
  BY AtRule, IdleRule DEF ChangeDone

LEMMA ChangeIfActiveRule ==
  ASSUME NEW r \in Requests, RuleOK(r), r.op \in {"dequeue", "delete", "archive"}
  PROVE  RuleOK(ChangeIfActive(r))
<1>1. r.st \in {"queued", "in_progress"} => Permitted(r.st, r.tgt)
  BY Rules, NoneIsNothing, StatusNames DEF RuleOK
<1> QED
  BY <1>1, AtRule, ChangeDoneRule DEF ChangeIfActive

LEMMA AfterDequeueRule ==
  ASSUME NEW r \in Requests, RequestOK(r), RuleOK(r), r.task \in Tasks,
         r.op \in {"dequeue", "stop", "reset", "delete", "archive"}
  PROVE  RuleOK(AfterDequeue(r))
<1>1. r.op = "stop" => RuleOK(At(r, "change"))
  BY AtRule DEF RuleOK
<1>2. r.op = "dequeue" => RuleOK(ChangeIfActive(r))
  BY ChangeIfActiveRule
<1>3. r.op \in {"dequeue", "reset", "delete", "archive"} => RuleOK(Sweeping(r, Queues))
  BY SweepingRule
<1> QED
  BY <1>1, <1>2, <1>3 DEF AfterDequeue

LEMMA LocalRule ==
  ASSUME IInv, RuleInv, NEW c \in Calls, NEW r, RuleOK(r), Goto(c, r),
         \A t \in Tasks : enqueue_status'[t] \in PriorStatuses \cup {None}
  PROVE  RuleInv'
<1>1. \A d \in Calls : call'[d] = IF d = c THEN r ELSE call[d]
  BY DEF Goto, IInv, TypeOK
<1> QED
  BY <1>1 DEF RuleInv

LEMMA BeginDequeueRule ==
  ASSUME IInv, RuleInv, NEW c \in Calls,
         NEW op \in {"dequeue", "stop", "reset", "delete", "archive"},
         NEW t \in Tasks, Exists(t), NEW tgt \in Statuses, NEW opt \in BOOLEAN,
         op \in {"dequeue", "delete", "archive"} => tgt \in PriorStatuses,
         op = "stop" => Permitted(status[t], tgt),
         op = "reset" => tgt = "created" /\ opt = FALSE,
         BeginDequeue(c, Dequeuing(op, t, tgt, opt))
  PROVE  RuleInv'
<1> DEFINE r == Dequeuing(op, t, tgt, opt)
<1>1. status[t] \in Statuses /\ exec_queue[t] \in Queues \cup {None}
  BY TaskOK
<1>2. r = [Idle EXCEPT !.op = op, !.task = t, !.queue = exec_queue[t],
             !.st = status[t], !.tgt = tgt, !.opt = opt]
  BY DEF Dequeuing
<1>3. r \in Requests
  BY DequeuingRequest
<1>4. /\ r.op = op /\ r.pc = "idle" /\ r.task = t
      /\ r.queue = exec_queue[t] /\ r.source = None
      /\ r.st = status[t] /\ r.tgt = tgt /\ r.opt = opt
  BY <1>2, IdleOK, IdleFields DEF Requests
<1> HIDE DEF r
<1>5. RequestOK(r)
  BY <1>1, <1>3, <1>4, NoneIsNothing DEF RequestOK
<1>6. RuleOK(r)
  BY <1>1, <1>4 DEF RuleOK, StatusRequests
<1>7. RuleOK(AfterDequeue(r)) /\ RuleOK(At(r, "find"))
  BY <1>3, <1>4, <1>5, <1>6, AfterDequeueRule, AtRule
<1>8. /\ Goto(c, IF IsEnqueued(r.task) THEN At(r, "find") ELSE AfterDequeue(r))
      /\ enqueue_status' = enqueue_status
  BY DEF BeginDequeue, r, docs
<1> QED
  BY <1>7, <1>8, LocalRule DEF RuleInv

LEMMA BeginRule ==
  ASSUME RulesRespected, IInv, RuleInv, NEW c \in Calls, Begin(c)
  PROVE  RuleInv'
<1>1. \A op \in RequestKinds : Accepts(c, op) => op \in StatusRequests
  BY DEF RulesRespected, Accepts
<1>2. \A t \in Tasks : PriorStatus(t) \in PriorStatuses
  BY DEF RuleInv, PriorStatus, PriorStatuses
<1>3. ASSUME NEW t \in Tasks, NEW q \in Queues, NEW force \in Forces, NEW upd \in Options,
             Enqueue(c, t, q, force, upd)
      PROVE  RuleInv'
  <2> DEFINE r == [Idle EXCEPT !.op = "enqueue", !.pc = "change", !.task = t,
                     !.queue = q, !.st = status[t], !.tgt = "queued",
                     !.es = BeforeEnqueueStatus(t), !.opt = upd]
  <2>1. /\ status[t] \in Statuses \ {"queued"}
        /\ validate_transition(status[t], "queued", FALSE)
    BY <1>3, ConstantsAssumption DEF Enqueue, RulesRespected
  <2>2. status[t] \in PriorStatuses /\ BeforeEnqueueStatus(t) = status[t]
    BY <2>1, Rules DEF BeforeEnqueueStatus
  <2>3. /\ r.op = "enqueue" /\ r.pc = "change" /\ r.st = status[t] /\ r.tgt = "queued"
        /\ r.es = BeforeEnqueueStatus(t)
    BY IdleOK DEF Requests
  <2>4. Goto(c, r) /\ enqueue_status' = enqueue_status
    BY <1>3 DEF Enqueue, docs
  <2> HIDE DEF r
  <2>5. RuleOK(r)
    BY <2>2, <2>3, Rules DEF RuleOK, StatusRequests
  <2> QED
    BY <2>4, <2>5, LocalRule DEF RuleInv
<1>4. ASSUME NEW t \in Tasks, NEW n \in NewStatuses \cup {None}, NEW all \in Options,
             Dequeue(c, t, n, all)
      PROVE  RuleInv'
  <2> DEFINE tgt == IF n # None THEN n ELSE PriorStatus(t)
  <2>1. tgt \in PriorStatuses /\ tgt \in Statuses
    BY <1>2, StatusNames DEF RulesRespected, PriorStatuses, Statuses
  <2>2. Exists(t) /\ BeginDequeue(c, Dequeuing("dequeue", t, tgt, all)) /\ all \in BOOLEAN
    BY <1>4, ConstantsAssumption DEF Dequeue
  <2> HIDE DEF tgt
  <2> QED
    BY <2>1, <2>2, BeginDequeueRule
<1>5. ASSUME NEW t \in Tasks, DequeueDeleted(c, t)
      PROVE  RuleInv'
  <2> DEFINE r == [Idle EXCEPT !.op = "dequeue", !.task = t]
             n == Sweeping(r, Queues)
  <2>1. /\ n = [r EXCEPT !.pc = "sweep", !.todo = Queues]
        /\ r \in Requests /\ r.op = "dequeue" /\ r.st = None
    BY IdleOK, IdleFields DEF Sweeping, Requests, RequestKinds
  <2> HIDE DEF r
  <2>2. n.op = "dequeue" /\ n.pc = "sweep" /\ n.st = None
    BY <2>1 DEF Requests
  <2>3. Goto(c, n) /\ enqueue_status' = enqueue_status
    BY <1>5 DEF DequeueDeleted, docs, r
  <2> HIDE DEF n
  <2>4. RuleOK(n)
    BY <2>2 DEF RuleOK, StatusRequests
  <2> QED
    BY <2>3, <2>4, LocalRule DEF RuleInv
<1>6. ASSUME NEW t \in Tasks, NEW force \in Forces, Stop(c, t, force)
      PROVE  RuleInv'
  <2>1. Permitted(status[t], "stopped")
    BY <1>6, Rules DEF Stop, RulesRespected
  <2> QED
    BY <1>6, <2>1, BeginDequeueRule, StatusNames DEF Stop
<1>7. ASSUME NEW t \in Tasks, NEW force \in Forces, Reset(c, t, force)
      PROVE  RuleInv'
  <2>1. force = FALSE
    BY DEF RulesRespected
  <2> QED
    BY <1>7, <2>1, BeginDequeueRule, StatusNames DEF Reset
<1>8. ASSUME NEW t \in Tasks, NEW force \in Forces, NEW op \in {"delete", "trash"},
             Delete(c, t, force, op)
      PROVE  RuleInv'
  <2>1. op = "delete"
    BY <1>1, <1>8 DEF Delete, RequestKinds, StatusRequests
  <2> QED
    BY <1>2, <1>8, <2>1, BeginDequeueRule, TaskOK, ConstantsAssumption DEF Delete
<1>9. ASSUME NEW t \in Tasks, NEW s \in Reports, NEW force \in Forces, Report(c, t, s, force)
      PROVE  RuleInv'
  <2> DEFINE r == [Idle EXCEPT !.op = "report", !.pc = "change", !.task = t,
                     !.st = status[t], !.tgt = s]
  <2>1. Permitted(status[t], s)
    BY <1>9, Rules DEF Report, RulesRespected
  <2>2. r.op = "report" /\ r.pc = "change" /\ r.st = status[t] /\ r.tgt = s
    BY IdleOK DEF Requests
  <2>3. Goto(c, r) /\ enqueue_status' = enqueue_status
    BY <1>9 DEF Report, docs
  <2> HIDE DEF r
  <2>4. RuleOK(r)
    BY <2>1, <2>2 DEF RuleOK, StatusRequests
  <2> QED
    BY <2>3, <2>4, LocalRule DEF RuleInv
<1>10. ASSUME NEW t \in Tasks, Archive(c, t)
       PROVE  RuleInv'
  <2> DEFINE tgt == IF status[t] = "in_progress" THEN "stopped" ELSE PriorStatus(t)
  <2>1. tgt \in PriorStatuses /\ tgt \in Statuses
    BY <1>2, TaskOK, StatusNames DEF PriorStatuses
  <2>2. Exists(t) /\ BeginDequeue(c, Dequeuing("archive", t, tgt, FALSE))
    BY <1>10 DEF Archive
  <2> HIDE DEF tgt
  <2> QED
    BY <2>1, <2>2, BeginDequeueRule
<1>11. \A t \in Tasks, q \in Queues, p \in Queues, upd \in Options :
         ~AddTask(c, t, q, upd) /\ ~RemoveTask(c, t, q, upd) /\ ~MoveTask(c, t, q, p, upd)
  BY <1>1 DEF AddTask, RemoveTask, MoveTask, RequestKinds, StatusRequests
<1>12. \A t \in Tasks, q \in Queues, by \in Int : ~Reposition(c, t, q, by)
  BY <1>1 DEF Reposition, RequestKinds, StatusRequests
<1>13. /\ \A t \in Tasks : ~Unarchive(c, t)
       /\ \A t \in Tasks, force \in Forces : ~Publish(c, t, force)
  BY <1>1 DEF Unarchive, Publish, RequestKinds, StatusRequests
<1>14. \A q \in Queues, op \in {"get_next_task", "agent"}, force \in Forces :
         ~GetNextTask(c, q, op) /\ ~ClearQueue(c, q) /\ ~DeleteQueue(c, q, force)
  BY <1>1 DEF GetNextTask, ClearQueue, DeleteQueue, RequestKinds, StatusRequests
<1>15. \A q \in Queues, op \in {"get_next_task", "agent"} : ~GetNextTask(c, q, op)
  BY <1>1 DEF GetNextTask, RequestKinds, StatusRequests
<1>16. \A q \in Queues : ~ClearQueue(c, q)
  BY <1>1 DEF ClearQueue, RequestKinds, StatusRequests
<1>17. \A m \in Moves : m \in Int /\ -m \in Int
  BY ConstantsAssumption
<1> QED
  BY <1>3, <1>4, <1>5, <1>6, <1>7, <1>8, <1>9, <1>10, <1>11, <1>12, <1>13, <1>14, <1>15,
     <1>16, <1>17 DEF Begin

LEMMA ProceedRule ==
  ASSUME RulesRespected, IInv, RuleInv, NEW c \in Calls, Proceed(c)
  PROVE  RuleInv'
<1> DEFINE r == call[c]
<1>1. r \in Requests /\ RequestOK(r) /\ RuleOK(r)
  BY CallOK DEF RuleInv
<1>2. CASE Change(c)
  <2>1. ASSUME NEW t \in Tasks
        PROVE  enqueue_status'[t] \in PriorStatuses \cup {None}
    BY <1>1, <1>2 DEF Change, RuleInv, RuleOK, IInv, TypeOK
  <2>2. \/ Goto(c, ChangeDone(r))
        \/ r.op = "enqueue" /\ Goto(c, At(r, "check"))
    BY <1>1, <1>2 DEF Change, ChangeFailed, RuleOK, StatusRequests
  <2>3. RuleOK(ChangeDone(r)) /\ (r.op = "enqueue" => RuleOK(At(r, "check")))
    BY <1>1, ChangeDoneRule, AtRule
  <2> HIDE DEF r
  <2> QED
    BY <2>1, <2>2, <2>3, LocalRule
<1>3. CASE CheckQueue(c) \/ PushEntry(c) \/ LogPushed(c)
  <2>1. r.op = "enqueue" /\ r.queue \in Queues /\ r.task \in Tasks
    BY <1>1, <1>3 DEF CheckQueue, PushEntry, LogPushed, RequestOK, RuleOK
  <2>2. RuleOK(AddFailed(r))
    BY <1>1, <2>1, AtRule DEF AddFailed
  <2>3. RuleOK(Added(r))
    BY <1>1, <2>1, AtRule, SweepingRule, IdleRule DEF Added, OtherQueues
  <2>4. RuleOK(At(r, "push")) /\ RuleOK(At(r, "pushed"))
    BY <1>1, <2>1, AtRule
  <2>5. /\ enqueue_status' = enqueue_status
        /\ \/ Goto(c, AddFailed(r)) \/ Goto(c, Added(r))
           \/ Goto(c, At(r, "push")) \/ Goto(c, At(r, "pushed"))
    BY <1>3 DEF CheckQueue, PushEntry, LogPushed, docs
  <2> HIDE DEF r
  <2> QED
    BY <2>2, <2>3, <2>4, <2>5, LocalRule DEF RuleInv
<1>4. CASE UndoEnqueue(c)
  <2>1. Goto(c, Idle) /\ \A t \in Tasks : enqueue_status'[t] \in PriorStatuses \cup {None}
    BY <1>4 DEF UndoEnqueue, RuleInv, IInv, TypeOK
  <2> QED
    BY <2>1, IdleRule, LocalRule
<1>5. CASE SetExecutionQueue(c)
  <2>1. r.op = "enqueue" /\ r.task \in Tasks /\ OtherQueues(r.queue) \in SUBSET Queues
    BY <1>1, <1>5 DEF SetExecutionQueue, RequestOK, RuleOK, OtherQueues
  <2>2. RuleOK(Sweeping(r, OtherQueues(r.queue)))
    BY <1>1, <2>1, SweepingRule
  <2>3. /\ enqueue_status' = enqueue_status
        /\ Goto(c, Sweeping(r, OtherQueues(r.queue))) \/ Goto(c, Idle)
    BY <1>5 DEF SetExecutionQueue
  <2> HIDE DEF r
  <2> QED
    BY <2>2, <2>3, IdleRule, LocalRule DEF RuleInv
<1>6. CASE Sweep(c)
  <2>1. r.pc = "sweep" /\ r.op \in {"enqueue", "dequeue", "reset", "delete", "archive"}
    BY <1>1, <1>6 DEF Sweep, RuleOK
  <2>2. \A q : RuleOK([r EXCEPT !.todo = @ \ {q}])
    BY <1>1 DEF RuleOK, Requests
  <2>3. r.op \in {"dequeue", "delete", "archive"} => RuleOK(ChangeIfActive(r))
    BY <1>1, ChangeIfActiveRule
  <2>4. RuleOK(SweepDone(r))
    BY <1>1, <2>1, <2>3, AtRule, IdleRule DEF SweepDone
  <2>5. /\ enqueue_status' = enqueue_status
        /\ (\E q : Goto(c, [r EXCEPT !.todo = @ \ {q}])) \/ Goto(c, SweepDone(r))
    BY <1>6 DEF Sweep, docs
  <2> HIDE DEF r
  <2> QED
    BY <2>2, <2>4, <2>5, LocalRule DEF RuleInv
<1>7. CASE FindEntry(c) \/ LogPulled(c)
  <2>1. r.task \in Tasks /\ r.op \in {"dequeue", "stop", "reset", "delete", "archive"}
    BY <1>1, <1>7 DEF FindEntry, LogPulled, RequestOK, RuleOK, StatusRequests
  <2>2. RuleOK(AfterDequeue(r))
    BY <1>1, <2>1, AfterDequeueRule
  <2>3. \A e : RuleOK([r EXCEPT !.pc = "pull", !.ent = e])
    BY <1>1 DEF RuleOK, Requests
  <2>4. /\ enqueue_status' = enqueue_status
        /\ \/ \E e : Goto(c, [r EXCEPT !.pc = "pull", !.ent = e])
           \/ Goto(c, AfterDequeue(r)) \/ Goto(c, Idle)
    BY <1>7, <2>1 DEF FindEntry, LogPulled, docs
  <2> HIDE DEF r
  <2> QED
    BY <2>2, <2>3, <2>4, IdleRule, LocalRule DEF RuleInv
<1>8. CASE PullEntry(c)
  <2>1. r.op # "remove_task"
    BY <1>1 DEF RuleOK, StatusRequests
  <2>2. \A pc \in {"pulled", "missed"} : RuleOK([r EXCEPT !.pc = pc, !.ent = None])
    BY <1>1 DEF RuleOK, Requests
  <2>3. /\ enqueue_status' = enqueue_status
        /\ \E pc \in {"pulled", "missed"} : Goto(c, [r EXCEPT !.pc = pc, !.ent = None])
    BY <1>8, <2>1 DEF PullEntry, docs
  <2> HIDE DEF r
  <2> QED
    BY <2>2, <2>3, LocalRule DEF RuleInv
<1>9. CASE CleanupTask(c)
  <2>1. /\ enqueue_status' = enqueue_status
        /\ \/ Goto(c, At(r, "erase"))
           \/ /\ r.op = "reset" /\ validate_transition(r.st, "created", r.opt)
              /\ Goto(c, At(r, "change"))
           \/ Goto(c, Idle)
    BY <1>1, <1>9 DEF CleanupTask, RuleOK, StatusRequests, docs
  <2>2. r.op = "reset" /\ validate_transition(r.st, "created", r.opt) =>
          Permitted(r.st, r.tgt)
    BY <1>1, Rules DEF RuleOK
  <2>3. /\ RuleOK(At(r, "erase"))
        /\ Permitted(r.st, r.tgt) => RuleOK(At(r, "change"))
    BY <1>1, AtRule
  <2> HIDE DEF r
  <2> QED
    BY <2>1, <2>2, <2>3, IdleRule, LocalRule DEF RuleInv
<1>10. CASE EraseTask(c) \/ TagArchived(c)
  <2>1. Goto(c, Idle) /\ \A t \in Tasks : enqueue_status'[t] \in PriorStatuses \cup {None}
    BY <1>10 DEF EraseTask, TagArchived, RuleInv, IInv, TypeOK
  <2> QED
    BY <2>1, IdleRule, LocalRule
<1>11. CASE EmptyQueue(c) \/ DropQueue(c) \/ RepositionEntry(c)
  <2>1. Goto(c, Idle) /\ enqueue_status' = enqueue_status
    BY <1>11 DEF EmptyQueue, DropQueue, RepositionEntry, docs
  <2> QED
    BY <2>1, IdleRule, LocalRule DEF RuleInv
<1>12. ~(LogPopped(c) \/ RecheckStatus(c) \/ RequeueStopped(c) \/ StartTask(c)
         \/ InspectTask(c) \/ ReleaseTask(c) \/ SavePublishing(c) \/ RestoreStatus(c)
         \/ SaveForTrash(c))
  BY <1>1 DEF RuleOK, LogPopped, RecheckStatus, RequeueStopped, StartTask, InspectTask,
       ReleaseTask, SavePublishing, RestoreStatus, SaveForTrash
<1> QED
  BY <1>2, <1>3, <1>4, <1>5, <1>6, <1>7, <1>8, <1>9, <1>10, <1>11, <1>12 DEF Proceed

LEMMA StepRule == ASSUME RulesRespected, IInv, RuleInv, [Next]_vars PROVE RuleInv'
<1>1. ASSUME NEW q \in Queues, CreateQueue(q)
      PROVE  RuleInv'
  BY <1>1 DEF CreateQueue, RuleInv, docs
<1>2. ASSUME NEW c \in Calls, Begin(c)
      PROVE  RuleInv'
  BY <1>2, BeginRule
<1>3. ASSUME NEW c \in Calls, Proceed(c)
      PROVE  RuleInv'
  BY <1>3, ProceedRule
<1>4. ASSUME NEW c \in Calls, Crash(c)
      PROVE  RuleInv'
  BY <1>4, IdleRule, LocalRule DEF Crash, RuleInv, docs
<1>5. CASE UNCHANGED vars
  BY <1>5 DEF vars, docs, RuleInv
<1> QED
  BY <1>1, <1>2, <1>3, <1>4, <1>5 DEF Next

StatusMoves(t) ==
  status'[t] \notin {status[t], Absent} =>
    \/ validate_status_change(status[t], status'[t])
    \/ status[t] = "queued" /\ validate_status_change(status'[t], "queued")

LEMMA WriterRule ==
  ASSUME IInv, RuleInv, NEW c \in Calls, WritesStatus(c), NEW t \in Tasks
  PROVE  StatusMoves(t)
<1> DEFINE r == call[c]
<1>1. r \in Requests /\ RequestOK(r) /\ RuleOK(r) /\ status \in [Tasks -> Statuses \cup {Absent}]
  BY CallOK DEF RuleInv, IInv, TypeOK
<1>2. CASE Change(c)
  BY <1>1, <1>2 DEF Change, StillAsRead, RuleOK, Permitted, StatusMoves
<1>3. CASE UndoEnqueue(c)
  <2>1. validate_status_change(r.st, "queued")
    BY <1>1, <1>3 DEF UndoEnqueue, RuleOK, PriorStatuses, validate_status_change, state_machine
  <2> QED
    BY <1>1, <1>3, <2>1 DEF UndoEnqueue, StatusMoves
<1>4. CASE EraseTask(c)
  BY <1>1, <1>4 DEF EraseTask, StatusMoves
<1>5. ~RequeueStopped(c) /\ ~ReleaseTask(c) /\ ~Saves(c)
  BY <1>1 DEF RuleOK, RequeueStopped, ReleaseTask, Saves, SavePublishing, RestoreStatus,
       SaveForTrash
<1> QED
  BY <1>2, <1>3, <1>4, <1>5 DEF WritesStatus

(* However requests interleave, a task moves along the rules of            *)
(* state_machine, or back from "queued" to a status it may be enqueued     *)
(* from: the status a request read is the filter of its update.            *)
THEOREM StatusesFollowRules == ASSUME RulesRespected PROVE Spec => StatusFollowsRules
<1>1. Init => RuleInv
  BY IdleRule DEF Init, RuleInv
<1>2. RuleInv /\ IInv /\ [Next]_vars => RuleInv'
  BY StepRule
<1>3. RuleInv /\ IInv /\ [Next]_vars =>
        [\A t \in Tasks : status'[t] \notin {status[t], Absent} =>
           \/ validate_status_change(status[t], status'[t])
           \/ status[t] = "queued" /\ validate_status_change(status'[t], "queued")]_vars
  <2> SUFFICES ASSUME RuleInv, IInv, [Next]_vars, NEW t \in Tasks
               PROVE  StatusMoves(t)
    BY DEF StatusMoves
  <2>1. status' = status => StatusMoves(t)
    BY DEF StatusMoves
  <2> QED
    BY <2>1, StatusWriters, WriterRule
<1> QED
  BY <1>1, <1>2, <1>3, Invariant, PTL DEF Spec, StatusFollowsRules

(***************************************************************************)
(* Publishing.  One thread at a time publishes and is not killed, and no   *)
(* client names "publishing" as a status of its own: the publish that set  *)
(* it is still under way, and will write the status again.                 *)
(***************************************************************************)
OnePublisher ==
  /\ "crash" \notin Faults
  /\ "publishing" \notin EnqueueFrom \cup Reports \cup NewStatuses
  /\ \A c, d \in Calls : "publish" \in Serves[c] /\ "publish" \in Serves[d] => c = d

(* The status a publish goes back to was read before it set "publishing".  *)
PublishOK(r) ==
  /\ r.tgt # "publishing"
  /\ r.op = "enqueue" => r.st # "publishing" /\ r.es # "publishing"
  /\ r.pc = "undo" => r.op = "enqueue"
  /\ r.pc = "start" => r.op = "agent"
  /\ r.op = "publish" =>
       /\ r.pc \in {"set_publishing", "change", "restore"}
       /\ r.st = "publishing" /\ r.es # "publishing"

Publishes(r, t) == r.op = "publish" /\ r.task = t /\ r.pc \in {"change", "restore"}

PublishInv ==
  /\ \A c \in Calls : PublishOK(call[c])
  /\ \A t \in Tasks : enqueue_status[t] # "publishing"
  /\ \A t \in Tasks : status[t] = "publishing" => \E c \in Calls : Publishes(call[c], t)

LEMMA IdlePublish == PublishOK(Idle)
  BY IdleFields, NoneIsNothing, StatusNames DEF PublishOK

LEMMA AtPublish ==
  ASSUME NEW r \in Requests, PublishOK(r), r.op # "publish", NEW pc,
         pc = "undo" => r.op = "enqueue", pc = "start" => r.op = "agent"
  PROVE  PublishOK(At(r, pc))
<1>1. At(r, pc).pc = pc /\ At(r, pc).op = r.op /\ At(r, pc).st = r.st /\ At(r, pc).tgt = r.tgt
      /\ At(r, pc).es = r.es
  BY DEF At, Requests
<1> QED
  BY <1>1 DEF PublishOK

LEMMA SweepingPublish ==
  ASSUME NEW r \in Requests, PublishOK(r), r.op # "publish", NEW qs
  PROVE  PublishOK(Sweeping(r, qs))
<1> DEFINE w == Sweeping(r, qs)
<1>1. w.pc = "sweep" /\ w.op = r.op /\ w.st = r.st /\ w.tgt = r.tgt /\ w.es = r.es
  BY DEF Sweeping, Requests
<1> QED
  BY <1>1 DEF PublishOK

LEMMA ContinuePublish ==
  ASSUME NEW r \in Requests, PublishOK(r), r.op # "publish"
  PROVE  /\ PublishOK(ChangeDone(r)) /\ PublishOK(ChangeFailed(r)) /\ PublishOK(ChangeIfActive(r))
         /\ PublishOK(AfterDequeue(r)) /\ PublishOK(SweepDone(r))
         /\ PublishOK(AddFailed(r)) /\ PublishOK(Added(r)) /\ PublishOK(Handed(r))
<1>1. PublishOK(ChangeDone(r)) /\ PublishOK(ChangeFailed(r))
  BY AtPublish, IdlePublish DEF ChangeDone, ChangeFailed
<1>2. PublishOK(ChangeIfActive(r))
  BY <1>1, AtPublish DEF ChangeIfActive
<1>3. PublishOK(AfterDequeue(r)) /\ PublishOK(SweepDone(r)) /\ PublishOK(Handed(r))
  BY <1>2, AtPublish, SweepingPublish, IdlePublish DEF AfterDequeue, SweepDone, Handed
<1>4. PublishOK(Added(r))
  BY AtPublish, SweepingPublish, IdlePublish DEF Added
<1>5. r.op = "move_task" =>
        PublishOK([r EXCEPT !.pc = "check", !.queue = r.source, !.source = None])
  BY DEF PublishOK, Requests
<1>6. PublishOK(AddFailed(r))
  BY <1>5, AtPublish, IdlePublish DEF AddFailed
<1> QED
  BY <1>1, <1>2, <1>3, <1>4, <1>6

(* A step of a thread that is not in the middle of a publish.              *)
NoneSetPublishing ==
  /\ \A t \in Tasks : enqueue_status'[t] # "publishing"
  /\ \A t \in Tasks : status'[t] = "publishing" => status[t] = "publishing"

LEMMA OtherPublish ==
  ASSUME IInv, PublishInv, NEW c \in Calls, NEW n, Goto(c, n), PublishOK(n),
         ~(call[c].op = "publish" /\ call[c].pc \in {"change", "restore"}),
         NoneSetPublishing
  PROVE  PublishInv'
<1>1. \A d \in Calls : call'[d] = IF d = c THEN n ELSE call[d]
  BY DEF Goto, IInv, TypeOK
<1>2. ASSUME NEW t \in Tasks, status'[t] = "publishing"
      PROVE  \E d \in Calls : Publishes(call'[d], t)
  <2>1. PICK d \in Calls : Publishes(call[d], t)
    BY <1>2 DEF PublishInv, NoneSetPublishing
  <2>2. d # c
    BY <2>1 DEF Publishes
  <2> QED
    BY <1>1, <2>1, <2>2
<1> QED
  BY <1>1, <1>2 DEF PublishInv, NoneSetPublishing

LEMMA LocalPublish ==
  ASSUME IInv, PublishInv, NEW c \in Calls, NEW n, Goto(c, n), PublishOK(n),
         ~(call[c].op = "publish" /\ call[c].pc \in {"change", "restore"}),
         UNCHANGED <<status, enqueue_status>>
  PROVE  PublishInv'
<1>1. NoneSetPublishing
  BY DEF PublishInv, NoneSetPublishing
<1> QED
  BY <1>1, OtherPublish

LEMMA BeginDequeuePublish ==
  ASSUME IInv, PublishInv, NEW c \in Calls, call[c] = Idle,
         NEW op \in {"dequeue", "stop", "reset", "delete", "trash", "archive"},
         NEW t \in Tasks, Exists(t), NEW tgt \in Statuses \ {"publishing"}, NEW opt \in BOOLEAN,
         BeginDequeue(c, Dequeuing(op, t, tgt, opt))
  PROVE  PublishInv'
<1> DEFINE r == Dequeuing(op, t, tgt, opt)
<1>1. status[t] \in Statuses /\ exec_queue[t] \in Queues \cup {None}
  BY TaskOK
<1>2. r = [Idle EXCEPT !.op = op, !.task = t, !.queue = exec_queue[t],
             !.st = status[t], !.tgt = tgt, !.opt = opt]
  BY DEF Dequeuing
<1>3. r \in Requests
  BY DequeuingRequest
<1>4. r.op = op /\ r.pc = "idle" /\ r.tgt = tgt
  BY <1>2, IdleOK, IdleFields DEF Requests
<1>5. /\ Goto(c, IF IsEnqueued(r.task) THEN At(r, "find") ELSE AfterDequeue(r))
      /\ UNCHANGED <<status, enqueue_status>>
  BY DEF BeginDequeue, docs
<1>6. call[c].op # "publish"
  BY IdleFields
<1> HIDE DEF r
<1>7. PublishOK(r) /\ r.op # "publish"
  BY <1>4 DEF PublishOK
<1>8. PublishOK(At(r, "find")) /\ PublishOK(AfterDequeue(r))
  BY <1>3, <1>7, AtPublish, ContinuePublish
<1> QED
  BY <1>5, <1>6, <1>8, LocalPublish

LEMMA BeginPublish ==
  ASSUME OnePublisher, IInv, Served, PublishInv, NEW c \in Calls, Begin(c)
  PROVE  PublishInv'
<1>1. \A n : /\ Goto(c, n) /\ PublishOK(n) /\ call[c] = Idle
            /\ UNCHANGED <<status, enqueue_status>>
           => PublishInv'
  BY IdleFields, LocalPublish
<1>2. \A t \in Tasks : PriorStatus(t) \in Statuses \ {"publishing"}
  BY TaskOK DEF PublishInv, PriorStatus
<1>3. ASSUME NEW t \in Tasks, NEW q \in Queues, NEW force \in Forces, NEW upd \in Options,
             Enqueue(c, t, q, force, upd)
      PROVE  PublishInv'
  <2> DEFINE r == [Idle EXCEPT !.op = "enqueue", !.pc = "change", !.task = t,
                     !.queue = q, !.st = status[t], !.tgt = "queued",
                     !.es = BeforeEnqueueStatus(t), !.opt = upd]
  <2>1. status[t] # "publishing" /\ BeforeEnqueueStatus(t) # "publishing"
    BY <1>3 DEF Enqueue, OnePublisher, BeforeEnqueueStatus, PublishInv
  <2>2. /\ r.op = "enqueue" /\ r.pc = "change" /\ r.st = status[t] /\ r.tgt = "queued"
        /\ r.es = BeforeEnqueueStatus(t)
    BY IdleOK DEF Requests
  <2>3. Goto(c, r) /\ call[c] = Idle /\ UNCHANGED <<status, enqueue_status>>
    BY <1>3 DEF Enqueue, Accepts, docs
  <2> HIDE DEF r
  <2>4. PublishOK(r)
    BY <2>1, <2>2 DEF PublishOK
  <2> QED
    BY <1>1, <2>3, <2>4
<1>4. \A n : /\ Goto(c, n) /\ n.op \notin {"enqueue", "publish"}
            /\ n.pc \notin {"undo", "start"} /\ n.tgt = None
            /\ call[c] = Idle /\ UNCHANGED <<status, enqueue_status>>
           => PublishInv'
  <2>1. ASSUME NEW n, n.op \notin {"enqueue", "publish"}, n.pc \notin {"undo", "start"},
               n.tgt = None
        PROVE  PublishOK(n)
    BY <2>1, NoneIsNothing, StatusNames DEF PublishOK
  <2> QED
    BY <1>1, <2>1
<1>5. ASSUME NEW t \in Tasks, NEW q \in Queues, NEW upd \in Options,
            AddTask(c, t, q, upd)
      PROVE  PublishInv'
  <2> DEFINE n == [Idle EXCEPT !.op = "add_task", !.pc = "check", !.task = t,
                     !.queue = q, !.opt = upd]
  <2>1. n.op = "add_task" /\ n.pc = "check" /\ n.tgt = None
    BY IdleOK, IdleFields DEF Requests
  <2>2. Goto(c, n) /\ call[c] = Idle /\ UNCHANGED <<status, enqueue_status>>
    BY <1>5 DEF AddTask, Accepts, docs
  <2> HIDE DEF n
  <2> QED
    BY <1>4, <2>1, <2>2
<1>6. ASSUME NEW t \in Tasks, NEW q \in Queues, NEW upd \in Options,
            RemoveTask(c, t, q, upd)
      PROVE  PublishInv'
  <2> DEFINE n == [Idle EXCEPT !.op = "remove_task", !.pc = "find", !.task = t,
                     !.queue = q, !.opt = upd]
  <2>1. n.op = "remove_task" /\ n.pc = "find" /\ n.tgt = None
    BY IdleOK, IdleFields DEF Requests
  <2>2. Goto(c, n) /\ call[c] = Idle /\ UNCHANGED <<status, enqueue_status>>
    BY <1>6 DEF RemoveTask, Accepts, docs
  <2> HIDE DEF n
  <2> QED
    BY <1>4, <2>1, <2>2
<1>7. ASSUME NEW t \in Tasks, NEW q \in Queues, NEW p \in Queues, NEW upd \in Options,
            MoveTask(c, t, q, p, upd)
      PROVE  PublishInv'
  <2> DEFINE n == [Idle EXCEPT !.op = "move_task", !.pc = "find", !.task = t,
                     !.queue = q, !.source = p, !.opt = upd]
  <2>1. n.op = "move_task" /\ n.pc = "find" /\ n.tgt = None
    BY IdleOK, IdleFields DEF Requests
  <2>2. Goto(c, n) /\ call[c] = Idle /\ UNCHANGED <<status, enqueue_status>>
    BY <1>7 DEF MoveTask, Accepts, docs
  <2> HIDE DEF n
  <2> QED
    BY <1>4, <2>1, <2>2
<1>8. ASSUME NEW t \in Tasks, NEW q \in Queues, NEW by,
            Reposition(c, t, q, by)
      PROVE  PublishInv'
  <2> DEFINE n == [Idle EXCEPT !.op = "reposition", !.pc = "reposition", !.task = t,
                     !.queue = q, !.by = by]
  <2>1. n.op = "reposition" /\ n.pc = "reposition" /\ n.tgt = None
    BY IdleOK, IdleFields DEF Requests
  <2>2. Goto(c, n) /\ call[c] = Idle /\ UNCHANGED <<status, enqueue_status>>
    BY <1>8 DEF Reposition, Accepts, docs
  <2> HIDE DEF n
  <2> QED
    BY <1>4, <2>1, <2>2
<1>9. ASSUME NEW t \in Tasks, NEW n \in NewStatuses \cup {None}, NEW all \in Options,
             Dequeue(c, t, n, all)
      PROVE  PublishInv'
  <2>1. (IF n # None THEN n ELSE PriorStatus(t)) \in Statuses \ {"publishing"} /\ all \in BOOLEAN
    BY <1>2, ConstantsAssumption DEF OnePublisher
  <2> QED
    BY <1>9, <2>1, BeginDequeuePublish DEF Dequeue, Accepts
<1>10. ASSUME NEW t \in Tasks, DequeueDeleted(c, t)
      PROVE  PublishInv'
  <2> DEFINE r == [Idle EXCEPT !.op = "dequeue", !.task = t]
             n == Sweeping(r, Queues)
  <2>1. /\ n = [r EXCEPT !.pc = "sweep", !.todo = Queues]
        /\ r \in Requests /\ r.op = "dequeue" /\ r.tgt = None
    BY IdleOK, IdleFields DEF Sweeping, Requests, RequestKinds
  <2> HIDE DEF r
  <2>2. n.op = "dequeue" /\ n.pc = "sweep" /\ n.tgt = None
    BY <2>1 DEF Requests
  <2>3. Goto(c, n) /\ call[c] = Idle /\ UNCHANGED <<status, enqueue_status>>
    BY <1>10 DEF DequeueDeleted, Accepts, docs, r
  <2> HIDE DEF n
  <2> QED
    BY <1>4, <2>2, <2>3
<1>11. ASSUME NEW t \in Tasks, NEW force \in Forces, Stop(c, t, force) \/ Reset(c, t, force)
      PROVE  PublishInv'
  <2>1. force \in BOOLEAN
    BY ConstantsAssumption
  <2> QED
    BY <1>11, <2>1, BeginDequeuePublish, StatusNames DEF Stop, Reset, Accepts
<1>12. ASSUME NEW t \in Tasks, NEW force \in Forces, NEW op \in {"delete", "trash"},
              Delete(c, t, force, op)
       PROVE  PublishInv'
  <2>1. force \in BOOLEAN
    BY ConstantsAssumption
  <2> QED
    BY <1>2, <1>12, <2>1, BeginDequeuePublish DEF Delete, Accepts
<1>13. ASSUME NEW t \in Tasks, NEW s \in Reports, NEW force \in Forces, Report(c, t, s, force)
       PROVE  PublishInv'
  <2> DEFINE r == [Idle EXCEPT !.op = "report", !.pc = "change", !.task = t,
                     !.st = status[t], !.tgt = s]
  <2>1. r.op = "report" /\ r.pc = "change" /\ r.tgt = s
    BY IdleOK DEF Requests
  <2>2. Goto(c, r) /\ call[c] = Idle /\ UNCHANGED <<status, enqueue_status>>
    BY <1>13 DEF Report, Accepts, docs
  <2> HIDE DEF r
  <2>3. PublishOK(r)
    BY <2>1 DEF PublishOK, OnePublisher
  <2> QED
    BY <1>1, <2>2, <2>3
<1>14. ASSUME NEW t \in Tasks, NEW force \in Forces, Publish(c, t, force)
       PROVE  PublishInv'
  <2> DEFINE r == [Idle EXCEPT !.op = "publish", !.pc = "set_publishing", !.task = t,
                     !.st = "publishing", !.tgt = "published", !.es = PreviousStatus(t)]
  <2>1. r.op = "publish" /\ r.pc = "set_publishing" /\ r.st = "publishing"
        /\ r.tgt = "published" /\ r.es = status[t]
    BY IdleOK DEF Requests, PreviousStatus
  <2>2. /\ Goto(c, r) /\ call[c] = Idle /\ "publish" \in Serves[c]
        /\ UNCHANGED <<status, enqueue_status>>
    BY <1>14 DEF Publish, Accepts, docs
  <2>3. status[t] # "publishing"
    <3>1. SUFFICES ASSUME NEW d \in Calls, Publishes(call[d], t) PROVE FALSE
      BY DEF PublishInv
    <3>2. "publish" \in Serves[d]
      BY <3>1 DEF Publishes, Served
    <3>3. d = c
      BY <2>2, <3>2 DEF OnePublisher
    <3> QED
      BY <2>2, <3>1, <3>3, IdleFields DEF Publishes
  <2> HIDE DEF r
  <2>4. PublishOK(r)
    BY <2>1, <2>3 DEF PublishOK
  <2> QED
    BY <1>1, <2>2, <2>4
<1>15. ASSUME NEW t \in Tasks, Archive(c, t)
       PROVE  PublishInv'
  <2>1. (IF status[t] = "in_progress" THEN "stopped" ELSE PriorStatus(t))
          \in Statuses \ {"publishing"}
    BY <1>2, StatusNames
  <2> QED
    BY <1>15, <2>1, BeginDequeuePublish DEF Archive, Accepts
<1>16. ASSUME NEW t \in Tasks, Unarchive(c, t)
       PROVE  PublishInv'
  BY <1>16 DEF Unarchive, PublishInv
<1>17. ASSUME NEW q \in Queues, NEW op \in {"get_next_task", "agent"},
            GetNextTask(c, q, op)
      PROVE  PublishInv'
  <2> DEFINE n == [Idle EXCEPT !.op = op, !.pc = "popped",
                     !.task = entries[q][NextUp(entries[q])].task,
                     !.ent = entries[q][NextUp(entries[q])]]
  <2>1. n.op = op /\ n.pc = "popped" /\ n.tgt = None
    BY IdleOK, IdleFields DEF Requests
  <2>2. Goto(c, n) /\ call[c] = Idle /\ UNCHANGED <<status, enqueue_status>>
    BY <1>17 DEF GetNextTask, Accepts, docs
  <2> HIDE DEF n
  <2> QED
    BY <1>4, <2>1, <2>2
<1>18. ASSUME NEW q \in Queues,
            ClearQueue(c, q)
      PROVE  PublishInv'
  <2> DEFINE n == [Idle EXCEPT !.op = "clear_queue", !.pc = "inspect", !.queue = q,
                     !.left = TasksIn(q)]
  <2>1. n.op = "clear_queue" /\ n.pc = "inspect" /\ n.tgt = None
    BY IdleOK, IdleFields DEF Requests
  <2>2. Goto(c, n) /\ call[c] = Idle /\ UNCHANGED <<status, enqueue_status>>
    BY <1>18 DEF ClearQueue, Accepts, docs
  <2> HIDE DEF n
  <2> QED
    BY <1>4, <2>1, <2>2
<1>19. ASSUME NEW q \in Queues, NEW force \in Forces,
            DeleteQueue(c, q, force)
      PROVE  PublishInv'
  <2> DEFINE n == [Idle EXCEPT !.op = "delete_queue",
                     !.pc = IF entries[q] = <<>> THEN "drop" ELSE "inspect", !.queue = q,
                     !.left = TasksIn(q), !.opt = force]
  <2>1. n.op = "delete_queue" /\ n.pc \in {"drop", "inspect"} /\ n.tgt = None
    BY IdleOK, IdleFields DEF Requests
  <2>2. Goto(c, n) /\ call[c] = Idle /\ UNCHANGED <<status, enqueue_status>>
    BY <1>19 DEF DeleteQueue, Accepts, docs
  <2> HIDE DEF n
  <2> QED
    BY <1>4, <2>1, <2>2
<1> QED
  BY <1>3, <1>5, <1>6, <1>7, <1>8, <1>9, <1>10, <1>11, <1>12, <1>13, <1>14, <1>15, <1>16,
     <1>17, <1>18, <1>19 DEF Begin

(* The steps of a publish: "publishing" is what it writes between two      *)
(* statuses that are not, and it is at "change" or "restore" meanwhile.    *)
LEMMA PublishSteps ==
  ASSUME IInv, PublishInv, NEW c \in Calls,
         \/ Change(c) /\ call[c].op = "publish"
         \/ SavePublishing(c)
         \/ RestoreStatus(c)
  PROVE  PublishInv'
<1> DEFINE r == call[c]
<1>1. /\ r \in Requests /\ r.task \in Tasks /\ r.op = "publish"
      /\ r.tgt # "publishing" /\ r.st = "publishing" /\ r.es # "publishing"
  BY CallOK DEF PublishInv, PublishOK, RequestOK, Change, SavePublishing, RestoreStatus
<1>2. \A n : Goto(c, n) => \A d \in Calls : call'[d] = IF d = c THEN n ELSE call[d]
  BY DEF Goto, IInv, TypeOK
<1>3. status \in [Tasks -> Statuses \cup {Absent}]
  BY DEF IInv, TypeOK
<1>4. enqueue_status' = enqueue_status
  BY <1>1 DEF Change, SavePublishing, RestoreStatus
<1>5. \A pc \in {"change", "restore"} : PublishOK(At(r, pc)) /\ Publishes(At(r, pc), r.task)
  BY <1>1 DEF At, Requests, PublishOK, Publishes
<1>6. ASSUME NEW n, Goto(c, n), PublishOK(n),
             Publishes(n, r.task) \/ status'[r.task] # "publishing",
             \A t \in Tasks \ {r.task} : status'[t] = status[t]
      PROVE  PublishInv'
  <2>1. ASSUME NEW t \in Tasks, status'[t] = "publishing"
        PROVE  \E d \in Calls : Publishes(call'[d], t)
    <3>1. CASE t = r.task
      BY <1>2, <1>6, <2>1, <3>1
    <3>2. CASE t # r.task
      <4>1. PICK d \in Calls : Publishes(call[d], t)
        BY <1>6, <2>1, <3>2 DEF PublishInv
      <4>2. d # c
        BY <3>2, <4>1 DEF Publishes
      <4> QED
        BY <1>2, <1>6, <4>1, <4>2
    <3> QED
      BY <3>1, <3>2
  <2> QED
    BY <1>2, <1>4, <1>6, <2>1 DEF PublishInv
<1>7. CASE Change(c)
  <2>1. CASE StillAsRead(r)
    <3>1. Goto(c, Idle) /\ status' = [status EXCEPT ![r.task] = r.tgt]
      BY <1>1, <1>7, <2>1 DEF Change, ChangeDone
    <3> QED
      BY <1>1, <1>3, <1>6, <3>1, IdlePublish
  <2>2. CASE ~StillAsRead(r)
    <3>1. Goto(c, At(r, "restore")) /\ status' = status
      BY <1>1, <1>7, <2>2 DEF Change, ChangeFailed
    <3> QED
      BY <1>5, <1>6, <3>1
  <2> QED
    BY <2>1, <2>2
<1>8. CASE SavePublishing(c)
  <2>1. /\ Goto(c, At(r, "change")) \/ Goto(c, At(r, "restore"))
        /\ status' = [status EXCEPT ![r.task] = "publishing"]
    BY <1>8 DEF SavePublishing, Save
  <2> HIDE DEF r
  <2> QED
    BY <1>1, <1>3, <1>5, <1>6, <2>1
<1>9. CASE RestoreStatus(c)
  <2>1. Goto(c, Idle) /\ status' = [status EXCEPT ![r.task] = r.es]
    BY <1>9 DEF RestoreStatus, Save
  <2> QED
    BY <1>1, <1>3, <1>6, <2>1, IdlePublish
<1> QED
  BY <1>7, <1>8, <1>9

LEMMA ProceedPublish ==
  ASSUME IInv, PublishInv, NEW c \in Calls, Proceed(c)
  PROVE  PublishInv'
<1> DEFINE r == call[c]
<1>1. r \in Requests /\ RequestOK(r) /\ PublishOK(r)
  BY CallOK DEF PublishInv
<1>2. /\ status \in [Tasks -> Statuses \cup {Absent}]
      /\ enqueue_status \in [Tasks -> Statuses \cup {None}]
  BY DEF IInv, TypeOK
<1>3. /\ \A t \in Tasks : enqueue_status[t] # "publishing"
      /\ "publishing" \notin {None, Absent, "queued", "created"}
  BY NoneIsNothing, StatusNames DEF PublishInv
<1>4. CASE r.op = "publish"
  <2>1. Change(c) \/ SavePublishing(c) \/ RestoreStatus(c)
    BY <1>1, <1>4 DEF PublishOK, Proceed, CheckQueue, PushEntry, LogPushed, UndoEnqueue,
         SetExecutionQueue, Sweep, FindEntry, PullEntry, LogPulled, CleanupTask, SaveForTrash,
         EraseTask, TagArchived, LogPopped, RecheckStatus, RequeueStopped, StartTask,
         InspectTask, ReleaseTask, EmptyQueue, DropQueue, RepositionEntry
  <2> QED
    BY <1>4, <2>1, PublishSteps
<1>5. CASE r.op # "publish"
  <2>1. \A n : Goto(c, n) /\ PublishOK(n) /\ UNCHANGED <<status, enqueue_status>> => PublishInv'
    BY <1>5, LocalPublish
  <2>2. \A n : Goto(c, n) /\ PublishOK(n) /\ NoneSetPublishing => PublishInv'
    BY <1>5, OtherPublish
  <2>3. /\ PublishOK(ChangeDone(r)) /\ PublishOK(ChangeFailed(r))
        /\ PublishOK(AfterDequeue(r)) /\ PublishOK(SweepDone(r))
        /\ PublishOK(AddFailed(r)) /\ PublishOK(Added(r)) /\ PublishOK(Handed(r))
    BY <1>1, <1>5, ContinuePublish
  <2>5. \A pc : pc \notin {"undo", "start"} => PublishOK(At(r, pc))
    BY <1>1, <1>5, AtPublish
  <2>6. CASE Change(c)
    <3>1. \/ Goto(c, At(r, "check")) \/ Goto(c, ChangeDone(r)) \/ Goto(c, ChangeFailed(r))
      BY <2>6 DEF Change
    <3>2. \A t \in Tasks : enqueue_status'[t] # "publishing"
      BY <1>1, <1>2, <1>3, <2>6 DEF Change, PublishOK
    <3>3. \A t \in Tasks : status'[t] = "publishing" => status[t] = "publishing"
      BY <1>1, <1>2, <2>6 DEF Change, PublishOK
    <3>4. NoneSetPublishing
      BY <3>2, <3>3 DEF NoneSetPublishing
    <3> HIDE DEF r
    <3> QED
      BY <2>2, <2>3, <2>5, <3>1, <3>4
  <2>7. CASE CheckQueue(c) \/ PushEntry(c) \/ LogPushed(c)
    <3>1. /\ UNCHANGED <<status, enqueue_status>>
          /\ \/ Goto(c, AddFailed(r)) \/ Goto(c, Added(r))
             \/ Goto(c, At(r, "push")) \/ Goto(c, At(r, "pushed"))
      BY <2>7 DEF CheckQueue, PushEntry, LogPushed, docs
    <3> HIDE DEF r
    <3> QED
      BY <2>1, <2>3, <2>5, <3>1
  <2>8. CASE UndoEnqueue(c)
    <3>1. Goto(c, Idle) /\ r.st # "publishing"
      BY <1>1, <2>8 DEF UndoEnqueue, PublishOK
    <3>2. \A t \in Tasks : enqueue_status'[t] # "publishing"
      BY <1>2, <1>3, <2>8 DEF UndoEnqueue
    <3>3. \A t \in Tasks : status'[t] = "publishing" => status[t] = "publishing"
      BY <1>2, <2>8, <3>1 DEF UndoEnqueue
    <3>4. NoneSetPublishing
      BY <3>2, <3>3 DEF NoneSetPublishing
    <3> QED
      BY <2>2, <3>1, <3>4, IdlePublish
  <2>9. CASE SetExecutionQueue(c)
    <3>1. /\ UNCHANGED <<status, enqueue_status>>
          /\ Goto(c, Sweeping(r, OtherQueues(r.queue))) \/ Goto(c, Idle)
      BY <2>9 DEF SetExecutionQueue
    <3>2. PublishOK(Sweeping(r, OtherQueues(r.queue)))
      BY <1>1, <1>5, SweepingPublish
    <3> HIDE DEF r
    <3> QED
      BY <2>1, <3>1, <3>2, IdlePublish
  <2>10. CASE Sweep(c)
    <3>1. /\ UNCHANGED <<status, enqueue_status>>
          /\ (\E q : Goto(c, [r EXCEPT !.todo = @ \ {q}])) \/ Goto(c, SweepDone(r))
      BY <2>10 DEF Sweep, docs
    <3>2. \A q : PublishOK([r EXCEPT !.todo = @ \ {q}])
      BY <1>1 DEF PublishOK, Requests
    <3> HIDE DEF r
    <3> QED
      BY <2>1, <2>3, <3>1, <3>2
  <2>11. CASE FindEntry(c) \/ LogPulled(c)
    <3>1. /\ UNCHANGED <<status, enqueue_status>>
          /\ \/ \E e : Goto(c, [r EXCEPT !.pc = "pull", !.ent = e])
             \/ Goto(c, [r EXCEPT !.pc = "check", !.queue = r.source, !.source = r.queue])
             \/ Goto(c, AfterDequeue(r)) \/ Goto(c, Idle)
      BY <2>11 DEF FindEntry, LogPulled, docs
    <3>2. /\ \A e : PublishOK([r EXCEPT !.pc = "pull", !.ent = e])
          /\ PublishOK([r EXCEPT !.pc = "check", !.queue = r.source, !.source = r.queue])
      BY <1>1, <1>5 DEF PublishOK, Requests
    <3> HIDE DEF r
    <3> QED
      BY <2>1, <2>3, <3>1, <3>2, IdlePublish
  <2>12. CASE PullEntry(c)
    <3>1. /\ UNCHANGED <<status, enqueue_status>>
          /\ \/ \E pc \in {"pulled", "missed"} : Goto(c, [r EXCEPT !.pc = pc, !.ent = None])
             \/ Goto(c, [r EXCEPT !.pc = "inspect", !.left = {r.task}, !.ent = None])
             \/ Goto(c, Idle)
      BY <2>12 DEF PullEntry, docs
    <3>2. /\ \A pc \in {"pulled", "missed"} : PublishOK([r EXCEPT !.pc = pc, !.ent = None])
          /\ PublishOK([r EXCEPT !.pc = "inspect", !.left = {r.task}, !.ent = None])
      BY <1>1, <1>5 DEF PublishOK, Requests
    <3> HIDE DEF r
    <3> QED
      BY <2>1, <3>1, <3>2, IdlePublish
  <2>13. CASE CleanupTask(c) \/ LogPopped(c) \/ RecheckStatus(c)
    <3>1. /\ UNCHANGED <<status, enqueue_status>>
          /\ \/ \E pc \in {"erase", "to_trash", "change", "recheck", "requeue"} : Goto(c, At(r, pc))
             \/ Goto(c, Handed(r)) \/ Goto(c, Idle)
      BY <2>13 DEF CleanupTask, LogPopped, RecheckStatus, docs
    <3> HIDE DEF r
    <3> QED
      BY <2>1, <2>3, <2>5, <3>1, IdlePublish
  <2>14. CASE SaveForTrash(c)
    <3>1. Goto(c, At(r, "erase")) /\ enqueue_status' = enqueue_status
      BY <2>14 DEF SaveForTrash
    <3>2. \A t \in Tasks : status'[t] = "publishing" => status[t] = "publishing"
      BY <1>2, <2>14 DEF SaveForTrash, Save
    <3>3. NoneSetPublishing
      BY <1>3, <3>1, <3>2 DEF NoneSetPublishing
    <3> HIDE DEF r
    <3> QED
      BY <2>2, <2>5, <3>1, <3>3
  <2>15. CASE EraseTask(c) \/ TagArchived(c)
    <3>1. Goto(c, Idle)
      BY <2>15 DEF EraseTask, TagArchived
    <3>2. \A t \in Tasks : enqueue_status'[t] # "publishing"
      BY <1>2, <1>3, <2>15 DEF EraseTask, TagArchived
    <3>3. \A t \in Tasks : status'[t] = "publishing" => status[t] = "publishing"
      BY <1>2, <1>3, <2>15 DEF EraseTask, TagArchived
    <3>4. NoneSetPublishing
      BY <3>2, <3>3 DEF NoneSetPublishing
    <3> QED
      BY <2>2, <3>1, <3>4, IdlePublish
  <2>16. CASE RequeueStopped(c)
    <3>1. Goto(c, Handed(r)) /\ enqueue_status' = enqueue_status
      BY <2>16 DEF RequeueStopped
    <3>2. \A t \in Tasks : status'[t] = "publishing" => status[t] = "publishing"
      BY <1>2, <2>16 DEF RequeueStopped
    <3>3. NoneSetPublishing
      BY <1>3, <3>1, <3>2 DEF NoneSetPublishing
    <3> HIDE DEF r
    <3> QED
      BY <2>2, <2>3, <3>1, <3>3
  <2>17. CASE StartTask(c)
    <3>1. /\ UNCHANGED <<status, enqueue_status>> /\ r.op = "agent"
          /\ \/ Goto(c, [r EXCEPT !.pc = "change", !.st = status[r.task], !.tgt = "in_progress"])
             \/ Goto(c, Idle)
      BY <1>1, <2>17 DEF StartTask, PublishOK, docs
    <3>2. PublishOK([r EXCEPT !.pc = "change", !.st = status[r.task], !.tgt = "in_progress"])
      BY <1>1, <3>1 DEF PublishOK, Requests
    <3> HIDE DEF r
    <3> QED
      BY <2>1, <3>1, <3>2, IdlePublish
  <2>18. r.pc \in {"inspect", "release"} => r.op \in {"clear_queue", "delete_queue", "remove_task"}
    BY <1>1 DEF RequestOK
  <2>19. \A t : r.op # "enqueue" => PublishOK(ReleasedOne([r EXCEPT !.task = t]))
    <3> SUFFICES ASSUME NEW t, r.op # "enqueue"
                 PROVE  PublishOK(ReleasedOne([r EXCEPT !.task = t]))
      OBVIOUS
    <3> DEFINE a == [r EXCEPT !.task = t]
               next == [a EXCEPT !.left = a.left \ {a.task}, !.task = None, !.st = None,
                          !.tgt = None]
    <3>1. /\ ReleasedOne(a) \in {At(next, "inspect"), At(next, "empty"), At(next, "drop"), Idle}
      BY DEF ReleasedOne
    <3>2. \A pc : At(next, pc).pc = pc /\ At(next, pc).op = r.op /\ At(next, pc).tgt = None
      BY <1>1 DEF At, Requests
    <3> HIDE DEF a, next
    <3>3. \A pc : pc \notin {"undo", "start"} => PublishOK(At(next, pc))
      BY <1>3, <1>5, <3>2 DEF PublishOK
    <3> QED
      BY <3>1, <3>3, IdlePublish DEF a
  <2>20. CASE InspectTask(c)
    <3>1. PICK t \in r.left :
            Goto(c, IF Exists(t) /\ exec_queue[t] = r.queue
                    THEN [r EXCEPT !.pc = "release", !.task = t, !.st = status[t],
                                   !.tgt = PriorStatus(t)]
                    ELSE ReleasedOne([r EXCEPT !.task = t]))
      BY <2>20 DEF InspectTask
    <3>2. t \in Tasks /\ r.op # "enqueue" /\ UNCHANGED <<status, enqueue_status>>
      BY <1>1, <2>18, <2>20, <3>1 DEF InspectTask, Requests, docs
    <3>3. PriorStatus(t) # "publishing"
      BY <1>3, <3>2 DEF PriorStatus
    <3>4. PublishOK([r EXCEPT !.pc = "release", !.task = t, !.st = status[t],
                              !.tgt = PriorStatus(t)])
      BY <1>1, <1>5, <3>2, <3>3 DEF PublishOK, Requests
    <3>5. PublishOK(ReleasedOne([r EXCEPT !.task = t]))
      BY <2>19, <3>2
    <3> HIDE DEF r
    <3> QED
      BY <2>1, <3>1, <3>2, <3>4, <3>5
  <2>21. CASE ReleaseTask(c)
    <3>1. Goto(c, ReleasedOne(r)) /\ r.op # "enqueue" /\ r.tgt # "publishing"
      BY <1>1, <2>18, <2>21 DEF ReleaseTask, PublishOK
    <3>2. r = [r EXCEPT !.task = r.task]
      BY <1>1 DEF Requests
    <3>3. \A t \in Tasks : enqueue_status'[t] # "publishing"
      BY <1>2, <1>3, <2>21 DEF ReleaseTask
    <3>4. \A t \in Tasks : status'[t] = "publishing" => status[t] = "publishing"
      BY <1>2, <2>21, <3>1 DEF ReleaseTask
    <3>5. PublishOK(ReleasedOne(r))
      BY <2>19, <3>1, <3>2
    <3>6. NoneSetPublishing
      BY <3>3, <3>4 DEF NoneSetPublishing
    <3> HIDE DEF r
    <3> QED
      BY <2>2, <3>1, <3>5, <3>6
  <2>22. CASE EmptyQueue(c) \/ DropQueue(c) \/ RepositionEntry(c)
    <3>1. Goto(c, Idle) /\ UNCHANGED <<status, enqueue_status>>
      BY <2>22 DEF EmptyQueue, DropQueue, RepositionEntry, docs
    <3> QED
      BY <2>1, <3>1, IdlePublish
  <2>23. CASE SavePublishing(c) \/ RestoreStatus(c)
    BY <2>23, PublishSteps
  <2> QED
    BY <2>6, <2>7, <2>8, <2>9, <2>10, <2>11, <2>12, <2>13, <2>14, <2>15, <2>16, <2>17, <2>20,
       <2>21, <2>22, <2>23 DEF Proceed
<1> QED
  BY <1>4, <1>5

LEMMA StepPublish == ASSUME OnePublisher, IInv, Served, PublishInv, [Next]_vars PROVE PublishInv'
<1>1. ASSUME NEW q \in Queues, CreateQueue(q)
      PROVE  PublishInv'
  BY <1>1 DEF CreateQueue, PublishInv, docs
<1>2. ASSUME NEW c \in Calls, Begin(c)
      PROVE  PublishInv'
  BY <1>2, BeginPublish
<1>3. ASSUME NEW c \in Calls, Proceed(c)
      PROVE  PublishInv'
  BY <1>3, ProceedPublish
<1>4. \A c \in Calls : ~Crash(c)
  BY DEF Crash, OnePublisher
<1>5. CASE UNCHANGED vars
  BY <1>5 DEF vars, docs, PublishInv
<1> QED
  BY <1>1, <1>2, <1>3, <1>4, <1>5 DEF Next

(* A publish may fail, and may overlap with requests that stop, reset,     *)
(* enqueue, release or delete the task: once every request is done, no     *)
(* task is left "publishing".                                              *)
THEOREM PublishesEnd == ASSUME OnePublisher PROVE Spec => []PublishingEnds
<1>1. Init => PublishInv
  BY IdlePublish, NoneIsNothing, StatusNames DEF Init, PublishInv
<1>2. PublishInv /\ IInv /\ Served /\ [Next]_vars => PublishInv'
  BY StepPublish
<1>3. PublishInv => PublishingEnds
  <2> SUFFICES ASSUME PublishInv, AllIdle, NEW t \in Tasks, status[t] = "publishing"
               PROVE  FALSE
    BY DEF PublishingEnds
  <2>1. PICK c \in Calls : Publishes(call[c], t)
    BY DEF PublishInv
  <2> QED
    BY <2>1, IdleFields DEF AllIdle, Publishes
<1> QED
  BY <1>1, <1>2, <1>3, Invariant, ServedInvariant, PTL DEF Spec

(***************************************************************************)
(* What a queued task goes back to.  Nobody takes tasks from the queues (a *)
(* task found stopped is queued anew, whatever its enqueue_status), nobody *)
(* publishes with force or names "queued" as a status of its own.          *)
(***************************************************************************)
PriorsRespected ==
  /\ \A c \in Calls : Serves[c] \cap {"get_next_task", "agent"} = {}
  /\ "queued" \notin EnqueueFrom \cup Reports \cup NewStatuses
  /\ \A c \in Calls : "publish" \in Serves[c] => Forces \subseteq {FALSE}

Polls == {"popped", "recheck", "requeue", "start"}

(* Only tasks.enqueue writes "queued", and with it a status that is not.   *)
PriorOK(r) ==
  /\ r.tgt = "queued" => r.op = "enqueue"
  /\ r.op = "enqueue" => r.st # "queued" /\ r.es \notin {None, "queued"}
  /\ r.op = "publish" => r.es # "queued"
  /\ r.pc = "undo" => r.op = "enqueue"
  /\ r.pc \notin Polls

Recorded ==
  \A t \in Tasks :
    enqueue_status[t] # "queued" /\ (status[t] = "queued" => enqueue_status[t] # None)

PriorInv == Recorded /\ \A c \in Calls : PriorOK(call[c])

LEMMA IdlePrior == PriorOK(Idle)
  BY IdleFields, NoneIsNothing, StatusNames DEF PriorOK, Polls

LEMMA AtPrior ==
  ASSUME NEW r \in Requests, PriorOK(r), NEW pc, pc = "undo" => r.op = "enqueue", pc \notin Polls
  PROVE  PriorOK(At(r, pc))
<1>1. At(r, pc).pc = pc /\ At(r, pc).op = r.op /\ At(r, pc).st = r.st /\ At(r, pc).tgt = r.tgt
      /\ At(r, pc).es = r.es
  BY DEF At, Requests
<1> QED
  BY <1>1 DEF PriorOK

LEMMA SweepingPrior ==
  ASSUME NEW r \in Requests, PriorOK(r), NEW qs
  PROVE  PriorOK(Sweeping(r, qs))
<1> DEFINE w == Sweeping(r, qs)
<1>1. w.pc = "sweep" /\ w.op = r.op /\ w.st = r.st /\ w.tgt = r.tgt /\ w.es = r.es
  BY DEF Sweeping, Requests
<1> QED
  BY <1>1 DEF PriorOK, Polls

LEMMA ContinuePrior ==
  ASSUME NEW r \in Requests, PriorOK(r)
  PROVE  /\ PriorOK(ChangeDone(r)) /\ PriorOK(ChangeFailed(r)) /\ PriorOK(ChangeIfActive(r))
         /\ PriorOK(AfterDequeue(r)) /\ PriorOK(SweepDone(r))
         /\ PriorOK(AddFailed(r)) /\ PriorOK(Added(r))
<1>0. \A pc \in {"change", "restore", "tag", "cleanup", "set_queue", "check", "undo"} :
        pc \notin Polls
  BY DEF Polls
<1>1. PriorOK(ChangeDone(r)) /\ PriorOK(ChangeFailed(r))
  BY <1>0, AtPrior, IdlePrior DEF ChangeDone, ChangeFailed
<1>2. PriorOK(ChangeIfActive(r))
  BY <1>0, <1>1, AtPrior DEF ChangeIfActive
<1>3. PriorOK(AfterDequeue(r)) /\ PriorOK(SweepDone(r))
  BY <1>0, <1>2, AtPrior, SweepingPrior, IdlePrior DEF AfterDequeue, SweepDone
<1>4. PriorOK(Added(r))
  BY <1>0, AtPrior, SweepingPrior, IdlePrior DEF Added
<1>5. PriorOK([r EXCEPT !.pc = "check", !.queue = r.source, !.source = None])
  BY DEF PriorOK, Requests, Polls
<1>6. PriorOK(AddFailed(r))
  BY <1>0, <1>5, AtPrior, IdlePrior DEF AddFailed
<1> QED
  BY <1>1, <1>2, <1>3, <1>4, <1>6

LEMMA LocalPrior ==
  ASSUME IInv, PriorInv, NEW c \in Calls, NEW n, Goto(c, n), PriorOK(n), Recorded'
  PROVE  PriorInv'
<1>1. \A d \in Calls : call'[d] = IF d = c THEN n ELSE call[d]
  BY DEF Goto, IInv, TypeOK
<1> QED
  BY <1>1 DEF PriorInv

LEMMA RecordedFrame ==
  ASSUME PriorInv, UNCHANGED <<status, enqueue_status>>
  PROVE  Recorded'
  BY DEF PriorInv, Recorded

LEMMA BeginDequeuePrior ==
  ASSUME IInv, PriorInv, NEW c \in Calls, call[c] = Idle,
         NEW op \in {"dequeue", "stop", "reset", "delete", "trash", "archive"},
         NEW t \in Tasks, Exists(t), NEW tgt \in Statuses \ {"queued"}, NEW opt \in BOOLEAN,
         BeginDequeue(c, Dequeuing(op, t, tgt, opt))
  PROVE  PriorInv'
<1> DEFINE r == Dequeuing(op, t, tgt, opt)
<1>1. status[t] \in Statuses /\ exec_queue[t] \in Queues \cup {None}
  BY TaskOK
<1>2. r = [Idle EXCEPT !.op = op, !.task = t, !.queue = exec_queue[t],
             !.st = status[t], !.tgt = tgt, !.opt = opt]
  BY DEF Dequeuing
<1>3. r \in Requests
  BY DequeuingRequest
<1>4. r.op = op /\ r.pc = "idle" /\ r.tgt = tgt
  BY <1>2, IdleOK, IdleFields DEF Requests
<1>5. /\ Goto(c, IF IsEnqueued(r.task) THEN At(r, "find") ELSE AfterDequeue(r))
      /\ UNCHANGED <<status, enqueue_status>>
  BY DEF BeginDequeue, docs
<1>6. Recorded'
  BY <1>5, RecordedFrame
<1> HIDE DEF r
<1>7. PriorOK(r)
  BY <1>4 DEF PriorOK, Polls
<1>8. PriorOK(At(r, "find")) /\ PriorOK(AfterDequeue(r))
  BY <1>3, <1>7, AtPrior, ContinuePrior DEF Polls
<1> QED
  BY <1>5, <1>6, <1>8, LocalPrior

LEMMA BeginPrior ==
  ASSUME PriorsRespected, IInv, PriorInv, NEW c \in Calls, Begin(c)
  PROVE  PriorInv'
<1>1. \A n : /\ Goto(c, n) /\ PriorOK(n) /\ call[c] = Idle
            /\ UNCHANGED <<status, enqueue_status>>
           => PriorInv'
  BY RecordedFrame, LocalPrior
<1>2. \A t \in Tasks : PriorStatus(t) \in Statuses \ {"queued"}
  BY TaskOK, StatusNames, NoneIsNothing DEF PriorInv, Recorded, PriorStatus
<1>3. ASSUME NEW t \in Tasks, NEW q \in Queues, NEW force \in Forces, NEW upd \in Options,
             Enqueue(c, t, q, force, upd)
      PROVE  PriorInv'
  <2> DEFINE r == [Idle EXCEPT !.op = "enqueue", !.pc = "change", !.task = t,
                     !.queue = q, !.st = status[t], !.tgt = "queued",
                     !.es = BeforeEnqueueStatus(t), !.opt = upd]
  <2>1. status[t] # "queued" /\ BeforeEnqueueStatus(t) \notin {None, "queued"}
    BY <1>3, NoneIsNothing, ConstantsAssumption DEF Enqueue, PriorsRespected, BeforeEnqueueStatus
  <2>2. /\ r.op = "enqueue" /\ r.pc = "change" /\ r.st = status[t] /\ r.tgt = "queued"
        /\ r.es = BeforeEnqueueStatus(t)
    BY IdleOK DEF Requests
  <2>3. Goto(c, r) /\ call[c] = Idle /\ UNCHANGED <<status, enqueue_status>>
    BY <1>3 DEF Enqueue, Accepts, docs
  <2> HIDE DEF r
  <2>4. PriorOK(r)
    BY <2>1, <2>2 DEF PriorOK, Polls
  <2> QED
    BY <1>1, <2>3, <2>4
<1>4. \A n : /\ Goto(c, n) /\ n.op \notin {"enqueue", "publish"}
            /\ n.pc \notin Polls \cup {"undo"} /\ n.tgt = None
            /\ call[c] = Idle /\ UNCHANGED <<status, enqueue_status>>
           => PriorInv'
  <2>1. ASSUME NEW n, n.op \notin {"enqueue", "publish"}, n.pc \notin Polls \cup {"undo"},
               n.tgt = None
        PROVE  PriorOK(n)
    BY <2>1, NoneIsNothing, StatusNames DEF PriorOK
  <2> QED
    BY <1>1, <2>1
<1>5. ASSUME NEW t \in Tasks, NEW q \in Queues, NEW upd \in Options,
            AddTask(c, t, q, upd)
      PROVE  PriorInv'
  <2> DEFINE n == [Idle EXCEPT !.op = "add_task", !.pc = "check", !.task = t,
                     !.queue = q, !.opt = upd]
  <2>1. n.op = "add_task" /\ n.pc = "check" /\ n.tgt = None
    BY IdleOK, IdleFields DEF Requests
  <2>2. Goto(c, n) /\ call[c] = Idle /\ UNCHANGED <<status, enqueue_status>>
    BY <1>5 DEF AddTask, Accepts, docs
  <2> HIDE DEF n
  <2> QED
    BY <1>4, <2>1, <2>2 DEF Polls
<1>6. ASSUME NEW t \in Tasks, NEW q \in Queues, NEW upd \in Options,
            RemoveTask(c, t, q, upd)
      PROVE  PriorInv'
  <2> DEFINE n == [Idle EXCEPT !.op = "remove_task", !.pc = "find", !.task = t,
                     !.queue = q, !.opt = upd]
  <2>1. n.op = "remove_task" /\ n.pc = "find" /\ n.tgt = None
    BY IdleOK, IdleFields DEF Requests
  <2>2. Goto(c, n) /\ call[c] = Idle /\ UNCHANGED <<status, enqueue_status>>
    BY <1>6 DEF RemoveTask, Accepts, docs
  <2> HIDE DEF n
  <2> QED
    BY <1>4, <2>1, <2>2 DEF Polls
<1>7. ASSUME NEW t \in Tasks, NEW q \in Queues, NEW p \in Queues, NEW upd \in Options,
            MoveTask(c, t, q, p, upd)
      PROVE  PriorInv'
  <2> DEFINE n == [Idle EXCEPT !.op = "move_task", !.pc = "find", !.task = t,
                     !.queue = q, !.source = p, !.opt = upd]
  <2>1. n.op = "move_task" /\ n.pc = "find" /\ n.tgt = None
    BY IdleOK, IdleFields DEF Requests
  <2>2. Goto(c, n) /\ call[c] = Idle /\ UNCHANGED <<status, enqueue_status>>
    BY <1>7 DEF MoveTask, Accepts, docs
  <2> HIDE DEF n
  <2> QED
    BY <1>4, <2>1, <2>2 DEF Polls
<1>8. ASSUME NEW t \in Tasks, NEW q \in Queues, NEW by,
            Reposition(c, t, q, by)
      PROVE  PriorInv'
  <2> DEFINE n == [Idle EXCEPT !.op = "reposition", !.pc = "reposition", !.task = t,
                     !.queue = q, !.by = by]
  <2>1. n.op = "reposition" /\ n.pc = "reposition" /\ n.tgt = None
    BY IdleOK, IdleFields DEF Requests
  <2>2. Goto(c, n) /\ call[c] = Idle /\ UNCHANGED <<status, enqueue_status>>
    BY <1>8 DEF Reposition, Accepts, docs
  <2> HIDE DEF n
  <2> QED
    BY <1>4, <2>1, <2>2 DEF Polls
<1>9. ASSUME NEW t \in Tasks, NEW n \in NewStatuses \cup {None}, NEW all \in Options,
             Dequeue(c, t, n, all)
      PROVE  PriorInv'
  <2>1. (IF n # None THEN n ELSE PriorStatus(t)) \in Statuses \ {"queued"} /\ all \in BOOLEAN
    BY <1>2, ConstantsAssumption DEF PriorsRespected
  <2> QED
    BY <1>9, <2>1, BeginDequeuePrior DEF Dequeue, Accepts
<1>10. ASSUME NEW t \in Tasks, DequeueDeleted(c, t)
      PROVE  PriorInv'
  <2> DEFINE r == [Idle EXCEPT !.op = "dequeue", !.task = t]
             n == Sweeping(r, Queues)
  <2>1. /\ n = [r EXCEPT !.pc = "sweep", !.todo = Queues]
        /\ r \in Requests /\ r.op = "dequeue" /\ r.tgt = None
    BY IdleOK, IdleFields DEF Sweeping, Requests, RequestKinds
  <2> HIDE DEF r
  <2>2. n.op = "dequeue" /\ n.pc = "sweep" /\ n.tgt = None
    BY <2>1 DEF Requests
  <2>3. Goto(c, n) /\ call[c] = Idle /\ UNCHANGED <<status, enqueue_status>>
    BY <1>10 DEF DequeueDeleted, Accepts, docs, r
  <2> HIDE DEF n
  <2> QED
    BY <1>4, <2>2, <2>3 DEF Polls
<1>11. ASSUME NEW t \in Tasks, NEW force \in Forces, Stop(c, t, force) \/ Reset(c, t, force)
      PROVE  PriorInv'
  <2>1. force \in BOOLEAN
    BY ConstantsAssumption
  <2> QED
    BY <1>11, <2>1, BeginDequeuePrior, StatusNames DEF Stop, Reset, Accepts
<1>12. ASSUME NEW t \in Tasks, NEW force \in Forces, NEW op \in {"delete", "trash"},
              Delete(c, t, force, op)
       PROVE  PriorInv'
  <2>1. force \in BOOLEAN
    BY ConstantsAssumption
  <2> QED
    BY <1>2, <1>12, <2>1, BeginDequeuePrior DEF Delete, Accepts
<1>13. ASSUME NEW t \in Tasks, NEW s \in Reports, NEW force \in Forces, Report(c, t, s, force)
       PROVE  PriorInv'
  <2> DEFINE r == [Idle EXCEPT !.op = "report", !.pc = "change", !.task = t,
                     !.st = status[t], !.tgt = s]
  <2>1. r.op = "report" /\ r.pc = "change" /\ r.tgt = s
    BY IdleOK DEF Requests
  <2>2. Goto(c, r) /\ call[c] = Idle /\ UNCHANGED <<status, enqueue_status>>
    BY <1>13 DEF Report, Accepts, docs
  <2> HIDE DEF r
  <2>3. PriorOK(r)
    BY <2>1 DEF PriorOK, PriorsRespected, Polls
  <2> QED
    BY <1>1, <2>2, <2>3
<1>14. ASSUME NEW t \in Tasks, NEW force \in Forces, Publish(c, t, force)
       PROVE  PriorInv'
  <2> DEFINE r == [Idle EXCEPT !.op = "publish", !.pc = "set_publishing", !.task = t,
                     !.st = "publishing", !.tgt = "published", !.es = PreviousStatus(t)]
  <2>1. r.op = "publish" /\ r.pc = "set_publishing" /\ r.st = "publishing"
        /\ r.tgt = "published" /\ r.es = status[t]
    BY IdleOK DEF Requests, PreviousStatus
  <2>2. /\ Goto(c, r) /\ call[c] = Idle /\ "publish" \in Serves[c]
        /\ UNCHANGED <<status, enqueue_status>>
        /\ force \/ validate_status_change(status[t], "published")
    BY <1>14 DEF Publish, Accepts, docs
  <2>3. status[t] # "queued"
    <3>1. force = FALSE
      BY <2>2 DEF PriorsRespected
    <3>2. validate_status_change(status[t], "published")
      BY <2>2, <3>1
    <3>3. ~validate_status_change("queued", "published")
      BY DEF validate_status_change, state_machine
    <3> QED
      BY <3>2, <3>3
  <2> HIDE DEF r
  <2>4. PriorOK(r)
    BY <2>1, <2>3, StatusNames DEF PriorOK, Polls
  <2> QED
    BY <1>1, <2>2, <2>4
<1>15. ASSUME NEW t \in Tasks, Archive(c, t)
       PROVE  PriorInv'
  <2>1. (IF status[t] = "in_progress" THEN "stopped" ELSE PriorStatus(t))
          \in Statuses \ {"queued"}
    BY <1>2, StatusNames
  <2> QED
    BY <1>15, <2>1, BeginDequeuePrior DEF Archive, Accepts
<1>16. ASSUME NEW t \in Tasks, Unarchive(c, t)
       PROVE  PriorInv'
  BY <1>16 DEF Unarchive, PriorInv, Recorded
<1>17. \A q \in Queues, op \in {"get_next_task", "agent"} : ~GetNextTask(c, q, op)
  BY DEF GetNextTask, Accepts, PriorsRespected
<1>18. ASSUME NEW q \in Queues,
            ClearQueue(c, q)
      PROVE  PriorInv'
  <2> DEFINE n == [Idle EXCEPT !.op = "clear_queue", !.pc = "inspect", !.queue = q,
                     !.left = TasksIn(q)]
  <2>1. n.op = "clear_queue" /\ n.pc = "inspect" /\ n.tgt = None
    BY IdleOK, IdleFields DEF Requests
  <2>2. Goto(c, n) /\ call[c] = Idle /\ UNCHANGED <<status, enqueue_status>>
    BY <1>18 DEF ClearQueue, Accepts, docs
  <2> HIDE DEF n
  <2> QED
    BY <1>4, <2>1, <2>2 DEF Polls
<1>19. ASSUME NEW q \in Queues, NEW force \in Forces,
            DeleteQueue(c, q, force)
      PROVE  PriorInv'
  <2> DEFINE n == [Idle EXCEPT !.op = "delete_queue",
                     !.pc = IF entries[q] = <<>> THEN "drop" ELSE "inspect", !.queue = q,
                     !.left = TasksIn(q), !.opt = force]
  <2>1. n.op = "delete_queue" /\ n.pc \in {"drop", "inspect"} /\ n.tgt = None
    BY IdleOK, IdleFields DEF Requests
  <2>2. Goto(c, n) /\ call[c] = Idle /\ UNCHANGED <<status, enqueue_status>>
    BY <1>19 DEF DeleteQueue, Accepts, docs
  <2> HIDE DEF n
  <2> QED
    BY <1>4, <2>1, <2>2 DEF Polls
<1> QED
  BY <1>3, <1>5, <1>6, <1>7, <1>8, <1>9, <1>10, <1>11, <1>12, <1>13, <1>14, <1>15, <1>16,
     <1>17, <1>18, <1>19 DEF Begin

LEMMA ProceedPrior ==
  ASSUME PriorsRespected, IInv, Served, PriorInv, NEW c \in Calls, Proceed(c)
  PROVE  PriorInv'
<1> DEFINE r == call[c]
<1>0. r \in Requests /\ RequestOK(r) /\ PriorOK(r)
  BY CallOK DEF PriorInv
<1>1. \A n : Goto(c, n) /\ PriorOK(n) /\ UNCHANGED <<status, enqueue_status>> => PriorInv'
  BY RecordedFrame, LocalPrior
<1>2. \A n : Goto(c, n) /\ PriorOK(n) /\ Recorded' => PriorInv'
  BY LocalPrior
<1>3. /\ PriorOK(ChangeDone(r)) /\ PriorOK(ChangeFailed(r))
      /\ PriorOK(AfterDequeue(r)) /\ PriorOK(SweepDone(r))
      /\ PriorOK(AddFailed(r)) /\ PriorOK(Added(r))
  BY <1>0, ContinuePrior
<1>4. /\ status \in [Tasks -> Statuses \cup {Absent}]
      /\ enqueue_status \in [Tasks -> Statuses \cup {None}]
      /\ "queued" \notin {None, Absent, "created"} /\ Recorded
  BY NoneIsNothing, StatusNames DEF PriorInv, IInv, TypeOK, Absent
<1>5. \A pc \in {"check", "push", "pushed", "erase", "to_trash", "change", "restore"} :
        PriorOK(At(r, pc))
  BY <1>0, AtPrior DEF Polls
<1>6. CASE Change(c)
  <2>1. \/ Goto(c, At(r, "check")) \/ Goto(c, ChangeDone(r)) \/ Goto(c, ChangeFailed(r))
    BY <1>6 DEF Change
  <2>2. Recorded'
    <3>1. CASE r.op = "enqueue"
      BY <1>0, <1>4, <1>6, <3>1 DEF Change, PriorOK, Recorded
    <3>2. CASE r.op # "enqueue"
      <4>1. r.tgt # "queued"
        BY <1>0, <3>2 DEF PriorOK
      <4> QED
        BY <1>4, <1>6, <3>2, <4>1 DEF Change, Recorded
    <3> QED
      BY <3>1, <3>2
  <2> HIDE DEF r
  <2> QED
    BY <1>2, <1>3, <1>5, <2>1, <2>2
<1>7. CASE CheckQueue(c) \/ PushEntry(c) \/ LogPushed(c)
  <2>1. /\ UNCHANGED <<status, enqueue_status>>
        /\ \/ Goto(c, AddFailed(r)) \/ Goto(c, Added(r))
           \/ Goto(c, At(r, "push")) \/ Goto(c, At(r, "pushed"))
    BY <1>7 DEF CheckQueue, PushEntry, LogPushed, docs
  <2> HIDE DEF r
  <2> QED
    BY <1>1, <1>3, <1>5, <2>1
<1>8. CASE UndoEnqueue(c)
  <2>1. Goto(c, Idle) /\ r.st # "queued"
    BY <1>0, <1>8 DEF UndoEnqueue, PriorOK
  <2>2. Recorded'
    BY <1>4, <1>8, <2>1 DEF UndoEnqueue, Recorded
  <2> QED
    BY <1>2, <2>1, <2>2, IdlePrior
<1>9. CASE SetExecutionQueue(c)
  <2>1. /\ UNCHANGED <<status, enqueue_status>>
        /\ Goto(c, Sweeping(r, OtherQueues(r.queue))) \/ Goto(c, Idle)
    BY <1>9 DEF SetExecutionQueue
  <2>2. PriorOK(Sweeping(r, OtherQueues(r.queue)))
    BY <1>0, SweepingPrior
  <2> HIDE DEF r
  <2> QED
    BY <1>1, <2>1, <2>2, IdlePrior
<1>10. CASE Sweep(c)
  <2>1. /\ UNCHANGED <<status, enqueue_status>>
        /\ (\E q : Goto(c, [r EXCEPT !.todo = @ \ {q}])) \/ Goto(c, SweepDone(r))
    BY <1>10 DEF Sweep, docs
  <2>2. \A q : PriorOK([r EXCEPT !.todo = @ \ {q}])
    BY <1>0 DEF PriorOK, Requests
  <2> HIDE DEF r
  <2> QED
    BY <1>1, <1>3, <2>1, <2>2
<1>11. CASE FindEntry(c) \/ LogPulled(c)
  <2>1. /\ UNCHANGED <<status, enqueue_status>>
        /\ \/ \E e : Goto(c, [r EXCEPT !.pc = "pull", !.ent = e])
           \/ Goto(c, [r EXCEPT !.pc = "check", !.queue = r.source, !.source = r.queue])
           \/ Goto(c, AfterDequeue(r)) \/ Goto(c, Idle)
    BY <1>11 DEF FindEntry, LogPulled, docs
  <2>2. /\ \A e : PriorOK([r EXCEPT !.pc = "pull", !.ent = e])
        /\ PriorOK([r EXCEPT !.pc = "check", !.queue = r.source, !.source = r.queue])
    BY <1>0 DEF PriorOK, Requests, Polls
  <2> HIDE DEF r
  <2> QED
    BY <1>1, <1>3, <2>1, <2>2, IdlePrior
<1>12. CASE PullEntry(c)
  <2>1. /\ UNCHANGED <<status, enqueue_status>>
        /\ \/ \E pc \in {"pulled", "missed"} : Goto(c, [r EXCEPT !.pc = pc, !.ent = None])
           \/ Goto(c, [r EXCEPT !.pc = "inspect", !.left = {r.task}, !.ent = None])
           \/ Goto(c, Idle)
    BY <1>12 DEF PullEntry, docs
  <2>2. /\ \A pc \in {"pulled", "missed"} : PriorOK([r EXCEPT !.pc = pc, !.ent = None])
        /\ PriorOK([r EXCEPT !.pc = "inspect", !.left = {r.task}, !.ent = None])
    BY <1>0 DEF PriorOK, Requests, Polls
  <2> HIDE DEF r
  <2> QED
    BY <1>1, <2>1, <2>2, IdlePrior
<1>13. CASE CleanupTask(c)
  <2>1. /\ UNCHANGED <<status, enqueue_status>>
        /\ \/ \E pc \in {"erase", "to_trash", "change"} : Goto(c, At(r, pc))
           \/ Goto(c, Idle)
    BY <1>13 DEF CleanupTask, docs
  <2> HIDE DEF r
  <2> QED
    BY <1>1, <1>5, <2>1, IdlePrior
<1>14. CASE SavePublishing(c) \/ SaveForTrash(c)
  <2>1. Goto(c, At(r, "change")) \/ Goto(c, At(r, "restore")) \/ Goto(c, At(r, "erase"))
    BY <1>14 DEF SavePublishing, SaveForTrash
  <2>2. Recorded'
    BY <1>4, <1>14 DEF SavePublishing, SaveForTrash, Save, Recorded
  <2> HIDE DEF r
  <2> QED
    BY <1>2, <1>5, <2>1, <2>2
<1>15. CASE RestoreStatus(c)
  <2>1. Goto(c, Idle) /\ r.es # "queued"
    BY <1>0, <1>15 DEF RestoreStatus, RequestOK, PriorOK
  <2>2. Recorded'
    BY <1>4, <1>15, <2>1 DEF RestoreStatus, Save, Recorded
  <2> QED
    BY <1>2, <2>1, <2>2, IdlePrior
<1>16. CASE EraseTask(c) \/ TagArchived(c)
  <2>1. Goto(c, Idle)
    BY <1>16 DEF EraseTask, TagArchived
  <2>2. Recorded'
    BY <1>4, <1>16 DEF EraseTask, TagArchived, Recorded
  <2> QED
    BY <1>2, <2>1, <2>2, IdlePrior
<1>17. ~(LogPopped(c) \/ RecheckStatus(c) \/ RequeueStopped(c) \/ StartTask(c))
  BY <1>0 DEF PriorOK, Polls, LogPopped, RecheckStatus, RequeueStopped, StartTask
<1>18. \A t : r.op # "enqueue" => PriorOK(ReleasedOne([r EXCEPT !.task = t]))
  <2> SUFFICES ASSUME NEW t, r.op # "enqueue"
               PROVE  PriorOK(ReleasedOne([r EXCEPT !.task = t]))
    OBVIOUS
  <2> DEFINE a == [r EXCEPT !.task = t]
             next == [a EXCEPT !.left = a.left \ {a.task}, !.task = None, !.st = None,
                        !.tgt = None]
  <2>1. ReleasedOne(a) \in {At(next, "inspect"), At(next, "empty"), At(next, "drop"), Idle}
    BY DEF ReleasedOne
  <2>2. \A pc : /\ At(next, pc).pc = pc /\ At(next, pc).op = r.op
               /\ At(next, pc).tgt = None /\ At(next, pc).es = r.es
    BY <1>0 DEF At, Requests
  <2> HIDE DEF a, next
  <2>3. \A pc \in {"inspect", "empty", "drop"} : PriorOK(At(next, pc))
    BY <1>0, <1>4, <2>2 DEF PriorOK, Polls
  <2> QED
    BY <2>1, <2>3, IdlePrior DEF a
<1>19. r.pc \in {"inspect", "release"} => r.op # "enqueue"
  BY <1>0 DEF RequestOK
<1>20. CASE InspectTask(c)
  <2>1. PICK t \in r.left :
          Goto(c, IF Exists(t) /\ exec_queue[t] = r.queue
                  THEN [r EXCEPT !.pc = "release", !.task = t, !.st = status[t],
                                 !.tgt = PriorStatus(t)]
                  ELSE ReleasedOne([r EXCEPT !.task = t]))
    BY <1>20 DEF InspectTask
  <2>2. t \in Tasks /\ r.op # "enqueue" /\ UNCHANGED <<status, enqueue_status>>
    BY <1>0, <1>19, <1>20, <2>1 DEF InspectTask, Requests, docs
  <2>3. PriorStatus(t) # "queued"
    BY <1>4, <2>2 DEF PriorStatus, Recorded
  <2>4. PriorOK([r EXCEPT !.pc = "release", !.task = t, !.st = status[t],
                          !.tgt = PriorStatus(t)])
    BY <1>0, <2>2, <2>3 DEF PriorOK, Requests, Polls
  <2>5. PriorOK(ReleasedOne([r EXCEPT !.task = t]))
    BY <1>18, <2>2
  <2> HIDE DEF r
  <2> QED
    BY <1>1, <2>1, <2>2, <2>4, <2>5
<1>21. CASE ReleaseTask(c)
  <2>1. Goto(c, ReleasedOne(r)) /\ r.op # "enqueue" /\ r.tgt # "queued"
    BY <1>0, <1>19, <1>21 DEF ReleaseTask, PriorOK
  <2>2. r = [r EXCEPT !.task = r.task]
    BY <1>0 DEF Requests
  <2>3. Recorded'
    BY <1>4, <1>21, <2>1 DEF ReleaseTask, Recorded
  <2>4. PriorOK(ReleasedOne(r))
    BY <1>18, <2>1, <2>2
  <2> HIDE DEF r
  <2> QED
    BY <1>2, <2>1, <2>3, <2>4
<1>22. CASE EmptyQueue(c) \/ DropQueue(c) \/ RepositionEntry(c)
  <2>1. Goto(c, Idle) /\ UNCHANGED <<status, enqueue_status>>
    BY <1>22 DEF EmptyQueue, DropQueue, RepositionEntry, docs
  <2> QED
    BY <1>1, <2>1, IdlePrior
<1> QED
  BY <1>6, <1>7, <1>8, <1>9, <1>10, <1>11, <1>12, <1>13, <1>14, <1>15, <1>16, <1>17, <1>20,
     <1>21, <1>22 DEF Proceed

LEMMA StepPrior ==
  ASSUME PriorsRespected, IInv, Served, PriorInv, [Next]_vars
  PROVE  PriorInv'
<1>1. ASSUME NEW q \in Queues, CreateQueue(q)
      PROVE  PriorInv'
  BY <1>1 DEF CreateQueue, PriorInv, Recorded, docs
<1>2. ASSUME NEW c \in Calls, Begin(c)
      PROVE  PriorInv'
  BY <1>2, BeginPrior
<1>3. ASSUME NEW c \in Calls, Proceed(c)
      PROVE  PriorInv'
  BY <1>3, ProceedPrior
<1>4. ASSUME NEW c \in Calls, Crash(c)
      PROVE  PriorInv'
  <2>1. Goto(c, Idle) /\ UNCHANGED <<status, enqueue_status>>
    BY <1>4 DEF Crash, docs
  <2> QED
    BY <2>1, IdlePrior, RecordedFrame, LocalPrior
<1>5. CASE UNCHANGED vars
  BY <1>5 DEF vars, docs, PriorInv, Recorded
<1> QED
  BY <1>1, <1>2, <1>3, <1>4, <1>5 DEF Next

(* However requests overlap, fail half way or are killed, a queued task    *)
(* has a status to be given back when it is released.                      *)
THEOREM PriorsAreRecorded == ASSUME PriorsRespected PROVE Spec => []PriorIsRecorded
<1>1. Init => PriorInv
  BY IdlePrior, NoneIsNothing, StatusNames DEF Init, PriorInv, Recorded
<1>2. PriorInv /\ IInv /\ Served /\ [Next]_vars => PriorInv'
  BY StepPrior
<1>3. PriorInv => PriorIsRecorded
  BY DEF PriorInv, Recorded, PriorIsRecorded
<1> QED
  BY <1>1, <1>2, <1>3, Invariant, ServedInvariant, PTL DEF Spec
==============================================================================
