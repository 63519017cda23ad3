-------------------------- MODULE SingleQueue_proofs --------------------------
(***************************************************************************)
(* Which queues hold a task.  For every number of overlapping requests:    *)
(* tasks.enqueue leaves a task in one queue only, and a queued task waits  *)
(* in one.  For requests served one after the other: it is the queue the   *)
(* task's execution.queue names, and the task has a status to go back to.  *)
(***************************************************************************)
EXTENDS TaskQueues_proofs

(* Every enqueue gets as far as its sweep, and nothing but tasks.enqueue   *)
(* adds to a queue: queues.add_task and queues.move_task_to_queue do not   *)
(* sweep the others.                                                       *)
SweepsComplete ==
  /\ Faults = {}
  /\ \A c \in Calls : "add_task" \notin Serves[c] /\ "move_task" \notin Serves[c]

(* Only tasks.enqueue pushes.                                              *)
PushesOK(r) ==
  /\ r.op \notin {"add_task", "move_task"}
  /\ r.pc \in {"check", "push", "pushed", "set_queue"} => r.op = "enqueue"

(* The request has pushed the task to p and will yet remove it from q.     *)
Cover(r, t, p, q) ==
  /\ r.op = "enqueue" /\ r.task = t /\ r.queue = p
  /\ r.pc \in {"pushed", "set_queue"} \/ (r.pc = "sweep" /\ q \in r.todo)

SInv ==
  /\ \A c \in Calls : PushesOK(call[c])
  /\ \A t \in Tasks, q \in Queues : InQueue(t, q) => Live(q)
  /\ \A t \in Tasks, p, q \in Queues :
       p # q /\ InQueue(t, p) /\ InQueue(t, q) =>
         \E c \in Calls : Cover(call[c], t, p, q) \/ Cover(call[c], t, q, p)

(* A step after which no queue holds more than before, and which leaves    *)
(* its thread with whatever it still has to sweep.                         *)
LEMMA ShrinkStep ==
  ASSUME IInv, SInv, NEW c \in Calls, NEW r, PushesOK(r), Goto(c, r),
         \A t \in Tasks, q \in Queues : InQueue(t, q)' => InQueue(t, q) /\ Live(q)',
         \A t \in Tasks, p, q \in Queues :
           p # q /\ Cover(call[c], t, p, q) /\ InQueue(t, p)' /\ InQueue(t, q)' =>
             Cover(r, t, p, q)
  PROVE  SInv'
<1>1. \A d \in Calls : call'[d] = IF d = c THEN r ELSE call[d]
  BY DEF Goto, IInv, TypeOK
<1>2. ASSUME NEW t \in Tasks, NEW p \in Queues, NEW q \in Queues, p # q,
             InQueue(t, p)', InQueue(t, q)'
      PROVE  \E d \in Calls : Cover(call'[d], t, p, q) \/ Cover(call'[d], t, q, p)
  <2>1. PICK d \in Calls : Cover(call[d], t, p, q) \/ Cover(call[d], t, q, p)
    BY <1>2 DEF SInv
  <2>2. CASE d # c
    BY <1>1, <2>1, <2>2
  <2>3. CASE d = c
    BY <1>1, <1>2, <2>1, <2>3
  <2> QED
    BY <2>2, <2>3
<1>3. \A d \in Calls : PushesOK(call'[d])
  BY <1>1 DEF SInv
<1> QED
  BY <1>2, <1>3 DEF SInv

(* A step of a thread that has nothing to sweep.                           *)
LEMMA QuietStep ==
  ASSUME IInv, SInv, NEW c \in Calls, NEW r, PushesOK(r), Goto(c, r),
         call[c].pc \notin {"pushed", "set_queue", "sweep"},
         UNCHANGED queue_state,
         \A t \in Tasks, q \in Queues : InQueue(t, q)' => InQueue(t, q)
  PROVE  SInv'
<1>1. \A t \in Tasks, q \in Queues : InQueue(t, q)' => InQueue(t, q) /\ Live(q)'
  BY DEF SInv, Live
<1>2. \A t \in Tasks, p, q \in Queues : ~Cover(call[c], t, p, q)
  BY DEF Cover
<1> QED
  BY <1>1, <1>2, ShrinkStep

(* One that leaves the queues alone.                                       *)
LEMMA LocalSweep ==
  ASSUME IInv, SInv, NEW c \in Calls, NEW r, PushesOK(r), Goto(c, r),
         call[c].pc \notin {"pushed", "set_queue", "sweep"}, UNCHANGED queues
  PROVE  SInv'
  BY QuietStep DEF queues, InQueue

LEMMA IdlePushes == PushesOK(Idle)
  BY IdleFields DEF PushesOK

LEMMA AtPushes ==
  ASSUME NEW r \in Requests, PushesOK(r), NEW pc \in Steps,
         pc \in {"check", "push", "pushed", "set_queue"} => r.op = "enqueue"
  PROVE  PushesOK(At(r, pc))
  BY AtOK DEF PushesOK

LEMMA SweepingPushes ==
  ASSUME NEW r \in Requests, RequestOK(r), PushesOK(r), NEW qs \in SUBSET Queues, r.task \in Tasks
  PROVE  PushesOK(Sweeping(r, qs))
  BY SweepingOK DEF PushesOK

LEMMA AfterDequeuePushes ==
  ASSUME NEW r \in Requests, RequestOK(r), PushesOK(r), r.task \in Tasks
  PROVE  /\ PushesOK(AfterDequeue(r)) /\ PushesOK(ChangeDone(r))
         /\ PushesOK(ChangeIfActive(r)) /\ PushesOK(ChangeFailed(r))
<1>1. /\ PushesOK(At(r, "change")) /\ PushesOK(At(r, "tag")) /\ PushesOK(At(r, "cleanup"))
      /\ PushesOK(At(r, "restore"))
  BY AtPushes DEF Steps
<1>2. PushesOK(Sweeping(r, Queues))
  BY SweepingPushes
<1>3. PushesOK(ChangeDone(r))
  BY <1>1, IdlePushes DEF ChangeDone
<1>4. PushesOK(ChangeIfActive(r))
  BY <1>1, <1>3 DEF ChangeIfActive
<1> QED
  BY <1>1, <1>2, <1>3, <1>4 DEF AfterDequeue, ChangeFailed

LEMMA HandedPushes ==
  ASSUME NEW r \in Requests, PushesOK(r)
  PROVE  PushesOK(Handed(r))
  BY AtPushes, IdlePushes DEF Handed, Steps

LEMMA ReleasedOnePushes ==
  ASSUME NEW r \in Requests, PushesOK(r)
  PROVE  PushesOK(ReleasedOne(r))
<1> DEFINE rest == r.left \ {r.task}
           next == [r EXCEPT !.left = rest, !.task = None, !.st = None, !.tgt = None]
<1>1. next \in Requests /\ next.op = r.op /\ next.pc = r.pc
  BY DEF Requests
<1> HIDE DEF next
<1>2. \A pc \in {"inspect", "empty", "drop"} : PushesOK(At(next, pc))
  BY <1>1, AtPushes DEF PushesOK, Steps
<1> QED
  BY <1>2, IdlePushes DEF ReleasedOne, next

LEMMA BeginDequeueSweep ==
  ASSUME IInv, SInv, NEW c \in Calls, call[c] = Idle,
         NEW op \in {"dequeue", "stop", "reset", "delete", "trash", "archive"},
         NEW t \in Tasks, Exists(t), NEW tgt \in Statuses, NEW opt \in BOOLEAN,
         BeginDequeue(c, Dequeuing(op, t, tgt, opt))
  PROVE  SInv'
<1> DEFINE r == Dequeuing(op, t, tgt, opt)
<1>1. status[t] \in Statuses /\ exec_queue[t] \in Queues \cup {None}
  BY TaskOK
<1>2. r = [Idle EXCEPT !.op = op, !.task = t, !.queue = exec_queue[t],
             !.st = status[t], !.tgt = tgt, !.opt = opt]
  BY DEF Dequeuing
<1>3. r \in Requests
  BY DequeuingRequest
<1>4. /\ r.op = op /\ r.pc = "idle" /\ r.task = t
      /\ r.queue = exec_queue[t] /\ r.source = None
      /\ r.st = status[t] /\ r.tgt = tgt
  BY <1>2, IdleOK, IdleFields DEF Requests
<1> HIDE DEF r
<1>5. RequestOK(r) /\ PushesOK(r)
  BY <1>1, <1>3, <1>4, NoneIsNothing DEF RequestOK, PushesOK
<1>6. PushesOK(AfterDequeue(r)) /\ PushesOK(At(r, "find"))
  BY <1>3, <1>4, <1>5, AfterDequeuePushes, AtPushes DEF Steps
<1>7. /\ Goto(c, IF IsEnqueued(r.task) THEN At(r, "find") ELSE AfterDequeue(r))
      /\ UNCHANGED queues
  BY DEF BeginDequeue, r
<1>8. call[c].pc = "idle"
  BY IdleFields
<1> QED
  BY <1>6, <1>7, <1>8, LocalSweep

LEMMA BeginSweep ==
  ASSUME SweepsComplete, IInv, SInv, NEW c \in Calls, Begin(c)
  PROVE  SInv'
<1>1. ~Accepts(c, "add_task") /\ ~Accepts(c, "move_task")
  BY DEF SweepsComplete, Accepts
<1>2. \A r : call[c] = Idle /\ PushesOK(r) /\ Goto(c, r) /\ UNCHANGED queues => SInv'
  BY IdleFields, LocalSweep
<1>3. ASSUME NEW t \in Tasks, NEW q \in Queues, NEW force, NEW upd, Enqueue(c, t, q, force, upd)
      PROVE  SInv'
  <2> DEFINE r == [Idle EXCEPT !.op = "enqueue", !.pc = "change", !.task = t,
                     !.queue = q, !.st = status[t], !.tgt = "queued",
                     !.es = BeforeEnqueueStatus(t), !.opt = upd]
  <2>1. r.op = "enqueue" /\ r.pc = "change"
    BY IdleOK DEF Requests
  <2>2. call[c] = Idle /\ Goto(c, r) /\ UNCHANGED queues
    BY <1>3 DEF Enqueue, Accepts
  <2> HIDE DEF r
  <2> QED
    BY <1>2, <2>1, <2>2 DEF PushesOK
<1>4. ASSUME NEW t \in Tasks, NEW q \in Queues, NEW upd, RemoveTask(c, t, q, upd)
      PROVE  SInv'
  <2> DEFINE r == [Idle EXCEPT !.op = "remove_task", !.pc = "find", !.task = t,
                     !.queue = q, !.opt = upd]
  <2>1. r.op = "remove_task" /\ r.pc = "find"
    BY IdleOK DEF Requests
  <2>2. call[c] = Idle /\ Goto(c, r) /\ UNCHANGED queues
    BY <1>4 DEF RemoveTask, Accepts
  <2> HIDE DEF r
  <2> QED
    BY <1>2, <2>1, <2>2 DEF PushesOK
<1>5. ASSUME NEW t \in Tasks, NEW q \in Queues, NEW by, Reposition(c, t, q, by)
      PROVE  SInv'
  <2> DEFINE r == [Idle EXCEPT !.op = "reposition", !.pc = "reposition", !.task = t,
                     !.queue = q, !.by = by]
  <2>1. r.op = "reposition" /\ r.pc = "reposition"
    BY IdleOK DEF Requests
  <2>2. call[c] = Idle /\ Goto(c, r) /\ UNCHANGED queues
    BY <1>5 DEF Reposition, Accepts
  <2> HIDE DEF r
  <2> QED
    BY <1>2, <2>1, <2>2 DEF PushesOK
<1>6. ASSUME NEW t \in Tasks, NEW n \in NewStatuses \cup {None}, NEW all \in Options,
             Dequeue(c, t, n, all)
      PROVE  SInv'
  <2>1. (IF n # None THEN n ELSE PriorStatus(t)) \in Statuses
    BY TaskOK, ConstantsAssumption
  <2>2. call[c] = Idle /\ Exists(t)
        /\ BeginDequeue(c, Dequeuing("dequeue", t, IF n # None THEN n ELSE PriorStatus(t), all))
    BY <1>6 DEF Dequeue, Accepts
  <2>3. all \in BOOLEAN
    BY ConstantsAssumption
  <2> QED
    BY <2>1, <2>2, <2>3, BeginDequeueSweep
<1>7. ASSUME NEW t \in Tasks, DequeueDeleted(c, t)
      PROVE  SInv'
  <2> DEFINE r == [Idle EXCEPT !.op = "dequeue", !.task = t]
             n == Sweeping(r, Queues)
  <2>1. n = [r EXCEPT !.pc = "sweep", !.todo = Queues] /\ r \in Requests /\ r.op = "dequeue"
    <3>1. "dequeue" \in RequestKinds
      BY DEF RequestKinds
    <3>2. r \in Requests /\ r.op = "dequeue"
      BY <3>1, IdleOK DEF Requests
    <3> QED
      BY <3>2 DEF Sweeping
  <2> HIDE DEF r
  <2>2. n.op = "dequeue" /\ n.pc = "sweep"
    BY <2>1 DEF Requests
  <2>3. call[c] = Idle /\ Goto(c, n) /\ UNCHANGED queues
    BY <1>7 DEF DequeueDeleted, Accepts, r
  <2> HIDE DEF n
  <2> QED
    BY <1>2, <2>2, <2>3 DEF PushesOK
<1>8. ASSUME NEW t \in Tasks, NEW force \in Forces,
             \/ Stop(c, t, force) \/ Reset(c, t, force)
             \/ \E op \in {"delete", "trash"} : Delete(c, t, force, op)
      PROVE  SInv'
  BY <1>8, BeginDequeueSweep, TaskOK, StatusNames, ConstantsAssumption
     DEF Stop, Reset, Delete, Accepts
<1>9. ASSUME NEW t \in Tasks, NEW s, NEW force, Report(c, t, s, force)
      PROVE  SInv'
  <2> DEFINE r == [Idle EXCEPT !.op = "report", !.pc = "change", !.task = t,
                     !.st = status[t], !.tgt = s]
  <2>1. r.op = "report" /\ r.pc = "change"
    BY IdleOK DEF Requests
  <2>2. call[c] = Idle /\ Goto(c, r) /\ UNCHANGED queues
    BY <1>9 DEF Report, Accepts
  <2> HIDE DEF r
  <2> QED
    BY <1>2, <2>1, <2>2 DEF PushesOK
<1>10. ASSUME NEW t \in Tasks, Archive(c, t)
       PROVE  SInv'
  <2>1. (IF status[t] = "in_progress" THEN "stopped" ELSE PriorStatus(t)) \in Statuses
    BY TaskOK, StatusNames
  <2> QED
    BY <1>10, <2>1, BeginDequeueSweep DEF Archive, Accepts
<1>11. ASSUME NEW t \in Tasks, Unarchive(c, t)
       PROVE  SInv'
  BY <1>11 DEF Unarchive, SInv, queues, InQueue, Live
<1>12. ASSUME NEW q \in Queues, NEW op \in {"get_next_task", "agent"}, GetNextTask(c, q, op)
       PROVE  SInv'
  <2> DEFINE e == entries[q][NextUp(entries[q])]
             r == [Idle EXCEPT !.op = op, !.pc = "popped", !.task = e.task, !.ent = e]
  <2>1. r.op = op /\ r.pc = "popped"
    BY IdleOK DEF Requests
  <2>2. /\ call[c] = Idle /\ Goto(c, r) /\ UNCHANGED queue_state /\ entries[q] # <<>>
        /\ entries' = [entries EXCEPT ![q] = Popped(entries[q])]
    BY <1>12 DEF GetNextTask, Accepts
  <2> HIDE DEF r, e
  <2>3. \A t \in Tasks, p \in Queues : InQueue(t, p)' => InQueue(t, p)
    BY <2>2, QueueOK, PopEntry DEF InQueue, IInv, TypeOK
  <2> QED
    BY <2>1, <2>2, <2>3, IdleFields, QuietStep DEF PushesOK
<1>13. ASSUME NEW q \in Queues, NEW force, ClearQueue(c, q) \/ DeleteQueue(c, q, force)
       PROVE  SInv'
  <2>1. \A s, o : LET r == [Idle EXCEPT !.op = "delete_queue",
                                   !.pc = IF entries[q] = <<>> THEN "drop" ELSE "inspect",
                              !.queue = q, !.left = s, !.opt = o]
                      m == [Idle EXCEPT !.op = "clear_queue", !.pc = "inspect", !.queue = q,
                              !.left = s]
                  IN PushesOK(r) /\ PushesOK(m)
    BY IdleOK DEF Requests, PushesOK
  <2> QED
    BY <1>2, <1>13, <2>1 DEF ClearQueue, DeleteQueue, Accepts
<1>14. \A t \in Tasks, q, p \in Queues, upd \in Options :
         ~AddTask(c, t, q, upd) /\ ~MoveTask(c, t, q, p, upd)
  BY <1>1 DEF AddTask, MoveTask
<1>15. ASSUME NEW t \in Tasks, NEW force, Publish(c, t, force)
       PROVE  SInv'
  <2> DEFINE r == [Idle EXCEPT !.op = "publish", !.pc = "set_publishing", !.task = t,
                     !.st = "publishing", !.tgt = "published", !.es = PreviousStatus(t)]
  <2>1. r.op = "publish" /\ r.pc = "set_publishing"
    BY IdleOK DEF Requests
  <2>2. call[c] = Idle /\ Goto(c, r) /\ UNCHANGED queues
    BY <1>15 DEF Publish, Accepts
  <2> HIDE DEF r
  <2> QED
    BY <1>2, <2>1, <2>2 DEF PushesOK
<1> QED
  BY <1>3, <1>4, <1>5, <1>6, <1>7, <1>8, <1>9, <1>10, <1>11, <1>12, <1>13, <1>14, <1>15
  DEF Begin

LEMMA ProceedSweep ==
  ASSUME SweepsComplete, IInv, SInv, NEW c \in Calls, Proceed(c)
  PROVE  SInv'
<1> DEFINE r == call[c]
<1>1. r \in Requests /\ RequestOK(r) /\ PushesOK(r)
  BY CallOK DEF SInv
<1>2. CASE Change(c)
  <2>1. r.pc = "change" /\ r.task \in Tasks
    BY <1>1, <1>2 DEF Change, RequestOK
  <2>2. /\ PushesOK(ChangeDone(r)) /\ PushesOK(ChangeFailed(r))
        /\ r.op = "enqueue" => PushesOK(At(r, "check"))
    BY <1>1, <2>1, AfterDequeuePushes, AtPushes DEF Steps
  <2>3. /\ UNCHANGED queues
        /\ \/ Goto(c, ChangeDone(r)) \/ Goto(c, ChangeFailed(r))
           \/ r.op = "enqueue" /\ Goto(c, At(r, "check"))
    BY <1>2 DEF Change
  <2> QED
    BY <2>1, <2>2, <2>3, LocalSweep
<1>3. CASE CheckQueue(c)
  <2>1. r.pc = "check" /\ r.op = "enqueue"
    BY <1>1, <1>3 DEF CheckQueue, PushesOK
  <2>2. PushesOK(At(r, "push")) /\ PushesOK(AddFailed(r))
    BY <1>1, <2>1, AtPushes DEF AddFailed, Steps
  <2>3. UNCHANGED queues /\ (Goto(c, At(r, "push")) \/ Goto(c, AddFailed(r)))
    BY <1>3 DEF CheckQueue
  <2> QED
    BY <2>1, <2>2, <2>3, LocalSweep
<1>4. CASE PushEntry(c)
  <2>1. r.pc = "push" /\ r.op = "enqueue" /\ r.queue \in Queues /\ r.task \in Tasks
    BY <1>1, <1>4 DEF PushEntry, PushesOK, RequestOK
  <2>2. PushesOK(At(r, "pushed")) /\ PushesOK(AddFailed(r))
    BY <1>1, <2>1, AtPushes DEF AddFailed, Steps
  <2>3. CASE MayPush(r.queue, r.task)
    <3> DEFINE e == [task |-> r.task, added |-> CHOOSE s \in Stamps \ UsedStamps : TRUE]
               n == At(r, "pushed")
    <3>1. /\ Stamps \ UsedStamps # {}
          /\ entries' = [entries EXCEPT ![r.queue] = Pushed(entries[r.queue], e)]
          /\ Goto(c, n) /\ UNCHANGED queue_state
      BY <1>4, <2>3 DEF PushEntry
    <3>2. e \in Entries /\ e.task = r.task
      BY <2>1, <3>1 DEF Entries
    <3> HIDE DEF e
    <3>3. ASSUME NEW t \in Tasks, NEW q \in Queues, InQueue(t, q)'
          PROVE  InQueue(t, q) \/ (t = r.task /\ q = r.queue)
      <4>1. ~Holds(entries[r.queue], e.task)
        BY <2>3, <3>2 DEF MayPush, InQueue
      <4>2. \A u : Holds(Pushed(entries[r.queue], e), u) =>
              Holds(entries[r.queue], u) \/ u = e.task
        BY <2>1, <3>2, <4>1, QueueOK, PushEntryOf
      <4> QED
        BY <2>1, <3>1, <3>2, <3>3, <4>2 DEF InQueue, IInv, TypeOK
    <3>4. /\ n.op = "enqueue" /\ n.pc = "pushed" /\ n.task = r.task /\ n.queue = r.queue
      BY <1>1, <2>1, AtOK DEF Steps
    <3> HIDE DEF n
    <3>5. \A d \in Calls : call'[d] = IF d = c THEN n ELSE call[d]
      BY <3>1 DEF Goto, IInv, TypeOK
    <3>6. ASSUME NEW t \in Tasks, NEW p \in Queues, NEW q \in Queues, p # q,
                 InQueue(t, p)', InQueue(t, q)'
          PROVE  \E d \in Calls : Cover(call'[d], t, p, q) \/ Cover(call'[d], t, q, p)
      <4>1. CASE t = r.task /\ r.queue \in {p, q}
        BY <3>4, <3>5, <4>1 DEF Cover
      <4>2. CASE InQueue(t, p) /\ InQueue(t, q)
        <5>1. PICK d \in Calls : Cover(call[d], t, p, q) \/ Cover(call[d], t, q, p)
          BY <3>6, <4>2 DEF SInv
        <5>2. d # c
          BY <2>1, <5>1 DEF Cover
        <5> QED
          BY <3>5, <5>1, <5>2
      <4> QED
        BY <3>3, <3>6, <4>1, <4>2
    <3>7. \A t \in Tasks, q \in Queues : InQueue(t, q)' => Live(q)'
      BY <2>3, <3>1, <3>3 DEF SInv, MayPush, Live
    <3>8. \A d \in Calls : PushesOK(call'[d])
      BY <2>2, <3>5 DEF SInv, n
    <3> QED
      BY <3>6, <3>7, <3>8 DEF SInv
  <2>4. CASE ~MayPush(r.queue, r.task)
    <3>1. Goto(c, AddFailed(r)) /\ UNCHANGED queues
      BY <1>4, <2>4 DEF PushEntry, queues
    <3> QED
      BY <2>1, <2>2, <3>1, LocalSweep
  <2> QED
    BY <2>3, <2>4
<1>5. CASE LogPushed(c)
  <2>1. r.pc = "pushed" /\ r.op = "enqueue" /\ r.queue \in Queues /\ r.task \in Tasks
        /\ OtherQueues(r.queue) \in SUBSET Queues
    BY <1>1, <1>5 DEF LogPushed, PushesOK, RequestOK, OtherQueues
  <2>2. UNCHANGED queues
    BY <1>5 DEF LogPushed
  <2>3. \A t \in Tasks, q \in Queues : InQueue(t, q)' => InQueue(t, q) /\ Live(q)'
    BY <2>2 DEF queues, SInv, InQueue, Live
  <2>4. CASE Live(r.queue) /\ Goto(c, Added(r))
    <3> DEFINE n == Sweeping(r, OtherQueues(r.queue))
               m == At(r, "set_queue")
    <3>1. /\ n.op = "enqueue" /\ n.pc = "sweep" /\ n.task = r.task /\ n.queue = r.queue
          /\ n.todo = OtherQueues(r.queue)
      BY <1>1, <2>1, SweepingOK
    <3>2. m.op = "enqueue" /\ m.pc = "set_queue" /\ m.task = r.task /\ m.queue = r.queue
      BY <1>1, <2>1, AtOK DEF Steps
    <3>3. Goto(c, n) \/ Goto(c, m)
      BY <2>1, <2>4 DEF Added
    <3> HIDE DEF n, m
    <3>4. PushesOK(n) /\ PushesOK(m)
      BY <3>1, <3>2 DEF PushesOK
    <3>5. \A t \in Tasks, p, q \in Queues :
            p # q /\ Cover(r, t, p, q) => Cover(n, t, p, q) /\ Cover(m, t, p, q)
      BY <3>1, <3>2 DEF Cover, OtherQueues
    <3> QED
      BY <2>3, <3>3, <3>4, <3>5, ShrinkStep
  <2>5. CASE ~Live(r.queue) /\ Goto(c, AddFailed(r))
    <3>1. PushesOK(AddFailed(r))
      BY <1>1, <2>1, AtPushes DEF AddFailed, Steps
    <3>2. \A t \in Tasks, p, q \in Queues : Cover(r, t, p, q) => ~InQueue(t, p)'
      BY <2>3, <2>5 DEF Cover, SInv
    <3> QED
      BY <2>3, <2>5, <3>1, <3>2, ShrinkStep
  <2> QED
    BY <1>5, <2>4, <2>5 DEF LogPushed, SweepsComplete
<1>6. CASE SetExecutionQueue(c)
  <2> DEFINE n == Sweeping(r, OtherQueues(r.queue))
  <2>1. r.pc = "set_queue" /\ r.op = "enqueue" /\ r.queue \in Queues /\ r.task \in Tasks
        /\ OtherQueues(r.queue) \in SUBSET Queues
    BY <1>1, <1>6 DEF SetExecutionQueue, PushesOK, RequestOK, OtherQueues
  <2>2. /\ n.op = "enqueue" /\ n.pc = "sweep" /\ n.task = r.task /\ n.queue = r.queue
        /\ n.todo = OtherQueues(r.queue)
    BY <1>1, <2>1, SweepingOK
  <2>3. Goto(c, n) /\ UNCHANGED queues
    BY <1>6, <2>1 DEF SetExecutionQueue
  <2> HIDE DEF n
  <2>4. \A t \in Tasks, q \in Queues : InQueue(t, q)' => InQueue(t, q) /\ Live(q)'
    BY <2>3 DEF queues, SInv, InQueue, Live
  <2>5. PushesOK(n) /\ \A t \in Tasks, p, q \in Queues :
          p # q /\ Cover(r, t, p, q) => Cover(n, t, p, q)
    BY <2>2 DEF PushesOK, Cover, OtherQueues
  <2> QED
    BY <2>3, <2>4, <2>5, ShrinkStep
<1>7. CASE Sweep(c)
  <2>1. r.pc = "sweep" /\ r.task \in Tasks /\ r.todo \subseteq Queues /\ UNCHANGED queue_state
    BY <1>1, <1>7 DEF Sweep, RequestOK, Requests
  <2>2. ASSUME NEW v \in r.todo, entries' = [entries EXCEPT ![v] = Pull(entries[v], r.task)],
               Goto(c, [r EXCEPT !.todo = @ \ {v}])
        PROVE  SInv'
    <3> DEFINE n == [r EXCEPT !.todo = @ \ {v}]
    <3>1. /\ n.op = r.op /\ n.pc = "sweep" /\ n.task = r.task /\ n.queue = r.queue
          /\ n.todo = r.todo \ {v}
      BY <1>1, <2>1 DEF Requests
    <3> HIDE DEF n
    <3>2. \A t \in Tasks, q \in Queues :
            InQueue(t, q)' => InQueue(t, q) /\ (q = v => t # r.task)
      BY <2>1, <2>2, QueueOK, PullTask DEF InQueue, IInv, TypeOK
    <3>3. PushesOK(n)
      BY <1>1, <3>1 DEF PushesOK
    <3>4. \A t \in Tasks, p, q \in Queues :
            Cover(r, t, p, q) /\ InQueue(t, q)' => Cover(n, t, p, q)
      BY <2>1, <3>1, <3>2 DEF Cover
    <3>5. \A t \in Tasks, q \in Queues : InQueue(t, q)' => InQueue(t, q) /\ Live(q)'
      BY <2>1, <3>2 DEF SInv, Live
    <3> QED
      BY <2>2, <3>3, <3>4, <3>5, ShrinkStep DEF n
  <2>3. CASE r.todo = {} /\ Goto(c, SweepDone(r)) /\ UNCHANGED entries
    <3>1. PushesOK(SweepDone(r))
      BY <1>1, <2>1, AfterDequeuePushes, AtPushes, IdlePushes DEF SweepDone, Steps
    <3>2. \A t \in Tasks, q \in Queues : InQueue(t, q)' => InQueue(t, q) /\ Live(q)'
      BY <2>1, <2>3 DEF SInv, InQueue, Live
    <3>3. \A t \in Tasks, p, q \in Queues : ~Cover(r, t, p, q)
      BY <2>1, <2>3 DEF Cover
    <3> QED
      BY <2>3, <3>1, <3>2, <3>3, ShrinkStep
  <2> QED
    BY <1>7, <2>2, <2>3 DEF Sweep
<1>8. CASE FindEntry(c) \/ LogPulled(c)
  <2>1. /\ r.pc \in {"find", "pulled", "missed"} /\ r.task \in Tasks /\ r.op # "move_task"
    BY <1>1, <1>8 DEF FindEntry, LogPulled, RequestOK, PushesOK
  <2>2. PushesOK(AfterDequeue(r))
    BY <1>1, <2>1, AfterDequeuePushes
  <2>3. \A e : PushesOK([r EXCEPT !.pc = "pull", !.ent = e])
    BY <1>1 DEF PushesOK, Requests
  <2>4. /\ UNCHANGED queues
        /\ \/ \E e : Goto(c, [r EXCEPT !.pc = "pull", !.ent = e])
           \/ Goto(c, AfterDequeue(r)) \/ Goto(c, Idle)
    BY <1>8, <2>1 DEF FindEntry, LogPulled
  <2> HIDE DEF r
  <2>5. r = call[c]
    BY DEF r
  <2> QED
    BY <2>1, <2>2, <2>3, <2>4, <2>5, IdlePushes, LocalSweep
<1>9. CASE PullEntry(c)
  <2>1. r.pc = "pull" /\ r.queue \in Queues
    BY <1>1, <1>9 DEF PullEntry, RequestOK
  <2>2. /\ \A pc \in {"pulled", "missed"} : PushesOK([r EXCEPT !.pc = pc, !.ent = None])
        /\ \A s : PushesOK([r EXCEPT !.pc = "inspect", !.left = s, !.ent = None])
    BY <1>1 DEF PushesOK, Requests
  <2>3. /\ UNCHANGED queue_state
        /\ \/ \E pc \in {"pulled", "missed"} : Goto(c, [r EXCEPT !.pc = pc, !.ent = None])
           \/ \E s : Goto(c, [r EXCEPT !.pc = "inspect", !.left = s, !.ent = None])
           \/ Goto(c, Idle)
    BY <1>9 DEF PullEntry
  <2>4. \A t \in Tasks, q \in Queues : InQueue(t, q)' => InQueue(t, q)
    <3>1. \/ entries' = entries
          \/ entries' = [entries EXCEPT ![r.queue] = Pull(entries[r.queue], r.task)]
      BY <1>9 DEF PullEntry
    <3>2. \A t : Holds(Pull(entries[r.queue], r.task), t) => Holds(entries[r.queue], t)
      BY <2>1, QueueOK, PullTask
    <3> QED
      BY <2>1, <3>1, <3>2 DEF InQueue, IInv, TypeOK
  <2> HIDE DEF r
  <2>5. r = call[c]
    BY DEF r
  <2> QED
    BY <2>1, <2>2, <2>3, <2>4, <2>5, IdlePushes, QuietStep
<1>10. CASE CleanupTask(c)
  <2>1. PushesOK(At(r, "erase")) /\ PushesOK(At(r, "to_trash")) /\ PushesOK(At(r, "change"))
    BY <1>1, AtPushes DEF Steps
  <2>2. /\ r.pc = "cleanup" /\ UNCHANGED queues
        /\ \/ Goto(c, At(r, "erase")) \/ Goto(c, At(r, "to_trash"))
           \/ Goto(c, At(r, "change")) \/ Goto(c, Idle)
    BY <1>10 DEF CleanupTask
  <2> QED
    BY <2>1, <2>2, IdlePushes, LocalSweep
<1>11. CASE UndoEnqueue(c) \/ EraseTask(c) \/ TagArchived(c)
  BY <1>11, IdlePushes, LocalSweep DEF UndoEnqueue, EraseTask, TagArchived
<1>12. CASE LogPopped(c) \/ RecheckStatus(c) \/ RequeueStopped(c)
  <2>1. /\ PushesOK(At(r, "recheck")) /\ PushesOK(At(r, "requeue"))
        /\ PushesOK(Handed(r))
    BY <1>1, AtPushes, HandedPushes DEF Steps
  <2>2. /\ r.pc \in {"popped", "recheck", "requeue"} /\ UNCHANGED queues
        /\ \/ Goto(c, At(r, "recheck")) \/ Goto(c, At(r, "requeue"))
           \/ Goto(c, Handed(r)) \/ Goto(c, Idle)
    BY <1>12 DEF LogPopped, RecheckStatus, RequeueStopped
  <2> QED
    BY <2>1, <2>2, IdlePushes, LocalSweep
<1>13. CASE StartTask(c)
  <2>1. \A s : PushesOK([r EXCEPT !.pc = "change", !.st = s, !.tgt = "in_progress"])
    BY <1>1 DEF PushesOK, Requests
  <2>2. /\ r.pc = "start" /\ UNCHANGED queues
        /\ \/ \E s : Goto(c, [r EXCEPT !.pc = "change", !.st = s, !.tgt = "in_progress"])
           \/ Goto(c, Idle)
    BY <1>13 DEF StartTask
  <2> QED
    BY <2>1, <2>2, IdlePushes, LocalSweep
<1>14. CASE InspectTask(c)
  <2>1. r.left \subseteq Tasks
    BY <1>1 DEF Requests
  <2>2. \A t, s, n : PushesOK([r EXCEPT !.pc = "release", !.task = t, !.st = s, !.tgt = n])
    BY <1>1 DEF PushesOK, Requests
  <2>3. ASSUME NEW t \in r.left
        PROVE  PushesOK(ReleasedOne([r EXCEPT !.task = t]))
    <3> DEFINE m == [r EXCEPT !.task = t]
    <3>1. m \in Requests /\ PushesOK(m)
      BY <1>1, <2>1, <2>3 DEF Requests, PushesOK
    <3> HIDE DEF m
    <3>2. PushesOK(ReleasedOne(m))
      BY <3>1, ReleasedOnePushes
    <3> QED
      BY <3>2 DEF m
  <2>4. /\ r.pc = "inspect" /\ UNCHANGED queues
        /\ \E t \in r.left :
             \/ \E s, n : Goto(c, [r EXCEPT !.pc = "release", !.task = t, !.st = s, !.tgt = n])
             \/ Goto(c, ReleasedOne([r EXCEPT !.task = t]))
    BY <1>14 DEF InspectTask
  <2> HIDE DEF r
  <2>5. r = call[c]
    BY DEF r
  <2> QED
    BY <2>2, <2>3, <2>4, <2>5, LocalSweep
<1>15. CASE ReleaseTask(c)
  <2>1. PushesOK(ReleasedOne(r)) /\ r.pc = "release" /\ UNCHANGED queues
        /\ Goto(c, ReleasedOne(r))
    BY <1>1, <1>15, ReleasedOnePushes DEF ReleaseTask
  <2> QED
    BY <2>1, LocalSweep
<1>16. CASE EmptyQueue(c) \/ DropQueue(c)
  <2>1. /\ r.pc \in {"empty", "drop"} /\ r.queue \in Queues
    BY <1>1, <1>16 DEF EmptyQueue, DropQueue, RequestOK
  <2>2. /\ Goto(c, Idle) /\ entries' = [entries EXCEPT ![r.queue] = <<>>]
        /\ UNCHANGED queue_state \/ queue_state' = [queue_state EXCEPT ![r.queue] = "deleted"]
    BY <1>16 DEF EmptyQueue, DropQueue
  <2>3. \A t : ~Holds(<<>>, t)
    BY DEF Holds, Positions
  <2>4. \A t \in Tasks, q \in Queues : InQueue(t, q)' => InQueue(t, q) /\ q # r.queue
    BY <2>1, <2>2, <2>3 DEF InQueue, IInv, TypeOK
  <2>5. \A t \in Tasks, q \in Queues : InQueue(t, q)' => InQueue(t, q) /\ Live(q)'
    BY <2>2, <2>4 DEF SInv, Live, IInv, TypeOK
  <2>6. \A t \in Tasks, p, q \in Queues : ~Cover(r, t, p, q)
    BY <2>1 DEF Cover
  <2> QED
    BY <2>2, <2>5, <2>6, IdlePushes, ShrinkStep
<1>17. CASE RepositionEntry(c)
  <2>1. /\ r.pc = "reposition" /\ r.queue \in Queues /\ r.by \in Int
        /\ Goto(c, Idle) /\ UNCHANGED queue_state
    BY <1>1, <1>17 DEF RepositionEntry, RequestOK, Requests
  <2>2. \A t \in Tasks, q \in Queues : InQueue(t, q)' => InQueue(t, q)
    <3>1. \/ entries' = entries
          \/ /\ InQueue(r.task, r.queue)
             /\ entries' = [entries EXCEPT ![r.queue] =
                              Repositioned(entries[r.queue], r.task, r.by)]
      BY <1>17 DEF RepositionEntry
    <3>2. InQueue(r.task, r.queue) =>
            \A t : Holds(Repositioned(entries[r.queue], r.task, r.by), t) =>
                    Holds(entries[r.queue], t)
      BY <2>1, QueueOK, RepositionEntryOf DEF InQueue
    <3> QED
      BY <2>1, <3>1, <3>2 DEF InQueue, IInv, TypeOK
  <2> QED
    BY <2>1, <2>2, IdlePushes, QuietStep
<1>18. CASE SavePublishing(c) \/ RestoreStatus(c) \/ SaveForTrash(c)
  <2>1. /\ PushesOK(At(r, "change")) /\ PushesOK(At(r, "restore"))
        /\ PushesOK(At(r, "erase"))
    BY <1>1, AtPushes DEF Steps
  <2>2. /\ r.pc \in {"set_publishing", "restore", "to_trash"} /\ UNCHANGED queues
        /\ \/ Goto(c, At(r, "change")) \/ Goto(c, At(r, "restore"))
           \/ Goto(c, At(r, "erase")) \/ Goto(c, Idle)
    BY <1>18 DEF SavePublishing, RestoreStatus, SaveForTrash
  <2> QED
    BY <2>1, <2>2, IdlePushes, LocalSweep
<1> QED
  BY <1>2, <1>3, <1>4, <1>5, <1>6, <1>7, <1>8, <1>9, <1>10, <1>11, <1>12, <1>13, <1>14,
     <1>15, <1>16, <1>17, <1>18 DEF Proceed

LEMMA StepSweep == ASSUME SweepsComplete, IInv, SInv, [Next]_vars PROVE SInv'
<1>1. ASSUME NEW q \in Queues, CreateQueue(q)
      PROVE  SInv'
  BY <1>1 DEF CreateQueue, SInv, Live, InQueue, IInv, TypeOK
<1>2. ASSUME NEW c \in Calls, Begin(c)
      PROVE  SInv'
  BY <1>2, BeginSweep
<1>3. ASSUME NEW c \in Calls, Proceed(c)
      PROVE  SInv'
  BY <1>3, ProceedSweep
<1>4. \A c \in Calls : ~Crash(c)
  BY DEF Crash, SweepsComplete
<1>5. CASE UNCHANGED vars
  BY <1>5 DEF vars, queues, SInv, InQueue, Live
<1> QED
  BY <1>1, <1>2, <1>3, <1>4, <1>5 DEF Next

(* However many enqueues of a task overlap, to whatever queues, once they  *)
(* are done at most one queue holds it: of two queues that both hold it,   *)
(* one was pushed to by a request that has yet to sweep the other.         *)
THEOREM EnqueuesLeaveOneQueue == ASSUME SweepsComplete PROVE Spec => []SingleQueue
<1>1. Init => SInv
  BY IdlePushes DEF Init, SInv, InQueue, Holds, Positions
<1>2. SInv /\ IInv /\ [Next]_vars => SInv'
  BY StepSweep
<1>3. SInv => SingleQueue
  BY DEF SInv, SingleQueue, Enqueuing, Cover
<1> QED
  BY <1>1, <1>2, <1>3, Invariant, PTL DEF Spec

(***************************************************************************)
(* That a queued task waits in a queue, once the requests that overlapped  *)
(* are done.  Proved of the requests that, while they run, never take the  *)
(* task of another out of a queue for good: the others (dequeue, reset,    *)
(* archive, delete, clear_queue, delete_queue, a failing publish, a bare   *)
(* get_next_task) sweep or release on a status they read before.  The same *)
(* holds of two enqueues of one task to different queues: each sweeps the  *)
(* entry the other pushed.                                                 *)
(***************************************************************************)
QueueOps == {"agent", "enqueue", "report", "stop", "unarchive", "reposition"}

KeepsQueued ==
  /\ Faults = {}
  /\ \A c \in Calls : Serves[c] \subseteq QueueOps
  /\ "queued" \notin EnqueueFrom \cup Reports
  /\ \/ \A p, q \in Queues : p = q
     \/ \A c, d \in Calls : "enqueue" \in Serves[c] /\ "enqueue" \in Serves[d] => c = d

(* What such a request is doing, from where it is.                         *)
PendingOK(r) ==
  /\ r.op \in QueueOps \cup {"none"}
  /\ r.pc \in {"check", "push", "pushed", "undo", "set_queue", "sweep"} => r.op = "enqueue"
  /\ r.pc \in {"popped", "recheck", "requeue", "start"} => r.op = "agent"
  /\ r.pc \in {"find", "pull", "pulled", "missed"} => r.op = "stop" /\ r.st = "queued"
  /\ r.pc \notin {"cleanup", "erase", "tag", "empty", "drop"}
  /\ r.pc = "sweep" => r.queue \notin r.todo
  /\ r.op = "enqueue" => r.st # "queued"
  /\ r.op = "agent" /\ r.pc = "change" => r.tgt = "in_progress"
  /\ r.op = "stop" => r.tgt = "stopped"
  /\ r.pc = "change" /\ r.tgt = "queued" => r.op = "enqueue"

(* No queue is deleted: the one a request reloads is there.                *)
ReloadsLive(r) == r.pc \in {"pushed", "pull", "pulled", "missed"} => Live(r.queue)

(* The request will yet remove the task from q.                            *)
Doomed(r, t, q) ==
  /\ r.op = "enqueue" /\ r.task = t
  /\ \/ r.pc \in {"pushed", "set_queue"} /\ q # r.queue
     \/ r.pc = "sweep" /\ q \in r.todo

(* The request will yet push the task, or give it another status.          *)
Settles(r, t) ==
  /\ r.task = t
  /\ \/ r.op = "agent" /\ (r.pc = "change" => r.st = "queued")
     \/ r.op = "enqueue" /\ r.pc \in {"check", "push", "undo"}
     \/ r.op = "stop" /\ r.pc \in {"pulled", "missed", "change"} /\ r.st = "queued"

Waits(t) == \E q \in Queues : InQueue(t, q) /\ \A c \in Calls : ~Doomed(call[c], t, q)

QInv ==
  /\ \A c \in Calls : PendingOK(call[c]) /\ ReloadsLive(call[c])
  /\ \A t \in Tasks : status[t] = "queued" => Waits(t) \/ \E c \in Calls : Settles(call[c], t)

(* A step of one request: each task that is queued after it is settled by  *)
(* what the request does next, or waits in a queue that was not emptied of *)
(* it, or was queued before and loses no queue it is to stay in.           *)
LEMMA SettlingStep ==
  ASSUME IInv, QInv, NEW c \in Calls, NEW r, Goto(c, r), PendingOK(r), ReloadsLive(r),
         UNCHANGED queue_state,
         \A t \in Tasks : status'[t] = "queued" =>
           \/ Settles(r, t)
           \/ \E q \in Queues :
                /\ InQueue(t, q)' /\ ~Doomed(r, t, q)
                /\ \A d \in Calls \ {c} : ~Doomed(call[d], t, q)
           \/ /\ status[t] = "queued" /\ ~Settles(call[c], t)
              /\ \A q \in Queues : InQueue(t, q) /\ ~Doomed(call[c], t, q) =>
                   InQueue(t, q)' /\ ~Doomed(r, t, q)
  PROVE  QInv'
<1>1. \A d \in Calls : call'[d] = IF d = c THEN r ELSE call[d]
  BY DEF Goto, IInv, TypeOK
<1>2. \A d \in Calls : PendingOK(call[d])' /\ ReloadsLive(call[d])'
  BY <1>1 DEF QInv, ReloadsLive, Live
<1>3. ASSUME NEW t \in Tasks, status'[t] = "queued"
      PROVE  Waits(t)' \/ \E d \in Calls : Settles(call'[d], t)
  <2>1. CASE Settles(r, t)
    BY <1>1, <2>1
  <2>2. ASSUME NEW q \in Queues, InQueue(t, q)', ~Doomed(r, t, q),
               \A d \in Calls \ {c} : ~Doomed(call[d], t, q)
        PROVE  Waits(t)'
    BY <1>1, <2>2 DEF Waits
  <2>3. ASSUME status[t] = "queued", ~Settles(call[c], t),
               \A q \in Queues : InQueue(t, q) /\ ~Doomed(call[c], t, q) =>
                 InQueue(t, q)' /\ ~Doomed(r, t, q)
        PROVE  Waits(t)' \/ \E d \in Calls : Settles(call'[d], t)
    <3>1. CASE Waits(t)
      <4>1. PICK q \in Queues : InQueue(t, q) /\ \A d \in Calls : ~Doomed(call[d], t, q)
        BY <3>1 DEF Waits
      <4> QED
        BY <2>2, <2>3, <4>1
    <3>2. CASE \E d \in Calls : Settles(call[d], t)
      BY <1>1, <2>3, <3>2
    <3> QED
      BY <2>3, <3>1, <3>2 DEF QInv
  <2> QED
    BY <1>3, <2>1, <2>2, <2>3
<1> QED
  BY <1>2, <1>3 DEF QInv

(* One that leaves the queues alone.                                       *)
LEMMA SettlingLocal ==
  ASSUME IInv, QInv, NEW c \in Calls, NEW r, Goto(c, r), PendingOK(r), ReloadsLive(r),
         UNCHANGED queues,
         \A t \in Tasks, q \in Queues : Doomed(r, t, q) => Doomed(call[c], t, q),
         \A t \in Tasks : status'[t] = "queued" =>
           Settles(r, t) \/ (status[t] = "queued" /\ ~Settles(call[c], t))
  PROVE  QInv'
<1>1. UNCHANGED queue_state /\ \A t, q : InQueue(t, q)' <=> InQueue(t, q)
  BY DEF queues, InQueue
<1> QED
  BY <1>1, SettlingStep

LEMMA IdlePends ==
  /\ PendingOK(Idle) /\ ReloadsLive(Idle)
  /\ \A t \in Tasks : ~Settles(Idle, t) /\ \A q : ~Doomed(Idle, t, q)
  BY IdleFields, NoneIsNothing DEF PendingOK, ReloadsLive, Settles, Doomed, QueueOps

(* A request that has just begun and reads only.                           *)
LEMMA SettlingBegins ==
  ASSUME IInv, QInv, NEW c \in Calls, call[c] = Idle, NEW r, Goto(c, r), PendingOK(r),
         r.pc \in {"idle", "change", "find", "reposition"}, UNCHANGED <<docs, queues>>
  PROVE  QInv'
<1>1. ReloadsLive(r) /\ \A t, q : ~Doomed(r, t, q)
  BY DEF ReloadsLive, Doomed
<1>2. UNCHANGED <<status, queues>>
  BY DEF docs
<1> QED
  BY <1>1, <1>2, IdlePends, SettlingLocal

LEMMA BeginSettles ==
  ASSUME KeepsQueued, IInv, QInv, NEW c \in Calls, Begin(c)
  PROVE  QInv'
<1>1. \A op \in RequestKinds \ QueueOps : ~Accepts(c, op)
  BY DEF KeepsQueued, Accepts
<1>2. ASSUME NEW t \in Tasks, NEW q \in Queues, NEW force, NEW upd, Enqueue(c, t, q, force, upd)
      PROVE  QInv'
  <2> DEFINE r == [Idle EXCEPT !.op = "enqueue", !.pc = "change", !.task = t,
                     !.queue = q, !.st = status[t], !.tgt = "queued",
                     !.es = BeforeEnqueueStatus(t), !.opt = upd]
  <2>1. r.op = "enqueue" /\ r.pc = "change" /\ r.st = status[t] /\ r.tgt = "queued"
    BY IdleOK DEF Requests
  <2>2. call[c] = Idle /\ Goto(c, r) /\ UNCHANGED <<docs, queues>> /\ status[t] # "queued"
    BY <1>2 DEF Enqueue, Accepts, KeepsQueued
  <2> HIDE DEF r
  <2>3. PendingOK(r)
    BY <2>1, <2>2 DEF PendingOK, QueueOps
  <2> QED
    BY <2>1, <2>2, <2>3, SettlingBegins
<1>3. ASSUME NEW t \in Tasks, NEW q \in Queues, NEW by, Reposition(c, t, q, by)
      PROVE  QInv'
  <2> DEFINE r == [Idle EXCEPT !.op = "reposition", !.pc = "reposition", !.task = t,
                     !.queue = q, !.by = by]
  <2>1. r.op = "reposition" /\ r.pc = "reposition"
    BY IdleOK DEF Requests
  <2>2. call[c] = Idle /\ Goto(c, r) /\ UNCHANGED <<docs, queues>>
    BY <1>3 DEF Reposition, Accepts
  <2> HIDE DEF r
  <2>3. PendingOK(r)
    BY <2>1 DEF PendingOK, QueueOps
  <2> QED
    BY <2>1, <2>2, <2>3, SettlingBegins
<1>4. ASSUME NEW t \in Tasks, NEW force, Stop(c, t, force)
      PROVE  QInv'
  <2> DEFINE r == Dequeuing("stop", t, "stopped", FALSE)
             n == IF IsEnqueued(t) THEN At(r, "find") ELSE At(r, "change")
  <2>1. status[t] \in Statuses /\ exec_queue[t] \in Queues \cup {None}
    BY <1>4, TaskOK DEF Stop
  <2>2. r \in Requests /\ r.op = "stop" /\ r.task = t /\ r.st = status[t] /\ r.tgt = "stopped"
    BY <2>1, IdleOK, StatusNames DEF Dequeuing, Requests, RequestKinds
  <2>3. call[c] = Idle /\ UNCHANGED <<docs, queues>>
        /\ Goto(c, IF IsEnqueued(r.task) THEN At(r, "find") ELSE AfterDequeue(r))
    BY <1>4 DEF Stop, BeginDequeue, Accepts
  <2> HIDE DEF r
  <2>4. Goto(c, n)
    BY <2>2, <2>3 DEF AfterDequeue
  <2>5. /\ n.op = "stop" /\ n.tgt = "stopped" /\ n.st = status[t]
        /\ n.pc = IF IsEnqueued(t) THEN "find" ELSE "change"
    BY <2>2, AtOK DEF Steps
  <2> HIDE DEF n
  <2>6. PendingOK(n)
    BY <2>5 DEF PendingOK, QueueOps, IsEnqueued
  <2> QED
    BY <2>3, <2>4, <2>5, <2>6, SettlingBegins
<1>5. ASSUME NEW t \in Tasks, NEW s \in Reports, NEW force, Report(c, t, s, force)
      PROVE  QInv'
  <2> DEFINE r == [Idle EXCEPT !.op = "report", !.pc = "change", !.task = t,
                     !.st = status[t], !.tgt = s]
  <2>1. r.op = "report" /\ r.pc = "change" /\ r.tgt = s
    BY IdleOK DEF Requests
  <2>2. call[c] = Idle /\ Goto(c, r) /\ UNCHANGED <<docs, queues>> /\ s # "queued"
    BY <1>5 DEF Report, Accepts, KeepsQueued
  <2> HIDE DEF r
  <2>3. PendingOK(r)
    BY <2>1, <2>2 DEF PendingOK, QueueOps
  <2> QED
    BY <2>1, <2>2, <2>3, SettlingBegins
<1>6. ASSUME NEW t \in Tasks, Unarchive(c, t)
      PROVE  QInv'
  BY <1>6 DEF Unarchive, QInv, queues, InQueue, Live, Waits, ReloadsLive
<1>7. ASSUME NEW q \in Queues, GetNextTask(c, q, "agent")
      PROVE  QInv'
  <2> DEFINE s == entries[q]
             e == s[NextUp(s)]
             r == [Idle EXCEPT !.op = "agent", !.pc = "popped", !.task = e.task, !.ent = e]
  <2>1. r.op = "agent" /\ r.pc = "popped" /\ r.task = e.task
    BY IdleOK DEF Requests
  <2>2. /\ call[c] = Idle /\ Goto(c, r) /\ UNCHANGED <<docs, queue_state>> /\ s # <<>>
        /\ entries' = [entries EXCEPT ![q] = Popped(entries[q])]
    BY <1>7 DEF GetNextTask, Accepts
  <2>3. s \in Seq(Entries)
    BY QueueOK
  <2>4. \A t : Holds(s, t) /\ t # e.task => Holds(Popped(s), t)
    BY <2>2, <2>3, PopKeeps
  <2>5. \A p \in Queues : entries'[p] = IF p = q THEN Popped(s) ELSE entries[p]
    BY <2>2 DEF IInv, TypeOK
  <2>6. \A t \in Tasks, p \in Queues : InQueue(t, p) /\ t # e.task => InQueue(t, p)'
    BY <2>4, <2>5 DEF InQueue
  <2> HIDE DEF r, s
  <2>7. /\ PendingOK(r) /\ ReloadsLive(r) /\ Settles(r, e.task)
        /\ \A t, p : ~Doomed(r, t, p)
    BY <2>1 DEF PendingOK, QueueOps, ReloadsLive, Settles, Doomed
  <2> HIDE DEF e
  <2>8. UNCHANGED status
    BY <2>2 DEF docs
  <2> QED
    BY <2>2, <2>6, <2>7, <2>8, IdlePends, SettlingStep
<1>8. \A t \in Tasks, q, p \in Queues, upd \in Options :
        ~AddTask(c, t, q, upd) /\ ~MoveTask(c, t, q, p, upd) /\ ~RemoveTask(c, t, q, upd)
  BY <1>1 DEF AddTask, MoveTask, RemoveTask, RequestKinds, QueueOps
<1>9. \A t \in Tasks, force \in Forces :
        /\ ~Reset(c, t, force) /\ ~Publish(c, t, force)
        /\ \A op \in {"delete", "trash"} : ~Delete(c, t, force, op)
  BY <1>1 DEF Reset, Publish, Delete, RequestKinds, QueueOps
<1>10. \A t \in Tasks :
         /\ ~Archive(c, t) /\ ~DequeueDeleted(c, t)
         /\ \A n \in NewStatuses \cup {None}, all \in Options : ~Dequeue(c, t, n, all)
  BY <1>1 DEF Archive, DequeueDeleted, Dequeue, RequestKinds, QueueOps
<1>11. \A q \in Queues :
         /\ ~ClearQueue(c, q) /\ ~GetNextTask(c, q, "get_next_task")
         /\ \A force \in Forces : ~DeleteQueue(c, q, force)
  BY <1>1 DEF ClearQueue, GetNextTask, DeleteQueue, RequestKinds, QueueOps
<1> QED
  BY <1>2, <1>3, <1>4, <1>5, <1>6, <1>7, <1>8, <1>9, <1>10, <1>11 DEF Begin

LEMMA ProceedSettles ==
  ASSUME KeepsQueued, IInv, Served, QInv, NEW c \in Calls, Proceed(c)
  PROVE  QInv'
<1> DEFINE r == call[c]
<1>1. r \in Requests /\ RequestOK(r) /\ PendingOK(r) /\ ReloadsLive(r)
  BY CallOK DEF QInv
<1>2. CASE Change(c)
  <2> DEFINE n == At(r, "check")
  <2>1. /\ r.pc = "change" /\ r.task \in Tasks /\ r.st # None /\ r.tgt \in Statuses
        /\ UNCHANGED queues
    BY <1>1, <1>2 DEF Change, RequestOK
  <2>2. ChangeDone(r) = Idle /\ ChangeFailed(r) = Idle
    BY <1>1 DEF ChangeDone, ChangeFailed, PendingOK, QueueOps
  <2>3. CASE StillAsRead(r) /\ r.op = "enqueue"
    <3>1. Goto(c, n) /\ status' = [status EXCEPT ![r.task] = r.tgt]
      BY <1>2, <2>3 DEF Change
    <3>2. n.pc = "check" /\ n.op = r.op /\ n.task = r.task /\ n.st = r.st /\ n.tgt = r.tgt
      BY <1>1, AtOK DEF Steps
    <3> HIDE DEF n
    <3>3. PendingOK(n) /\ ReloadsLive(n) /\ Settles(n, r.task) /\ \A t, q : ~Doomed(n, t, q)
      BY <1>1, <2>3, <3>2 DEF PendingOK, ReloadsLive, Settles, Doomed
    <3>4. \A t \in Tasks : t # r.task => status'[t] = status[t] /\ ~Settles(r, t)
      BY <2>1, <3>1 DEF Settles, IInv, TypeOK
    <3> QED
      BY <2>1, <3>1, <3>3, <3>4, SettlingLocal
  <2>4. CASE StillAsRead(r) /\ r.op # "enqueue"
    <3>1. Goto(c, Idle) /\ status' = [status EXCEPT ![r.task] = r.tgt]
      BY <1>2, <2>2, <2>4 DEF Change
    <3>2. r.tgt # "queued"
      BY <1>1, <2>1, <2>4 DEF PendingOK
    <3>3. \A t \in Tasks : status'[t] = "queued" => status[t] = "queued" /\ ~Settles(r, t)
      BY <2>1, <3>1, <3>2 DEF Settles, IInv, TypeOK
    <3> QED
      BY <2>1, <3>1, <3>3, IdlePends, SettlingLocal
  <2>5. CASE ~StillAsRead(r)
    <3>1. Goto(c, Idle) /\ UNCHANGED status
      BY <1>2, <2>2, <2>5 DEF Change
    <3>2. \A t \in Tasks : status[t] = "queued" => ~Settles(r, t)
      BY <2>1, <2>5 DEF Settles, StillAsRead
    <3> QED
      BY <2>1, <3>1, <3>2, IdlePends, SettlingLocal
  <2> QED
    BY <2>3, <2>4, <2>5
<1>3. CASE CheckQueue(c)
  <2>1. r.pc = "check" /\ r.op = "enqueue" /\ UNCHANGED <<status, queues>>
    BY <1>1, <1>3 DEF CheckQueue, PendingOK, docs
  <2>2. PICK pc \in {"push", "undo"} : Goto(c, At(r, pc))
    BY <1>3, <2>1 DEF CheckQueue, AddFailed
  <2> DEFINE n == At(r, pc)
  <2>3. n.pc = pc /\ n.op = r.op /\ n.task = r.task /\ n.st = r.st /\ n.tgt = r.tgt
    BY <1>1, AtOK DEF Steps
  <2>4. Goto(c, n)
    BY <2>2
  <2> HIDE DEF n
  <2>5. PendingOK(n) /\ ReloadsLive(n) /\ \A t, q : ~Doomed(n, t, q)
    BY <1>1, <2>1, <2>3 DEF PendingOK, ReloadsLive, Doomed
  <2>6. \A t : Settles(r, t) => Settles(n, t)
    BY <2>1, <2>3 DEF Settles
  <2> QED
    BY <2>1, <2>4, <2>5, <2>6, SettlingLocal
<1>4. CASE PushEntry(c)
  <2>1. r.pc = "push" /\ r.op = "enqueue" /\ r.queue \in Queues /\ r.task \in Tasks
        /\ UNCHANGED <<status, queue_state>>
    BY <1>1, <1>4 DEF PushEntry, PendingOK, RequestOK, docs
  <2>2. CASE MayPush(r.queue, r.task)
    <3> DEFINE e == [task |-> r.task, added |-> CHOOSE s \in Stamps \ UsedStamps : TRUE]
               n == At(r, "pushed")
    <3>1. /\ Stamps \ UsedStamps # {}
          /\ entries' = [entries EXCEPT ![r.queue] = Pushed(entries[r.queue], e)]
          /\ Goto(c, n)
      BY <1>4, <2>2 DEF PushEntry
    <3>2. e \in Entries /\ e.task = r.task
      BY <2>1, <3>1 DEF Entries
    <3> HIDE DEF e
    <3>3. /\ Holds(Pushed(entries[r.queue], e), r.task)
          /\ \A t : Holds(entries[r.queue], t) => Holds(Pushed(entries[r.queue], e), t)
      BY <2>1, <3>2, QueueOK, PushKeeps
    <3>4. \A q \in Queues :
            entries'[q] = IF q = r.queue THEN Pushed(entries[r.queue], e) ELSE entries[q]
      BY <3>1 DEF IInv, TypeOK
    <3>5. \A t \in Tasks, q \in Queues :
            InQueue(t, q) \/ (t = r.task /\ q = r.queue) => InQueue(t, q)'
      <4>1. ASSUME NEW t \in Tasks, NEW q \in Queues, t = r.task, q = r.queue
            PROVE  InQueue(t, q)'
        BY <3>3, <3>4, <4>1 DEF InQueue
      <4>2. ASSUME NEW t \in Tasks, NEW q \in Queues, InQueue(t, q)
            PROVE  InQueue(t, q)'
        BY <3>3, <3>4, <4>2 DEF InQueue
      <4> QED
        BY <4>1, <4>2
    <3>6. /\ n.op = "enqueue" /\ n.pc = "pushed" /\ n.task = r.task /\ n.queue = r.queue
          /\ n.st = r.st /\ n.tgt = r.tgt
      BY <1>1, <2>1, AtOK DEF Steps
    <3> HIDE DEF n
    <3>7. PendingOK(n) /\ ReloadsLive(n) /\ ~Doomed(n, r.task, r.queue)
      BY <1>1, <2>1, <2>2, <3>6 DEF PendingOK, ReloadsLive, Doomed, MayPush
    <3>8. \A t \in Tasks : t # r.task => ~Settles(r, t) /\ \A q \in Queues : ~Doomed(n, t, q)
      BY <3>6 DEF Settles, Doomed
    <3>9. ASSUME NEW d \in Calls \ {c}
          PROVE  ~Doomed(call[d], r.task, r.queue)
      <4>1. CASE \A p, q \in Queues : p = q
        <5>1. call[d] \in Requests /\ RequestOK(call[d]) /\ PendingOK(call[d])
          BY CallOK DEF QInv
        <5>2. call[d].op = "enqueue" => call[d].queue = r.queue
          BY <2>1, <4>1, <5>1 DEF RequestOK
        <5> QED
          BY <5>1, <5>2 DEF PendingOK, Doomed
      <4>2. CASE \A b, d1 \in Calls :
                   "enqueue" \in Serves[b] /\ "enqueue" \in Serves[d1] => b = d1
        <5>1. "enqueue" \in Serves[c]
          BY <2>1 DEF Served
        <5>2. call[d].op # "enqueue"
          BY <4>2, <5>1 DEF Served
        <5> QED
          BY <5>2 DEF Doomed
      <4> QED
        BY <4>1, <4>2 DEF KeepsQueued
    <3>10. \A t \in Tasks : status'[t] = "queued" =>
             \/ \E q \in Queues :
                  /\ InQueue(t, q)' /\ ~Doomed(n, t, q)
                  /\ \A d \in Calls \ {c} : ~Doomed(call[d], t, q)
             \/ /\ status[t] = "queued" /\ ~Settles(r, t)
                /\ \A q \in Queues : InQueue(t, q) => InQueue(t, q)' /\ ~Doomed(n, t, q)
      <4>1. \A t \in Tasks : t = r.task =>
              \E q \in Queues :
                  /\ InQueue(t, q)' /\ ~Doomed(n, t, q)
                  /\ \A d \in Calls \ {c} : ~Doomed(call[d], t, q)
        BY <2>1, <3>5, <3>7, <3>9
      <4> QED
        BY <2>1, <3>5, <3>8, <4>1
    <3> HIDE DEF r
    <3> QED
      BY <2>1, <3>1, <3>7, <3>10, SettlingStep DEF r
  <2>3. CASE ~MayPush(r.queue, r.task)
    <3> DEFINE n == At(r, "undo")
    <3>1. Goto(c, n) /\ UNCHANGED queues
      BY <1>4, <2>1, <2>3 DEF PushEntry, AddFailed, queues
    <3>2. n.pc = "undo" /\ n.op = r.op /\ n.task = r.task /\ n.st = r.st /\ n.tgt = r.tgt
      BY <1>1, AtOK DEF Steps
    <3> HIDE DEF n
    <3>3. PendingOK(n) /\ ReloadsLive(n) /\ \A t, q : ~Doomed(n, t, q)
      BY <1>1, <2>1, <3>2 DEF PendingOK, ReloadsLive, Doomed
    <3>4. \A t : Settles(r, t) => Settles(n, t)
      BY <2>1, <3>2 DEF Settles
    <3> QED
      BY <2>1, <3>1, <3>3, <3>4, SettlingLocal
  <2> QED
    BY <2>2, <2>3
<1>5. CASE LogPushed(c) \/ SetExecutionQueue(c)
  <2>1. /\ r.pc \in {"pushed", "set_queue"} /\ r.op = "enqueue"
        /\ r.queue \in Queues /\ r.task \in Tasks
        /\ OtherQueues(r.queue) \in SUBSET Queues /\ r.queue \notin OtherQueues(r.queue)
        /\ UNCHANGED <<status, queues>>
    BY <1>1, <1>5 DEF LogPushed, SetExecutionQueue, PendingOK, RequestOK, OtherQueues, docs
  <2> DEFINE n == Sweeping(r, OtherQueues(r.queue))
             m == At(r, "set_queue")
  <2>2. Goto(c, n) \/ Goto(c, m)
    BY <1>1, <1>5, <2>1 DEF LogPushed, SetExecutionQueue, Added, ReloadsLive, KeepsQueued
  <2>3. /\ n.op = "enqueue" /\ n.pc = "sweep" /\ n.task = r.task /\ n.queue = r.queue
        /\ n.todo = OtherQueues(r.queue) /\ n.st = r.st /\ n.tgt = r.tgt
    BY <1>1, <2>1, SweepingOK
  <2>4. /\ m.op = "enqueue" /\ m.pc = "set_queue" /\ m.task = r.task /\ m.queue = r.queue
        /\ m.st = r.st /\ m.tgt = r.tgt
    BY <1>1, <2>1, AtOK DEF Steps
  <2> HIDE DEF n, m
  <2>5. PendingOK(n) /\ PendingOK(m) /\ ReloadsLive(n) /\ ReloadsLive(m)
    BY <1>1, <2>1, <2>3, <2>4 DEF PendingOK, ReloadsLive
  <2>6. \A t, q : Doomed(n, t, q) \/ Doomed(m, t, q) => Doomed(r, t, q)
    BY <2>1, <2>3, <2>4 DEF Doomed, OtherQueues
  <2>7. \A t : ~Settles(r, t)
    BY <2>1 DEF Settles
  <2> QED
    BY <2>1, <2>2, <2>5, <2>6, <2>7, SettlingLocal
<1>6. CASE UndoEnqueue(c)
  <2>1. r.pc = "undo" /\ r.op = "enqueue" /\ r.task \in Tasks /\ r.st # "queued"
        /\ Goto(c, Idle) /\ UNCHANGED queues
    BY <1>1, <1>6 DEF UndoEnqueue, PendingOK, RequestOK
  <2>2. status' = IF status[r.task] = "queued" THEN [status EXCEPT ![r.task] = r.st] ELSE status
    BY <1>6 DEF UndoEnqueue
  <2>3. \A t \in Tasks : status'[t] = "queued" => status[t] = "queued" /\ t # r.task
    BY <2>1, <2>2 DEF IInv, TypeOK
  <2>4. \A t : Settles(r, t) => t = r.task
    BY DEF Settles
  <2> QED
    BY <2>1, <2>3, <2>4, IdlePends, SettlingLocal
<1>7. CASE Sweep(c)
  <2>1. /\ r.pc = "sweep" /\ r.op = "enqueue" /\ r.task \in Tasks /\ r.todo \subseteq Queues
        /\ UNCHANGED <<status, queue_state>>
    BY <1>1, <1>7 DEF Sweep, PendingOK, RequestOK, Requests, docs
  <2>2. ASSUME NEW v \in r.todo, entries' = [entries EXCEPT ![v] = Pull(entries[v], r.task)],
               Goto(c, [r EXCEPT !.todo = @ \ {v}])
        PROVE  QInv'
    <3> DEFINE n == [r EXCEPT !.todo = @ \ {v}]
    <3>1. /\ n.op = r.op /\ n.pc = "sweep" /\ n.task = r.task /\ n.queue = r.queue
          /\ n.st = r.st /\ n.tgt = r.tgt /\ n.todo = r.todo \ {v}
      BY <1>1, <2>1 DEF Requests
    <3> HIDE DEF n
    <3>2. \A t : t # r.task /\ Holds(entries[v], t) => Holds(Pull(entries[v], r.task), t)
      BY <2>1, <2>2, QueueOK, PullKeeps
    <3>3. \A q \in Queues : entries'[q] = IF q = v THEN Pull(entries[v], r.task) ELSE entries[q]
      BY <2>1, <2>2 DEF IInv, TypeOK
    <3>4. \A t \in Tasks, q \in Queues :
            InQueue(t, q) /\ ~Doomed(r, t, q) => InQueue(t, q)' /\ ~Doomed(n, t, q)
      BY <2>1, <3>1, <3>2, <3>3 DEF InQueue, Doomed
    <3>5. PendingOK(n) /\ ReloadsLive(n) /\ \A t : ~Settles(r, t)
      BY <1>1, <2>1, <3>1 DEF PendingOK, ReloadsLive, Settles
    <3>6. Goto(c, n)
      BY <2>2 DEF n
    <3> QED
      BY <2>1, <3>4, <3>5, <3>6, SettlingStep
  <2>3. CASE r.todo = {} /\ Goto(c, SweepDone(r)) /\ UNCHANGED entries
    <3>1. SweepDone(r) = Idle /\ \A t : ~Settles(r, t)
      BY <2>1 DEF SweepDone, Settles
    <3> QED
      BY <2>1, <2>3, <3>1, IdlePends, SettlingLocal DEF queues
  <2> QED
    BY <1>7, <2>2, <2>3 DEF Sweep
<1>8. CASE FindEntry(c)
  <2>1. /\ r.pc = "find" /\ r.op = "stop" /\ r.st = "queued" /\ r.task \in Tasks
        /\ UNCHANGED <<status, queues>>
    BY <1>1, <1>8 DEF FindEntry, PendingOK, RequestOK, docs
  <2>2. \A t, q : ~Settles(r, t) /\ ~Doomed(r, t, q)
    BY <2>1 DEF Settles, Doomed
  <2>3. CASE Live(r.queue) /\ InQueue(r.task, r.queue)
    <3> DEFINE n == [r EXCEPT !.pc = "pull", !.ent = EntryOf(entries[r.queue], r.task)]
    <3>1. Goto(c, n)
      BY <1>8, <2>3 DEF FindEntry
    <3>2. /\ n.pc = "pull" /\ n.op = "stop" /\ n.st = "queued" /\ n.tgt = r.tgt
          /\ n.queue = r.queue
      BY <1>1, <2>1 DEF Requests
    <3> HIDE DEF n
    <3>3. PendingOK(n) /\ ReloadsLive(n) /\ \A t, q : ~Doomed(n, t, q)
      BY <1>1, <2>1, <2>3, <3>2 DEF PendingOK, ReloadsLive, Doomed
    <3> QED
      BY <2>1, <2>2, <3>1, <3>3, SettlingLocal
  <2>4. CASE ~(Live(r.queue) /\ InQueue(r.task, r.queue))
    <3> DEFINE n == At(r, "change")
    <3>1. Goto(c, n)
      BY <1>8, <2>1, <2>4 DEF FindEntry, AfterDequeue
    <3>2. n.pc = "change" /\ n.op = "stop" /\ n.st = "queued" /\ n.tgt = r.tgt
      BY <1>1, <2>1, AtOK DEF Steps
    <3> HIDE DEF n
    <3>3. PendingOK(n) /\ ReloadsLive(n) /\ \A t, q : ~Doomed(n, t, q)
      BY <1>1, <2>1, <3>2 DEF PendingOK, ReloadsLive, Doomed
    <3> QED
      BY <2>1, <2>2, <3>1, <3>3, SettlingLocal
  <2> QED
    BY <2>3, <2>4
<1>9. CASE PullEntry(c)
  <2> DEFINE matched == Live(r.queue) /\ InQueue(r.task, r.queue)
             n == [r EXCEPT !.pc = IF matched THEN "pulled" ELSE "missed", !.ent = None]
  <2>1. /\ r.pc = "pull" /\ r.op = "stop" /\ r.st = "queued" /\ r.task \in Tasks
        /\ r.queue \in Queues /\ UNCHANGED <<status, queue_state>>
    BY <1>1, <1>9 DEF PullEntry, PendingOK, RequestOK, docs
  <2>2. Goto(c, n)
    BY <1>9, <2>1 DEF PullEntry
  <2>3. /\ n.pc \in {"pulled", "missed"} /\ n.op = "stop" /\ n.st = "queued"
        /\ n.task = r.task /\ n.queue = r.queue /\ n.tgt = r.tgt
    BY <1>1, <2>1 DEF Requests
  <2> HIDE DEF n
  <2>4. PendingOK(n) /\ ReloadsLive(n) /\ Settles(n, r.task) /\ \A t, q : ~Doomed(n, t, q)
    BY <1>1, <2>1, <2>3 DEF PendingOK, ReloadsLive, Settles, Doomed
  <2>5. \/ entries' = entries
        \/ entries' = [entries EXCEPT ![r.queue] = Pull(entries[r.queue], r.task)]
    BY <1>9 DEF PullEntry
  <2>6. \A t : t # r.task /\ Holds(entries[r.queue], t) => Holds(Pull(entries[r.queue], r.task), t)
    BY <2>1, QueueOK, PullKeeps
  <2>7. \A t \in Tasks, q \in Queues : t # r.task /\ InQueue(t, q) => InQueue(t, q)'
    BY <2>1, <2>5, <2>6 DEF InQueue, IInv, TypeOK
  <2>8. \A t, q : ~Settles(r, t) /\ ~Doomed(r, t, q)
    BY <2>1 DEF Settles, Doomed
  <2> QED
    BY <2>1, <2>2, <2>4, <2>7, <2>8, SettlingStep
<1>10. CASE LogPulled(c)
  <2> DEFINE n == At(r, "change")
  <2>1. /\ r.pc \in {"pulled", "missed"} /\ r.op = "stop" /\ r.st = "queued"
        /\ UNCHANGED <<status, queues>>
    BY <1>1, <1>10 DEF LogPulled, PendingOK, docs
  <2>2. Goto(c, n)
    BY <1>1, <1>10, <2>1 DEF LogPulled, AfterDequeue, ReloadsLive, KeepsQueued
  <2>3. n.pc = "change" /\ n.op = "stop" /\ n.st = "queued" /\ n.tgt = r.tgt /\ n.task = r.task
    BY <1>1, <2>1, AtOK DEF Steps
  <2> HIDE DEF n
  <2>4. PendingOK(n) /\ ReloadsLive(n) /\ \A t, q : ~Doomed(n, t, q)
    BY <1>1, <2>1, <2>3 DEF PendingOK, ReloadsLive, Doomed
  <2>5. \A t : Settles(r, t) => Settles(n, t)
    BY <2>3 DEF Settles
  <2> QED
    BY <2>1, <2>2, <2>4, <2>5, SettlingLocal
<1>11. CASE LogPopped(c) \/ RecheckStatus(c) \/ RequeueStopped(c)
  <2>1. /\ r.pc \in {"popped", "recheck", "requeue"} /\ r.op = "agent" /\ r.task \in Tasks
        /\ UNCHANGED queues
    BY <1>1, <1>11 DEF LogPopped, RecheckStatus, RequeueStopped, PendingOK, RequestOK
  <2>2. PICK pc \in {"recheck", "requeue", "start"} : Goto(c, At(r, pc))
    BY <1>11, <2>1 DEF LogPopped, RecheckStatus, RequeueStopped, Handed, KeepsQueued
  <2> DEFINE n == At(r, pc)
  <2>3. n.pc = pc /\ n.op = "agent" /\ n.task = r.task /\ n.st = r.st /\ n.tgt = r.tgt
    BY <1>1, <2>1, AtOK DEF Steps
  <2>4. Goto(c, n)
    BY <2>2
  <2> HIDE DEF n
  <2>5. PendingOK(n) /\ ReloadsLive(n) /\ Settles(n, r.task) /\ \A t, q : ~Doomed(n, t, q)
    BY <1>1, <2>1, <2>3 DEF PendingOK, ReloadsLive, Settles, Doomed
  <2>6. status' = status \/ status' = [status EXCEPT ![r.task] = "queued"]
    BY <1>11 DEF LogPopped, RecheckStatus, RequeueStopped, docs
  <2>7. \A t \in Tasks : t # r.task => status'[t] = status[t] /\ ~Settles(r, t)
    BY <2>1, <2>6 DEF Settles, IInv, TypeOK
  <2> QED
    BY <2>1, <2>4, <2>5, <2>7, SettlingLocal
<1>12. CASE StartTask(c)
  <2>1. /\ r.pc = "start" /\ r.op = "agent" /\ r.task \in Tasks /\ UNCHANGED <<status, queues>>
    BY <1>1, <1>12 DEF StartTask, PendingOK, RequestOK, docs
  <2>2. CASE Exists(r.task) /\ validate_transition(status[r.task], "in_progress", FALSE)
    <3> DEFINE n == [r EXCEPT !.pc = "change", !.st = status[r.task], !.tgt = "in_progress"]
    <3>1. Goto(c, n)
      BY <1>12, <2>2 DEF StartTask
    <3>2. /\ n.pc = "change" /\ n.op = "agent" /\ n.task = r.task /\ n.st = status[r.task]
          /\ n.tgt = "in_progress"
      BY <1>1, <2>1 DEF Requests
    <3> HIDE DEF n
    <3>3. /\ PendingOK(n) /\ ReloadsLive(n) /\ \A t, q : ~Doomed(n, t, q)
          /\ status[r.task] = "queued" => Settles(n, r.task)
      BY <1>1, <2>1, <3>2 DEF PendingOK, ReloadsLive, Settles, Doomed
    <3>4. \A t : t # r.task => ~Settles(r, t)
      BY DEF Settles
    <3> QED
      BY <2>1, <3>1, <3>3, <3>4, SettlingLocal
  <2>3. CASE ~(Exists(r.task) /\ validate_transition(status[r.task], "in_progress", FALSE))
    <3>1. status[r.task] # "queued"
      BY <2>3 DEF Exists, Absent, validate_transition, validate_status_change, state_machine
    <3>2. \A t : Settles(r, t) => t = r.task
      BY DEF Settles
    <3>3. Goto(c, Idle)
      BY <1>12, <2>3 DEF StartTask
    <3> QED
      BY <2>1, <3>1, <3>2, <3>3, IdlePends, SettlingLocal
  <2> QED
    BY <2>2, <2>3
<1>13. CASE RepositionEntry(c)
  <2>1. /\ r.pc = "reposition" /\ r.queue \in Queues /\ r.by \in Int
        /\ Goto(c, Idle) /\ UNCHANGED <<status, queue_state>>
    BY <1>1, <1>13 DEF RepositionEntry, RequestOK, Requests, docs
  <2>2. r.op # "enqueue" /\ \A t : Settles(r, t) => t = r.task /\ r.op \in {"agent", "stop"}
    BY <1>1, <2>1 DEF RequestOK, Settles
  <2>3. r.op \notin {"agent", "stop"}
    BY <1>1, <2>1 DEF RequestOK
  <2>4. \/ entries' = entries
        \/ /\ InQueue(r.task, r.queue)
           /\ entries' = [entries EXCEPT ![r.queue] =
                            Repositioned(entries[r.queue], r.task, r.by)]
    BY <1>13 DEF RepositionEntry
  <2>5. InQueue(r.task, r.queue) =>
          \A u : Holds(entries[r.queue], u) =>
                  Holds(Repositioned(entries[r.queue], r.task, r.by), u)
    BY <2>1, QueueOK, RepositionKeeps DEF InQueue
  <2>6. \A t \in Tasks, q \in Queues : InQueue(t, q) => InQueue(t, q)'
    BY <2>1, <2>4, <2>5 DEF InQueue, IInv, TypeOK
  <2> QED
    BY <2>1, <2>2, <2>3, <2>6, IdlePends, SettlingStep
<1>14. /\ ~CleanupTask(c) /\ ~SaveForTrash(c) /\ ~EraseTask(c) /\ ~TagArchived(c)
       /\ ~SavePublishing(c) /\ ~RestoreStatus(c) /\ ~InspectTask(c) /\ ~ReleaseTask(c)
       /\ ~EmptyQueue(c) /\ ~DropQueue(c)
  <2>1. r.pc \notin {"cleanup", "to_trash", "erase", "tag", "set_publishing", "restore",
                     "inspect", "release", "empty", "drop"}
    BY <1>1 DEF RequestOK, PendingOK, QueueOps
  <2> QED
    BY <2>1 DEF CleanupTask, SaveForTrash, EraseTask, TagArchived, SavePublishing,
                RestoreStatus, InspectTask, ReleaseTask, EmptyQueue, DropQueue
<1> QED
  BY <1>2, <1>3, <1>4, <1>5, <1>6, <1>7, <1>8, <1>9, <1>10, <1>11, <1>12, <1>13, <1>14
  DEF Proceed

LEMMA StepSettles == ASSUME KeepsQueued, IInv, Served, QInv, [Next]_vars PROVE QInv'
<1>1. ASSUME NEW q \in Queues, CreateQueue(q)
      PROVE  QInv'
  <2>1. /\ UNCHANGED <<status, entries, call>>
        /\ \A p : Live(p) /\ p \in Queues => Live(p)'
    BY <1>1 DEF CreateQueue, Live, IInv, TypeOK, docs
  <2>2. \A c \in Calls : ReloadsLive(call[c])'
    BY <2>1, CallOK DEF QInv, ReloadsLive, RequestOK
  <2> QED
    BY <2>1, <2>2 DEF QInv, Waits, InQueue
<1>2. ASSUME NEW c \in Calls, Begin(c)
      PROVE  QInv'
  BY <1>2, BeginSettles
<1>3. ASSUME NEW c \in Calls, Proceed(c)
      PROVE  QInv'
  BY <1>3, ProceedSettles
<1>4. \A c \in Calls : ~Crash(c)
  BY DEF Crash, KeepsQueued
<1>5. CASE UNCHANGED vars
  BY <1>5 DEF vars, docs, queues, QInv, Waits, InQueue, ReloadsLive, Live
<1> QED
  BY <1>1, <1>2, <1>3, <1>4, <1>5 DEF Next

(* However enqueues, stops, reports, moves within a queue and agents       *)
(* overlap, once they are done a queued task is in a queue, where an agent *)
(* that polls finds it: while it is in none, a request that is under way   *)
(* will push it or give it another status.                                 *)
THEOREM QueuedTasksWait == ASSUME KeepsQueued PROVE Spec => []QueuedIsInQueue
<1>1. Init => QInv
  BY IdlePends DEF Init, QInv
<1>2. IInv /\ Served /\ QInv /\ [Next]_vars => QInv'
  BY StepSettles
<1>3. QInv => QueuedIsInQueue
  BY IdlePends DEF QInv, QueuedIsInQueue, AllIdle, Waits
<1> QED
  BY <1>1, <1>2, <1>3, Invariant, ServedInvariant, PTL DEF Spec
(***************************************************************************)
(* That a queued task waits in the queue its execution.queue names, when   *)
(* requests are served one after the other.  Not of a reset that may be    *)
(* refused after the queues were swept, nor of the requests whose options  *)
(* put a task in a queue, or take it out of one, and leave its document as *)
(* it was.                                                                 *)
(***************************************************************************)
OneAtATime ==
  /\ \A c, d \in Calls : c = d
  /\ Faults = {}
  /\ "queued" \notin EnqueueFrom \cup Reports \cup NewStatuses
  /\ \A c \in Calls :
       /\ "add_task" \notin Serves[c] /\ "get_next_task" \notin Serves[c]
       /\ "reset" \in Serves[c] => FALSE \notin Forces
       /\ FALSE \in Options =>
            \A op \in {"enqueue", "move_task", "remove_task"} : op \notin Serves[c]

DequeueOps == {"dequeue", "stop", "reset", "delete", "trash", "archive"}
ReleaseOps == {"remove_task", "clear_queue", "delete_queue"}

(* The task is in the queue its execution.queue names.                     *)
Kept(t) == exec_queue[t] # None /\ InQueue(t, exec_queue[t])

(* A request that takes the task out of its queue, before its status is    *)
(* changed.                                                                *)
TakesOut(r) ==
  \/ r.op \in DequeueOps /\ r.pc \in {"find", "pull", "pulled", "missed", "sweep", "change"}
  \/ r.op = "reset" /\ r.pc = "cleanup"

(* Where a move took the task from.                                        *)
Home(r) == IF r.pc = "pulled" \/ r.source = None THEN r.queue ELSE r.source

(* What a request was asked for, and which of its steps it may be at.      *)
AskedOK(r) ==
  /\ r.op \notin {"add_task", "get_next_task"}
  /\ r.tgt = "queued" => r.op = "enqueue"
  /\ r.op = "enqueue" => r.st # "queued" /\ r.es # "queued"
  /\ r.op \in {"enqueue", "move_task", "remove_task", "reset"} => r.opt

StepsOK(r) ==
  /\ r.pc \in {"check", "push", "pushed", "set_queue"} => r.op \in {"enqueue", "move_task"}
  /\ r.pc = "undo" => r.op = "enqueue"
  /\ r.pc = "sweep" => r.op \in DequeueOps \cup {"enqueue"}
  /\ r.pc = "cleanup" => r.op \in {"reset", "delete", "trash"}
  /\ r.pc \in {"popped", "recheck", "requeue", "start"} => r.op = "agent"
  /\ r.pc \in {"empty", "drop"} => r.op \in {"clear_queue", "delete_queue"}
  /\ r.op = "agent" /\ r.pc = "change" => r.tgt = "in_progress"
  /\ r.op = "move_task" /\ r.pc \in {"find", "pull", "pulled", "missed"} => r.source # None

(* When nothing overlaps a request: the queues it reads again are there,   *)
(* and what it pushed is in them.                                          *)
QueuesOK(r) ==
  /\ r.pc \in {"pull", "pulled", "missed"} => Live(r.queue)
  /\ r.pc = "push" => MayPush(r.queue, r.task)
  /\ r.pc \in {"pushed", "set_queue"} => Live(r.queue) /\ InQueue(r.task, r.queue)
  /\ r.op = "move_task" /\ r.pc \in {"pulled", "check", "push"} => Live(Home(r))

(* And the tasks it takes out of queues are as it read them.               *)
TasksOK(r) ==
  /\ TakesOut(r) /\ status[r.task] = "queued" => r.st = "queued"
  /\ r.op = "enqueue" /\ r.pc = "sweep" =>
       /\ r.queue \notin r.todo
       /\ status[r.task] = "queued" => exec_queue[r.task] = r.queue
  /\ r.op = "publish" /\ r.es = "queued" => Kept(r.task)
  /\ r.pc = "release" /\ status[r.task] = "queued" => r.st = "queued"
  /\ r.op \in {"clear_queue", "delete_queue"} =>
       \A t \in Tasks : status[t] = "queued" /\ exec_queue[t] = r.queue =>
         r.pc \in {"inspect", "release"} /\ t \in r.left

(* The request will yet put the task in its queue, or change its status.   *)
InHand(r, t) ==
  \/ /\ r.task = t
     /\ \/ TakesOut(r)
        \/ r.op = "enqueue" /\ r.pc \in {"check", "push", "pushed", "undo", "set_queue"}
        \/ r.op = "agent" /\ r.pc \in {"popped", "recheck", "requeue", "start"}
        \/ r.op = "agent" /\ r.pc = "change" /\ r.st = "queued"
        \/ /\ r.op = "move_task"
           /\ \/ r.pc \in {"pulled", "check", "push"} /\ exec_queue[t] = Home(r)
              \/ r.pc = "pushed" /\ r.source # None
              \/ r.pc = "set_queue"
  \/ /\ r.op \in ReleaseOps /\ r.pc \in {"inspect", "release"}
     /\ exec_queue[t] = r.queue /\ t \in r.left

Alone(r) == AskedOK(r) /\ StepsOK(r) /\ QueuesOK(r) /\ TasksOK(r)

AInv ==
  /\ \A t \in Tasks : enqueue_status[t] # "queued"
  /\ \A c \in Calls : Alone(call[c])
  /\ \A t \in Tasks : status[t] = "queued" => Kept(t) \/ \E c \in Calls : InHand(call[c], t)

(* What AInv says of the one request there is.                             *)
LEMMA AloneNow ==
  ASSUME OneAtATime, AInv, NEW c \in Calls
  PROVE  /\ AskedOK(call[c]) /\ StepsOK(call[c]) /\ QueuesOK(call[c]) /\ TasksOK(call[c])
         /\ \A t \in Tasks : status[t] = "queued" => Kept(t) \/ InHand(call[c], t)
<1>1. \A d \in Calls : d = c
  BY DEF OneAtATime
<1> QED
  BY <1>1 DEF AInv, Alone

(* What a step of it has to show.                                          *)
LEMMA AloneStep ==
  ASSUME OneAtATime, IInv, NEW c \in Calls, NEW n, Goto(c, n),
         AskedOK(n), StepsOK(n), QueuesOK(n)', TasksOK(n)',
         \A t \in Tasks : enqueue_status'[t] # "queued",
         \A t \in Tasks : status'[t] = "queued" => Kept(t)' \/ InHand(n, t)'
  PROVE  AInv'
<1>1. call'[c] = n /\ \A d \in Calls : d = c
  BY DEF Goto, IInv, TypeOK, OneAtATime
<1>2. \A d \in Calls : Alone(call[d])'
  BY <1>1 DEF Alone
<1>3. \A t \in Tasks : status'[t] = "queued" => Kept(t)' \/ InHand(call[c], t)'
  BY <1>1
<1> QED
  BY <1>2, <1>3 DEF AInv

LEMMA IdleAlone ==
  /\ AskedOK(Idle) /\ StepsOK(Idle) /\ QueuesOK(Idle) /\ TasksOK(Idle)
  /\ \A t : ~InHand(Idle, t)
  BY IdleFields, NoneIsNothing, StatusNames
  DEF AskedOK, StepsOK, QueuesOK, TasksOK, TakesOut, InHand, DequeueOps, ReleaseOps

(* A request that has ended leaves every queued task in its queue.         *)
LEMMA AloneEnds ==
  ASSUME OneAtATime, IInv, NEW c \in Calls, Goto(c, Idle),
         \A t \in Tasks : enqueue_status'[t] # "queued",
         \A t \in Tasks : status'[t] = "queued" => Kept(t)'
  PROVE  AInv'
<1> PICK n : n = Idle
  OBVIOUS
<1>1. AskedOK(n) /\ StepsOK(n)
  BY IdleAlone
<1>2. QueuesOK(n)' /\ TasksOK(n)'
  BY IdleFields DEF QueuesOK, TasksOK, TakesOut, DequeueOps
<1> QED
  BY <1>1, <1>2, AloneStep

(* A step that leaves the documents alone.                                 *)
LEMMA AloneLocal ==
  ASSUME OneAtATime, IInv, AInv, NEW c \in Calls, NEW n, Goto(c, n), UNCHANGED <<docs, queues>>,
         AskedOK(n), StepsOK(n), QueuesOK(n), TasksOK(n),
         \A t \in Tasks : status[t] = "queued" => Kept(t) \/ InHand(n, t)
  PROVE  AInv'
<1>1. UNCHANGED <<status, enqueue_status, exec_queue, queue_state, entries>>
  BY DEF docs, queues
<1>2. QueuesOK(n)' /\ TasksOK(n)'
  BY <1>1 DEF QueuesOK, TasksOK, Kept, Live, InQueue, MayPush
<1>3. \A t \in Tasks : status'[t] = "queued" => Kept(t)' \/ InHand(n, t)'
  BY <1>1 DEF Kept, InQueue, InHand
<1>4. \A t \in Tasks : enqueue_status'[t] # "queued"
  BY <1>1 DEF AInv
<1> QED
  BY <1>2, <1>3, <1>4, AloneStep

(* One that begins has every queued task in its queue.                     *)
LEMMA AloneBegins ==
  ASSUME OneAtATime, IInv, AInv, NEW c \in Calls, call[c] = Idle, NEW n, Goto(c, n),
         UNCHANGED <<docs, queues>>, AskedOK(n), StepsOK(n), QueuesOK(n), TasksOK(n)
  PROVE  AInv'
<1>1. \A t \in Tasks : status[t] = "queued" => Kept(t)
  BY AloneNow, IdleAlone
<1> QED
  BY <1>1, AloneLocal

(* The fields a request keeps from one step to the next.                   *)
Same(n, r) ==
  /\ n.op = r.op /\ n.task = r.task /\ n.queue = r.queue /\ n.source = r.source
  /\ n.st = r.st /\ n.tgt = r.tgt /\ n.es = r.es /\ n.opt = r.opt

LEMMA AtSame ==
  ASSUME NEW r \in Requests
  PROVE  \A pc : Same(At(r, pc), r) /\ At(r, pc).pc = pc
                 /\ At(r, pc).todo = r.todo /\ At(r, pc).left = r.left
  BY DEF Requests, At, Same

LEMMA SweepingSame ==
  ASSUME NEW r \in Requests
  PROVE  \A qs : Same(Sweeping(r, qs), r) /\ Sweeping(r, qs).pc = "sweep"
                 /\ Sweeping(r, qs).todo = qs
  BY DEF Requests, Sweeping, Same

LEMMA SameAsked ==
  ASSUME NEW r, NEW n, Same(n, r), AskedOK(r)
  PROVE  AskedOK(n)
  BY DEF Same, AskedOK

(* Where a request that takes the task out of its queue goes next.         *)
TakenOut(n, r) ==
  \/ n = Idle /\ r.st # "queued"
  \/ Same(n, r) /\ n.pc \in {"change", "sweep"}
  \/ Same(n, r) /\ n.pc = "cleanup" /\ r.op = "reset"
  \/ Same(n, r) /\ n.pc = "cleanup" /\ r.op \in {"delete", "trash"} /\ r.st # "queued"
  \/ Same(n, r) /\ n.pc = "tag" /\ r.st # "queued"

LEMMA NextTakenOut ==
  ASSUME NEW r \in Requests, r.op \in DequeueOps
  PROVE  TakenOut(AfterDequeue(r), r) /\ TakenOut(SweepDone(r), r)
<1>1. /\ Same(At(r, "change"), r) /\ At(r, "change").pc = "change"
      /\ Same(At(r, "tag"), r) /\ At(r, "tag").pc = "tag"
      /\ Same(At(r, "cleanup"), r) /\ At(r, "cleanup").pc = "cleanup"
  BY AtSame
<1>2. Same(Sweeping(r, Queues), r) /\ Sweeping(r, Queues).pc = "sweep"
  BY SweepingSame
<1>3. r.st # "queued" => TakenOut(ChangeDone(r), r)
  BY <1>1 DEF ChangeDone, TakenOut
<1>4. TakenOut(ChangeIfActive(r), r)
  BY <1>1, <1>3 DEF ChangeIfActive, TakenOut
<1>5. TakenOut(AfterDequeue(r), r)
  BY <1>1, <1>2, <1>4 DEF AfterDequeue, TakenOut
<1>6. TakenOut(SweepDone(r), r)
  BY <1>1, <1>4 DEF SweepDone, TakenOut, DequeueOps
<1> QED
  BY <1>5, <1>6

LEMMA TakesOutAlone ==
  ASSUME OneAtATime, IInv, AInv, NEW c \in Calls, NEW r, NEW n, Goto(c, n),
         UNCHANGED <<docs, queues>>, r.op \in DequeueOps, AskedOK(r), TakenOut(n, r),
         status[r.task] = "queued" => r.st = "queued",
         \A t \in Tasks : status[t] = "queued" => Kept(t) \/ t = r.task
  PROVE  AInv'
<1>1. CASE n = Idle
  <2>1. \A t \in Tasks : status[t] = "queued" => Kept(t)
    BY <1>1, IdleFields DEF TakenOut, Same, DequeueOps
  <2> QED
    BY <1>1, <2>1, IdleAlone, AloneLocal
<1>2. CASE Same(n, r) /\ n.pc \in {"change", "sweep", "cleanup", "tag"}
  <2>1. n.pc = "cleanup" => r.op \in {"reset", "delete", "trash"}
    BY <1>2, IdleFields DEF TakenOut
  <2>2. AskedOK(n)
    BY <1>2, SameAsked
  <2>3. StepsOK(n) /\ QueuesOK(n)
    BY <1>2, <2>1 DEF Same, StepsOK, QueuesOK, DequeueOps
  <2>4. TasksOK(n)
    BY <1>2 DEF Same, TasksOK, DequeueOps
  <2>5. status[r.task] = "queued" => TakesOut(n)
    BY <1>2, IdleFields DEF Same, TakesOut, TakenOut, DequeueOps
  <2>6. \A t \in Tasks : status[t] = "queued" => Kept(t) \/ InHand(n, t)
    BY <1>2, <2>5 DEF Same, InHand
  <2> QED
    BY <2>2, <2>3, <2>4, <2>6, AloneLocal
<1> QED
  BY <1>1, <1>2 DEF TakenOut

LEMMA BeginDequeueAlone ==
  ASSUME OneAtATime, IInv, AInv, NEW c \in Calls, call[c] = Idle, NEW op \in DequeueOps,
         NEW t \in Tasks, Exists(t), NEW tgt \in Statuses, tgt # "queued", NEW opt \in BOOLEAN,
         op = "reset" => opt, BeginDequeue(c, Dequeuing(op, t, tgt, opt))
  PROVE  AInv'
<1> PICK r : r = Dequeuing(op, t, tgt, opt)
  OBVIOUS
<1>1. r \in Requests
  BY DequeuingRequest DEF DequeueOps
<1>2. /\ r.op = op /\ r.task = t /\ r.st = status[t] /\ r.tgt = tgt /\ r.opt = opt
  BY IdleOK DEF Dequeuing, Requests
<1>3. AskedOK(r)
  BY <1>2 DEF AskedOK, DequeueOps
<1>4. \A u \in Tasks : status[u] = "queued" => Kept(u)
  BY AloneNow, IdleAlone
<1>5. /\ Goto(c, IF IsEnqueued(r.task) THEN At(r, "find") ELSE AfterDequeue(r))
      /\ UNCHANGED <<docs, queues>>
  BY DEF BeginDequeue
<1>6. CASE IsEnqueued(r.task)
  <2> PICK n : n = At(r, "find")
    OBVIOUS
  <2>1. Goto(c, n) /\ Same(n, r) /\ n.pc = "find"
    BY <1>1, <1>5, <1>6, AtSame
  <2>2. AskedOK(n)
    BY <1>3, <2>1, SameAsked
  <2>3. StepsOK(n) /\ QueuesOK(n) /\ TasksOK(n)
    BY <1>2, <2>1 DEF Same, StepsOK, QueuesOK, TasksOK, DequeueOps
  <2> QED
    BY <1>5, <2>1, <2>2, <2>3, AloneBegins
<1>7. CASE ~IsEnqueued(r.task)
  <2> PICK n : n = AfterDequeue(r)
    OBVIOUS
  <2>1. Goto(c, n) /\ TakenOut(n, r)
    BY <1>1, <1>2, <1>5, <1>7, NextTakenOut
  <2> QED
    BY <1>2, <1>3, <1>4, <1>5, <2>1, TakesOutAlone
<1> QED
  BY <1>6, <1>7

(* A step that changes nothing the invariant is about.                     *)
LEMMA AloneFrame ==
  ASSUME AInv, UNCHANGED <<status, enqueue_status, exec_queue, queues, call>>
  PROVE  AInv'
<1>1. UNCHANGED <<queue_state, entries>>
  BY DEF queues
<1>2. \A c \in Calls : Alone(call[c])'
  BY <1>1 DEF AInv, Alone, QueuesOK, TasksOK, Kept, Live, InQueue, MayPush
<1>3. \A t \in Tasks : status'[t] = "queued" => Kept(t)' \/ \E c \in Calls : InHand(call[c], t)'
  BY <1>1 DEF AInv, Kept, InQueue, InHand
<1> QED
  BY <1>2, <1>3 DEF AInv

LEMMA BeginAlone ==
  ASSUME OneAtATime, IInv, AInv, NEW c \in Calls, Begin(c)
  PROVE  AInv'
<1>1. \A t \in Tasks : PriorStatus(t) \in Statuses /\ PriorStatus(t) # "queued"
  BY TaskOK DEF AInv, PriorStatus
<1>2. ASSUME NEW t \in Tasks, NEW q \in Queues, NEW force \in Forces, NEW upd \in Options,
             Enqueue(c, t, q, force, upd)
      PROVE  AInv'
  <2> PICK n : n = [Idle EXCEPT !.op = "enqueue", !.pc = "change", !.task = t,
                      !.queue = q, !.st = status[t], !.tgt = "queued",
                      !.es = BeforeEnqueueStatus(t), !.opt = upd]
    OBVIOUS
  <2>1. /\ n.op = "enqueue" /\ n.pc = "change" /\ n.st = status[t]
        /\ n.es = BeforeEnqueueStatus(t) /\ n.opt = upd
    BY IdleOK DEF Requests
  <2>2. /\ call[c] = Idle /\ Goto(c, n) /\ UNCHANGED <<docs, queues>>
        /\ status[t] # "queued" /\ "enqueue" \in Serves[c]
    BY <1>2 DEF Enqueue, Accepts, OneAtATime
  <2>3. upd
    BY <2>2, ConstantsAssumption DEF OneAtATime
  <2>4. AskedOK(n)
    BY <2>1, <2>2, <2>3 DEF AskedOK, BeforeEnqueueStatus
  <2>5. StepsOK(n) /\ QueuesOK(n) /\ TasksOK(n)
    BY <2>1 DEF StepsOK, QueuesOK, TasksOK, TakesOut, DequeueOps
  <2> QED
    BY <2>2, <2>4, <2>5, AloneBegins
<1>3. ASSUME NEW t \in Tasks, NEW q \in Queues, NEW upd \in Options, RemoveTask(c, t, q, upd)
      PROVE  AInv'
  <2> PICK n : n = [Idle EXCEPT !.op = "remove_task", !.pc = "find", !.task = t,
                      !.queue = q, !.opt = upd]
    OBVIOUS
  <2>1. n.op = "remove_task" /\ n.pc = "find" /\ n.opt = upd /\ n.tgt = None
    BY IdleOK, IdleFields DEF Requests
  <2>2. /\ call[c] = Idle /\ Goto(c, n) /\ UNCHANGED <<docs, queues>>
        /\ "remove_task" \in Serves[c]
    BY <1>3 DEF RemoveTask, Accepts
  <2>3. upd
    BY <2>2, ConstantsAssumption DEF OneAtATime
  <2>4. AskedOK(n)
    BY <2>1, <2>3, NoneIsNothing, StatusNames DEF AskedOK
  <2>5. StepsOK(n) /\ QueuesOK(n) /\ TasksOK(n)
    BY <2>1 DEF StepsOK, QueuesOK, TasksOK, TakesOut, DequeueOps
  <2> QED
    BY <2>2, <2>4, <2>5, AloneBegins
<1>4. ASSUME NEW t \in Tasks, NEW q \in Queues, NEW p \in Queues, NEW upd \in Options,
             MoveTask(c, t, q, p, upd)
      PROVE  AInv'
  <2> PICK n : n = [Idle EXCEPT !.op = "move_task", !.pc = "find", !.task = t,
                      !.queue = q, !.source = p, !.opt = upd]
    OBVIOUS
  <2>1. n.op = "move_task" /\ n.pc = "find" /\ n.opt = upd /\ n.source = p /\ n.tgt = None
    BY IdleOK, IdleFields DEF Requests
  <2>2. /\ call[c] = Idle /\ Goto(c, n) /\ UNCHANGED <<docs, queues>>
        /\ "move_task" \in Serves[c]
    BY <1>4 DEF MoveTask, Accepts
  <2>3. upd
    BY <2>2, ConstantsAssumption DEF OneAtATime
  <2>4. AskedOK(n)
    BY <2>1, <2>3, NoneIsNothing, StatusNames DEF AskedOK
  <2>5. StepsOK(n) /\ QueuesOK(n) /\ TasksOK(n)
    BY <2>1, NoneIsNothing DEF StepsOK, QueuesOK, TasksOK, TakesOut, DequeueOps
  <2> QED
    BY <2>2, <2>4, <2>5, AloneBegins
<1>5. ASSUME NEW t \in Tasks, NEW q \in Queues, NEW by, Reposition(c, t, q, by)
      PROVE  AInv'
  <2> PICK n : n = [Idle EXCEPT !.op = "reposition", !.pc = "reposition", !.task = t,
                      !.queue = q, !.by = by]
    OBVIOUS
  <2>1. n.op = "reposition" /\ n.pc = "reposition" /\ n.tgt = None
    BY IdleOK, IdleFields DEF Requests
  <2>2. call[c] = Idle /\ Goto(c, n) /\ UNCHANGED <<docs, queues>>
    BY <1>5 DEF Reposition, Accepts
  <2>3. AskedOK(n)
    BY <2>1, NoneIsNothing, StatusNames DEF AskedOK
  <2>4. StepsOK(n) /\ QueuesOK(n) /\ TasksOK(n)
    BY <2>1 DEF StepsOK, QueuesOK, TasksOK, TakesOut, DequeueOps
  <2> QED
    BY <2>2, <2>3, <2>4, AloneBegins
<1>6. ASSUME NEW t \in Tasks, NEW s \in NewStatuses \cup {None}, NEW all \in Options,
             Dequeue(c, t, s, all)
      PROVE  AInv'
  <2> PICK tgt : tgt = IF s # None THEN s ELSE PriorStatus(t)
    OBVIOUS
  <2>1. tgt \in Statuses /\ tgt # "queued"
    BY <1>1, ConstantsAssumption DEF OneAtATime
  <2>2. /\ call[c] = Idle /\ Exists(t) /\ all \in BOOLEAN
        /\ BeginDequeue(c, Dequeuing("dequeue", t, tgt, all))
    BY <1>6, ConstantsAssumption DEF Dequeue, Accepts
  <2>3. "dequeue" \in DequeueOps
    BY DEF DequeueOps
  <2> QED
    BY <2>1, <2>2, <2>3, BeginDequeueAlone
<1>7. ASSUME NEW t \in Tasks, DequeueDeleted(c, t)
      PROVE  AInv'
  <2> PICK n : n = Sweeping([Idle EXCEPT !.op = "dequeue", !.task = t], Queues)
    OBVIOUS
  <2>1. n.op = "dequeue" /\ n.pc = "sweep" /\ n.task = t /\ n.tgt = None
    BY IdleOK, IdleFields DEF Sweeping, Requests
  <2>2. /\ call[c] = Idle /\ Goto(c, n) /\ UNCHANGED <<docs, queues>>
        /\ status[t] # "queued"
    BY <1>7 DEF DequeueDeleted, Accepts, Exists, Absent
  <2>3. AskedOK(n)
    BY <2>1, NoneIsNothing, StatusNames DEF AskedOK
  <2>4. StepsOK(n) /\ QueuesOK(n) /\ TasksOK(n)
    BY <2>1, <2>2 DEF StepsOK, QueuesOK, TasksOK, DequeueOps
  <2> QED
    BY <2>2, <2>3, <2>4, AloneBegins
<1>8. ASSUME NEW t \in Tasks, NEW force \in Forces,
             Stop(c, t, force) \/ Reset(c, t, force)
             \/ \E op \in {"delete", "trash"} : Delete(c, t, force, op)
      PROVE  AInv'
  <2>1. call[c] = Idle /\ Exists(t) /\ force \in BOOLEAN /\ FALSE \in BOOLEAN
    BY <1>8, ConstantsAssumption DEF Stop, Reset, Delete, Accepts
  <2>2. CASE Stop(c, t, force)
    <3>1. "stop" \in DequeueOps /\ "stopped" \in Statuses
      BY StatusNames DEF DequeueOps
    <3>2. BeginDequeue(c, Dequeuing("stop", t, "stopped", FALSE))
      BY <2>2 DEF Stop
    <3> QED
      BY <2>1, <3>1, <3>2, BeginDequeueAlone
  <2>3. CASE Reset(c, t, force)
    <3>1. "reset" \in DequeueOps /\ "created" \in Statuses
      BY StatusNames DEF DequeueOps
    <3>2. /\ BeginDequeue(c, Dequeuing("reset", t, "created", force))
          /\ "reset" \in Serves[c]
      BY <2>3 DEF Reset, Accepts
    <3>3. force
      BY <2>1, <3>2 DEF OneAtATime
    <3> QED
      BY <2>1, <3>1, <3>2, <3>3, BeginDequeueAlone
  <2>4. ASSUME NEW op \in {"delete", "trash"}, Delete(c, t, force, op)
        PROVE  AInv'
    <3>1. op \in DequeueOps /\ op # "reset"
      BY DEF DequeueOps
    <3>2. BeginDequeue(c, Dequeuing(op, t, PriorStatus(t), force))
      BY <2>4 DEF Delete
    <3> QED
      BY <1>1, <2>1, <3>1, <3>2, BeginDequeueAlone
  <2> QED
    BY <1>8, <2>2, <2>3, <2>4
<1>9. ASSUME NEW t \in Tasks, Archive(c, t)
      PROVE  AInv'
  <2> PICK tgt : tgt = IF status[t] = "in_progress" THEN "stopped" ELSE PriorStatus(t)
    OBVIOUS
  <2>1. tgt \in Statuses /\ tgt # "queued" /\ FALSE \in BOOLEAN
    BY <1>1, StatusNames
  <2>2. call[c] = Idle /\ Exists(t) /\ BeginDequeue(c, Dequeuing("archive", t, tgt, FALSE))
    BY <1>9 DEF Archive, Accepts
  <2>3. "archive" \in DequeueOps
    BY DEF DequeueOps
  <2> QED
    BY <2>1, <2>2, <2>3, BeginDequeueAlone
<1>10. ASSUME NEW t \in Tasks, NEW s \in Reports, NEW force, Report(c, t, s, force)
       PROVE  AInv'
  <2> PICK n : n = [Idle EXCEPT !.op = "report", !.pc = "change", !.task = t,
                      !.st = status[t], !.tgt = s]
    OBVIOUS
  <2>1. n.op = "report" /\ n.pc = "change" /\ n.tgt = s
    BY IdleOK DEF Requests
  <2>2. call[c] = Idle /\ Goto(c, n) /\ UNCHANGED <<docs, queues>> /\ s # "queued"
    BY <1>10 DEF Report, Accepts, OneAtATime
  <2>3. AskedOK(n)
    BY <2>1, <2>2 DEF AskedOK
  <2>4. StepsOK(n) /\ QueuesOK(n) /\ TasksOK(n)
    BY <2>1 DEF StepsOK, QueuesOK, TasksOK, TakesOut, DequeueOps
  <2> QED
    BY <2>2, <2>3, <2>4, AloneBegins
<1>11. ASSUME NEW t \in Tasks, NEW force, Publish(c, t, force)
       PROVE  AInv'
  <2> PICK n : n = [Idle EXCEPT !.op = "publish", !.pc = "set_publishing", !.task = t,
                      !.st = "publishing", !.tgt = "published", !.es = PreviousStatus(t)]
    OBVIOUS
  <2>1. /\ n.op = "publish" /\ n.pc = "set_publishing" /\ n.tgt = "published"
        /\ n.task = t /\ n.es = status[t]
    BY IdleOK DEF Requests, PreviousStatus
  <2>2. call[c] = Idle /\ Goto(c, n) /\ UNCHANGED <<docs, queues>>
    BY <1>11 DEF Publish, Accepts
  <2>3. status[t] = "queued" => Kept(t)
    BY <2>2, AloneNow, IdleAlone
  <2>4. AskedOK(n)
    BY <2>1 DEF AskedOK
  <2>5. StepsOK(n) /\ QueuesOK(n) /\ TasksOK(n)
    BY <2>1, <2>3 DEF StepsOK, QueuesOK, TasksOK, TakesOut, DequeueOps
  <2> QED
    BY <2>2, <2>4, <2>5, AloneBegins
<1>12. ASSUME NEW t \in Tasks, Unarchive(c, t)
       PROVE  AInv'
  BY <1>12, AloneFrame DEF Unarchive
<1>13. ASSUME NEW q \in Queues, GetNextTask(c, q, "agent")
       PROVE  AInv'
  <2> PICK s : s = entries[q]
    OBVIOUS
  <2> PICK e : e = s[NextUp(s)]
    OBVIOUS
  <2> PICK n : n = [Idle EXCEPT !.op = "agent", !.pc = "popped", !.task = e.task, !.ent = e]
    OBVIOUS
  <2>1. n.op = "agent" /\ n.pc = "popped" /\ n.task = e.task /\ n.tgt = None
    BY IdleOK, IdleFields DEF Requests
  <2>2. /\ call[c] = Idle /\ Goto(c, n) /\ UNCHANGED <<docs, queue_state>> /\ s # <<>>
        /\ entries' = [entries EXCEPT ![q] = Popped(entries[q])]
    BY <1>13 DEF GetNextTask, Accepts
  <2>3. s \in Seq(Entries)
    BY QueueOK
  <2>4. \A t : Holds(s, t) /\ t # e.task => Holds(Popped(s), t)
    BY <2>2, <2>3, PopKeeps
  <2>5. \A p \in Queues : entries'[p] = IF p = q THEN Popped(s) ELSE entries[p]
    BY <2>2 DEF IInv, TypeOK
  <2>6. \A t, p : p \in Queues /\ t # e.task /\ InQueue(t, p) => InQueue(t, p)'
    BY <2>4, <2>5 DEF InQueue
  <2>7. UNCHANGED <<status, enqueue_status, exec_queue>>
    BY <2>2 DEF docs
  <2>8. \A t \in Tasks : status'[t] = "queued" => Kept(t)' \/ InHand(n, t)'
    <3>1. \A t \in Tasks : status[t] = "queued" => Kept(t)
      BY <2>2, AloneNow, IdleAlone
    <3>2. \A t \in Tasks : exec_queue[t] \in Queues \cup {None}
      BY TaskOK
    <3>3. \A t \in Tasks : t # e.task /\ Kept(t) => Kept(t)'
      BY <2>6, <2>7, <3>2 DEF Kept
    <3>4. InHand(n, e.task)'
      BY <2>1 DEF InHand
    <3> QED
      BY <2>7, <3>1, <3>3, <3>4
  <2>9. AskedOK(n)
    BY <2>1, NoneIsNothing, StatusNames DEF AskedOK
  <2>10. StepsOK(n) /\ QueuesOK(n)' /\ TasksOK(n)'
    BY <2>1 DEF StepsOK, QueuesOK, TasksOK, TakesOut, DequeueOps
  <2>11. \A t \in Tasks : enqueue_status'[t] # "queued"
    BY <2>7 DEF AInv
  <2> QED
    BY <2>2, <2>8, <2>9, <2>10, <2>11, AloneStep
<1>14. ASSUME NEW q \in Queues, NEW force, ClearQueue(c, q) \/ DeleteQueue(c, q, force)
       PROVE  AInv'
  <2>1. call[c] = Idle /\ UNCHANGED <<docs, queues>>
    BY <1>14 DEF ClearQueue, DeleteQueue, Accepts
  <2>2. PICK n : /\ Goto(c, n) /\ n.op \in {"clear_queue", "delete_queue"}
                 /\ n.pc = "inspect" \/ (n.pc = "drop" /\ entries[q] = <<>>)
                 /\ n.queue = q /\ n.left = TasksIn(q) /\ n.tgt = None
    <3>1. CASE ClearQueue(c, q)
      <4> PICK n : n = [Idle EXCEPT !.op = "clear_queue", !.pc = "inspect", !.queue = q,
                          !.left = TasksIn(q)]
        OBVIOUS
      <4>1. Goto(c, n)
        BY <3>1 DEF ClearQueue
      <4>2. /\ n.op = "clear_queue" /\ n.pc = "inspect" /\ n.queue = q
            /\ n.left = TasksIn(q) /\ n.tgt = None
        BY IdleOK, IdleFields DEF Requests
      <4> QED
        BY <4>1, <4>2
    <3>2. CASE DeleteQueue(c, q, force)
      <4> PICK n : n = [Idle EXCEPT !.op = "delete_queue",
                          !.pc = IF entries[q] = <<>> THEN "drop" ELSE "inspect", !.queue = q,
                          !.left = TasksIn(q), !.opt = force]
        OBVIOUS
      <4>1. Goto(c, n)
        BY <3>2 DEF DeleteQueue
      <4>2. /\ n.op = "delete_queue" /\ n.queue = q
            /\ n.pc = IF entries[q] = <<>> THEN "drop" ELSE "inspect"
            /\ n.left = TasksIn(q) /\ n.tgt = None
        BY IdleOK, IdleFields DEF Requests
      <4> QED
        BY <4>1, <4>2
    <3> QED
      BY <1>14, <3>1, <3>2
  <2>3. \A t \in Tasks : status[t] = "queued" /\ exec_queue[t] = q =>
          entries[q] # <<>> /\ t \in TasksIn(q)
    <3>1. \A t \in Tasks : status[t] = "queued" /\ exec_queue[t] = q => Holds(entries[q], t)
      BY <2>1, AloneNow, IdleAlone DEF Kept, InQueue
    <3>2. entries[q] = <<>> => DOMAIN entries[q] = {}
      BY EmptySeq
    <3> QED
      BY <3>1, <3>2 DEF Holds, Positions, TasksIn
  <2>4. AskedOK(n)
    BY <2>2, NoneIsNothing, StatusNames DEF AskedOK
  <2>5. StepsOK(n) /\ QueuesOK(n)
    BY <2>2 DEF StepsOK, QueuesOK, DequeueOps
  <2>6. TasksOK(n)
    BY <2>2, <2>3 DEF TasksOK, TakesOut, DequeueOps
  <2> QED
    BY <2>1, <2>2, <2>4, <2>5, <2>6, AloneBegins
<1>15. ASSUME NEW t \in Tasks, NEW q \in Queues, NEW upd
       PROVE  ~AddTask(c, t, q, upd) /\ ~GetNextTask(c, q, "get_next_task")
  BY DEF AddTask, GetNextTask, Accepts, OneAtATime
<1>16. \A q \in Queues : ~GetNextTask(c, q, "get_next_task")
  BY DEF GetNextTask, Accepts, OneAtATime
<1> QED
  BY <1>2, <1>3, <1>4, <1>5, <1>6, <1>7, <1>8, <1>9, <1>10, <1>11, <1>12, <1>13, <1>14, <1>15,
     <1>16 DEF Begin

(* The tasks that stay in their queue when a task is taken out of one.     *)
LEMMA OthersKept ==
  ASSUME IInv, UNCHANGED exec_queue, NEW u,
         \A t \in Tasks, q \in Queues : t # u /\ InQueue(t, q) => InQueue(t, q)'
  PROVE  \A t \in Tasks : t # u /\ Kept(t) => Kept(t)'
  BY TaskOK DEF Kept

LEMMA PullLeaves ==
  ASSUME IInv, NEW q \in Queues, NEW u,
         \/ entries' = entries
         \/ entries' = [entries EXCEPT ![q] = Pull(entries[q], u)]
  PROVE  \A t \in Tasks, p \in Queues : (t # u \/ p # q) /\ InQueue(t, p) => InQueue(t, p)'
<1>1. \A t : t # u /\ Holds(entries[q], t) => Holds(Pull(entries[q], u), t)
  BY QueueOK, PullKeeps
<1> QED
  BY <1>1 DEF InQueue, IInv, TypeOK

(* The release of the tasks left in a queue, one done.                     *)
LEMMA ReleasedAlone ==
  ASSUME OneAtATime, IInv, NEW c \in Calls, NEW m \in Requests, m.op \in ReleaseOps, AskedOK(m),
         Goto(c, ReleasedOne(m)),
         \A t \in Tasks : enqueue_status'[t] # "queued",
         \A t \in Tasks : status'[t] = "queued" =>
           /\ Kept(t)' \/ (exec_queue'[t] = m.queue /\ t \in m.left)
           /\ exec_queue'[t] = m.queue => t # m.task
           /\ m.op # "remove_task" /\ exec_queue'[t] = m.queue => t \in m.left
  PROVE  AInv'
<1> PICK rest : rest = m.left \ {m.task}
  OBVIOUS
<1> PICK next : next = [m EXCEPT !.left = rest, !.task = None, !.st = None, !.tgt = None]
  OBVIOUS
<1>1. /\ next \in Requests /\ next.op = m.op /\ next.queue = m.queue /\ next.left = rest
      /\ next.tgt = None /\ next.opt = m.opt /\ next.task = None
  BY DEF Requests
<1>2. \A t \in Tasks : status'[t] = "queued" => Kept(t)' \/ (exec_queue'[t] = m.queue /\ t \in rest)
  OBVIOUS
<1>3. m.op # "remove_task" =>
        \A t \in Tasks : status'[t] = "queued" /\ exec_queue'[t] = m.queue => t \in rest
  OBVIOUS
<1>4. ASSUME NEW pc \in {"inspect", "empty", "drop"},
             pc = "inspect" \/ (rest = {} /\ m.op \in {"clear_queue", "delete_queue"}),
             Goto(c, At(next, pc))
      PROVE  AInv'
  <2> PICK n : n = At(next, pc)
    OBVIOUS
  <2>1. /\ Goto(c, n) /\ n.op = m.op /\ n.queue = m.queue /\ n.left = rest /\ n.pc = pc
        /\ n.tgt = None /\ n.opt = m.opt
    <3>1. Same(n, next) /\ n.pc = pc /\ n.left = next.left
      BY <1>1, AtSame
    <3> QED
      BY <1>1, <1>4, <3>1 DEF Same
  <2>2. AskedOK(n)
    BY <2>1, NoneIsNothing, StatusNames DEF AskedOK, ReleaseOps
  <2>3. StepsOK(n) /\ QueuesOK(n)'
    BY <1>4, <2>1 DEF StepsOK, QueuesOK, ReleaseOps
  <2>4. TasksOK(n)'
    <3>1. n.op \in {"clear_queue", "delete_queue"} =>
            \A t \in Tasks : status'[t] = "queued" /\ exec_queue'[t] = n.queue =>
              n.pc = "inspect" /\ t \in n.left
      BY <1>3, <1>4, <2>1
    <3>2. /\ n.pc \in {"inspect", "empty", "drop"}
          /\ n.op \in {"remove_task", "clear_queue", "delete_queue"}
      BY <1>4, <2>1 DEF ReleaseOps
    <3> QED
      BY <3>1, <3>2 DEF TasksOK, TakesOut, DequeueOps
  <2>5. \A t \in Tasks : status'[t] = "queued" => Kept(t)' \/ InHand(n, t)'
    BY <1>2, <1>4, <2>1 DEF InHand
  <2> QED
    BY <2>1, <2>2, <2>3, <2>4, <2>5, AloneStep
<1>5. ASSUME rest = {}, Goto(c, Idle)
      PROVE  AInv'
  BY <1>2, <1>5, AloneEnds
<1>6. ReleasedOne(m) = CASE rest # {} -> At(next, "inspect")
                         [] rest = {} /\ m.op = "clear_queue" -> At(next, "empty")
                         [] rest = {} /\ m.op = "delete_queue" -> At(next, "drop")
                         [] OTHER -> Idle
  BY DEF ReleasedOne
<1>7. CASE rest # {}
  BY <1>4, <1>6, <1>7
<1>8. CASE rest = {} /\ m.op = "clear_queue"
  BY <1>4, <1>6, <1>8
<1>9. CASE rest = {} /\ m.op = "delete_queue"
  BY <1>4, <1>6, <1>9
<1>10. CASE rest = {} /\ m.op = "remove_task"
  BY <1>5, <1>6, <1>10
<1> QED
  BY <1>7, <1>8, <1>9, <1>10 DEF ReleaseOps

LEMMA ChangeAlone ==
  ASSUME OneAtATime, IInv, AInv, NEW c \in Calls, Change(c)
  PROVE  AInv'
<1> PICK r : r = call[c]
  OBVIOUS
<1>1. r \in Requests /\ RequestOK(r) /\ AskedOK(r) /\ StepsOK(r) /\ TasksOK(r)
  BY CallOK, AloneNow
<1>2. r.pc = "change" /\ r.task \in Tasks /\ r.tgt \in Statuses /\ UNCHANGED <<archived, queues>>
  BY <1>1 DEF Change, RequestOK
<1>3. \A t \in Tasks : status[t] = "queued" => Kept(t) \/ InHand(r, t)
  BY AloneNow
<1>4. \A t \in Tasks, q \in Queues : InQueue(t, q)' <=> InQueue(t, q)
  BY <1>2 DEF queues, InQueue
<1>5. CASE StillAsRead(r) /\ r.op = "enqueue"
  <2> PICK n : n = At(r, "check")
    OBVIOUS
  <2>1. Goto(c, n) /\ Same(n, r) /\ n.pc = "check" /\ UNCHANGED exec_queue
    BY <1>1, <1>5, AtSame DEF Change
  <2>2. /\ status' = [status EXCEPT ![r.task] = r.tgt]
        /\ enqueue_status' = [enqueue_status EXCEPT ![r.task] = r.es]
    BY <1>5 DEF Change
  <2>3. AskedOK(n)
    BY <1>1, <2>1, SameAsked
  <2>4. StepsOK(n) /\ QueuesOK(n)' /\ TasksOK(n)'
    BY <1>5, <2>1 DEF Same, StepsOK, QueuesOK, TasksOK, TakesOut, DequeueOps
  <2>5. \A t \in Tasks : enqueue_status'[t] # "queued"
    BY <1>1, <1>2, <1>5, <2>2 DEF AInv, AskedOK, IInv, TypeOK
  <2>6. InHand(n, r.task)'
    BY <1>5, <2>1 DEF Same, InHand
  <2>7. \A t \in Tasks : t # r.task => status'[t] = status[t] /\ ~InHand(r, t)
    BY <1>2, <2>2 DEF InHand, IInv, TypeOK
  <2>8. \A t \in Tasks : Kept(t) => Kept(t)'
    BY <1>4, <2>1, OthersKept, TaskOK DEF Kept
  <2>9. \A t \in Tasks : status'[t] = "queued" => Kept(t)' \/ InHand(n, t)'
    BY <1>3, <2>6, <2>7, <2>8
  <2> QED
    BY <2>1, <2>3, <2>4, <2>5, <2>9, AloneStep
<1>6. CASE StillAsRead(r) /\ r.op # "enqueue"
  <2> PICK n : n = ChangeDone(r)
    OBVIOUS
  <2>1. /\ Goto(c, n)
        /\ status' = [status EXCEPT ![r.task] = r.tgt]
        /\ \/ enqueue_status' = enqueue_status
           \/ enqueue_status' = [enqueue_status EXCEPT ![r.task] = None]
        /\ exec_queue' = exec_queue \/ exec_queue' = [exec_queue EXCEPT ![r.task] = None]
    BY <1>6 DEF Change
  <2>2. \A t \in Tasks : enqueue_status'[t] # "queued"
    BY <2>1, NoneIsNothing, StatusNames DEF AInv, IInv, TypeOK
  <2>3. r.tgt # "queued"
    BY <1>1, <1>6 DEF AskedOK
  <2>4. \A t \in Tasks : status'[t] = "queued" =>
          t # r.task /\ status[t] = "queued" /\ exec_queue'[t] = exec_queue[t]
    BY <1>2, <2>1, <2>3 DEF IInv, TypeOK
  <2>5. \A t \in Tasks : status'[t] = "queued" => Kept(t)
    BY <1>2, <1>3, <2>4 DEF InHand
  <2>6. \A t \in Tasks : status'[t] = "queued" => Kept(t)'
    BY <1>4, <2>4, <2>5, TaskOK DEF Kept
  <2>7. CASE n = Idle
    BY <2>1, <2>2, <2>6, <2>7, AloneEnds
  <2>8. CASE n # Idle
    <3>1. /\ Same(n, r) /\ n.pc \in {"tag", "cleanup"}
          /\ n.op \in {"archive", "delete", "trash"} /\ (n.pc = "cleanup" => n.op # "archive")
      BY <1>1, <2>8, AtSame DEF ChangeDone, Same
    <3>2. AskedOK(n)
      BY <1>1, <3>1, SameAsked
    <3>3. StepsOK(n) /\ QueuesOK(n)' /\ TasksOK(n)'
      BY <3>1 DEF StepsOK, QueuesOK, TasksOK, TakesOut, DequeueOps
    <3> QED
      BY <2>1, <2>2, <2>6, <3>2, <3>3, AloneStep
  <2> QED
    BY <2>7, <2>8
<1>7. CASE ~StillAsRead(r)
  <2> PICK n : n = ChangeFailed(r)
    OBVIOUS
  <2>1. Goto(c, n) /\ UNCHANGED <<docs, queues>>
    BY <1>2, <1>7 DEF Change, docs
  <2>2. \A t \in Tasks : status[t] = "queued" => ~InHand(r, t)
    BY <1>1, <1>2, <1>7 DEF InHand, TasksOK, StillAsRead, TakesOut
  <2>3. \A t \in Tasks : status[t] = "queued" => Kept(t)
    BY <1>3, <2>2
  <2>4. CASE n = Idle
    BY <2>1, <2>3, <2>4, IdleAlone, AloneLocal
  <2>5. CASE n # Idle
    <3>1. /\ Same(n, r) /\ n.pc \in {"tag", "cleanup", "restore"}
          /\ n.op \in {"archive", "delete", "trash", "publish"}
          /\ (n.pc = "cleanup" => n.op \in {"delete", "trash"})
      BY <1>1, <2>5, AtSame DEF ChangeDone, ChangeFailed, Same
    <3>2. AskedOK(n)
      BY <1>1, <3>1, SameAsked
    <3>3. StepsOK(n) /\ QueuesOK(n)
      BY <3>1 DEF StepsOK, QueuesOK
    <3>4. TasksOK(n)
      BY <1>1, <3>1 DEF Same, TasksOK, TakesOut, DequeueOps
    <3> QED
      BY <2>1, <2>3, <3>2, <3>3, <3>4, AloneLocal
  <2> QED
    BY <2>4, <2>5
<1> QED
  BY <1>5, <1>6, <1>7

LEMMA KeptFrame ==
  ASSUME UNCHANGED <<exec_queue, entries>>
  PROVE  \A t \in Tasks : Kept(t)' <=> Kept(t)
  BY DEF Kept, InQueue

(* QueueBLL.add_task: nothing else having touched the queue, what it pushes *)
(* goes in, and the task it is to put back is in its queue in the end.     *)
LEMMA AddingAlone ==
  ASSUME OneAtATime, IInv, AInv, NEW c \in Calls, CheckQueue(c) \/ PushEntry(c) \/ LogPushed(c)
  PROVE  AInv'
<1> PICK r : r = call[c]
  OBVIOUS
<1>1. /\ r \in Requests /\ RequestOK(r) /\ AskedOK(r) /\ StepsOK(r) /\ QueuesOK(r)
      /\ \A t \in Tasks : status[t] = "queued" => Kept(t) \/ InHand(r, t)
  BY CallOK, AloneNow
<1>2. /\ r.pc \in {"check", "push", "pushed"} /\ r.op \in {"enqueue", "move_task"}
      /\ r.task \in Tasks /\ r.queue \in Queues
  BY <1>1 DEF CheckQueue, PushEntry, LogPushed, StepsOK, RequestOK
<1>3. \A t \in Tasks : InHand(r, t) =>
        /\ t = r.task
        /\ \/ r.op = "enqueue"
           \/ r.pc \in {"check", "push"} /\ exec_queue[t] = Home(r)
           \/ r.pc = "pushed" /\ r.source # None
  BY <1>2 DEF InHand, TakesOut, DequeueOps, ReleaseOps
<1>4. \A n : n.op \in {"enqueue", "move_task"} /\ n.pc \in {"check", "push", "pushed", "set_queue",
               "undo"} /\ (n.pc = "undo" => n.op = "enqueue") => StepsOK(n) /\ TasksOK(n)
  BY DEF StepsOK, TasksOK, TakesOut, DequeueOps
<1>5. CASE CheckQueue(c) /\ Live(r.queue) /\ ~InQueue(r.task, r.queue)
  <2> PICK n : n = At(r, "push")
    OBVIOUS
  <2>1. /\ Goto(c, n) /\ UNCHANGED <<docs, queues>> /\ r.pc = "check"
        /\ Same(n, r) /\ n.pc = "push"
    BY <1>1, <1>5, AtSame DEF CheckQueue
  <2>2. AskedOK(n) /\ StepsOK(n) /\ TasksOK(n)
    BY <1>1, <1>2, <1>4, <2>1, SameAsked DEF Same
  <2>3. Home(n) = Home(r)
    BY <2>1 DEF Home, Same
  <2>4. QueuesOK(n)
    BY <1>1, <1>5, <2>1, <2>3 DEF QueuesOK, MayPush, Same
  <2>5. \A t \in Tasks : status[t] = "queued" => Kept(t) \/ InHand(n, t)
    BY <1>1, <1>2, <1>3, <2>1, <2>3 DEF InHand, Same
  <2> QED
    BY <2>1, <2>2, <2>4, <2>5, AloneLocal
<1>6. CASE CheckQueue(c) /\ ~(Live(r.queue) /\ ~InQueue(r.task, r.queue))
  <2> PICK n : n = AddFailed(r)
    OBVIOUS
  <2>1. Goto(c, n) /\ UNCHANGED <<docs, queues>> /\ r.pc = "check"
    BY <1>6 DEF CheckQueue
  <2>2. CASE r.op = "enqueue"
    <3>1. Same(n, r) /\ n.pc = "undo"
      BY <1>1, <2>2, AtSame DEF AddFailed
    <3>2. AskedOK(n) /\ StepsOK(n) /\ TasksOK(n)
      BY <1>1, <1>4, <2>2, <3>1, SameAsked DEF Same
    <3>3. QueuesOK(n)
      BY <2>2, <3>1 DEF QueuesOK, Same
    <3>4. \A t \in Tasks : status[t] = "queued" => Kept(t) \/ InHand(n, t)
      BY <1>1, <1>3, <2>2, <3>1 DEF InHand, Same
    <3> QED
      BY <2>1, <3>2, <3>3, <3>4, AloneLocal
  <2>3. CASE r.op = "move_task" /\ r.source # None
    <3>1. n = [r EXCEPT !.pc = "check", !.queue = r.source, !.source = None]
      BY <2>3 DEF AddFailed
    <3>2. /\ n.op = r.op /\ n.task = r.task /\ n.tgt = r.tgt /\ n.opt = r.opt
          /\ n.pc = "check" /\ n.queue = r.source /\ n.source = None
      BY <1>1, <3>1 DEF Requests
    <3>3. AskedOK(n)
      BY <1>1, <2>3, <3>2 DEF AskedOK
    <3>4. StepsOK(n) /\ TasksOK(n)
      BY <1>2, <1>4, <3>2
    <3>5. Home(n) = Home(r)
      BY <2>1, <2>3, <3>2 DEF Home
    <3>6. QueuesOK(n)
      BY <1>1, <2>1, <2>3, <3>2, <3>5 DEF QueuesOK
    <3>7. \A t \in Tasks : status[t] = "queued" => Kept(t) \/ InHand(n, t)
      BY <1>1, <1>3, <2>1, <2>3, <3>2, <3>5 DEF InHand
    <3> QED
      BY <2>1, <3>3, <3>4, <3>6, <3>7, AloneLocal
  <2>4. CASE r.op = "move_task" /\ r.source = None
    <3>1. n = Idle
      BY <2>4 DEF AddFailed
    <3>2. Home(r) = r.queue /\ InQueue(r.task, r.queue)
      BY <1>1, <1>6, <2>1, <2>4 DEF Home, QueuesOK
    <3>3. \A t \in Tasks : status[t] = "queued" => Kept(t)
      BY <1>1, <1>2, <1>3, <2>1, <2>4, <3>2, NoneIsNothing DEF Kept
    <3> QED
      BY <2>1, <3>1, <3>3, IdleAlone, AloneLocal
  <2> QED
    BY <1>2, <2>2, <2>3, <2>4
<1>7. CASE PushEntry(c)
  <2> PICK n : n = At(r, "pushed")
    OBVIOUS
  <2> PICK e : e = [task |-> r.task, added |-> CHOOSE s \in Stamps \ UsedStamps : TRUE]
    OBVIOUS
  <2>1. r.pc = "push" /\ MayPush(r.queue, r.task)
    BY <1>1, <1>7 DEF PushEntry, QueuesOK
  <2>2. /\ Goto(c, n) /\ UNCHANGED <<docs, queue_state>> /\ Stamps \ UsedStamps # {}
        /\ entries' = [entries EXCEPT ![r.queue] = Pushed(entries[r.queue], e)]
    BY <1>7, <2>1 DEF PushEntry
  <2>3. e \in Entries /\ e.task = r.task
    BY <1>2, <2>2 DEF Entries
  <2>4. /\ Holds(Pushed(entries[r.queue], e), r.task)
        /\ \A t : Holds(entries[r.queue], t) => Holds(Pushed(entries[r.queue], e), t)
    BY <1>2, <2>3, QueueOK, PushKeeps
  <2>5. \A q \in Queues :
          entries'[q] = IF q = r.queue THEN Pushed(entries[r.queue], e) ELSE entries[q]
    BY <2>2 DEF IInv, TypeOK
  <2>6. \A t \in Tasks, q \in Queues : InQueue(t, q) => InQueue(t, q)'
    BY <2>4, <2>5 DEF InQueue
  <2>7. InQueue(r.task, r.queue)'
    BY <1>2, <2>4, <2>5 DEF InQueue
  <2>8. Same(n, r) /\ n.pc = "pushed"
    BY <1>1, AtSame
  <2>9. UNCHANGED <<status, enqueue_status, exec_queue, queue_state>>
    BY <2>2 DEF docs
  <2>10. \A t \in Tasks : Kept(t) => Kept(t)'
    BY <2>6, <2>9, TaskOK DEF Kept
  <2>11. AskedOK(n) /\ StepsOK(n)
    BY <1>1, <1>2, <1>4, <2>8, SameAsked DEF Same
  <2>12. TasksOK(n)'
    BY <1>2, <2>8 DEF TasksOK, TakesOut, DequeueOps, Same
  <2>13. QueuesOK(n)'
    BY <2>1, <2>7, <2>8, <2>9 DEF QueuesOK, MayPush, Live, Same
  <2>14. \A t \in Tasks : status'[t] = "queued" => Kept(t)' \/ InHand(n, t)'
    <3>1. r.op = "enqueue" \/ r.source # None => InHand(n, r.task)'
      BY <1>2, <2>8 DEF InHand, Same
    <3>2. r.op = "move_task" /\ r.source = None /\ exec_queue[r.task] = Home(r) => Kept(r.task)'
      BY <1>2, <2>1, <2>7, <2>9, NoneIsNothing DEF Home, Kept
    <3> QED
      BY <1>1, <1>2, <1>3, <2>1, <2>9, <2>10, <3>1, <3>2
  <2>15. \A t \in Tasks : enqueue_status'[t] # "queued"
    BY <2>9 DEF AInv
  <2> QED
    BY <2>2, <2>11, <2>12, <2>13, <2>14, <2>15, AloneStep
<1>8. CASE LogPushed(c)
  <2> PICK n : n = Added(r)
    OBVIOUS
  <2>1. r.pc = "pushed" /\ Goto(c, n) /\ UNCHANGED <<docs, queues>>
    BY <1>1, <1>8 DEF LogPushed, QueuesOK, OneAtATime
  <2>2. CASE r.op = "move_task" /\ r.source = None
    <3>1. n = Idle
      BY <2>2 DEF Added
    <3>2. \A t \in Tasks : status[t] = "queued" => Kept(t)
      BY <1>1, <1>3, <2>1, <2>2
    <3> QED
      BY <2>1, <3>1, <3>2, IdleAlone, AloneLocal
  <2>3. CASE ~(r.op = "move_task" /\ r.source = None)
    <3>1. r.opt
      BY <1>1, <1>2 DEF AskedOK
    <3>2. n = At(r, "set_queue")
      BY <2>3, <3>1 DEF Added
    <3>3. Same(n, r) /\ n.pc = "set_queue"
      BY <1>1, <3>2, AtSame
    <3>4. AskedOK(n) /\ StepsOK(n) /\ TasksOK(n)
      BY <1>1, <1>2, <1>4, <3>3, SameAsked DEF Same
    <3>5. QueuesOK(n)
      BY <1>1, <2>1, <3>3 DEF QueuesOK, Same
    <3>6. \A t \in Tasks : status[t] = "queued" => Kept(t) \/ InHand(n, t)
      BY <1>1, <1>2, <1>3, <3>3 DEF InHand, Same
    <3> QED
      BY <2>1, <3>4, <3>5, <3>6, AloneLocal
  <2> QED
    BY <2>2, <2>3
<1> QED
  BY <1>5, <1>6, <1>7, <1>8

(* The rest of tasks.enqueue, and of a move: the task is where its         *)
(* execution.queue says, or no longer queued.                              *)
LEMMA EnqueuingAlone ==
  ASSUME OneAtATime, IInv, AInv, NEW c \in Calls, UndoEnqueue(c) \/ SetExecutionQueue(c)
  PROVE  AInv'
<1> PICK r : r = call[c]
  OBVIOUS
<1>1. /\ r \in Requests /\ RequestOK(r) /\ AskedOK(r) /\ StepsOK(r) /\ QueuesOK(r)
      /\ \A t \in Tasks : status[t] = "queued" => Kept(t) \/ InHand(r, t)
  BY CallOK, AloneNow
<1>2. CASE UndoEnqueue(c)
  <2>1. r.pc = "undo" /\ r.op = "enqueue" /\ r.task \in Tasks /\ r.st # "queued"
    BY <1>1, <1>2 DEF UndoEnqueue, StepsOK, RequestOK, AskedOK
  <2>2. Goto(c, Idle) /\ UNCHANGED <<exec_queue, queues>>
    BY <1>2 DEF UndoEnqueue
  <2>3. \A t \in Tasks : enqueue_status'[t] # "queued"
    BY <1>2, NoneIsNothing, StatusNames DEF UndoEnqueue, AInv, IInv, TypeOK
  <2>4. \A t \in Tasks : status'[t] = "queued" => status[t] = "queued" /\ t # r.task
    BY <1>2, <2>1 DEF UndoEnqueue, IInv, TypeOK
  <2>5. \A t \in Tasks : t # r.task => ~InHand(r, t)
    BY <2>1 DEF InHand, ReleaseOps
  <2>6. \A t \in Tasks : status'[t] = "queued" => Kept(t)'
    BY <1>1, <2>2, <2>4, <2>5, KeptFrame DEF queues
  <2> QED
    BY <2>2, <2>3, <2>6, AloneEnds
<1>3. CASE SetExecutionQueue(c)
  <2> PICK n : n = Sweeping(r, OtherQueues(r.queue))
    OBVIOUS
  <2>1. /\ r.pc = "set_queue" /\ r.op \in {"enqueue", "move_task"} /\ r.task \in Tasks
        /\ r.queue \in Queues /\ InQueue(r.task, r.queue)
    BY <1>1, <1>3 DEF SetExecutionQueue, StepsOK, RequestOK, QueuesOK
  <2>2. /\ Goto(c, IF r.op = "enqueue" THEN n ELSE Idle)
        /\ UNCHANGED <<status, enqueue_status, queue_state, entries>>
        /\ exec_queue' = IF Exists(r.task) THEN [exec_queue EXCEPT ![r.task] = r.queue]
                         ELSE exec_queue
    BY <1>3 DEF SetExecutionQueue, queues
  <2>3. \A t \in Tasks : t # r.task => exec_queue'[t] = exec_queue[t] /\ ~InHand(r, t)
    BY <2>1, <2>2 DEF InHand, ReleaseOps, IInv, TypeOK
  <2>4. status[r.task] = "queued" => exec_queue'[r.task] = r.queue
    BY <2>1, <2>2 DEF Exists, Absent, IInv, TypeOK
  <2>5. status[r.task] = "queued" => Kept(r.task)'
    BY <2>1, <2>2, <2>4, NoneIsNothing DEF Kept, InQueue
  <2>6. \A t \in Tasks : status'[t] = "queued" => Kept(t)'
    BY <1>1, <2>2, <2>3, <2>5 DEF Kept, InQueue
  <2>7. \A t \in Tasks : enqueue_status'[t] # "queued"
    BY <2>2 DEF AInv
  <2>8. CASE r.op = "enqueue"
    <3>1. Same(n, r) /\ n.pc = "sweep" /\ n.todo = OtherQueues(r.queue)
      BY <1>1, SweepingSame
    <3>2. AskedOK(n)
      BY <1>1, <3>1, SameAsked
    <3>3. StepsOK(n) /\ QueuesOK(n)'
      BY <2>8, <3>1 DEF StepsOK, QueuesOK, Same
    <3>4. TasksOK(n)'
      BY <2>2, <2>4, <2>8, <3>1 DEF TasksOK, TakesOut, DequeueOps, Same, OtherQueues
    <3> QED
      BY <2>2, <2>6, <2>7, <2>8, <3>2, <3>3, <3>4, AloneStep
  <2>9. CASE r.op = "move_task"
    BY <2>2, <2>6, <2>7, <2>9, AloneEnds
  <2> QED
    BY <2>1, <2>8, <2>9
<1> QED
  BY <1>2, <1>3

(* remove_task_from_all_queues leaves the queue an enqueue put the task in *)
(* alone, and the other requests go on to change the task's status.        *)
LEMMA SweepAlone ==
  ASSUME OneAtATime, IInv, AInv, NEW c \in Calls, Sweep(c)
  PROVE  AInv'
<1> PICK r : r = call[c]
  OBVIOUS
<1>1. /\ r \in Requests /\ RequestOK(r) /\ AskedOK(r) /\ StepsOK(r) /\ TasksOK(r)
      /\ \A t \in Tasks : status[t] = "queued" => Kept(t) \/ InHand(r, t)
  BY CallOK, AloneNow
<1>2. /\ r.pc = "sweep" /\ r.op \in DequeueOps \cup {"enqueue"} /\ r.task \in Tasks
      /\ UNCHANGED <<docs, queue_state>>
  BY <1>1 DEF Sweep, StepsOK, RequestOK
<1>3. \A t \in Tasks : InHand(r, t) => t = r.task /\ r.op \in DequeueOps
  BY <1>2 DEF InHand, ReleaseOps, TakesOut, DequeueOps
<1>4. ASSUME NEW q \in r.todo, entries' = [entries EXCEPT ![q] = Pull(entries[q], r.task)],
             Goto(c, [r EXCEPT !.todo = r.todo \ {q}])
      PROVE  AInv'
  <2> PICK n : n = [r EXCEPT !.todo = r.todo \ {q}]
    OBVIOUS
  <2>1. Goto(c, n) /\ Same(n, r) /\ n.pc = "sweep" /\ n.todo = r.todo \ {q}
    BY <1>1, <1>2, <1>4 DEF Requests, Same
  <2>2. q \in Queues
    BY <1>1 DEF Requests
  <2>3. \A t \in Tasks, p \in Queues : (t # r.task \/ p # q) /\ InQueue(t, p) => InQueue(t, p)'
    BY <1>4, <2>2, PullLeaves
  <2>4. UNCHANGED <<status, enqueue_status, exec_queue>>
    BY <1>2 DEF docs
  <2>5. \A t \in Tasks : t # r.task /\ Kept(t) => Kept(t)'
    BY <2>3, <2>4, OthersKept
  <2>6. r.op = "enqueue" /\ status[r.task] = "queued" => Kept(r.task)'
    <3>1. ASSUME r.op = "enqueue", status[r.task] = "queued"
          PROVE  Kept(r.task)'
      <4>1. r.queue \in Queues /\ r.queue # q /\ exec_queue[r.task] = r.queue
        BY <1>1, <1>2, <3>1 DEF TasksOK, RequestOK
      <4>2. Kept(r.task)
        BY <1>1, <1>2, <1>3, <3>1 DEF DequeueOps
      <4>3. InQueue(r.task, r.queue)'
        BY <1>2, <2>3, <4>1, <4>2 DEF Kept
      <4> QED
        BY <2>4, <4>1, <4>3, NoneIsNothing DEF Kept
    <3> QED
      BY <3>1
  <2>7. AskedOK(n)
    BY <1>1, <2>1, SameAsked
  <2>8. StepsOK(n) /\ QueuesOK(n)'
    BY <1>2, <2>1 DEF StepsOK, QueuesOK, DequeueOps, Same
  <2>9. TakesOut(n) <=> TakesOut(r)
    BY <1>2, <2>1 DEF TakesOut, Same
  <2>10. TasksOK(n)'
    BY <1>1, <1>2, <2>1, <2>4, <2>9 DEF TasksOK, DequeueOps, Same
  <2>11. r.op \in DequeueOps => InHand(n, r.task)'
    BY <1>2, <2>1 DEF InHand, TakesOut, Same
  <2>12. \A t \in Tasks : status'[t] = "queued" => Kept(t)' \/ InHand(n, t)'
    BY <1>1, <1>2, <1>3, <2>4, <2>5, <2>6, <2>11
  <2>13. \A t \in Tasks : enqueue_status'[t] # "queued"
    BY <2>4 DEF AInv
  <2> QED
    BY <2>1, <2>7, <2>8, <2>10, <2>12, <2>13, AloneStep
<1>5. ASSUME Goto(c, SweepDone(r)), UNCHANGED entries
      PROVE  AInv'
  <2> PICK n : n = SweepDone(r)
    OBVIOUS
  <2>1. UNCHANGED <<docs, queues>> /\ Goto(c, n)
    BY <1>2, <1>5 DEF queues
  <2>2. CASE r.op = "enqueue"
    <3>1. n = Idle
      BY <2>2 DEF SweepDone
    <3>2. \A t \in Tasks : status[t] = "queued" => Kept(t)
      BY <1>1, <1>3, <2>2 DEF DequeueOps
    <3> QED
      BY <2>1, <3>1, <3>2, IdleAlone, AloneLocal
  <2>3. CASE r.op \in DequeueOps
    <3>1. TakenOut(n, r)
      BY <1>1, <2>3, NextTakenOut
    <3>2. status[r.task] = "queued" => r.st = "queued"
      BY <1>1, <1>2, <2>3 DEF TasksOK, TakesOut
    <3>3. \A t \in Tasks : status[t] = "queued" => Kept(t) \/ t = r.task
      BY <1>1, <1>3
    <3> QED
      BY <1>1, <2>1, <2>3, <3>1, <3>2, <3>3, TakesOutAlone
  <2> QED
    BY <1>2, <2>2, <2>3
<1> QED
  BY <1>4, <1>5 DEF Sweep

(* QueueBLL.remove_task: the entry it found is still there to be pulled,   *)
(* and what comes after it lets the task go or puts it in another queue.   *)
LEMMA FindingAlone ==
  ASSUME OneAtATime, IInv, AInv, NEW c \in Calls, FindEntry(c) \/ LogPulled(c)
  PROVE  AInv'
<1> PICK r : r = call[c]
  OBVIOUS
<1>1. /\ r \in Requests /\ RequestOK(r) /\ AskedOK(r) /\ StepsOK(r) /\ QueuesOK(r) /\ TasksOK(r)
      /\ \A t \in Tasks : status[t] = "queued" => Kept(t) \/ InHand(r, t)
  BY CallOK, AloneNow
<1>2. /\ r.pc \in {"find", "pulled", "missed"} /\ r.task \in Tasks /\ r.queue \in Queues
      /\ r.op \in DequeueOps \cup {"remove_task", "move_task"}
      /\ UNCHANGED <<docs, queues>>
  BY <1>1 DEF FindEntry, LogPulled, RequestOK, DequeueOps
<1>3. \A t \in Tasks : InHand(r, t) =>
        /\ t = r.task
        /\ \/ r.op \in DequeueOps
           \/ r.op = "move_task" /\ r.pc = "pulled" /\ exec_queue[t] = r.queue
  BY <1>2 DEF InHand, TakesOut, Home, ReleaseOps
<1>4. ASSUME r.op \in DequeueOps, Goto(c, AfterDequeue(r))
      PROVE  AInv'
  <2> PICK n : n = AfterDequeue(r)
    OBVIOUS
  <2>1. TakenOut(n, r) /\ Goto(c, n)
    BY <1>1, <1>4, NextTakenOut
  <2>2. status[r.task] = "queued" => r.st = "queued"
    BY <1>1, <1>2, <1>4 DEF TasksOK, TakesOut
  <2>3. \A t \in Tasks : status[t] = "queued" => Kept(t) \/ t = r.task
    BY <1>1, <1>3
  <2> QED
    BY <1>1, <1>2, <1>4, <2>1, <2>2, <2>3, TakesOutAlone
<1>5. ASSUME r.op \notin DequeueOps, r.pc # "pulled", Goto(c, Idle)
      PROVE  AInv'
  <2>1. \A t \in Tasks : status[t] = "queued" => Kept(t)
    BY <1>1, <1>3, <1>5
  <2> PICK n : n = Idle
    OBVIOUS
  <2> QED
    BY <1>2, <1>5, <2>1, IdleAlone, AloneLocal
<1>6. CASE FindEntry(c) /\ Live(r.queue) /\ InQueue(r.task, r.queue)
  <2> PICK e : e = EntryOf(entries[r.queue], r.task)
    OBVIOUS
  <2> PICK n : n = [r EXCEPT !.pc = "pull", !.ent = e]
    OBVIOUS
  <2>1. r.pc = "find" /\ Goto(c, n) /\ Same(n, r) /\ n.pc = "pull"
    BY <1>1, <1>6 DEF FindEntry, Requests, Same
  <2>2. AskedOK(n)
    BY <1>1, <2>1, SameAsked
  <2>3. StepsOK(n) /\ QueuesOK(n)
    BY <1>1, <1>6, <2>1 DEF StepsOK, QueuesOK, Same
  <2>4. TakesOut(n) <=> TakesOut(r)
    BY <2>1 DEF TakesOut, Same
  <2>5. TasksOK(n)
    BY <1>1, <1>2, <2>1, <2>4 DEF TasksOK, DequeueOps, Same
  <2>6. \A t \in Tasks : InHand(r, t) => InHand(n, t)
    BY <1>3, <2>1 DEF InHand, TakesOut, Same
  <2> QED
    BY <1>1, <1>2, <2>1, <2>2, <2>3, <2>5, <2>6, AloneLocal
<1>7. CASE FindEntry(c) /\ ~(Live(r.queue) /\ InQueue(r.task, r.queue))
  <2>1. /\ r.pc = "find"
        /\ Goto(c, IF r.op \in {"remove_task", "move_task"} THEN Idle ELSE AfterDequeue(r))
    BY <1>7 DEF FindEntry
  <2>2. r.op \in {"remove_task", "move_task"} => r.op \notin DequeueOps
    BY DEF DequeueOps
  <2> QED
    BY <1>2, <1>4, <1>5, <2>1, <2>2
<1>8. CASE LogPulled(c)
  <2>1. r.pc \in {"pulled", "missed"} /\ Live(r.queue) /\ r.op # "remove_task"
    BY <1>1, <1>8 DEF LogPulled, QueuesOK, RequestOK
  <2>2. Goto(c, CASE r.op # "move_task" -> AfterDequeue(r)
                  [] r.op = "move_task" /\ r.pc = "pulled" ->
                       [r EXCEPT !.pc = "check", !.queue = r.source, !.source = r.queue]
                  [] OTHER -> Idle)
    BY <1>8, <2>1 DEF LogPulled, OneAtATime
  <2>3. CASE r.op # "move_task"
    BY <1>2, <1>4, <2>1, <2>2, <2>3
  <2>4. CASE r.op = "move_task" /\ r.pc = "missed"
    <3>1. Goto(c, Idle)
      BY <2>2, <2>4
    <3> QED
      BY <1>5, <2>4, <3>1 DEF DequeueOps
  <2>5. CASE r.op = "move_task" /\ r.pc = "pulled"
    <3> PICK n : n = [r EXCEPT !.pc = "check", !.queue = r.source, !.source = r.queue]
      OBVIOUS
    <3>1. /\ Goto(c, n) /\ n.op = r.op /\ n.pc = "check" /\ n.task = r.task /\ n.tgt = r.tgt
          /\ n.opt = r.opt /\ n.source = r.queue
      BY <1>1, <2>2, <2>5 DEF Requests
    <3>2. Home(n) = r.queue
      BY <1>2, <3>1, NoneIsNothing DEF Home
    <3>3. AskedOK(n)
      BY <1>1, <2>5, <3>1 DEF AskedOK
    <3>4. StepsOK(n) /\ QueuesOK(n) /\ TasksOK(n)
      BY <2>1, <2>5, <3>1, <3>2 DEF StepsOK, QueuesOK, TasksOK, TakesOut, DequeueOps
    <3>5. \A t \in Tasks : status[t] = "queued" => Kept(t) \/ InHand(n, t)
      BY <1>1, <1>3, <2>5, <3>1, <3>2 DEF InHand, DequeueOps
    <3> QED
      BY <1>2, <3>1, <3>3, <3>4, <3>5, AloneLocal
  <2> QED
    BY <2>1, <2>3, <2>4, <2>5
<1> QED
  BY <1>6, <1>7, <1>8

LEMMA PullingAlone ==
  ASSUME OneAtATime, IInv, AInv, NEW c \in Calls, PullEntry(c)
  PROVE  AInv'
<1> PICK r : r = call[c]
  OBVIOUS
<1> PICK q : q = r.queue
  OBVIOUS
<1>1. /\ r \in Requests /\ RequestOK(r) /\ AskedOK(r) /\ StepsOK(r) /\ QueuesOK(r) /\ TasksOK(r)
      /\ \A t \in Tasks : status[t] = "queued" => Kept(t) \/ InHand(r, t)
  BY CallOK, AloneNow
<1>2. /\ r.pc = "pull" /\ r.task \in Tasks /\ q \in Queues /\ Live(q)
      /\ r.op \in DequeueOps \cup {"remove_task", "move_task"}
      /\ UNCHANGED <<docs, queue_state>>
  BY <1>1 DEF PullEntry, RequestOK, QueuesOK, DequeueOps
<1>3. \A t \in Tasks : InHand(r, t) => t = r.task /\ r.op \in DequeueOps
  BY <1>2 DEF InHand, TakesOut, ReleaseOps
<1>4. \/ entries' = entries
      \/ InQueue(r.task, q) /\ entries' = [entries EXCEPT ![q] = Pull(entries[q], r.task)]
  BY DEF PullEntry
<1>5. UNCHANGED <<status, enqueue_status, exec_queue, queue_state>>
  BY <1>2 DEF docs
<1>6. \A t \in Tasks, p \in Queues : (t # r.task \/ p # q) /\ InQueue(t, p) => InQueue(t, p)'
  BY <1>2, <1>4, PullLeaves
<1>7. \A t \in Tasks : Kept(t) =>
        Kept(t)' \/ (InQueue(r.task, q) /\ t = r.task /\ exec_queue[t] = q)
  <2>1. ASSUME NEW t \in Tasks, Kept(t), t # r.task \/ exec_queue[t] # q
        PROVE  Kept(t)'
    BY <1>5, <1>6, <2>1, TaskOK DEF Kept
  <2>2. ASSUME NEW t \in Tasks, Kept(t), ~InQueue(r.task, q)
        PROVE  Kept(t)'
    BY <1>4, <1>5, <2>2 DEF Kept, InQueue
  <2> QED
    BY <2>1, <2>2
<1>8. \A t \in Tasks : enqueue_status'[t] # "queued"
  BY <1>5 DEF AInv
<1>9. /\ r.op # "remove_task" =>
            Goto(c, [r EXCEPT !.pc = IF InQueue(r.task, q) THEN "pulled" ELSE "missed",
                              !.ent = None])
      /\ r.op = "remove_task" /\ InQueue(r.task, q) /\ r.opt =>
            Goto(c, [r EXCEPT !.pc = "inspect", !.left = {r.task}, !.ent = None])
      /\ r.op = "remove_task" /\ ~InQueue(r.task, q) => Goto(c, Idle)
  <2>1. ASSUME r.op # "remove_task"
        PROVE  Goto(c, [r EXCEPT !.pc = IF InQueue(r.task, q) THEN "pulled" ELSE "missed",
                                 !.ent = None])
    BY <1>2, <2>1 DEF PullEntry
  <2>2. ASSUME r.op = "remove_task", InQueue(r.task, q), r.opt
        PROVE  Goto(c, [r EXCEPT !.pc = "inspect", !.left = {r.task}, !.ent = None])
    BY <1>2, <2>2 DEF PullEntry
  <2>3. ASSUME r.op = "remove_task", ~InQueue(r.task, q)
        PROVE  Goto(c, Idle)
    BY <1>2, <2>3 DEF PullEntry
  <2> QED
    BY <2>1, <2>2, <2>3
<1>10. CASE r.op # "remove_task"
  <2> PICK pc : pc = IF InQueue(r.task, q) THEN "pulled" ELSE "missed"
    OBVIOUS
  <2> PICK n : n = [r EXCEPT !.pc = pc, !.ent = None]
    OBVIOUS
  <2>1. Goto(c, n) /\ Same(n, r) /\ n.pc = pc /\ pc \in {"pulled", "missed"}
    BY <1>1, <1>9, <1>10 DEF Requests, Same
  <2>2. AskedOK(n)
    BY <1>1, <2>1, SameAsked
  <2>3. StepsOK(n)
    BY <1>1, <1>2, <2>1 DEF StepsOK, Same
  <2>4. QueuesOK(n)'
    BY <1>2, <1>5, <2>1 DEF QueuesOK, Live, Home, Same
  <2>5. TakesOut(n) <=> TakesOut(r)
    BY <1>2, <2>1 DEF TakesOut, Same
  <2>6. TasksOK(n)'
    BY <1>1, <1>2, <1>5, <1>10, <2>1, <2>5 DEF TasksOK, DequeueOps, Same
  <2>7. r.op \in DequeueOps => InHand(n, r.task)'
    BY <2>1 DEF InHand, TakesOut, Same
  <2>8. r.op = "move_task" /\ InQueue(r.task, q) /\ exec_queue[r.task] = q => InHand(n, r.task)'
    BY <1>5, <2>1 DEF InHand, Home, Same
  <2>9. \A t \in Tasks : status'[t] = "queued" => Kept(t)' \/ InHand(n, t)'
    BY <1>1, <1>2, <1>3, <1>5, <1>7, <1>10, <2>7, <2>8
  <2> QED
    BY <1>8, <2>1, <2>2, <2>3, <2>4, <2>6, <2>9, AloneStep
<1>11. CASE r.op = "remove_task" /\ InQueue(r.task, q)
  <2> PICK n : n = [r EXCEPT !.pc = "inspect", !.left = {r.task}, !.ent = None]
    OBVIOUS
  <2>1. r.opt
    BY <1>1, <1>11 DEF AskedOK
  <2>2. Goto(c, n)
    BY <1>9, <1>11, <2>1
  <2>3. Same(n, r) /\ n.pc = "inspect" /\ n.left = {r.task}
    BY <1>1 DEF Requests, Same
  <2>4. AskedOK(n)
    BY <1>1, <2>3, SameAsked
  <2>5. StepsOK(n) /\ QueuesOK(n)' /\ TasksOK(n)'
    BY <1>11, <2>3 DEF StepsOK, QueuesOK, TasksOK, TakesOut, DequeueOps, Same
  <2>6. exec_queue[r.task] = q => InHand(n, r.task)'
    BY <1>5, <1>11, <2>3 DEF InHand, ReleaseOps, Same
  <2>7. \A t \in Tasks : status'[t] = "queued" => Kept(t)' \/ InHand(n, t)'
    BY <1>1, <1>3, <1>5, <1>7, <1>11, <2>6 DEF DequeueOps
  <2> QED
    BY <1>8, <2>2, <2>4, <2>5, <2>7, AloneStep
<1>12. CASE r.op = "remove_task" /\ ~InQueue(r.task, q)
  <2>1. Goto(c, Idle)
    BY <1>9, <1>12
  <2>2. \A t \in Tasks : status'[t] = "queued" => Kept(t)'
    BY <1>1, <1>3, <1>5, <1>7, <1>12 DEF DequeueOps
  <2> QED
    BY <1>8, <2>1, <2>2, AloneEnds
<1> QED
  BY <1>10, <1>11, <1>12

(* The ends of reset, delete and trash.  A reset that was refused now      *)
(* would leave the task queued and in no queue; with force it is not.      *)
LEMMA CleanupAlone ==
  ASSUME OneAtATime, IInv, AInv, NEW c \in Calls, CleanupTask(c)
  PROVE  AInv'
<1> PICK r : r = call[c]
  OBVIOUS
<1>1. /\ r \in Requests /\ RequestOK(r) /\ AskedOK(r) /\ StepsOK(r) /\ TasksOK(r)
      /\ \A t \in Tasks : status[t] = "queued" => Kept(t) \/ InHand(r, t)
  BY CallOK, AloneNow
<1>2. /\ r.pc = "cleanup" /\ r.op \in {"reset", "delete", "trash"} /\ r.task \in Tasks
      /\ UNCHANGED <<docs, queues>>
  BY <1>1 DEF CleanupTask, StepsOK, RequestOK
<1>3. \A t \in Tasks : InHand(r, t) => t = r.task /\ r.op = "reset"
  BY <1>2 DEF InHand, TakesOut, ReleaseOps, DequeueOps
<1>4. CASE r.op = "reset"
  <2>1. r.opt
    BY <1>1, <1>4 DEF AskedOK
  <2> PICK n : n = At(r, "change")
    OBVIOUS
  <2>2. Goto(c, n)
    BY <1>4, <2>1 DEF CleanupTask, validate_transition
  <2>3. Same(n, r) /\ n.pc = "change"
    BY <1>1, AtSame
  <2>4. status[r.task] = "queued" => r.st = "queued"
    BY <1>1, <1>2, <1>4 DEF TasksOK, TakesOut
  <2>5. \A t \in Tasks : status[t] = "queued" => Kept(t) \/ t = r.task
    BY <1>1, <1>3
  <2>6. r.op \in DequeueOps /\ TakenOut(n, r)
    BY <1>4, <2>3 DEF TakenOut, DequeueOps
  <2> QED
    BY <1>1, <1>2, <2>2, <2>4, <2>5, <2>6, TakesOutAlone
<1>5. CASE r.op \in {"delete", "trash"}
  <2>1. \A t \in Tasks : status[t] = "queued" => Kept(t)
    BY <1>1, <1>3, <1>5
  <2>2. PICK n : Goto(c, n) /\ n \in {At(r, "erase"), At(r, "to_trash"), Idle}
    BY <1>5 DEF CleanupTask
  <2>3. CASE n = Idle
    BY <1>2, <2>1, <2>2, <2>3, IdleAlone, AloneLocal
  <2>4. CASE n # Idle
    <3>1. Same(n, r) /\ n.pc \in {"erase", "to_trash"}
      BY <1>1, <2>2, <2>4, AtSame
    <3>2. AskedOK(n)
      BY <1>1, <3>1, SameAsked
    <3>3. StepsOK(n) /\ QueuesOK(n) /\ TasksOK(n)
      BY <1>5, <3>1 DEF StepsOK, QueuesOK, TasksOK, TakesOut, DequeueOps, Same
    <3> QED
      BY <1>2, <2>1, <2>2, <3>2, <3>3, AloneLocal
  <2> QED
    BY <2>3, <2>4
<1> QED
  BY <1>2, <1>4, <1>5

(* Document.save, the erasing of the document and the archived tag: no     *)
(* task becomes queued but one a failed publish gives back that status.    *)
LEMMA SavingAlone ==
  ASSUME OneAtATime, IInv, AInv, NEW c \in Calls,
         SavePublishing(c) \/ RestoreStatus(c) \/ SaveForTrash(c) \/ EraseTask(c) \/ TagArchived(c)
  PROVE  AInv'
<1> PICK r : r = call[c]
  OBVIOUS
<1>1. /\ r \in Requests /\ RequestOK(r) /\ AskedOK(r) /\ StepsOK(r) /\ TasksOK(r)
      /\ \A t \in Tasks : status[t] = "queued" => Kept(t) \/ InHand(r, t)
  BY CallOK, AloneNow
<1>2. /\ r.pc \in {"set_publishing", "restore", "to_trash", "erase", "tag"}
      /\ r.task \in Tasks /\ UNCHANGED queues
  BY <1>1 DEF SavePublishing, RestoreStatus, SaveForTrash, EraseTask, TagArchived, RequestOK
<1>3. UNCHANGED <<queue_state, entries>>
  BY <1>2 DEF queues
<1>4. \A t \in Tasks : status[t] = "queued" => Kept(t)
  <2>1. \A t \in Tasks : ~InHand(r, t)
    BY <1>2 DEF InHand, TakesOut
  <2> QED
    BY <1>1, <2>1
<1>5. CASE SavePublishing(c)
  <2>1. PICK pc \in {"change", "restore"} : Goto(c, At(r, pc))
    BY <1>5 DEF SavePublishing
  <2> PICK n : n = At(r, pc)
    OBVIOUS
  <2>2. Goto(c, n) /\ Same(n, r) /\ n.pc = pc
    BY <1>1, <2>1, AtSame
  <2>3. /\ r.op = "publish" /\ UNCHANGED <<enqueue_status, exec_queue>>
        /\ status' = [status EXCEPT ![r.task] = "publishing"]
    BY <1>1, <1>5 DEF SavePublishing, Save, RequestOK
  <2>4. \A t \in Tasks : status'[t] = "queued" => Kept(t)'
    BY <1>2, <1>3, <1>4, <2>3, KeptFrame DEF IInv, TypeOK
  <2>5. AskedOK(n)
    BY <1>1, <2>2, SameAsked
  <2>6. StepsOK(n) /\ QueuesOK(n)'
    BY <2>2, <2>3 DEF StepsOK, QueuesOK, Same
  <2>7. TasksOK(n)'
    <3>1. r.es = "queued" => Kept(r.task)'
      BY <1>1, <1>2, <1>3, <2>3, KeptFrame DEF TasksOK
    <3> QED
      BY <2>1, <2>2, <2>3, <3>1 DEF TasksOK, TakesOut, DequeueOps, Same
  <2>8. \A t \in Tasks : enqueue_status'[t] # "queued"
    BY <2>3 DEF AInv
  <2> QED
    BY <2>2, <2>4, <2>5, <2>6, <2>7, <2>8, AloneStep
<1>6. CASE RestoreStatus(c)
  <2>1. /\ Goto(c, Idle) /\ r.op = "publish" /\ UNCHANGED <<enqueue_status, exec_queue>>
        /\ status' = [status EXCEPT ![r.task] = r.es]
    BY <1>1, <1>6 DEF RestoreStatus, Save, RequestOK
  <2>2. r.es = "queued" => Kept(r.task)
    BY <1>1, <2>1 DEF TasksOK
  <2>3. \A t \in Tasks : status'[t] = "queued" => Kept(t)
    BY <1>2, <1>4, <2>1, <2>2 DEF IInv, TypeOK
  <2>4. \A t \in Tasks : status'[t] = "queued" => Kept(t)'
    BY <1>3, <2>1, <2>3, KeptFrame
  <2>5. \A t \in Tasks : enqueue_status'[t] # "queued"
    BY <2>1 DEF AInv
  <2> QED
    BY <2>1, <2>4, <2>5, AloneEnds
<1>7. CASE SaveForTrash(c)
  <2> PICK n : n = At(r, "erase")
    OBVIOUS
  <2>1. /\ Goto(c, n) /\ r.op = "trash" /\ UNCHANGED <<enqueue_status, exec_queue>>
        /\ status' = [status EXCEPT ![r.task] =
                        IF Exists(r.task) THEN status[r.task] ELSE "created"]
    BY <1>1, <1>7 DEF SaveForTrash, Save, RequestOK
  <2>2. \A t \in Tasks : status'[t] = "queued" => status[t] = "queued"
    BY <1>2, <2>1 DEF IInv, TypeOK
  <2>3. \A t \in Tasks : status'[t] = "queued" => Kept(t)'
    BY <1>3, <1>4, <2>1, <2>2, KeptFrame
  <2>4. Same(n, r) /\ n.pc = "erase"
    BY <1>1, AtSame
  <2>5. AskedOK(n)
    BY <1>1, <2>4, SameAsked
  <2>6. StepsOK(n) /\ QueuesOK(n)' /\ TasksOK(n)'
    BY <2>1, <2>4 DEF StepsOK, QueuesOK, TasksOK, TakesOut, DequeueOps, Same
  <2>7. \A t \in Tasks : enqueue_status'[t] # "queued"
    BY <2>1 DEF AInv
  <2> QED
    BY <2>1, <2>3, <2>5, <2>6, <2>7, AloneStep
<1>8. CASE EraseTask(c)
  <2>1. /\ Goto(c, Idle)
        /\ status' = [status EXCEPT ![r.task] = Absent]
        /\ enqueue_status' = [enqueue_status EXCEPT ![r.task] = None]
        /\ exec_queue' = [exec_queue EXCEPT ![r.task] = None]
    BY <1>8 DEF EraseTask
  <2>2. \A t \in Tasks : status'[t] = "queued" =>
          status[t] = "queued" /\ exec_queue'[t] = exec_queue[t]
    BY <1>2, <2>1 DEF IInv, TypeOK, Absent
  <2>3. \A t \in Tasks : status'[t] = "queued" => Kept(t)'
    BY <1>3, <1>4, <2>2 DEF Kept, InQueue
  <2>4. \A t \in Tasks : enqueue_status'[t] # "queued"
    BY <2>1, NoneIsNothing, StatusNames DEF AInv, IInv, TypeOK
  <2> QED
    BY <2>1, <2>3, <2>4, AloneEnds
<1>9. CASE TagArchived(c)
  <2>1. Goto(c, Idle) /\ UNCHANGED <<status, enqueue_status, exec_queue>>
    BY <1>9 DEF TagArchived
  <2>2. \A t \in Tasks : status'[t] = "queued" => Kept(t)'
    BY <1>3, <1>4, <2>1, KeptFrame
  <2>3. \A t \in Tasks : enqueue_status'[t] # "queued"
    BY <2>1 DEF AInv
  <2> QED
    BY <2>1, <2>2, <2>3, AloneEnds
<1> QED
  BY <1>5, <1>6, <1>7, <1>8, <1>9

(* An agent starts the queued task it was handed.                          *)
LEMMA HandedAlone ==
  ASSUME OneAtATime, IInv, AInv, NEW c \in Calls,
         LogPopped(c) \/ RecheckStatus(c) \/ RequeueStopped(c) \/ StartTask(c)
  PROVE  AInv'
<1> PICK r : r = call[c]
  OBVIOUS
<1>1. /\ r \in Requests /\ RequestOK(r) /\ AskedOK(r) /\ StepsOK(r)
      /\ \A t \in Tasks : status[t] = "queued" => Kept(t) \/ InHand(r, t)
  BY CallOK, AloneNow
<1>2. /\ r.pc \in {"popped", "recheck", "requeue", "start"} /\ r.op = "agent"
      /\ r.task \in Tasks
  BY <1>1 DEF LogPopped, RecheckStatus, RequeueStopped, StartTask, StepsOK, RequestOK
<1>3. \A t \in Tasks : InHand(r, t) => t = r.task
  BY <1>2 DEF InHand, ReleaseOps
<1>4. ASSUME NEW pc \in {"recheck", "requeue", "start"}, NEW n, n = At(r, pc)
      PROVE  /\ AskedOK(n) /\ StepsOK(n)
             /\ QueuesOK(n) /\ TasksOK(n) /\ QueuesOK(n)' /\ TasksOK(n)'
             /\ InHand(n, r.task) /\ InHand(n, r.task)'
  <2>1. Same(n, r) /\ n.pc = pc
    BY <1>1, <1>4, AtSame
  <2>2. AskedOK(n)
    BY <1>1, <2>1, SameAsked
  <2> QED
    BY <1>2, <2>1, <2>2
    DEF Same, StepsOK, QueuesOK, TasksOK, TakesOut, DequeueOps, InHand
<1>5. ASSUME NEW pc \in {"recheck", "requeue", "start"}, Goto(c, At(r, pc)),
             UNCHANGED <<docs, queues>>
      PROVE  AInv'
  <2> PICK n : n = At(r, pc)
    OBVIOUS
  <2>1. \A t \in Tasks : status[t] = "queued" => Kept(t) \/ InHand(n, t)
    BY <1>1, <1>3, <1>4
  <2> QED
    BY <1>4, <1>5, <2>1, AloneLocal
<1>6. Handed(r) = At(r, "start")
  BY <1>2 DEF Handed
<1>7. CASE LogPopped(c)
  BY <1>5, <1>7 DEF LogPopped, OneAtATime
<1>8. CASE RecheckStatus(c)
  <2>1. /\ UNCHANGED <<docs, queues>>
        /\ Goto(c, IF status[r.task] = "stopped" THEN At(r, "requeue") ELSE At(r, "start"))
    BY <1>6, <1>8 DEF RecheckStatus
  <2> QED
    BY <1>5, <2>1
<1>9. CASE RequeueStopped(c)
  <2> PICK n : n = At(r, "start")
    OBVIOUS
  <2>1. /\ Goto(c, n) /\ UNCHANGED <<enqueue_status, exec_queue, queues>>
        /\ \/ status' = status
           \/ status' = [status EXCEPT ![r.task] = "queued"]
    BY <1>6, <1>9 DEF RequeueStopped
  <2>2. \A t \in Tasks : t # r.task => status'[t] = status[t]
    BY <2>1 DEF IInv, TypeOK
  <2>3. \A t \in Tasks : Kept(t)' <=> Kept(t)
    BY <2>1, KeptFrame DEF queues
  <2>4. \A t \in Tasks : status'[t] = "queued" => Kept(t)' \/ InHand(n, t)'
    BY <1>1, <1>3, <1>4, <2>2, <2>3
  <2>5. \A t \in Tasks : enqueue_status'[t] # "queued"
    BY <2>1 DEF AInv
  <2> QED
    BY <1>4, <2>1, <2>4, <2>5, AloneStep
<1>10. CASE StartTask(c)
            /\ Exists(r.task) /\ validate_transition(status[r.task], "in_progress", FALSE)
  <2> PICK n : n = [r EXCEPT !.pc = "change", !.st = status[r.task], !.tgt = "in_progress"]
    OBVIOUS
  <2>1. Goto(c, n) /\ UNCHANGED <<docs, queues>>
    BY <1>10 DEF StartTask
  <2>2. /\ n.op = "agent" /\ n.pc = "change" /\ n.task = r.task
        /\ n.st = status[r.task] /\ n.tgt = "in_progress"
    BY <1>1, <1>2 DEF Requests
  <2>3. AskedOK(n)
    BY <2>2 DEF AskedOK
  <2>4. StepsOK(n) /\ QueuesOK(n) /\ TasksOK(n)
    BY <2>2 DEF StepsOK, QueuesOK, TasksOK, TakesOut, DequeueOps
  <2>5. \A t \in Tasks : status[t] = "queued" => Kept(t) \/ InHand(n, t)
    BY <1>1, <1>3, <2>2 DEF InHand
  <2> QED
    BY <2>1, <2>3, <2>4, <2>5, AloneLocal
<1>11. CASE StartTask(c)
            /\ ~(Exists(r.task) /\ validate_transition(status[r.task], "in_progress", FALSE))
  <2>1. Goto(c, Idle) /\ UNCHANGED <<docs, queues>>
    BY <1>11 DEF StartTask
  <2>2. status[r.task] # "queued"
    BY <1>11 DEF Exists, Absent, validate_transition, validate_status_change, state_machine
  <2>3. \A t \in Tasks : status[t] = "queued" => Kept(t)
    BY <1>1, <1>3, <2>2
  <2> PICK n : n = Idle
    OBVIOUS
  <2> QED
    BY <2>1, <2>3, IdleAlone, AloneLocal
<1> QED
  BY <1>7, <1>8, <1>9, <1>10, <1>11

(* _update_task_status_on_removal_from_queue, and the queue it ends with.  *)
LEMMA ReleasingAlone ==
  ASSUME OneAtATime, IInv, AInv, NEW c \in Calls, InspectTask(c) \/ ReleaseTask(c)
  PROVE  AInv'
<1> PICK r : r = call[c]
  OBVIOUS
<1>1. /\ r \in Requests /\ RequestOK(r) /\ AskedOK(r) /\ StepsOK(r) /\ TasksOK(r)
      /\ \A t \in Tasks : status[t] = "queued" => Kept(t) \/ InHand(r, t)
  BY CallOK, AloneNow
<1>2. /\ r.pc \in {"inspect", "release"} /\ r.op \in ReleaseOps /\ r.queue \in Queues
      /\ r.left \subseteq Tasks /\ UNCHANGED <<archived, queues>>
  BY <1>1 DEF InspectTask, ReleaseTask, RequestOK, ReleaseOps, Requests, docs
<1>3. \A t \in Tasks : InHand(r, t) <=> exec_queue[t] = r.queue /\ t \in r.left
  BY <1>2 DEF InHand, TakesOut, ReleaseOps, DequeueOps
<1>4. \A t \in Tasks : r.op # "remove_task" /\ status[t] = "queued" /\ exec_queue[t] = r.queue =>
        t \in r.left
  BY <1>1, <1>2 DEF TasksOK, ReleaseOps
<1>5. CASE InspectTask(c)
  <2>1. PICK t \in r.left :
          Goto(c, IF Exists(t) /\ exec_queue[t] = r.queue
                  THEN [r EXCEPT !.pc = "release", !.task = t, !.st = status[t],
                                 !.tgt = PriorStatus(t)]
                  ELSE ReleasedOne([r EXCEPT !.task = t]))
    BY <1>5 DEF InspectTask
  <2>2. t \in Tasks /\ UNCHANGED <<docs, queues>>
    BY <1>2, <1>5 DEF InspectTask
  <2>3. CASE Exists(t) /\ exec_queue[t] = r.queue
    <3> PICK n : n = [r EXCEPT !.pc = "release", !.task = t, !.st = status[t],
                               !.tgt = PriorStatus(t)]
      OBVIOUS
    <3>1. /\ Goto(c, n) /\ n.op = r.op /\ n.pc = "release" /\ n.queue = r.queue
          /\ n.left = r.left /\ n.task = t /\ n.st = status[t] /\ n.tgt = PriorStatus(t)
          /\ n.opt = r.opt
      BY <1>1, <2>1, <2>3 DEF Requests
    <3>2. n.tgt # "queued"
      BY <2>2, <3>1 DEF PriorStatus, AInv
    <3>3. AskedOK(n)
      BY <1>1, <1>2, <3>1, <3>2 DEF AskedOK, ReleaseOps
    <3>4. StepsOK(n) /\ QueuesOK(n)
      BY <1>2, <3>1 DEF StepsOK, QueuesOK, ReleaseOps
    <3>5. TasksOK(n)
      BY <1>2, <1>4, <3>1 DEF TasksOK, TakesOut, DequeueOps, ReleaseOps
    <3>6. \A u \in Tasks : status[u] = "queued" => Kept(u) \/ InHand(n, u)
      BY <1>1, <1>2, <1>3, <3>1 DEF InHand
    <3> QED
      BY <2>2, <3>1, <3>3, <3>4, <3>5, <3>6, AloneLocal
  <2>4. CASE ~(Exists(t) /\ exec_queue[t] = r.queue)
    <3> PICK m : m = [r EXCEPT !.task = t]
      OBVIOUS
    <3>1. /\ m \in Requests /\ m.op = r.op /\ m.queue = r.queue /\ m.left = r.left
          /\ m.task = t /\ m.tgt = r.tgt /\ m.opt = r.opt
      BY <1>1, <2>2 DEF Requests
    <3>2. Goto(c, ReleasedOne(m))
      BY <2>1, <2>4
    <3>3. AskedOK(m)
      BY <1>1, <1>2, <3>1 DEF AskedOK, ReleaseOps
    <3>4. UNCHANGED <<status, enqueue_status, exec_queue, entries>>
      BY <2>2 DEF docs, queues
    <3>5. \A u \in Tasks : status[u] = "queued" /\ exec_queue[u] = r.queue => u # t
      BY <2>4 DEF Exists, Absent
    <3>6. \A u \in Tasks : status'[u] = "queued" =>
            /\ Kept(u)' \/ (exec_queue'[u] = m.queue /\ u \in m.left)
            /\ exec_queue'[u] = m.queue => u # m.task
            /\ m.op # "remove_task" /\ exec_queue'[u] = m.queue => u \in m.left
      BY <1>1, <1>3, <1>4, <3>1, <3>4, <3>5, KeptFrame
    <3>7. \A u \in Tasks : enqueue_status'[u] # "queued"
      BY <3>4 DEF AInv
    <3> QED
      BY <1>2, <3>1, <3>2, <3>3, <3>6, <3>7, ReleasedAlone
  <2> QED
    BY <2>3, <2>4
<1>6. CASE ReleaseTask(c)
  <2>1. r.pc = "release" /\ Goto(c, ReleasedOne(r)) /\ r.task \in Tasks
    BY <1>1, <1>6 DEF ReleaseTask, RequestOK
  <2>2. r.tgt # "queued"
    BY <1>1, <1>2 DEF AskedOK, ReleaseOps
  <2>3. \/ UNCHANGED <<status, enqueue_status, exec_queue>> /\ ~StillAsRead(r)
        \/ /\ status' = [status EXCEPT ![r.task] = r.tgt]
           /\ enqueue_status' = [enqueue_status EXCEPT ![r.task] = None]
           /\ exec_queue' = [exec_queue EXCEPT ![r.task] = None]
    BY <1>6 DEF ReleaseTask
  <2>4. \A t \in Tasks : enqueue_status'[t] # "queued"
    BY <2>3, NoneIsNothing, StatusNames DEF AInv, IInv, TypeOK
  <2>5. \A t \in Tasks : status'[t] = "queued" =>
          t # r.task /\ status[t] = "queued" /\ exec_queue'[t] = exec_queue[t]
    <3>1. ~StillAsRead(r) => status[r.task] # "queued"
      BY <1>1, <2>1 DEF TasksOK, StillAsRead
    <3> QED
      BY <2>1, <2>2, <2>3, <3>1 DEF IInv, TypeOK
  <2>6. \A t \in Tasks : status'[t] = "queued" /\ Kept(t) => Kept(t)'
    BY <1>2, <2>5 DEF Kept, InQueue, queues
  <2>7. \A t \in Tasks : status'[t] = "queued" =>
          /\ Kept(t)' \/ (exec_queue'[t] = r.queue /\ t \in r.left)
          /\ exec_queue'[t] = r.queue => t # r.task
          /\ r.op # "remove_task" /\ exec_queue'[t] = r.queue => t \in r.left
    BY <1>1, <1>3, <1>4, <2>5, <2>6
  <2> QED
    BY <1>1, <1>2, <2>1, <2>4, <2>7, ReleasedAlone
<1> QED
  BY <1>5, <1>6

(* By then no queued task's execution.queue names the queue that goes.     *)
LEMMA EmptyingAlone ==
  ASSUME OneAtATime, IInv, AInv, NEW c \in Calls,
         EmptyQueue(c) \/ DropQueue(c) \/ RepositionEntry(c)
  PROVE  AInv'
<1> PICK r : r = call[c]
  OBVIOUS
<1>1. /\ r \in Requests /\ RequestOK(r) /\ StepsOK(r) /\ TasksOK(r)
      /\ \A t \in Tasks : status[t] = "queued" => Kept(t) \/ InHand(r, t)
  BY CallOK, AloneNow
<1>2. /\ r.pc \in {"empty", "drop", "reposition"} /\ r.queue \in Queues
      /\ UNCHANGED docs /\ Goto(c, Idle)
  BY <1>1 DEF EmptyQueue, DropQueue, RepositionEntry, RequestOK
<1>3. UNCHANGED <<status, enqueue_status, exec_queue>>
  BY <1>2 DEF docs
<1>4. \A t \in Tasks : status[t] = "queued" => Kept(t)
  <2>1. \A t \in Tasks : ~InHand(r, t)
    BY <1>2 DEF InHand, TakesOut
  <2> QED
    BY <1>1, <2>1
<1>5. \A t \in Tasks : enqueue_status'[t] # "queued"
  BY <1>3 DEF AInv
<1>6. CASE EmptyQueue(c) \/ DropQueue(c)
  <2>1. /\ r.pc \in {"empty", "drop"} /\ r.op \in {"clear_queue", "delete_queue"}
        /\ entries' = [entries EXCEPT ![r.queue] = <<>>]
    BY <1>1, <1>6 DEF EmptyQueue, DropQueue, StepsOK
  <2>2. \A t \in Tasks : status[t] = "queued" => exec_queue[t] # r.queue
    BY <1>1, <2>1 DEF TasksOK
  <2>3. \A q \in Queues : q # r.queue => entries'[q] = entries[q]
    BY <2>1 DEF IInv, TypeOK
  <2>4. \A t \in Tasks : status'[t] = "queued" => Kept(t)'
    BY <1>3, <1>4, <2>2, <2>3, TaskOK DEF Kept, InQueue
  <2> QED
    BY <1>2, <1>5, <2>4, AloneEnds
<1>7. CASE RepositionEntry(c)
  <2>1. \A t \in Tasks, q \in Queues : InQueue(t, q) => InQueue(t, q)'
    <3>1. CASE Live(r.queue) /\ InQueue(r.task, r.queue)
      <4>1. entries' = [entries EXCEPT ![r.queue] = Repositioned(entries[r.queue], r.task, r.by)]
        BY <1>7, <3>1 DEF RepositionEntry
      <4>2. r.by \in Int
        BY <1>1 DEF Requests
      <4>3. \A u : Holds(entries[r.queue], u) =>
              Holds(Repositioned(entries[r.queue], r.task, r.by), u)
        BY <1>2, <3>1, <4>2, QueueOK, RepositionKeeps DEF InQueue
      <4> QED
        BY <4>1, <4>3 DEF InQueue, IInv, TypeOK
    <3>2. CASE ~(Live(r.queue) /\ InQueue(r.task, r.queue))
      <4>1. UNCHANGED entries
        BY <1>7, <3>2 DEF RepositionEntry
      <4> QED
        BY <4>1 DEF InQueue
    <3> QED
      BY <3>1, <3>2
  <2>2. \A t \in Tasks : status'[t] = "queued" => Kept(t)'
    BY <1>3, <1>4, <2>1, TaskOK DEF Kept
  <2> QED
    BY <1>2, <1>5, <2>2, AloneEnds
<1> QED
  BY <1>6, <1>7

LEMMA StepAlone == ASSUME OneAtATime, IInv, AInv, [Next]_vars PROVE AInv'
<1>1. ASSUME NEW q \in Queues, CreateQueue(q)
      PROVE  AInv'
  <2>1. UNCHANGED <<status, enqueue_status, exec_queue, entries, call>>
    BY <1>1 DEF CreateQueue, docs
  <2>2. \A p \in Queues : Live(p) => Live(p)'
    BY <1>1 DEF CreateQueue, Live, IInv, TypeOK
  <2>3. ASSUME NEW c \in Calls
        PROVE  Alone(call[c])'
    <3> PICK r : r = call[c]
      OBVIOUS
    <3>1. r \in Requests /\ RequestOK(r) /\ Alone(r) /\ call'[c] = r
      BY <2>1, CallOK DEF AInv
    <3>2. /\ r.pc \in {"push", "pushed", "set_queue", "pull", "pulled", "missed"} =>
               r.queue \in Queues
          /\ r.op = "move_task" /\ r.pc \in {"pulled", "check", "push"} => Home(r) \in Queues
      BY <3>1 DEF RequestOK, Home, Requests
    <3>3. QueuesOK(r)'
      BY <2>1, <2>2, <3>1, <3>2 DEF Alone, QueuesOK, MayPush, InQueue
    <3>4. TasksOK(r)'
      BY <2>1, <3>1 DEF Alone, TasksOK, Kept, InQueue
    <3> QED
      BY <3>1, <3>3, <3>4 DEF Alone
  <2>4. \A t \in Tasks : status'[t] = "queued" => Kept(t)' \/ \E c \in Calls : InHand(call[c], t)'
    BY <2>1 DEF AInv, Kept, InQueue, InHand
  <2> QED
    BY <2>1, <2>3, <2>4 DEF AInv
<1>2. ASSUME NEW c \in Calls, Begin(c)
      PROVE  AInv'
  BY <1>2, BeginAlone
<1>3. ASSUME NEW c \in Calls, Proceed(c)
      PROVE  AInv'
  BY <1>3, ChangeAlone, AddingAlone, EnqueuingAlone, SweepAlone, FindingAlone, PullingAlone,
     CleanupAlone, SavingAlone, HandedAlone, ReleasingAlone, EmptyingAlone DEF Proceed
<1>4. \A c \in Calls : ~Crash(c)
  BY DEF Crash, OneAtATime
<1>5. CASE UNCHANGED vars
  BY <1>5, AloneFrame DEF vars, docs
<1> QED
  BY <1>1, <1>2, <1>3, <1>4, <1>5 DEF Next

(* Requests served one after the other, in any order and with any targets: *)
(* when none is under way, a queued task is in the queue its               *)
(* execution.queue names, where tasks.dequeue and the requests like it     *)
(* look for it.  Within a request the two disagree: the task is then one   *)
(* the request will yet put in its queue or give another status.           *)
THEOREM QueuedTasksAreWhereTheySay == ASSUME OneAtATime PROVE Spec => []QueuedIsInItsQueue
<1>1. Init => AInv
  BY IdleAlone, NoneIsNothing, StatusNames DEF Init, AInv, Alone
<1>2. IInv /\ AInv /\ [Next]_vars => AInv'
  BY StepAlone
<1>3. AInv => QueuedIsInItsQueue
  BY IdleAlone DEF AInv, QueuedIsInItsQueue, AllIdle, Kept
<1> QED
  BY <1>1, <1>2, <1>3, Invariant, PTL DEF Spec

(***************************************************************************)
(* That a queued task has a status to go back to, when requests are served *)
(* one after the other: agents and forced publishes included, which a      *)
(* thread beside them could keep from ending as they do alone.             *)
(***************************************************************************)
NotedOK(r) ==
  /\ r.op = "enqueue" => r.es # None
  /\ r.op = "publish" /\ r.es = "queued" => enqueue_status[r.task] # None

(* The agent will start the task it queued anew.                           *)
Starts(r, t) ==
  /\ r.op = "agent" /\ r.task = t
  /\ r.pc = "start" \/ (r.pc = "change" /\ r.st = "queued")

NInv ==
  /\ \A c \in Calls : NotedOK(call[c])
  /\ \A t \in Tasks : status[t] = "queued" =>
       enqueue_status[t] # None \/ \E c \in Calls : Starts(call[c], t)

LEMMA NotedNow ==
  ASSUME OneAtATime, NInv, NEW c \in Calls
  PROVE  /\ NotedOK(call[c])
         /\ \A t \in Tasks : status[t] = "queued" =>
              enqueue_status[t] # None \/ Starts(call[c], t)
<1>1. \A d \in Calls : d = c
  BY DEF OneAtATime
<1> QED
  BY <1>1 DEF NInv

LEMMA NotedAfter ==
  ASSUME OneAtATime, NEW c \in Calls, NEW n, call'[c] = n, NotedOK(n)',
         \A t \in Tasks : status'[t] = "queued" => enqueue_status'[t] # None \/ Starts(n, t)
  PROVE  NInv'
<1>1. \A d \in Calls : d = c
  BY DEF OneAtATime
<1>2. \A d \in Calls : NotedOK(call[d])'
  BY <1>1 DEF NotedOK
<1> QED
  BY <1>1, <1>2 DEF NInv, Starts

LEMMA IdleNoted == NotedOK(Idle) /\ NotedOK(Idle)' /\ \A t : ~Starts(Idle, t)
  BY IdleFields DEF NotedOK, Starts

(* A step that leaves the statuses alone.                                  *)
LEMMA NotedLocal ==
  ASSUME OneAtATime, IInv, NInv, NEW c \in Calls, NEW n, Goto(c, n),
         UNCHANGED <<status, enqueue_status>>, NotedOK(n),
         \A t \in Tasks : status[t] = "queued" /\ Starts(call[c], t) => Starts(n, t)
  PROVE  NInv'
<1>1. NotedOK(n)'
  BY DEF NotedOK
<1>2. \A t \in Tasks : status'[t] = "queued" => enqueue_status'[t] # None \/ Starts(n, t)
  BY NotedNow
<1>3. call'[c] = n
  BY DEF Goto, IInv, TypeOK
<1> QED
  BY <1>1, <1>2, <1>3, NotedAfter

(* One that begins, or ends, with every queued task's status noted.        *)
LEMMA NotedQuiet ==
  ASSUME OneAtATime, IInv, NInv, NEW c \in Calls, NEW n, Goto(c, n),
         UNCHANGED <<status, enqueue_status>>, n.op \notin {"enqueue", "publish"},
         \A t \in Tasks : status[t] = "queued" => ~Starts(call[c], t)
  PROVE  NInv'
<1>1. NotedOK(n)
  BY DEF NotedOK
<1> QED
  BY <1>1, NotedLocal

LEMMA BeginDequeueNoted ==
  ASSUME OneAtATime, IInv, NInv, NEW c \in Calls, call[c] = Idle, NEW op \in DequeueOps,
         NEW t \in Tasks, Exists(t), NEW tgt \in Statuses, NEW opt \in BOOLEAN,
         BeginDequeue(c, Dequeuing(op, t, tgt, opt))
  PROVE  NInv'
<1> PICK r : r = Dequeuing(op, t, tgt, opt)
  OBVIOUS
<1>1. r \in Requests
  BY DequeuingRequest DEF DequeueOps
<1>2. r.op = op
  BY IdleOK DEF Dequeuing, Requests
<1> PICK n : n = IF IsEnqueued(r.task) THEN At(r, "find") ELSE AfterDequeue(r)
  OBVIOUS
<1>3. Goto(c, n) /\ UNCHANGED <<status, enqueue_status>>
  BY DEF BeginDequeue, docs
<1>4. n.op \in {op, "none"}
  BY <1>1, <1>2, AtContinues, RequestContinues DEF Continues
<1>5. n.op \notin {"enqueue", "publish"}
  BY <1>4 DEF DequeueOps
<1> QED
  BY <1>3, <1>5, IdleNoted, NotedQuiet

LEMMA BeginNoted ==
  ASSUME OneAtATime, IInv, NInv, NEW c \in Calls, Begin(c)
  PROVE  NInv'
<1>1. ASSUME NEW n, Goto(c, n), call[c] = Idle, UNCHANGED <<docs, queues>>,
             n.op \notin {"enqueue", "publish"}
      PROVE  NInv'
  BY <1>1, IdleNoted, NotedQuiet DEF docs
<1>2. ASSUME NEW n, Goto(c, n), call[c] = Idle, UNCHANGED <<docs, queues>>, NotedOK(n)
      PROVE  NInv'
  BY <1>2, IdleNoted, NotedLocal DEF docs
<1>3. ASSUME NEW t \in Tasks, NEW q \in Queues, NEW force \in Forces, NEW upd \in Options,
             Enqueue(c, t, q, force, upd)
      PROVE  NInv'
  <2> PICK n : n = [Idle EXCEPT !.op = "enqueue", !.pc = "change", !.task = t,
                      !.queue = q, !.st = status[t], !.tgt = "queued",
                      !.es = BeforeEnqueueStatus(t), !.opt = upd]
    OBVIOUS
  <2>1. n.op = "enqueue" /\ n.es = BeforeEnqueueStatus(t)
    BY IdleOK DEF Requests
  <2>2. /\ call[c] = Idle /\ Goto(c, n) /\ UNCHANGED <<docs, queues>>
        /\ status[t] # "queued" /\ status[t] # None
    BY <1>3, ConstantsAssumption, NoneIsNothing DEF Enqueue, Accepts, OneAtATime
  <2>3. NotedOK(n)
    BY <2>1, <2>2 DEF NotedOK, BeforeEnqueueStatus
  <2> QED
    BY <1>2, <2>2, <2>3
<1>4. ASSUME NEW t \in Tasks, NEW q \in Queues, NEW upd \in Options, RemoveTask(c, t, q, upd)
      PROVE  NInv'
  BY <1>1, <1>4, IdleOK DEF RemoveTask, Accepts, Requests
<1>5. ASSUME NEW t \in Tasks, NEW q \in Queues, NEW p \in Queues, NEW upd \in Options,
             MoveTask(c, t, q, p, upd)
      PROVE  NInv'
  BY <1>1, <1>5, IdleOK DEF MoveTask, Accepts, Requests
<1>6. ASSUME NEW t \in Tasks, NEW q \in Queues, NEW by, Reposition(c, t, q, by)
      PROVE  NInv'
  BY <1>1, <1>6, IdleOK DEF Reposition, Accepts, Requests
<1>7. ASSUME NEW t \in Tasks, NEW s \in NewStatuses \cup {None}, NEW all \in Options,
             Dequeue(c, t, s, all)
      PROVE  NInv'
  <2>1. (IF s # None THEN s ELSE PriorStatus(t)) \in Statuses /\ all \in BOOLEAN
    BY TaskOK, ConstantsAssumption
  <2>2. "dequeue" \in DequeueOps
    BY DEF DequeueOps
  <2> QED
    BY <1>7, <2>1, <2>2, BeginDequeueNoted DEF Dequeue, Accepts
<1>8. ASSUME NEW t \in Tasks, DequeueDeleted(c, t)
      PROVE  NInv'
  BY <1>1, <1>8, IdleOK DEF DequeueDeleted, Accepts, Sweeping, Requests
<1>9. ASSUME NEW t \in Tasks, NEW force \in Forces,
             \/ Stop(c, t, force) \/ Reset(c, t, force)
             \/ \E op \in {"delete", "trash"} : Delete(c, t, force, op)
      PROVE  NInv'
  <2>1. /\ force \in BOOLEAN /\ FALSE \in BOOLEAN /\ PriorStatus(t) \in Statuses
        /\ "stopped" \in Statuses /\ "created" \in Statuses
    BY TaskOK, ConstantsAssumption, StatusNames
  <2>2. \A op \in {"stop", "reset", "delete", "trash"} : op \in DequeueOps
    BY DEF DequeueOps
  <2>3. CASE Stop(c, t, force)
    BY <2>1, <2>2, <2>3, BeginDequeueNoted DEF Stop, Accepts
  <2>4. CASE Reset(c, t, force)
    BY <2>1, <2>2, <2>4, BeginDequeueNoted DEF Reset, Accepts
  <2>5. ASSUME NEW op \in {"delete", "trash"}, Delete(c, t, force, op)
        PROVE  NInv'
    BY <2>1, <2>2, <2>5, BeginDequeueNoted DEF Delete, Accepts
  <2> QED
    BY <1>9, <2>3, <2>4, <2>5
<1>10. ASSUME NEW t \in Tasks, Archive(c, t)
       PROVE  NInv'
  <2>1. (IF status[t] = "in_progress" THEN "stopped" ELSE PriorStatus(t)) \in Statuses
        /\ FALSE \in BOOLEAN /\ "archive" \in DequeueOps
    BY TaskOK, StatusNames DEF DequeueOps
  <2> QED
    BY <1>10, <2>1, BeginDequeueNoted DEF Archive, Accepts
<1>11. ASSUME NEW t \in Tasks, NEW s \in Reports, NEW force, Report(c, t, s, force)
       PROVE  NInv'
  BY <1>1, <1>11, IdleOK DEF Report, Accepts, Requests
<1>12. ASSUME NEW t \in Tasks, NEW force, Publish(c, t, force)
       PROVE  NInv'
  <2> PICK n : n = [Idle EXCEPT !.op = "publish", !.pc = "set_publishing", !.task = t,
                      !.st = "publishing", !.tgt = "published", !.es = PreviousStatus(t)]
    OBVIOUS
  <2>1. n.op = "publish" /\ n.task = t /\ n.es = status[t]
    BY IdleOK DEF Requests, PreviousStatus
  <2>2. call[c] = Idle /\ Goto(c, n) /\ UNCHANGED <<docs, queues>>
    BY <1>12 DEF Publish, Accepts
  <2>3. NotedOK(n)
    BY <2>1, <2>2, NotedNow, IdleNoted DEF NotedOK
  <2> QED
    BY <1>2, <2>2, <2>3
<1>13. ASSUME NEW t \in Tasks, Unarchive(c, t)
       PROVE  NInv'
  BY <1>13 DEF Unarchive, NInv, NotedOK, Starts
<1>14. ASSUME NEW q \in Queues, NEW op \in {"get_next_task", "agent"}, GetNextTask(c, q, op)
       PROVE  NInv'
  <2> PICK e : e = entries[q][NextUp(entries[q])]
    OBVIOUS
  <2> PICK n : n = [Idle EXCEPT !.op = op, !.pc = "popped", !.task = e.task, !.ent = e]
    OBVIOUS
  <2>1. n.op \notin {"enqueue", "publish"}
    BY IdleOK DEF Requests
  <2>2. call[c] = Idle /\ Goto(c, n) /\ UNCHANGED <<status, enqueue_status>>
    BY <1>14 DEF GetNextTask, Accepts, docs
  <2> QED
    BY <2>1, <2>2, IdleNoted, NotedQuiet
<1>15. ASSUME NEW q \in Queues, NEW force, ClearQueue(c, q) \/ DeleteQueue(c, q, force)
       PROVE  NInv'
  BY <1>1, <1>15, IdleOK DEF ClearQueue, DeleteQueue, Accepts, Requests
<1>16. ASSUME NEW t \in Tasks, NEW q \in Queues, NEW upd, AddTask(c, t, q, upd)
       PROVE  NInv'
  BY <1>16 DEF AddTask, Accepts, OneAtATime
<1> QED
  BY <1>3, <1>4, <1>5, <1>6, <1>7, <1>8, <1>9, <1>10, <1>11, <1>12, <1>13, <1>14, <1>15, <1>16
  DEF Begin

(* While it is served, an enqueue or a publish keeps what it read.         *)
LEMMA KeepsRead ==
  ASSUME OneAtATime, IInv, NEW c \in Calls, NEW r, r = call[c], StepsOK(r),
         r.op \in {"enqueue", "publish"}, Proceed(c)
  PROVE  \E n : Goto(c, n) /\ (n = Idle \/ Same(n, r))
<1> DEFINE P == \E n : Goto(c, n) /\ (n = Idle \/ Same(n, r))
<1>1. r \in Requests /\ RequestOK(r)
  BY CallOK
<1>2. /\ r.pc \notin {"find", "pull", "pulled", "missed", "inspect", "release", "empty", "drop",
                      "reposition", "to_trash", "cleanup", "popped", "recheck", "requeue", "start"}
      /\ r.pc \in {"check", "push", "pushed", "undo", "set_queue", "sweep"} => r.op = "enqueue"
  BY <1>1 DEF RequestOK, StepsOK, DequeueOps
<1>3. /\ \A pc : Same(At(r, pc), r)
      /\ \A qs : Same(Sweeping(r, qs), r) /\ Same([r EXCEPT !.todo = qs], r)
  <2>1. \A qs : Same([r EXCEPT !.todo = qs], r)
    BY <1>1 DEF Requests, Same
  <2> QED
    BY <1>1, <2>1, AtSame, SweepingSame
<1>4. /\ Goto(c, Idle) => P
      /\ \A pc : Goto(c, At(r, pc)) => P
      /\ \A qs : Goto(c, Sweeping(r, qs)) \/ Goto(c, [r EXCEPT !.todo = qs]) => P
  BY <1>3
<1> HIDE DEF P
<1>5. Change(c) => P
  BY <1>4 DEF Change, ChangeDone, ChangeFailed
<1>6. CheckQueue(c) \/ PushEntry(c) \/ LogPushed(c) => P
  <2>1. r.op = "enqueue" => AddFailed(r) = At(r, "undo")
    BY DEF AddFailed
  <2> QED
    BY <1>2, <1>4, <2>1 DEF CheckQueue, PushEntry, LogPushed, Added
<1>7. UndoEnqueue(c) \/ SetExecutionQueue(c) => P
  BY <1>4 DEF UndoEnqueue, SetExecutionQueue
<1>8. Sweep(c) => P
  <2>1. Sweep(c) => r.op = "enqueue"
    BY <1>2 DEF Sweep
  <2>2. r.op = "enqueue" => SweepDone(r) = Idle
    BY DEF SweepDone
  <2> QED
    BY <1>4, <2>1, <2>2 DEF Sweep
<1>9. SavePublishing(c) \/ RestoreStatus(c) \/ EraseTask(c) \/ TagArchived(c) => P
  BY <1>4 DEF SavePublishing, RestoreStatus, EraseTask, TagArchived
<1>10. P
  BY <1>2, <1>5, <1>6, <1>7, <1>8, <1>9
  DEF Proceed, FindEntry, PullEntry, LogPulled, CleanupTask, SaveForTrash, LogPopped,
      RecheckStatus, RequeueStopped, StartTask, InspectTask, ReleaseTask, EmptyQueue, DropQueue,
      RepositionEntry
<1> QED
  BY <1>10 DEF P

LEMMA StaysNoted ==
  ASSUME OneAtATime, IInv, AInv, NInv, NEW c \in Calls, Proceed(c), NEW n, call'[c] = n,
         call[c].op = "publish" => UNCHANGED enqueue_status
  PROVE  NotedOK(n)'
<1> PICK r : r = call[c]
  OBVIOUS
<1>1. NotedOK(r) /\ StepsOK(r)
  BY NotedNow, AloneNow
<1>2. CASE r.op \in {"enqueue", "publish"}
  <2>1. n = Idle \/ Same(n, r)
    BY <1>1, <1>2, KeepsRead DEF Goto, IInv, TypeOK
  <2>2. CASE n = Idle
    BY <2>2, IdleNoted
  <2>3. CASE Same(n, r)
    BY <1>1, <2>3 DEF NotedOK, Same
  <2> QED
    BY <2>1, <2>2, <2>3
<1>3. CASE r.op \notin {"enqueue", "publish"}
  <2>1. n.op \in {r.op, "none"}
    BY ProceedServed DEF Handles
  <2> QED
    BY <1>3, <2>1 DEF NotedOK
<1> QED
  BY <1>2, <1>3

(* A step that leaves the statuses alone, and is none of those that start  *)
(* a task.                                                                 *)
LEMMA IdleStatusNoted ==
  ASSUME OneAtATime, IInv, AInv, NInv, NEW c \in Calls, Proceed(c),
         UNCHANGED <<status, enqueue_status>>, call[c].pc \notin {"start", "change"}
  PROVE  NInv'
<1> PICK n : n = call'[c]
  OBVIOUS
<1>1. NotedOK(n)'
  BY StaysNoted
<1>2. \A t \in Tasks : ~Starts(call[c], t)
  BY DEF Starts
<1>3. \A t \in Tasks : status[t] = "queued" => enqueue_status[t] # None
  BY <1>2, NotedNow
<1> QED
  BY <1>1, <1>3, NotedAfter

(* One that gives a task a status other than "queued".                     *)
LEMMA WritesNoted ==
  ASSUME OneAtATime, IInv, AInv, NInv, NEW c \in Calls, Proceed(c),
         NEW u \in Tasks, NEW s, status' = [status EXCEPT ![u] = s], s # "queued",
         \A t \in Tasks : t # u => enqueue_status'[t] = enqueue_status[t],
         call[c].op = "publish" => UNCHANGED enqueue_status,
         \A t \in Tasks : t # u => ~Starts(call[c], t)
  PROVE  NInv'
<1> PICK n : n = call'[c]
  OBVIOUS
<1>1. NotedOK(n)'
  BY StaysNoted
<1>2. \A t \in Tasks : status'[t] = "queued" => t # u /\ status[t] = "queued"
  BY DEF IInv, TypeOK
<1>3. \A t \in Tasks : status'[t] = "queued" => enqueue_status'[t] # None
  BY <1>2, NotedNow
<1> QED
  BY <1>1, <1>3, NotedAfter

LEMMA ChangeNoted ==
  ASSUME OneAtATime, IInv, AInv, NInv, NEW c \in Calls, Change(c)
  PROVE  NInv'
<1> PICK r : r = call[c]
  OBVIOUS
<1> PICK n : n = call'[c]
  OBVIOUS
<1>1. r \in Requests /\ RequestOK(r) /\ AskedOK(r) /\ NotedOK(r) /\ Proceed(c)
  BY CallOK, AloneNow, NotedNow DEF Proceed
<1>2. r.pc = "change" /\ r.task \in Tasks /\ r.tgt \in Statuses
  BY <1>1 DEF Change, RequestOK
<1>3. \A t \in Tasks : t # r.task => ~Starts(r, t)
  BY DEF Starts
<1>4. CASE StillAsRead(r) /\ r.op = "enqueue"
  <2>1. /\ status' = [status EXCEPT ![r.task] = r.tgt]
        /\ enqueue_status' = [enqueue_status EXCEPT ![r.task] = r.es]
    BY <1>4 DEF Change
  <2>2. NotedOK(n)'
    BY <1>1, <1>4, StaysNoted
  <2>3. \A t \in Tasks : status'[t] = "queued" => enqueue_status'[t] # None
    BY <1>1, <1>2, <1>3, <1>4, <2>1, NotedNow DEF NotedOK, IInv, TypeOK
  <2> QED
    BY <2>2, <2>3, NotedAfter
<1>5. CASE StillAsRead(r) /\ r.op # "enqueue"
  <2>1. /\ status' = [status EXCEPT ![r.task] = r.tgt]
        /\ \/ enqueue_status' = enqueue_status
           \/ enqueue_status' = [enqueue_status EXCEPT ![r.task] = None] /\ r.op # "publish"
    BY <1>5 DEF Change
  <2>2. r.tgt # "queued"
    BY <1>1, <1>5 DEF AskedOK
  <2>3. \A t \in Tasks : t # r.task => enqueue_status'[t] = enqueue_status[t]
    BY <2>1 DEF IInv, TypeOK
  <2> QED
    BY <1>1, <1>2, <1>3, <2>1, <2>2, <2>3, WritesNoted
<1>6. CASE ~StillAsRead(r)
  <2>1. UNCHANGED <<status, enqueue_status>>
    BY <1>6 DEF Change
  <2>2. NotedOK(n)'
    BY <1>1, <2>1, StaysNoted
  <2>3. \A t \in Tasks : status[t] = "queued" => ~Starts(r, t)
    BY <1>2, <1>6 DEF Starts, StillAsRead
  <2>4. \A t \in Tasks : status'[t] = "queued" => enqueue_status'[t] # None
    BY <2>1, <2>3, NotedNow
  <2> QED
    BY <2>2, <2>4, NotedAfter
<1> QED
  BY <1>4, <1>5, <1>6

(* The other writes of a status: a failed enqueue, the saves of publish    *)
(* and trash, the erasure and the release of a task.                       *)
LEMMA SavingNoted ==
  ASSUME OneAtATime, IInv, AInv, NInv, NEW c \in Calls,
         \/ UndoEnqueue(c) \/ SavePublishing(c) \/ RestoreStatus(c) \/ SaveForTrash(c)
         \/ EraseTask(c) \/ ReleaseTask(c)
  PROVE  NInv'
<1> PICK r : r = call[c]
  OBVIOUS
<1>1. /\ r \in Requests /\ RequestOK(r) /\ AskedOK(r) /\ StepsOK(r) /\ TasksOK(r) /\ NotedOK(r)
      /\ Proceed(c)
  BY CallOK, AloneNow, NotedNow DEF Proceed, Alone
<1>2. /\ r.pc \in {"undo", "set_publishing", "restore", "to_trash", "erase", "release"}
      /\ r.pc \in {"undo", "set_publishing", "restore", "to_trash", "erase"} => r.task \in Tasks
  BY <1>1 DEF UndoEnqueue, SavePublishing, RestoreStatus, SaveForTrash, EraseTask, ReleaseTask,
              RequestOK
<1>3. \A t \in Tasks : ~Starts(r, t)
  BY <1>2 DEF Starts
<1>4. \A t \in Tasks : status[t] = "queued" => enqueue_status[t] # None
  BY <1>3, NotedNow
<1>5. CASE UndoEnqueue(c)
  <2>1. r.pc = "undo" /\ r.op = "enqueue"
    BY <1>1, <1>5 DEF UndoEnqueue, StepsOK
  <2>2. CASE status[r.task] = "queued"
    <3>1. /\ status' = [status EXCEPT ![r.task] = r.st]
          /\ enqueue_status' = [enqueue_status EXCEPT ![r.task] = None]
      BY <1>5, <2>2 DEF UndoEnqueue
    <3>2. \A t \in Tasks : t # r.task => enqueue_status'[t] = enqueue_status[t]
      BY <3>1 DEF IInv, TypeOK
    <3> QED
      BY <1>1, <1>2, <1>3, <2>1, <3>1, <3>2, WritesNoted DEF AskedOK
  <2>3. CASE status[r.task] # "queued"
    BY <1>1, <1>2, <1>5, <2>3, IdleStatusNoted DEF UndoEnqueue
  <2> QED
    BY <2>2, <2>3
<1>6. CASE SavePublishing(c)
  BY <1>1, <1>2, <1>3, <1>6, WritesNoted DEF SavePublishing, Save
<1>7. CASE RestoreStatus(c)
  <2>1. r.pc = "restore" /\ r.op = "publish" /\ r.task \in Tasks
    BY <1>1, <1>2, <1>7 DEF RestoreStatus, RequestOK
  <2>2. /\ status' = [status EXCEPT ![r.task] = r.es] /\ UNCHANGED enqueue_status
    BY <1>7 DEF RestoreStatus, Save
  <2> PICK n : n = call'[c]
    OBVIOUS
  <2>3. NotedOK(n)'
    BY <1>1, <2>2, StaysNoted
  <2>4. \A t \in Tasks : status'[t] = "queued" => enqueue_status'[t] # None
    BY <1>1, <1>4, <2>1, <2>2 DEF NotedOK, IInv, TypeOK
  <2> QED
    BY <2>3, <2>4, NotedAfter
<1>8. CASE SaveForTrash(c)
  <2> PICK n : n = call'[c]
    OBVIOUS
  <2>1. /\ status' = [status EXCEPT ![r.task] =
                        IF Exists(r.task) THEN status[r.task] ELSE "created"]
        /\ UNCHANGED enqueue_status
    BY <1>8 DEF SaveForTrash, Save
  <2>2. NotedOK(n)'
    BY <1>1, <2>1, StaysNoted
  <2>3. \A t \in Tasks : status'[t] = "queued" => enqueue_status'[t] # None
    BY <1>4, <2>1 DEF IInv, TypeOK
  <2> QED
    BY <2>2, <2>3, NotedAfter
<1>9. CASE EraseTask(c)
  <2>1. /\ status' = [status EXCEPT ![r.task] = Absent] /\ r.pc = "erase" /\ Goto(c, Idle)
        /\ enqueue_status' = [enqueue_status EXCEPT ![r.task] = None]
    BY <1>9 DEF EraseTask
  <2> PICK n : n = Idle
    OBVIOUS
  <2>2. NotedOK(n)' /\ call'[c] = n
    BY <2>1, IdleNoted DEF Goto, IInv, TypeOK
  <2>3. \A t \in Tasks : status'[t] = "queued" => enqueue_status'[t] # None
    BY <1>2, <1>4, <2>1 DEF Absent, IInv, TypeOK
  <2> QED
    BY <2>2, <2>3, NotedAfter
<1>10. CASE ReleaseTask(c)
  <2>1. r.pc = "release" /\ r.op \in ReleaseOps /\ r.task \in Tasks
    BY <1>1, <1>10 DEF ReleaseTask, RequestOK, ReleaseOps
  <2>2. r.tgt # "queued"
    BY <1>1, <2>1 DEF AskedOK, ReleaseOps
  <2>3. CASE StillAsRead(r)
    <3>1. /\ status' = [status EXCEPT ![r.task] = r.tgt]
          /\ enqueue_status' = [enqueue_status EXCEPT ![r.task] = None]
      BY <1>10, <2>3 DEF ReleaseTask
    <3>2. \A t \in Tasks : t # r.task => enqueue_status'[t] = enqueue_status[t]
      BY <3>1 DEF IInv, TypeOK
    <3> QED
      BY <1>1, <1>3, <2>1, <2>2, <3>1, <3>2, WritesNoted DEF ReleaseOps
  <2>4. CASE ~StillAsRead(r)
    <3>1. UNCHANGED <<status, enqueue_status>>
      BY <1>10, <2>4 DEF ReleaseTask
    <3> QED
      BY <1>1, <1>2, <3>1, IdleStatusNoted
  <2> QED
    BY <2>3, <2>4
<1> QED
  BY <1>5, <1>6, <1>7, <1>8, <1>9, <1>10

(* An agent, from the task it was handed to the task it reports started.   *)
LEMMA HandedNoted ==
  ASSUME OneAtATime, IInv, AInv, NInv, NEW c \in Calls, RequeueStopped(c) \/ StartTask(c)
  PROVE  NInv'
<1> PICK r : r = call[c]
  OBVIOUS
<1> PICK n : n = call'[c]
  OBVIOUS
<1>1. r \in Requests /\ RequestOK(r) /\ StepsOK(r) /\ Proceed(c)
  BY CallOK, AloneNow DEF Proceed
<1>2. r.pc \in {"requeue", "start"} /\ r.op = "agent" /\ r.task \in Tasks
  BY <1>1 DEF RequeueStopped, StartTask, RequestOK, StepsOK
<1>3. NotedOK(n)'
  BY <1>1, <1>2, StaysNoted
<1>4. CASE RequeueStopped(c)
  <2>1. n = At(r, "start") /\ UNCHANGED enqueue_status
    BY <1>1, <1>2, <1>4 DEF RequeueStopped, Handed, Goto, IInv, TypeOK
  <2>2. Starts(n, r.task)
    BY <1>1, <1>2, <2>1, AtSame DEF Same, Starts
  <2>3. \A t \in Tasks : t # r.task => status'[t] = status[t]
    BY <1>4 DEF RequeueStopped, IInv, TypeOK
  <2>4. \A t \in Tasks : ~Starts(r, t)
    BY <1>4 DEF RequeueStopped, Starts
  <2>5. \A t \in Tasks : status'[t] = "queued" => enqueue_status'[t] # None \/ Starts(n, t)
    BY <2>1, <2>2, <2>3, <2>4, NotedNow
  <2> QED
    BY <1>3, <2>5, NotedAfter
<1>5. CASE StartTask(c)
  <2>1. UNCHANGED <<status, enqueue_status>>
    BY <1>5 DEF StartTask, docs
  <2>2. \A t \in Tasks : Starts(r, t) => t = r.task
    BY DEF Starts
  <2>3. status[r.task] = "queued" => Starts(n, r.task)
    <3>1. status[r.task] = "queued" =>
            Exists(r.task) /\ validate_transition(status[r.task], "in_progress", FALSE)
      BY DEF Exists, Absent, validate_transition, validate_status_change, state_machine
    <3> PICK m : m = [r EXCEPT !.pc = "change", !.st = status[r.task], !.tgt = "in_progress"]
      OBVIOUS
    <3>2. status[r.task] = "queued" => n = m
      BY <1>5, <3>1 DEF StartTask, Goto, IInv, TypeOK
    <3>3. m.op = r.op /\ m.task = r.task /\ m.pc = "change" /\ m.st = status[r.task]
      BY <1>1 DEF Requests
    <3> QED
      BY <1>2, <3>2, <3>3 DEF Starts
  <2>4. \A t \in Tasks : status'[t] = "queued" => enqueue_status'[t] # None \/ Starts(n, t)
    BY <2>1, <2>2, <2>3, NotedNow
  <2> QED
    BY <1>3, <2>4, NotedAfter
<1> QED
  BY <1>4, <1>5

LEMMA StepNoted == ASSUME OneAtATime, IInv, AInv, NInv, [Next]_vars PROVE NInv'
<1>1. ASSUME UNCHANGED <<status, enqueue_status, call>>
      PROVE  NInv'
  BY <1>1 DEF NInv, NotedOK, Starts
<1>2. ASSUME NEW c \in Calls, Proceed(c)
      PROVE  NInv'
  <2>1. CASE \/ CheckQueue(c) \/ PushEntry(c) \/ LogPushed(c) \/ SetExecutionQueue(c) \/ Sweep(c)
             \/ FindEntry(c) \/ PullEntry(c) \/ LogPulled(c)
    <3>1. UNCHANGED <<status, enqueue_status>> /\ call[c].pc \notin {"start", "change"}
      BY <2>1 DEF CheckQueue, PushEntry, LogPushed, SetExecutionQueue, Sweep, FindEntry,
                  PullEntry, LogPulled, docs
    <3> QED
      BY <1>2, <3>1, IdleStatusNoted
  <2>2. CASE \/ CleanupTask(c) \/ TagArchived(c) \/ LogPopped(c) \/ RecheckStatus(c)
             \/ InspectTask(c) \/ EmptyQueue(c) \/ DropQueue(c) \/ RepositionEntry(c)
    <3>1. UNCHANGED <<status, enqueue_status>> /\ call[c].pc \notin {"start", "change"}
      BY <2>2 DEF CleanupTask, TagArchived, LogPopped, RecheckStatus, InspectTask, EmptyQueue,
                  DropQueue, RepositionEntry, docs
    <3> QED
      BY <1>2, <3>1, IdleStatusNoted
  <2> QED
    BY <1>2, <2>1, <2>2, ChangeNoted, SavingNoted, HandedNoted DEF Proceed
<1>3. \A c \in Calls : ~Crash(c)
  BY DEF Crash, OneAtATime
<1>4. ASSUME NEW q \in Queues, CreateQueue(q)
      PROVE  NInv'
  BY <1>1, <1>4 DEF CreateQueue, docs
<1>5. CASE UNCHANGED vars
  BY <1>1, <1>5 DEF vars, docs
<1> QED
  BY <1>2, <1>3, <1>4, <1>5, BeginNoted DEF Next

(* Requests served one after the other, agents and forced publishes among  *)
(* them: when none is under way, the enqueue_status of a queued task is a  *)
(* status to give it back.  Between an agent's poll and its tasks.started  *)
(* it may have none: get_next_task queues a stopped task again and notes   *)
(* nothing.                                                                *)
THEOREM PriorsAreRecordedInTurn == ASSUME OneAtATime PROVE Spec => []PriorIsRecorded
<1>1. Init => AInv /\ NInv
  <2>1. Init => AInv
    BY IdleAlone, NoneIsNothing, StatusNames DEF Init, AInv, Alone
  <2>2. Init => NInv
    BY IdleNoted DEF Init, NInv
  <2> QED
    BY <2>1, <2>2
<1>2. IInv /\ AInv /\ NInv /\ [Next]_vars => AInv' /\ NInv'
  BY StepAlone, StepNoted
<1>3. AInv /\ NInv => PriorIsRecorded
  BY IdleNoted DEF AInv, NInv, PriorIsRecorded, AllIdle
<1> QED
  BY <1>1, <1>2, <1>3, Invariant, PTL DEF Spec
==============================================================================
