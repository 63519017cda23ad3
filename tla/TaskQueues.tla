------------------------------ MODULE TaskQueues ------------------------------
(***************************************************************************)
(* The task and queue documents of the API server and the requests that    *)
(* change them.  The server runs every request in a thread of its own and  *)
(* takes no locks: a request is a sequence of MongoDB round trips, each    *)
(* atomic on one document, with what it read kept in local variables.      *)
(* Here a thread c runs one request at a time; call[c] is its local state  *)
(* and call[c].pc names the round trip it makes next.                      *)
(***************************************************************************)
EXTENDS TaskStatus, Integers, Sequences, SequencesExt

CONSTANTS
  Tasks,          \* task ids
  Queues,         \* queue ids, those of queues yet to be created included
  InitialQueues,  \* the queues that exist from the start
  Calls,          \* the server's request threads
  Serves,         \* Serves[c]: the kinds of request thread c handles
  EnqueueFrom,    \* the statuses of the tasks clients call tasks.enqueue for
  Reports,        \* the statuses clients report through the tasks.* calls
  NewStatuses,    \* the new_status values clients pass to tasks.dequeue
  Forces,         \* the values of `force' clients pass: a set of BOOLEANs
  Options,        \* the values of the requests' other boolean options
  Moves,          \* the move counts clients pass to queues.move_task_*
  Faults,         \* what may go wrong: subset of {"metrics", "crash"}
  Stamps,         \* the `added' timestamps of the queue entries
  None            \* an unset field

RequestKinds ==
  {"enqueue", "dequeue", "stop", "report", "reset", "delete", "trash", "archive",
   "unarchive", "publish", "get_next_task", "agent", "add_task", "move_task",
   "remove_task", "clear_queue", "delete_queue", "reposition"}

Entries == [task : Tasks, added : Stamps]

ASSUME ConstantsAssumption ==
  /\ InitialQueues \subseteq Queues
  /\ Serves \in [Calls -> SUBSET RequestKinds]
  /\ EnqueueFrom \subseteq Statuses
  /\ Reports \subseteq Statuses
  /\ NewStatuses \subseteq Statuses
  /\ Forces \subseteq BOOLEAN
  /\ Options \subseteq BOOLEAN
  /\ Moves \subseteq Nat
  /\ Faults \subseteq {"metrics", "crash"}
  /\ None \notin Tasks \cup Queues \cup Statuses \cup Entries

(* The status of a task whose document is deleted.                         *)
Absent == "absent"

VARIABLES
  status,          \* status[t]: Task.status, or Absent
  enqueue_status,  \* enqueue_status[t]: the status t had when it was enqueued
  exec_queue,      \* exec_queue[t]: Task.execution.queue
  archived,        \* the tasks with the `archived' system tag
  queue_state,     \* queue_state[q]: "unborn", "live" or "deleted"
  entries,         \* entries[q]: Queue.entries, oldest first
  call             \* call[c]: the local state of thread c

docs == <<status, enqueue_status, exec_queue, archived>>
queues == <<queue_state, entries>>
vars == <<docs, queues, call>>

(***************************************************************************)
(* The local state of a request.                                           *)
(*   task, queue  its target; queue is execution.queue as it was read in   *)
(*                the requests that dequeue                                *)
(*   source       the other end of a move: its target until the task is    *)
(*                taken out of its queue, and then its source              *)
(*   st, tgt      the status read and the status to write                  *)
(*   es           the enqueue_status tasks.enqueue writes, and the status  *)
(*                tasks.publish goes back to when it fails                 *)
(*   ent          the queue entry read, or handed to the agent             *)
(*   todo         the queues remove_task_from_all_queues has yet to visit  *)
(*   left         the tasks a cleared queue has yet to release             *)
(*   by           the move count                                           *)
(*   opt          the request's option: update_execution_queue (enqueue,   *)
(*                add_task, move_task), remove_from_all_queues (dequeue),  *)
(*                update_task_status (remove_task), force (reset, delete,  *)
(*                trash, delete_queue)                                     *)
(***************************************************************************)
Steps == {"idle", "change", "check", "push", "pushed", "undo", "set_queue",
          "sweep", "find", "pull", "pulled", "missed", "cleanup", "to_trash",
          "erase", "tag", "set_publishing", "restore", "popped", "recheck",
          "requeue", "start", "inspect", "release", "empty", "drop", "reposition"}

Requests ==
  [op : RequestKinds \cup {"none"}, pc : Steps,
   task : Tasks \cup {None}, queue : Queues \cup {None},
   source : Queues \cup {None}, st : Statuses \cup {None},
   tgt : Statuses \cup {None}, es : Statuses \cup {None},
   ent : Entries \cup {None}, todo : SUBSET Queues, left : SUBSET Tasks,
   by : Int, opt : BOOLEAN]

Idle ==
  [op |-> "none", pc |-> "idle", task |-> None, queue |-> None,
   source |-> None, st |-> None, tgt |-> None, es |-> None, ent |-> None,
   todo |-> {}, left |-> {}, by |-> 0, opt |-> FALSE]

At(r, pc) == [r EXCEPT !.pc = pc]
Goto(c, r) == call' = [call EXCEPT ![c] = r]
Accepts(c, op) == call[c] = Idle /\ op \in Serves[c]

Exists(t) == status[t] # Absent
Live(q) == queue_state[q] = "live"

(* Entries of the task, and Mongo's $pull of them.  A queue holds a task   *)
(* at most once (NoDuplicateEntries), so pulling every entry of t is       *)
(* removing the one there is.                                              *)
Positions(s, t) == {i \in DOMAIN s : s[i].task = t}
Holds(s, t) == Positions(s, t) # {}
InQueue(t, q) == Holds(entries[q], t)
EntryOf(s, t) == s[CHOOSE i \in Positions(s, t) : TRUE]
Pull(s, t) ==
  IF Holds(s, t) THEN RemoveAt(s, CHOOSE i \in Positions(s, t) : TRUE) ELSE s

(* Timestamps are only ever compared for equality (a stale entry is not    *)
(* the entry now in the queue), so one no entry in use carries will do.    *)
UsedStamps ==
  (UNION {{entries[q][i].added : i \in DOMAIN entries[q]} : q \in Queues})
    \cup {call[c].ent.added : c \in {d \in Calls : call[d].ent # None}}

Init ==
  /\ status = [t \in Tasks |-> "created"]
  /\ enqueue_status = [t \in Tasks |-> None]
  /\ exec_queue = [t \in Tasks |-> None]
  /\ archived = {}
  /\ queue_state = [q \in Queues |-> IF q \in InitialQueues THEN "live" ELSE "unborn"]
  /\ entries = [q \in Queues |-> <<>>]
  /\ call = [c \in Calls |-> Idle]

(* queues.create, and tasks.enqueue naming a queue that does not exist.    *)
CreateQueue(q) ==
  /\ queue_state[q] = "unborn"
  /\ queue_state' = [queue_state EXCEPT ![q] = "live"]
  /\ UNCHANGED <<docs, entries, call>>

(***************************************************************************)
(* How each request starts: the read of the task, and the checks made on   *)
(* what was read.  A request these reject changes nothing and is left out. *)
(***************************************************************************)
BeforeEnqueueStatus_AsWritten(t) == "queued"
BeforeEnqueueStatus(t) ==
  IF status[t] = "queued" /\ enqueue_status[t] # None
  THEN enqueue_status[t] ELSE status[t]

Enqueue(c, t, q, force, update_execution_queue) ==
  /\ Accepts(c, "enqueue")
  /\ status[t] \in EnqueueFrom
  /\ \/ update_execution_queue
     \/ status[t] = "queued" /\ exec_queue[t] # None
  /\ validate_transition(status[t], "queued", force)
  /\ Goto(c, [Idle EXCEPT !.op = "enqueue", !.pc = "change", !.task = t,
                !.queue = q, !.st = status[t], !.tgt = "queued",
                !.es = BeforeEnqueueStatus(t), !.opt = update_execution_queue])
  /\ UNCHANGED <<docs, queues>>

(* What a request that takes the task out of its queue reads of it, and    *)
(* where it goes first: TaskBLL.dequeue looks for the task in its queue    *)
(* only if it is queued and has one.                                       *)
Dequeuing(op, t, tgt, opt) ==
  [Idle EXCEPT !.op = op, !.task = t, !.queue = exec_queue[t],
     !.st = status[t], !.tgt = tgt, !.opt = opt]

IsEnqueued(t) == status[t] = "queued" /\ exec_queue[t] # None

PriorStatus_Unset(t) == enqueue_status[t]
PriorStatus(t) == IF enqueue_status[t] # None THEN enqueue_status[t] ELSE "created"

(* Where a request goes once its task was changed, or could not be.        *)
ChangeDone(r) ==
  CASE r.op = "archive" -> At(r, "tag")
    [] r.op \in {"delete", "trash"} -> At(r, "cleanup")
    [] OTHER -> Idle

ChangeFailed(r) == IF r.op = "publish" THEN At(r, "restore") ELSE ChangeDone(r)

(* dequeue_and_change_status changes only a queued or a running task.      *)
ChangeIfActive(r) ==
  IF r.st \in {"queued", "in_progress"} THEN At(r, "change") ELSE ChangeDone(r)

Sweeping(r, qs) == [r EXCEPT !.pc = "sweep", !.todo = qs]

(* Where a request goes after TaskBLL.dequeue.                             *)
AfterDequeue(r) ==
  CASE r.op = "stop" -> At(r, "change")
    [] r.op = "dequeue" /\ ~r.opt -> ChangeIfActive(r)
    [] OTHER -> Sweeping(r, Queues)

BeginDequeue(c, r) ==
  /\ Goto(c, IF IsEnqueued(r.task) THEN At(r, "find") ELSE AfterDequeue(r))
  /\ UNCHANGED <<docs, queues>>

Dequeue(c, t, new_status, remove_from_all_queues) ==
  /\ Accepts(c, "dequeue")
  /\ Exists(t)
  /\ BeginDequeue(c, Dequeuing("dequeue", t,
       IF new_status # None THEN new_status ELSE PriorStatus(t),
       remove_from_all_queues))

(* tasks.dequeue of a task that is deleted: only the queues are swept.     *)
DequeueDeleted(c, t) ==
  /\ Accepts(c, "dequeue")
  /\ ~Exists(t)
  /\ Goto(c, Sweeping([Idle EXCEPT !.op = "dequeue", !.task = t], Queues))
  /\ UNCHANGED <<docs, queues>>

(* tasks.stop.  A task that a worker reports for is only asked to stop (a  *)
(* message its worker acts on); any other is stopped at once, and first    *)
(* dequeued if it is queued.                                               *)
Stop(c, t, force) ==
  /\ Accepts(c, "stop")
  /\ Exists(t)
  /\ validate_transition(status[t], "stopped", force)
  /\ BeginDequeue(c, Dequeuing("stop", t, "stopped", FALSE))

(* tasks.started, stopped, failed, close and completed.                    *)
Report(c, t, new_status, force) ==
  /\ Accepts(c, "report")
  /\ Exists(t)
  /\ validate_transition(status[t], new_status, force)
  /\ Goto(c, [Idle EXCEPT !.op = "report", !.pc = "change", !.task = t,
                !.st = status[t], !.tgt = new_status])
  /\ UNCHANGED <<docs, queues>>

Reset(c, t, force) ==
  /\ Accepts(c, "reset")
  /\ Exists(t)
  /\ status[t] = "published" => force
  /\ BeginDequeue(c, Dequeuing("reset", t, "created", force))

(* tasks.delete; op is "trash" when the client asks for move_to_trash.     *)
Delete(c, t, force, op) ==
  /\ op \in {"delete", "trash"} /\ Accepts(c, op)
  /\ Exists(t)
  /\ status[t] = "created" \/ t \in archived \/ force
  /\ BeginDequeue(c, Dequeuing(op, t, PriorStatus(t), force))

Archive(c, t) ==
  /\ Accepts(c, "archive")
  /\ Exists(t)
  /\ BeginDequeue(c, Dequeuing("archive", t,
       IF status[t] = "in_progress" THEN "stopped" ELSE PriorStatus(t), FALSE))

(* Publishing writes twice: the status a failure goes back to is the one   *)
(* read here, and the second write expects the "publishing" of the first.  *)
PreviousStatus_AfterTheWrite(t) == "publishing"
PreviousStatus(t) == status[t]

Publish(c, t, force) ==
  /\ Accepts(c, "publish")
  /\ Exists(t)
  /\ force \/ validate_status_change(status[t], "published")
  /\ Goto(c, [Idle EXCEPT !.op = "publish", !.pc = "set_publishing", !.task = t,
                !.st = "publishing", !.tgt = "published", !.es = PreviousStatus(t)])
  /\ UNCHANGED <<docs, queues>>

Unarchive(c, t) ==
  /\ Accepts(c, "unarchive")
  /\ archived' = archived \ {t}
  /\ UNCHANGED <<status, enqueue_status, exec_queue, queues, call>>

StillAsRead_Ignored(r) == TRUE
StillAsRead(r) == status[r.task] = r.st

(***************************************************************************)
(* ChangeStatusRequest.execute: one update whose filter is the task's id   *)
(* and the status the request read, so it does nothing when the status has *)
(* changed since.                                                          *)
(***************************************************************************)
Change(c) ==
  LET r == call[c] IN
  /\ r.pc = "change"
  /\ IF StillAsRead(r)
     THEN /\ status' = [status EXCEPT ![r.task] = r.tgt]
          /\ enqueue_status' =
               CASE r.op = "enqueue" -> [enqueue_status EXCEPT ![r.task] = r.es]
                 [] r.op \in {"dequeue", "reset", "delete", "trash", "archive"} ->
                      [enqueue_status EXCEPT ![r.task] = None]
                 [] OTHER -> enqueue_status
          /\ exec_queue' =
               IF r.op = "reset" THEN [exec_queue EXCEPT ![r.task] = None] ELSE exec_queue
          /\ Goto(c, IF r.op = "enqueue" THEN At(r, "check") ELSE ChangeDone(r))
     ELSE /\ Goto(c, ChangeFailed(r))
          /\ UNCHANGED <<status, enqueue_status, exec_queue>>
  /\ UNCHANGED <<archived, queues>>

(***************************************************************************)
(* QueueBLL.add_task, called by tasks.enqueue, queues.add_task and         *)
(* queues.move_task_to_queue: read the queue, push unless the task is      *)
(* there by now, then reload the queue and log its metrics.  The reload    *)
(* fails if the queue was deleted, the log if Elasticsearch is down.       *)
(***************************************************************************)
AddTask(c, t, q, update_execution_queue) ==
  /\ Accepts(c, "add_task")
  /\ Goto(c, [Idle EXCEPT !.op = "add_task", !.pc = "check", !.task = t,
                !.queue = q, !.opt = update_execution_queue])
  /\ UNCHANGED <<docs, queues>>

AddFailed_NotReverted(r) ==
  IF r.op = "move_task" /\ r.source # None
  THEN [r EXCEPT !.pc = "check", !.queue = r.source, !.source = None] ELSE Idle

(* tasks.enqueue reverts the status; a move puts the task back where it    *)
(* was; the other requests report the error.                               *)
AddFailed(r) ==
  CASE r.op = "enqueue" -> At(r, "undo")
    [] r.op = "move_task" /\ r.source # None ->
         [r EXCEPT !.pc = "check", !.queue = r.source, !.source = None]
    [] OTHER -> Idle

OtherQueues_None(q) == {}
OtherQueues_All(q) == Queues
OtherQueues(q) == Queues \ {q}

(* A move that had to put its task back has no source left to return to,   *)
(* and ends with the error.                                                *)
Added(r) ==
  IF r.op = "move_task" /\ r.source = None THEN Idle
  ELSE IF r.opt THEN At(r, "set_queue")
  ELSE IF r.op = "enqueue" THEN Sweeping(r, OtherQueues(r.queue))
  ELSE Idle

(* Checked twice: on the queue as it was read, and as the filter of the    *)
(* update that pushes.                                                     *)
MayPush_NoRecheck(q, t) == Live(q)
MayPush(q, t) == Live(q) /\ ~InQueue(t, q)

Pushed(s, e) == Append(s, e)

CheckQueue(c) ==
  LET r == call[c] IN
  /\ r.pc = "check"
  /\ Goto(c, IF Live(r.queue) /\ ~InQueue(r.task, r.queue) THEN At(r, "push")
             ELSE AddFailed(r))
  /\ UNCHANGED <<docs, queues>>

PushEntry(c) ==
  LET r == call[c] IN
  /\ r.pc = "push"
  /\ IF MayPush(r.queue, r.task)
     THEN /\ Stamps \ UsedStamps # {}
          /\ LET e == [task |-> r.task, added |-> CHOOSE s \in Stamps \ UsedStamps : TRUE]
             IN entries' = [entries EXCEPT ![r.queue] = Pushed(@, e)]
          /\ Goto(c, At(r, "pushed"))
     ELSE Goto(c, AddFailed(r)) /\ UNCHANGED entries
  /\ UNCHANGED <<docs, queue_state>>

LogPushed(c) ==
  LET r == call[c] IN
  /\ r.pc = "pushed"
  /\ \/ Live(r.queue) /\ Goto(c, Added(r))
     \/ (~Live(r.queue) \/ "metrics" \in Faults) /\ Goto(c, AddFailed(r))
  /\ UNCHANGED <<docs, queues>>

(* tasks.enqueue, its push failed: back from "queued" to the status the    *)
(* request read, with enqueue_status cleared.                              *)
UndoEnqueue(c) ==
  LET r == call[c] IN
  /\ r.pc = "undo"
  /\ IF status[r.task] = "queued"
     THEN /\ status' = [status EXCEPT ![r.task] = r.st]
          /\ enqueue_status' = [enqueue_status EXCEPT ![r.task] = None]
     ELSE UNCHANGED <<status, enqueue_status>>
  /\ Goto(c, Idle)
  /\ UNCHANGED <<exec_queue, archived, queues>>

(* execution.queue is set by the task's id alone, whatever its status.     *)
SetExecutionQueue(c) ==
  LET r == call[c] IN
  /\ r.pc = "set_queue"
  /\ exec_queue' = IF Exists(r.task) THEN [exec_queue EXCEPT ![r.task] = r.queue] ELSE exec_queue
  /\ Goto(c, IF r.op = "enqueue" THEN Sweeping(r, OtherQueues(r.queue)) ELSE Idle)
  /\ UNCHANGED <<status, enqueue_status, archived, queues>>

(***************************************************************************)
(* TaskBLL.remove_task_from_all_queues: one update of many documents, each *)
(* atomic on its own.                                                      *)
(***************************************************************************)
SweepDone(r) ==
  CASE r.op = "enqueue" -> Idle
    [] r.op = "reset" -> At(r, "cleanup")
    [] OTHER -> ChangeIfActive(r)

Sweep(c) ==
  LET r == call[c] IN
  /\ r.pc = "sweep"
  /\ \/ \E q \in r.todo :
          /\ entries' = [entries EXCEPT ![q] = Pull(@, r.task)]
          /\ Goto(c, [r EXCEPT !.todo = @ \ {q}])
     \/ r.todo = {} /\ Goto(c, SweepDone(r)) /\ UNCHANGED entries
  /\ UNCHANGED <<docs, queue_state>>

(***************************************************************************)
(* QueueBLL.remove_task, called by TaskBLL.dequeue, queues.remove_task and *)
(* queues.move_task_to_queue: find the task's entry, pull that very entry  *)
(* (same task, same timestamp) provided the task is still in the queue,    *)
(* then reload and log as above.  Not finding it is an APIError, which     *)
(* TaskBLL's callers ignore; a failing reload or log is not, and ends      *)
(* every request.                                                          *)
(***************************************************************************)
RemoveTask(c, t, q, update_task_status) ==
  /\ Accepts(c, "remove_task")
  /\ Goto(c, [Idle EXCEPT !.op = "remove_task", !.pc = "find", !.task = t,
                !.queue = q, !.opt = update_task_status])
  /\ UNCHANGED <<docs, queues>>

MoveTask(c, t, q, target, update_execution_queue) ==
  /\ Accepts(c, "move_task")
  /\ Goto(c, [Idle EXCEPT !.op = "move_task", !.pc = "find", !.task = t,
                !.queue = q, !.source = target, !.opt = update_execution_queue])
  /\ UNCHANGED <<docs, queues>>

FindEntry(c) ==
  LET r == call[c] IN
  /\ r.pc = "find"
  /\ Goto(c, IF Live(r.queue) /\ InQueue(r.task, r.queue)
             THEN [r EXCEPT !.pc = "pull", !.ent = EntryOf(entries[r.queue], r.task)]
             ELSE IF r.op \in {"remove_task", "move_task"} THEN Idle
             ELSE AfterDequeue(r))
  /\ UNCHANGED <<docs, queues>>

(* The number removed the caller is told: 1 when the update matched, even  *)
(* if the entry it meant to pull was replaced by another of the same task. *)
PullEntry(c) ==
  LET r == call[c]
      q == r.queue
      matched == Live(q) /\ InQueue(r.task, q)
  IN
  /\ r.pc = "pull"
  /\ entries' = IF matched /\ EntryOf(entries[q], r.task) = r.ent
                THEN [entries EXCEPT ![q] = Pull(@, r.task)] ELSE entries
  /\ Goto(c, CASE r.op # "remove_task" ->
                    [r EXCEPT !.pc = IF matched THEN "pulled" ELSE "missed", !.ent = None]
               [] r.op = "remove_task" /\ matched /\ r.opt ->
                    [r EXCEPT !.pc = "inspect", !.left = {r.task}, !.ent = None]
               [] OTHER -> Idle)
  /\ UNCHANGED <<docs, queue_state>>

LogPulled(c) ==
  LET r == call[c] IN
  /\ r.pc \in {"pulled", "missed"}
  /\ \/ /\ Live(r.queue)
        /\ Goto(c, CASE r.op # "move_task" -> AfterDequeue(r)
                     [] r.op = "move_task" /\ r.pc = "pulled" ->
                          [r EXCEPT !.pc = "check", !.queue = r.source, !.source = r.queue]
                     [] OTHER -> Idle)
     \/ (~Live(r.queue) \/ "metrics" \in Faults) /\ Goto(c, Idle)
  /\ UNCHANGED <<docs, queues>>

(***************************************************************************)
(* The ends of reset_task, delete_task and archive_task.  cleanup_task     *)
(* refuses a task with published children or models unless forced; what it *)
(* does to models and children is left out.                                *)
(***************************************************************************)
CleanupTask(c) ==
  LET r == call[c] IN
  /\ r.pc = "cleanup"
  /\ \/ Goto(c, CASE r.op = "delete" -> At(r, "erase")
                  [] r.op = "trash" -> At(r, "to_trash")
                  [] r.op = "reset" /\ validate_transition(r.st, "created", r.opt) ->
                       At(r, "change")
                  [] OTHER -> Idle)
     \/ ~r.opt /\ Goto(c, Idle)
  /\ UNCHANGED <<docs, queues>>

(***************************************************************************)
(* Document.save, of tasks.publish and of tasks.delete with move_to_trash. *)
(* Its update names the task's id only and is an upsert: a task deleted    *)
(* since it was read comes back, with the defaults in the fields not saved.*)
(***************************************************************************)
Save(t, s) == status' = [status EXCEPT ![t] = s]

(* What may fail before the second write is publishing the task's model.   *)
SavePublishing(c) ==
  LET r == call[c] IN
  /\ r.pc = "set_publishing"
  /\ Save(r.task, "publishing")
  /\ Goto(c, At(r, "change")) \/ Goto(c, At(r, "restore"))
  /\ UNCHANGED <<enqueue_status, exec_queue, archived, queues>>

RestoreStatus(c) ==
  LET r == call[c] IN
  /\ r.pc = "restore"
  /\ Save(r.task, r.es)
  /\ Goto(c, Idle)
  /\ UNCHANGED <<enqueue_status, exec_queue, archived, queues>>

SaveForTrash(c) ==
  LET r == call[c] IN
  /\ r.pc = "to_trash"
  /\ Save(r.task, IF Exists(r.task) THEN status[r.task] ELSE "created")
  /\ Goto(c, At(r, "erase"))
  /\ UNCHANGED <<enqueue_status, exec_queue, archived, queues>>

EraseTask(c) ==
  LET t == call[c].task IN
  /\ call[c].pc = "erase"
  /\ status' = [status EXCEPT ![t] = Absent]
  /\ enqueue_status' = [enqueue_status EXCEPT ![t] = None]
  /\ exec_queue' = [exec_queue EXCEPT ![t] = None]
  /\ archived' = archived \ {t}
  /\ Goto(c, Idle)
  /\ UNCHANGED queues

TagArchived(c) ==
  LET t == call[c].task IN
  /\ call[c].pc = "tag"
  /\ archived' = IF Exists(t) THEN archived \cup {t} ELSE archived
  /\ Goto(c, Idle)
  /\ UNCHANGED <<status, enqueue_status, exec_queue, queues>>

(***************************************************************************)
(* queues.get_next_task: pop the head, log, and put the task back to       *)
(* "queued" if it is found stopped.  A request that names the task it      *)
(* expects at the head is the same with one more guard.  The request kind  *)
(* "agent" is an agent: it polls a queue, then reports tasks.started for   *)
(* the task it was handed.                                                 *)
(***************************************************************************)
NextUp_Newest(s) == Len(s)
NextUp(s) == 1
Popped_LeftInPlace(s) == s
Popped(s) == RemoveAt(s, NextUp(s))

GetNextTask(c, q, op) ==
  /\ op \in {"get_next_task", "agent"} /\ Accepts(c, op)
  /\ Live(q) /\ entries[q] # <<>>
  /\ entries' = [entries EXCEPT ![q] = Popped(@)]
  /\ LET next == entries[q][NextUp(entries[q])]
     IN Goto(c, [Idle EXCEPT !.op = op, !.pc = "popped", !.task = next.task, !.ent = next])
  /\ UNCHANGED <<docs, queue_state>>

Handed(r) == IF r.op = "agent" THEN At(r, "start") ELSE Idle

LogPopped(c) ==
  /\ call[c].pc = "popped"
  /\ \/ Goto(c, At(call[c], "recheck"))
     \/ "metrics" \in Faults /\ Goto(c, Idle)
  /\ UNCHANGED <<docs, queues>>

RecheckStatus(c) ==
  LET r == call[c] IN
  /\ r.pc = "recheck"
  /\ Goto(c, IF status[r.task] = "stopped" THEN At(r, "requeue") ELSE Handed(r))
  /\ UNCHANGED <<docs, queues>>

(* The write names the task's id only, not the status that was read.       *)
RequeueStopped(c) ==
  LET r == call[c] IN
  /\ r.pc = "requeue"
  /\ status' = IF Exists(r.task) THEN [status EXCEPT ![r.task] = "queued"] ELSE status
  /\ Goto(c, Handed(r))
  /\ UNCHANGED <<enqueue_status, exec_queue, archived, queues>>

StartTask(c) ==
  LET r == call[c] IN
  /\ r.pc = "start"
  /\ Goto(c, IF Exists(r.task) /\ validate_transition(status[r.task], "in_progress", FALSE)
             THEN [r EXCEPT !.pc = "change", !.st = status[r.task], !.tgt = "in_progress"]
             ELSE Idle)
  /\ UNCHANGED <<docs, queues>>

(***************************************************************************)
(* queues.clear_queue and queues.delete: read the queue, release each task *)
(* that was in it, then empty or delete the queue, whatever it holds now.  *)
(***************************************************************************)
TasksIn(q) == {entries[q][i].task : i \in DOMAIN entries[q]}

ClearQueue(c, q) ==
  /\ Accepts(c, "clear_queue")
  /\ Live(q) /\ entries[q] # <<>>
  /\ Goto(c, [Idle EXCEPT !.op = "clear_queue", !.pc = "inspect", !.queue = q,
                !.left = TasksIn(q)])
  /\ UNCHANGED <<docs, queues>>

DeleteQueue(c, q, force) ==
  /\ Accepts(c, "delete_queue")
  /\ Live(q)
  /\ entries[q] = <<>> \/ force
  /\ Goto(c, [Idle EXCEPT !.op = "delete_queue",
                !.pc = IF entries[q] = <<>> THEN "drop" ELSE "inspect", !.queue = q,
                !.left = TasksIn(q), !.opt = force])
  /\ UNCHANGED <<docs, queues>>

(* _update_task_status_on_removal_from_queue, for one of the tasks left: a *)
(* task whose execution.queue names another queue is passed over, and so   *)
(* is one whose status changes before the update.                          *)
ReleasedOne(r) ==
  LET rest == r.left \ {r.task}
      next == [r EXCEPT !.left = rest, !.task = None, !.st = None, !.tgt = None]
  IN CASE rest # {} -> At(next, "inspect")
       [] rest = {} /\ r.op = "clear_queue" -> At(next, "empty")
       [] rest = {} /\ r.op = "delete_queue" -> At(next, "drop")
       [] OTHER -> Idle

InspectTask(c) ==
  LET r == call[c] IN
  /\ r.pc = "inspect"
  /\ \E t \in r.left :
       Goto(c, IF Exists(t) /\ exec_queue[t] = r.queue
               THEN [r EXCEPT !.pc = "release", !.task = t, !.st = status[t],
                              !.tgt = PriorStatus(t)]
               ELSE ReleasedOne([r EXCEPT !.task = t]))
  /\ UNCHANGED <<docs, queues>>

ReleaseTask(c) ==
  LET r == call[c] IN
  /\ r.pc = "release"
  /\ IF StillAsRead(r)
     THEN /\ status' = [status EXCEPT ![r.task] = r.tgt]
          /\ enqueue_status' = [enqueue_status EXCEPT ![r.task] = None]
          /\ exec_queue' = [exec_queue EXCEPT ![r.task] = None]
     ELSE UNCHANGED <<status, enqueue_status, exec_queue>>
  /\ Goto(c, ReleasedOne(r))
  /\ UNCHANGED <<archived, queues>>

EmptyQueue(c) ==
  LET q == call[c].queue IN
  /\ call[c].pc = "empty"
  /\ entries' = [entries EXCEPT ![q] = <<>>]
  /\ Goto(c, Idle)
  /\ UNCHANGED <<docs, queue_state>>

DropQueue(c) ==
  LET q == call[c].queue IN
  /\ call[c].pc = "drop"
  /\ queue_state' = [queue_state EXCEPT ![q] = "deleted"]
  /\ entries' = [entries EXCEPT ![q] = <<>>]
  /\ Goto(c, Idle)
  /\ UNCHANGED docs

(***************************************************************************)
(* queues.move_task_forward, backward, to_front and to_back: the read only *)
(* finds out whether there is anything to do; the update computes the new  *)
(* position from the queue as it then is.  To the front (back) is a move   *)
(* by more than the queue's length.                                        *)
(***************************************************************************)
Repositioned(s, t, by) ==
  LET pos == CHOOSE i \in Positions(s, t) : TRUE
      rest == RemoveAt(s, pos)
      new == pos - 1 + by
      bounded == IF new <= 0 THEN 0 ELSE IF new >= Len(rest) THEN Len(rest) ELSE new
  IN InsertAt(rest, 1 + bounded, s[pos])

Reposition(c, t, q, by) ==
  /\ Accepts(c, "reposition")
  /\ Live(q) /\ InQueue(t, q) /\ by # 0
  /\ Goto(c, [Idle EXCEPT !.op = "reposition", !.pc = "reposition", !.task = t,
                !.queue = q, !.by = by])
  /\ UNCHANGED <<docs, queues>>

RepositionEntry(c) ==
  LET r == call[c] IN
  /\ r.pc = "reposition"
  /\ entries' = IF Live(r.queue) /\ InQueue(r.task, r.queue)
                THEN [entries EXCEPT ![r.queue] = Repositioned(@, r.task, r.by)] ELSE entries
  /\ Goto(c, Idle)
  /\ UNCHANGED <<docs, queue_state>>

(* The server is killed: a request stops between two of its round trips,   *)
(* and nothing resumes it.                                                 *)
Crash(c) ==
  /\ "crash" \in Faults
  /\ call[c] # Idle
  /\ Goto(c, Idle)
  /\ UNCHANGED <<docs, queues>>

Begin(c) ==
  \/ \E t \in Tasks :
       \/ \E q \in Queues, upd \in Options :
            \/ \E force \in Forces : Enqueue(c, t, q, force, upd)
            \/ AddTask(c, t, q, upd)
            \/ RemoveTask(c, t, q, upd)
            \/ \E target \in Queues : MoveTask(c, t, q, target, upd)
       \/ \E q \in Queues, m \in Moves : Reposition(c, t, q, m) \/ Reposition(c, t, q, -m)
       \/ \E n \in NewStatuses \cup {None}, all \in Options : Dequeue(c, t, n, all)
       \/ DequeueDeleted(c, t)
       \/ \E force \in Forces :
            \/ Stop(c, t, force) \/ Reset(c, t, force) \/ Publish(c, t, force)
            \/ \E op \in {"delete", "trash"} : Delete(c, t, force, op)
            \/ \E s \in Reports : Report(c, t, s, force)
       \/ Archive(c, t) \/ Unarchive(c, t)
  \/ \E q \in Queues :
       \/ \E op \in {"get_next_task", "agent"} : GetNextTask(c, q, op)
       \/ ClearQueue(c, q)
       \/ \E force \in Forces : DeleteQueue(c, q, force)

Proceed(c) ==
  \/ Change(c) \/ CheckQueue(c) \/ PushEntry(c) \/ LogPushed(c) \/ UndoEnqueue(c)
  \/ SetExecutionQueue(c) \/ Sweep(c) \/ FindEntry(c) \/ PullEntry(c) \/ LogPulled(c)
  \/ CleanupTask(c) \/ SaveForTrash(c) \/ EraseTask(c) \/ TagArchived(c)
  \/ SavePublishing(c) \/ RestoreStatus(c) \/ LogPopped(c)
  \/ RecheckStatus(c) \/ RequeueStopped(c) \/ StartTask(c) \/ InspectTask(c)
  \/ ReleaseTask(c) \/ EmptyQueue(c) \/ DropQueue(c) \/ RepositionEntry(c)

Next ==
  \/ \E q \in Queues : CreateQueue(q)
  \/ \E c \in Calls : Begin(c) \/ Proceed(c) \/ Crash(c)

Spec == Init /\ [][Next]_vars

(***************************************************************************)
(* Fairness: the thread of an accepted request keeps running, and an agent *)
(* keeps polling each queue that has entries.                              *)
(***************************************************************************)
Polling(q) == \E c \in Calls : GetNextTask(c, q, "agent")
Fairness ==
  /\ \A c \in Calls : WF_vars(Proceed(c))
  /\ \A q \in Queues : WF_vars(Polling(q))
FairSpec == Spec /\ Fairness

TypeOK ==
  /\ status \in [Tasks -> Statuses \cup {Absent}]
  /\ enqueue_status \in [Tasks -> Statuses \cup {None}]
  /\ exec_queue \in [Tasks -> Queues \cup {None}]
  /\ archived \subseteq Tasks
  /\ queue_state \in [Queues -> {"unborn", "live", "deleted"}]
  /\ entries \in [Queues -> Seq(Entries)]
  /\ call \in [Calls -> Requests]

(* A queue holds a task at most once, though add_task looks before it      *)
(* pushes and another request may push in between.                         *)
NoDuplicateEntries ==
  \A q \in Queues : \A i, j \in DOMAIN entries[q] :
    entries[q][i].task = entries[q][j].task => i = j

(* get_next_task pops: the entry an agent was handed is in no queue, and   *)
(* no other agent was handed it.                                           *)
HasEntry(c) == call[c].op \in {"get_next_task", "agent"}
ExclusiveDelivery ==
  \A c \in {d \in Calls : HasEntry(d)} :
    /\ \A q \in Queues : \A i \in DOMAIN entries[q] : entries[q][i] # call[c].ent
    /\ \A d \in Calls \ {c} : HasEntry(d) => call[d].ent # call[c].ent

(* However requests interleave, and whatever their stale reads make them   *)
(* write, the queues are those of FifoQueues: no task overtakes another in *)
(* a queue unless it is moved, and agents are handed the first one.        *)
Fifo ==
  INSTANCE FifoQueues WITH
    Agents <- Calls,
    line <- [q \in Queues |-> [i \in DOMAIN entries[q] |-> entries[q][i].task]],
    hand <- [c \in Calls |-> IF HasEntry(c) THEN call[c].task ELSE None]
ServesInOrder == Fifo!Spec

(* tasks.enqueue "makes sure that the task is not queued in any other      *)
(* queue" (task_operations.py:284): however enqueues of a task overlap,    *)
(* once they are done at most one queue holds it.                          *)
Enqueuing(t) == \E c \in Calls : call[c].op = "enqueue" /\ call[c].task = t
SingleQueue ==
  \A t \in Tasks : ~Enqueuing(t) =>
    \A p, q \in Queues : InQueue(t, p) /\ InQueue(t, q) => p = q

(* However requests interleave between reading a status and writing one,   *)
(* a task moves along the rules, or back from "queued" to a status it may  *)
(* be enqueued from.                                                       *)
StatusFollowsRules ==
  [][\A t \in Tasks : status'[t] \notin {status[t], Absent} =>
       \/ validate_status_change(status[t], status'[t])
       \/ status[t] = "queued" /\ validate_status_change(status'[t], "queued")]_vars

AllIdle == \A c \in Calls : call[c] = Idle

(* Requests served one after the other, whatever their order and whichever *)
(* of them fail half way: a queued task waits in the queue its             *)
(* execution.queue names, the only one the requests that dequeue look in.  *)
QueuedIsInItsQueue ==
  AllIdle => \A t \in Tasks : status[t] = "queued" =>
    exec_queue[t] # None /\ InQueue(t, exec_queue[t])

(* And its enqueue_status is a status to give it back when it is released. *)
PriorIsRecorded ==
  AllIdle => \A t \in Tasks : status[t] = "queued" => enqueue_status[t] \notin {None, "queued"}

(* A publish may fail, and may overlap with requests that stop, reset,     *)
(* enqueue or delete the task: it does not leave it "publishing", a status *)
(* nothing but another publish leads out of.                               *)
PublishingEnds == AllIdle => \A t \in Tasks : status[t] # "publishing"

(* Requests that overlap, once all are done: a queued task is in a queue.  *)
(* One that is in none is never handed out and stays queued for ever.      *)
QueuedIsInQueue ==
  AllIdle => \A t \in Tasks : status[t] = "queued" => \E q \in Queues : InQueue(t, q)

(* An agent that keeps polling is handed every entry in the end.           *)
EveryEntryIsTaken ==
  \A t \in Tasks, q \in Queues : InQueue(t, q) ~> ~InQueue(t, q)

(* And every task a request left queued is started or otherwise let go.    *)
QueuedTaskMovesOn ==
  \A t \in Tasks : status[t] = "queued" ~> status[t] # "queued"
===============================================================================
