# TLA+ models of TonOps

TonOps is a self-hosted fork of ClearML: an API server that keeps experiments
(tasks), execution queues, models and projects in MongoDB, worker registrations
in Redis and events in Elasticsearch, beside a file server, a web application,
the vendored SDK, and the services around them (`compose.yaml`). This directory
holds TLA+ models of the parts of the API server that carry a protocol, the TLC
configurations that check them, and TLAPS proofs of the results that matter most.

Paths below are relative to `src/clearml-server/apiserver/` unless they start
with `src/`.

## 1. Inventory

| component | state | operations | with whom | what is hard | what makes it correct |
|---|---|---|---|---|---|
| Task status rules `bll/task/utils.py` | none (rules) | `validate_status_change`, `ChangeStatusRequest.execute` | every request that sets a status | the status is read, checked, and written some round trips later | a task moves along the state machine only |
| Task operations `bll/task/task_operations.py`, `task_bll.py`, `services/tasks.py` | Task documents: `status`, `enqueue_status`, `execution.queue`, `system_tags` | enqueue, dequeue, stop, reset, delete, archive, unarchive, publish, the status reports | queues, cleanup | several MongoDB writes per request, no locks or transactions, partial failure | a queued task is in its queue, one queue at most |
| Execution queues `bll/queue/queue_bll.py`, `services/queues.py` | Queue documents: `entries` | create, add, remove, move, clear, delete, reposition, get_next_task | tasks, agents, Elasticsearch | overlapping pushes, pops and pulls on what was read earlier | no duplicates, FIFO, each entry handed to one agent |
| Task cleanup `bll/task/task_cleanup.py` | child tasks, models, URLs to delete | `cleanup_task`, `schedule_for_delete` | reset, delete, asynchronous deletion | scheduling while the deletion loop runs | what is scheduled is deleted or reported failed |
| Asynchronous deletion `jobs/async_urls_delete.py` | `UrlToDelete` documents, the stored files | the deletion loop, its retries | cleanup, storages | partial failure, kill between two updates, stale batch | nothing is lost, retried without end, or given up early |
| Non-responsive tasks watchdog `bll/task/non_responsive_tasks_watchdog.py` | none (a thread) | stop tasks with an old `last_update` | task documents, workers | the window between reading and stopping | a task somebody reports is not taken for silent, a silent one is stopped |
| Workers registry `bll/workers/__init__.py` | Redis keys with a time to live, sorted sets by time of expiry | register, unregister, status_report, queries that remove what has expired | agents, queues, tasks | read-modify-write of a key, three kinds of records of one worker, expiry, failures on the way | a registered worker is found, an agent that reports keeps its task fresh |
| Model registry `bll/model/`, `services/models.py` | Model documents | publish, delete, edit | task publish | publishing the model and the task together | a published task has a published model |
| Projects `bll/project/` | Project documents: name, parent, path | create, move, rename, merge, delete, and moving tasks and models | tasks, models | three records of one place in a tree, written document by document | name, parent and path agree, the depth is bounded, entities are in projects that exist |
| IAM: accounts `bll/iam/`, `services/iam.py` | accounts in two databases, a Redis lock | create, update, enable, disable, delete | every request | checks on what was read before the lock, two writes per creation and deletion | an active administrator remains, an account has its profile, the lock is freed |
| Serving registry `bll/serving/` | Redis keys | register, unregister, status_report | serving containers | as the workers registry | as the workers registry |
| Sessions and tokens `bll/auth/`, `services/auth.py` | tokens | login, issuing and checking tokens | every request | tokens of accounts that have changed | a token of an earlier `auth_version` is refused |
| Events, tags, organisation, statistics, storage settings, reports, pipelines, request dispatch, migrations, DataStudio, project assistant, file server, SDK, web, deployment | data, caches, files | | | little protocol of their own | see `components` in `PROJECT.json` |

The agent (`clearml-agent`), MongoDB, Redis and Elasticsearch are not in the
repository; what the models say of them is what the code relies on: a MongoDB
update is atomic on one document and an update of many documents is not.

`PROJECT.json` lists every hazard found in this survey with its line; the
properties below are aimed at them.

## 2. Plan

1. **Done.** Tasks and queues (`TaskStatus`, `TaskQueues`, `FifoQueues`,
   `DocumentedClaims`): the program's central protocol. Proofs: types, no
   duplicate entries, exclusive delivery, the refinement of `FifoQueues`, status
   rules, single queue, queued tasks wait in a queue, the end of
   publishing, prior statuses.
2. **Done.** Asynchronous deletion (`AsyncDelete`): the loop with its retry
   counters beside the requests that schedule URLs, with kills and failing
   chunks. Proofs: nothing is forgotten, and failures are reported when, and
   only when, the retries are used up.
3. **Done.** Workers and the watchdog (`Workers`): agents that report, die and
   return, the registrations that expire, `tasks.stop` and the watchdog, which
   act on the times of the reports. Proofs: types, tags find their workers,
   reported tasks are not silent.
4. **Done.** Accounts (`Accounts`): requests that take administrators away under
   the Redis lock. Proofs: types, an administrator remains, accounts have
   profiles.
5. **Done.** The project tree (`Projects`): creating, moving, renaming, merging
   and deleting. Proofs: types, entities are in projects that exist, and, but for
   merges, a tree of bounded depth whose subtrees are written to their end.
6. **Open.** Models and cleanup (publishing and deleting models beside
   publishing, resetting and deleting tasks, with `cleanup_task`'s writes to
   children); sessions and `auth_version`. Among the proofs, the project tree with
   merges of projects whose children have none, where merges are right.

Runs use one or two tasks, one or two queues and one or two request threads: the
races of this code are between two requests about one task, and the properties
of more than two are those the proofs cover. Recursion is avoided in every
module that is proved about.

`MCTaskQueues`, `MCAsyncDelete`, `MCAccounts` and `MCProjects` instantiate their
specifications for TLC (`Workers` needs no definitions of its own). The
specifications share no state: the URLs to delete, the accounts and the projects
are documents of collections that the requests on tasks and queues do not
decide by, and `Workers` keeps of a task only what reports, stops and the watchdog
decide by, its status and the time of its last update.

## 3. Tasks and queues

### 3.1 How the model corresponds to the code

The server handles each request in a thread of its own and takes no locks. A
request is a sequence of MongoDB round trips with what it read in local
variables. `TaskQueues` gives each thread `c` a record `call[c]`: `op` is the
request, `pc` names the round trip it makes next, the other fields are its local
variables (the status read, the status to write, the entry read, the queues yet
to sweep, ...). An action is a round trip together with the code up to the next
one; a guard is the code's condition or the filter of the update. The first
action of a request is its first read; a request that is refused there changes
nothing and is left out.

| state | code |
|---|---|
| `status`, `enqueue_status`, `exec_queue`, `archived` | `Task.status`, `.enqueue_status`, `.execution.queue`, the `archived` system tag |
| `queue_state`, `entries` | the queue's document (a queue name not yet used is "unborn") and `Queue.entries` |
| `call` | the local variables of the request each thread handles |

| request | first action | then |
|---|---|---|
| tasks.enqueue | `Enqueue` | `Change`, `CheckQueue`, `PushEntry`, `LogPushed`, (`UndoEnqueue`) or (`SetExecutionQueue`), `Sweep` |
| tasks.dequeue, stop, reset, archive, delete | `Dequeue`, `Stop`, `Reset`, `Archive`, `Delete` | `FindEntry`, `PullEntry`, `LogPulled`, `Sweep`, `Change`, then `CleanupTask`, `SaveForTrash`, `EraseTask` or `TagArchived` |
| tasks.started, stopped, failed, close, completed | `Report` | `Change` |
| tasks.publish | `Publish` | `SavePublishing`, `Change`, (`RestoreStatus`) |
| queues.get_next_task | `GetNextTask` | `LogPopped`, `RecheckStatus`, (`RequeueStopped`), and `StartTask`, `Change` for an agent |
| queues.add_task, remove_task, move_task_to_queue | `AddTask`, `RemoveTask`, `MoveTask` | as enqueue and dequeue, then `InspectTask`, `ReleaseTask` |
| queues.clear_queue, delete | `ClearQueue`, `DeleteQueue` | `InspectTask`, `ReleaseTask`, then `EmptyQueue` or `DropQueue` |
| queues.move_task_* | `Reposition` | `RepositionEntry` |

What the outside may do is in the constants. `Serves[c]` says which requests a
thread handles, so a run may pit one kind of request against others; `Faults`
adds a failing Elasticsearch ("metrics": every log after a push, pull or pop may
raise, after the write it follows) and the kill of the server between two round
trips ("crash"). `Calls`, `Stamps` and `Moves` bound threads, timestamps and
move counts.

`FifoQueues` is what users of the queues are promised: each queue is a line
without repetitions, tasks join at the end, an agent is handed the first, and
only a request that moves a task lets it overtake another. `TaskQueues`
implements it under the mapping at `Fifo`.

`DocumentedClaims` states what a comment says where the code does something else.

### 3.2 What the runs check

| run | threads and what they serve | what it shows |
|---|---|---|
| `fifo_order` | two threads, every request that touches a queue; two tasks, one queue | `ServesInOrder` (the refinement), `NoDuplicateEntries`, `ExclusiveDelivery` |
| `single_queue` | one thread enqueues and publishes, the other serves everything but add_task, move_task and a second publish; two queues | `SingleQueue`: overlapping enqueues to different queues leave the task in at most one; `PublishingEnds` |
| `status_rules` | two threads, each any request that sets a status by the rules, without `force`; both faults | `StatusFollowsRules` |
| `sequential` | one thread, every request but add_task and the bare get_next_task, with `force`; a queue that is created on the way | `TypeOK`; `QueuedIsInItsQueue`, `PriorIsRecorded` after any sequence, whichever requests are refused half way |
| `liveness` | an agent that polls beside a thread that enqueues, reports and stops; two tasks, one queue | `QueuedIsInQueue`: no queued task is stranded; `EveryEntryIsTaken`, `QueuedTaskMovesOn` |
| `claim_enqueue_undone` | a thread that enqueues, with a failing log | the code does not do what its comment says (section 3.6) |

**Bounds.** Two threads are the least that interleave and the most that the
races here need: each of the code's races is a read of one request invalidated by
one other. `single_queue` has two queues because the sweep is about the other
one; `fifo_order` and `liveness` have two tasks because order and overtaking are
about two. Four or five timestamps cover the entries in two queues and those in
the threads' hands; should they run out, `PushEntry` waits (`TaskQueues` compares
stamps for equality only and reuses those no longer in use).

**Deadlock** is checked except in `claim_enqueue_undone`, where no request that is
served can be accepted any more in the end.

**Fairness** (`FairSpec`, used by `liveness` only): weak fairness of each
thread's next round trip, because the server's threads are preemptively scheduled
and every round trip has a timeout; and weak fairness of polling each queue,
because the agent, outside the repository, asks for a task in an endless loop and
queues with entries stay open for it. Nothing is assumed of clients: they may
stop enqueueing or reporting at any time.

### 3.3 What is proved

For any number of tasks, queues, threads and timestamps, and whatever the
constants allow, TLAPS checks:

| theorem | says | assumes |
|---|---|---|
| `TypeCorrect` (`TaskQueues_proofs`) | `Spec => []TypeOK` | `ConstantsAssumption` |
| `EntriesAreDistinct` (`TaskQueues_proofs`) | `Spec => []NoDuplicateEntries` | `ConstantsAssumption` |
| `DeliveryIsExclusive` (`Delivery_proofs`) | `Spec => []ExclusiveDelivery` | `ConstantsAssumption` |
| `QueuesAreFifo` (`Delivery_proofs`) | `Spec => ServesInOrder`: the requests implement `FifoQueues` | `ConstantsAssumption` |
| `StatusesFollowRules` (`TaskStatus_proofs`) | `Spec => StatusFollowsRules` | `RulesRespected`: no `force`, and none of the requests that write a status blindly |
| `PublishesEnd` (`TaskStatus_proofs`) | `Spec => []PublishingEnds` | `OnePublisher`: no kills, one thread at most publishes, and no request is asked to set or start from "publishing" |
| `PriorsAreRecorded` (`TaskStatus_proofs`) | `Spec => []PriorIsRecorded` | `PriorsRespected`: nobody polls, tasks already queued are not enqueued again, no request but tasks.enqueue sets "queued", nobody publishes by force; faults and kills as they like |
| `EnqueuesLeaveOneQueue` (`SingleQueue_proofs`) | `Spec => []SingleQueue` | `SweepsComplete`: no faults, and only tasks.enqueue adds to queues |
| `QueuedTasksWait` (`SingleQueue_proofs`) | `Spec => []QueuedIsInQueue` | `KeepsQueued`: no faults; the threads serve agents, tasks.enqueue, the reports, tasks.stop, unarchive and moves within a queue; nobody enqueues or reports as queued what is queued; one queue, or one thread that enqueues |
| `QueuedTasksAreWhereTheySay` (`SingleQueue_proofs`) | `Spec => []QueuedIsInItsQueue` | `OneAtATime`: one thread and no faults; nobody enqueues, reports or dequeues to "queued" what is queued; no add_task and no bare get_next_task; resets are forced; enqueues, moves and removals update the document |
| `PriorsAreRecordedInTurn` (`SingleQueue_proofs`) | `Spec => []PriorIsRecorded` | `OneAtATime`: as above, agents and forced publishes included |

The invariants are not inductive as they stand:

- `IInv == TypeOK /\ CallsOK /\ NoDuplicateEntries`. `TypeOK` alone does not
  survive `PushEntry`, whose thread must hold a task and a queue: `CallsOK` says
  which local variables are set at which `pc`. The duplicate-free queues survive
  a push because the update's filter repeats the check (`MayPush`), a pull and a
  reposition by the lemmas on `RemoveAt`, `InsertAt` and `Append` at the head of
  `TaskQueues_proofs`.
- `RuleInv` adds that the status a thread is about to write is one the rules
  allow from the status it read; `Change` writes only when the status is still
  the one read, so the step follows the rules.
- `Served` says a thread's request is one it serves.
- `SInv` adds `Cover`: for any two queues that hold a task that some thread is
  enqueueing, a thread that pushed to one of them still has to sweep the other.
  When the last such thread is done nothing is left to cover and one queue is left.

- `QInv`, for `QueuedTasksWait`: a queued task is in a queue that no request will yet
  remove it from (`Doomed`: a sweep to come), or a request will yet push it or give
  it another status (`Settles`). A stop that pulled the entry, an agent that popped
  it and an enqueue before its push settle the task; when the last of them is done
  the task waits in a queue. Two threads that enqueue one task to different queues
  doom each other's entry, and the requests left out take an entry away on a status
  they read before: without the assumptions the property fails (section 3.5).
- `AInv`, for `QueuedTasksAreWhereTheySay`: a queued task is in the queue its
  `execution.queue` names (`Kept`), or in the hands of the request that is under way
  (`InHand`), which will yet push it, set `execution.queue`, give it another status
  or put it back where it was (`Home`, the queue a move took it from). For the
  request to do so, what it read must still hold when it writes (`TasksOK`: the status
  it expects, the tasks a cleared queue has yet to release) and the queues it comes
  back to must still be there (`QueuesOK`); with one thread nothing else has changed
  them, and each step shows that its own request has not either. The assumptions
  leave out requests that end with the two at odds: a reset without `force` may be
  refused after the queues were swept (`task_operations.py:407`), a request may ask to
  leave the document as it was, add_task and a bare get_next_task move the entry and
  leave the status alone, and an enqueue of a task that is queued goes back, when its
  push is refused, to a status that says queued.
- `NInv`, for `PriorsAreRecordedInTurn`, of the requests `PriorsAreRecorded` leaves out:
  a queued task has an `enqueue_status`, or is the one an agent was handed stopped and
  has queued again without noting a status (`RequeueStopped`) and will now report
  started (`Starts`). Nothing can keep the report from taking it out of "queued" when
  nothing runs beside the agent; a publish that fails gives back the status it read,
  with the `enqueue_status` that was there then (`NotedOK`).
- `EInv` says that each entry is in one queue or in one agent's hands. It is kept
  because a pushed entry is new: its stamp is that of no entry in a queue or in
  a request (`UsedStamps`), and `pop` takes and returns one entry in one update.
- `QueuesAreFifo` needs `IInv` only. Each step is first shown to be, on the queues,
  a push, a removal of one entry, a shift of one entry, the clearing of a queue,
  a pop or nothing; each of these is a step of `FifoQueues` or a stutter.
- `PublishInv`: a task that is "publishing" has a request that set it so and is yet to
  write "published" or to go back, and the status to go back to was read before.
  Two publishers break the latter (section 3.5), and a kill the former.
- `PriorInv`: only tasks.enqueue has "queued" in hand, and with it a prior status that
  is not "queued". `get_next_task` puts a task back with neither, hence the
  assumption that nobody polls.

### 3.4 Only model-checked

The liveness properties, `EveryEntryIsTaken` and `QueuedTaskMovesOn`: fairness is
beyond the prover. Every safety property of the runs above is proved, under
hypotheses at least as weak as the constants of the run that checks it.

### 3.5 What the properties do not say

Each run's threads serve what they do for a reason. These are behaviours of the
code that the properties exclude, each seen in a trace of TLC:

- Two overlapping enqueues of a task to different queues may leave it in none:
  each sweeps what the other pushed (`task_operations.py:285`). No document
  denies it; `QueuedIsInQueue` is checked with one queue.
- When the metrics log fails in `get_next_task` (`queue_bll.py:373`), the
  entry is popped and the agent gets an error: the task is queued in no queue.
  Likewise the server killed between the change to "queued" and the push.
- `get_next_task` writes "queued" by the task's id alone
  (`services/queues.py:229`), so it may move a task against the rules;
  `StatusFollowsRules` is checked without it.
- mongoengine's `save()` is an upsert: a publish that overlaps with a deletion
  creates the task's document anew (`task_operations.py:495`). A publish that read
  the task before tasks.delete moved it to the trash makes it visible again, though
  the schema says "tasks in the trash are not visible from the API and cannot be
  restored!" (`schema/services/tasks.conf:1177`). That a deleted task stays deleted
  is no property here: these requests break it, and no other write can, as they are
  updates that insert nothing.
- Enqueueing what is queued already (`task_operations.py:250`) is in no run: a
  second enqueue that fails loses the status the task had before the first.
- Two overlapping publishes whose models fail to publish leave the task
  "publishing": the second takes that for the status to go back to.
- Without `force`, a reset that `cleanup_task` refuses has already taken the
  task out of its queue and leaves it "queued" (`task_operations.py:407`).
- queues.clear_queue releases the tasks of the queue as it was read, and then
  empties the queue as it is (`queue_bll.py:406`): a task enqueued in between
  stays "queued" in no queue, where the schema promises to "change their statuses
  to what they were prior to enqueuing" (`schema/services/queues.conf:615`), and
  one that was handed out and started goes back to its earlier status
  (`queue_bll.py:178`). queues.delete without `force` drops an entry pushed after
  it found the queue empty (`queue_bll.py:200`).
- A second enqueue of a queued task that fails is undone with
  `enqueue_status=None` (`task_operations.py:264`); enqueued with success later,
  the task records "queued" as the status to go back to, and a release then
  leaves it queued, in no queue.
- delete_task overwrites the result it collected from the pipeline's steps
  (`task_operations.py:382`): the files of the steps are not reported.
- tasks.dequeue accepts a running task and changes its status
  (`task_bll.py:545`; the schema says it fails, `tasks.conf:1611`), and
  tasks.delete without `force` deletes a running task that is archived
  (`task_operations.py:329`; `tasks.conf:1182`).

### 3.6 Finding

`claim_enqueue_undone`: the push is done when the log to Elasticsearch that
follows it fails, and `enqueue_task`, whose comment says "failed enqueueing, revert
to previous state" (`task_operations.py:263`), reverts the status and leaves the
entry. An agent is then handed a task that is not queued.

### 3.7 Left out

Company and user scoping, validation and the fields of a task that no request
here decides by; the `include_pipeline_steps` variants and the `*_many`
endpoints, which repeat the modelled requests; what `cleanup_task` does to child
tasks, models and files; `tasks.edit` and `tasks.create`.

## 4. Asynchronous deletion of files

### 4.1 How the model corresponds to the code

When a task is deleted or reset, `schedule_for_delete` inserts a `UrlToDelete`
document for each of its URLs, or makes the existing one new again. A process of
its own, `jobs/async_urls_delete.py`, deletes the files in an endless loop and
counts failures in the documents.

| state | code |
|---|---|
| `doc[u]` | the `UrlToDelete` document of URL `u`; `failed_at` stands for `last_failure_time`: unset, within `retry_timeout` of the loop's `now`, or before |
| `files` | what the storages hold |
| `loop` | the local variables of `run_delete_loop` and `delete_urls`; `pc` is the point it has reached |
| `call[c]` | a request in `schedule_for_delete`, at one URL |
| `scheduled` | the URLs requests were told are scheduled (a history variable: no code reads it) |

| code | actions |
|---|---|
| `schedule_for_delete` | `Schedule`, `SaveUrl` (the insert, refused when the URL is there), `FindExisting`, `UpdateExisting` |
| `run_delete_loop` | `PickStorage`, `ListUrls` |
| `delete_urls`, per base | `RefuseBase` (no client configured), `OpenBase` (`get_client`, which may raise), `EndPass` |
| `delete_urls`, per chunk | `NextChunk`, `DeleteRaises`, `DeleteAnswers`, `CountErrors` (per reason), `ForgetDeleted`, `EndGroup` |
| `mark_retry_failed` | `CountFailure`, then `GiveUp`: two updates, with room between them for requests and kills |
| time, the process | `RetryTimeout`, `Kill` |

Three points are easily read wrong:

- Both queries of a pass use the `now` it started with, so a failure it counts
  is recent until its end: `RetryTimeout` happens between passes only.
- The updates and the deletion go by the ids of the batch (`Named`). A document
  inserted anew has another id; ids are compared between documents of one URL
  only, so `Ids` needs only as many as the loop and the threads can remember.
- A storage may delete a file and not say so: it may raise afterwards, or
  answer in a form that matches no path. `RemoveFiles` and the answer are
  chosen freely, but for one assumption: what a storage says it deleted is
  gone. Azure's client cuts the names in the answers to their last segment
  (`jobs/async_urls_delete.py:298`): files in folders are then never recognised,
  which is silence and is covered, but one may also be taken for another of the
  same name at the container's root, which the assumption leaves out.

### 4.2 What the runs check

| run | instance | what it shows |
|---|---|---|
| `async_delete` | two files in a bucket of which one chunk each is asked for, one URL without a storage; one thread; two retries; kills at every point | `TypeOK`; `NothingForgotten`: a scheduled URL has its document while its file is stored; `GivenUpForAReason`; `ExhaustedIsReported`; `EveryUrlSettles` |

**Bounds.** Two URLs in a group of chunks of one are the least with which the
failure of one chunk concerns another; several reasons in the answer for one chunk,
each counted by updates of its own, need a chunk of two and are left to the proofs. A batch of two of the three URLs leaves
one for a later pass. Two retries tell the last failure from the others. The
requests come without bound: a URL may be scheduled again at any time. URLs
without a path (`Pathless`) are left to the proofs, as a fourth URL makes the
instance too large; so is a second request thread.

**Fairness** (`FairSpec`): weak fairness of the loop, as the process is
restarted when it ends, and of the passing of time. Storages may fail each
time. `EveryUrlSettles` speaks of behaviours in which requests and kills stop in
the end: the loop takes the URLs that failed least first, so that ones scheduled
for ever may keep those that failed waiting.

### 4.3 What is proved

For any URLs, storages, threads, retries and sizes of batch and chunk
(`AsyncDelete_proofs`, from `AsyncDeleteAssumption` and `NoneIsNoDocument`):

| theorem | says |
|---|---|
| `TypeCorrect` | `Spec => []TypeOK` |
| `ScheduledStaysScheduled` | `Spec => []NothingForgotten` |
| `FailedForAReason` | `Spec => []GivenUpForAReason` |
| `ExhaustedAreReported` | `Spec => ExhaustedIsReported` |

`NothingForgotten` is not inductive: a step may delete a document only because
the storage's answer, received earlier, still holds (`AnswersHold`: files are not
stored again), and a request may report a URL scheduled without writing anything
only because the document it ran into, earlier, went with its file (in `CallsOK`).
`AInv` is their conjunction with the types and `GivenUpForAReason`.
`ExhaustedIsReported` follows from `AInv` step by step: only `CountFailure` brings a
URL to the limit, `GiveUp` follows it, and only `Kill` comes between: of a URL that
a kill left at the limit (`jobs/async_urls_delete.py:43`) it says nothing.
`EveryUrlSettles` is liveness and only model-checked.

### 4.4 What the properties do not say

When the deletion of a chunk raises, `mark_retry_failed` is called for the whole
group and the loop goes on with the next chunk (`jobs/async_urls_delete.py:142`).
A group of several chunks (1000 files on S3, 100 on Google Storage) counts a
failure of each of its URLs for each chunk that raises, so that an outage of one
pass uses up the retries of all of them, though `retry_timeout_sec` is there to
space them; the message at line 144 counts the files of the chunk only. URLs
whose chunk was deleted before are no longer concerned, as their documents are
gone. `GivenUpForAReason` counts these failures as the code does.

### 4.5 Left out

Companies and users (a storage of the model is one of a company's); the parsing
of URLs into hosts, buckets and paths, which `StorageOf`, `BaseOf` and `Pathless`
give; folders, and several URLs with one path; files that are stored again
under the URL of a deleted one: the loop would then delete the new file, or, if
it was stored between the storage's answer and the deletion of the document,
leave it without one.

## 5. Accounts

### 5.1 How the model corresponds to the code

The local IAM keeps an account in the auth database and a profile of the same
id in the backend database. Requests that may take an administrator away
(`update_user`, `_set_status`, `delete_user` of `services/iam.py`) read the account,
take the Redis lock `iam:last-admin`, check that the account is not the last
active administrator, write, and give the lock back. `Accounts` has an action for
each of these round trips.

| state | code |
|---|---|
| `account[u]` | the `User` document of the auth database: its role and status |
| `profile` | the ids that have a `User` document in the backend database |
| `lock` | the owner of the lock; `Dead` for one that was killed |
| `call[c]` | a request: the account as it was read, and what it is asked to set |
| `cut` | the accounts that a kill left half created or deleted (history) |

| request | first action | then |
|---|---|---|
| iam.create_user, iam.signup | `Create` | `SaveProfile` or `ProfileFails` (which deletes the account again) |
| iam.update_user, enable_user, disable_user | `Update` | `Acquire` or `GiveUpWaiting`, `Check`, `Save`, `Release` |
| iam.delete_user | `Delete` | `Acquire` or `GiveUpWaiting`, `Check`, `DropProfile`, `DropAccount`, `Release` |

`Check` is the heart of it: `_last_active_admin` takes the role and the status from
the document read before the lock and counts the administrators as they are.
`Save` is mongoengine's `save()`: it writes the fields that differ from what was
read (`Written`), so two updates of different fields are both kept.

### 5.2 What the runs check

| run | instance | what it shows |
|---|---|---|
| `accounts` | three accounts in any initial state with an administrator; one thread creates users, deletes and downgrades, the other deletes and disables; failing inserts and kills | `TypeOK`, `AdminRemains`, `AccountHasProfile`, `LockIsFreed` |
| `claim_last_admin` | two accounts; one thread changes roles, the other disables | the last administrator is disabled (section 5.4) |

**Bounds.** Two threads race for the lock and the last administrator; of three
accounts two may be administrators while a third is created. **Fairness**: weak
fairness of each request's next step, which is a round trip with a timeout, and
of the expiry of a lock whose owner is gone, which Redis does by itself. In the
code the lock of a living owner expires too, after 10 seconds; the run leaves that
out, so `LockIsFreed` says that each way out of the block gives the lock back.
`AccountHasProfile` exempts the accounts a kill left half written (`cut`): nothing
repairs those.

### 5.3 What is proved

For any number of accounts and threads (`Accounts_proofs`):

| theorem | says | assumes |
|---|---|---|
| `TypeCorrect` | `Spec => []TypeOK` | `AccountsAssumption`, `NoneIsNoAccount` |
| `AccountsHaveProfiles` | `Spec => []AccountHasProfile` | the same |
| `AnAdminRemains` | `Spec => []AdminRemains` | `OnlyTakesAway`: no request promotes or enables an account; none that creates an administrator may fail after its first insert; the lock outlasts its owner |

The argument of `AnAdminRemains`: whoever is in the block owns the lock (`Mutex`),
so one request at a time has passed the check; an account that a request read as
no administrator is none (requests only take roles away), so a request that
passed takes away an administrator that another one stands beside. The three
assumptions are those without which it fails: section 5.4, and the hazards at
`bll/iam/__init__.py:204` and `services/iam.py:299`. `LockIsFreed` is liveness and
only model-checked.

### 5.4 Finding

`claim_last_admin`: `docs/iam/security.md:14` says that the lock "serializes
last-active-admin checks" and that the last active admin "cannot be disabled,
deleted, or downgraded". The account is read before the lock is taken
(`services/iam.py:284`, 355, 382): when it is promoted in between, and the
administrator that promoted it is downgraded, the request that comes late sees a
user, not an administrator, and disables the last one.

### 5.5 Left out

Passwords, login and its lockout, sessions and tokens (with `auth_version`, which
two overlapping changes raise once, `services/iam.py:311`), groups, the audit log,
names and email addresses.

## 6. The project tree

### 6.1 How the model corresponds to the code

A project's document has its full name ("a/b/c"), its parent's id, and its path,
the ids of all the projects above it: three records of one place. Every request
reads and writes the documents of a subtree one by one, without a transaction;
`Projects` has an action for each read or write that another request, or a kill,
may come between; the update of all the tasks of a project is one, and that of all
its models another.

| state | code |
|---|---|
| `project[p]` | the `Project` document: `name` (a sequence of segments), `parent`, `path` |
| `entity[e]` | `Task.project` or `Model.project` |
| `call[c]` | the local variables of the request that thread `c` handles |
| `torn` | a request was killed, or met a taken name, among the documents of a subtree (history) |

| request | first action | then |
|---|---|---|
| projects.create | `Create` (names longer than `max_depth` are refused) | `Find` (from the whole name up to the first project that exists), `SaveNew` (from there down) |
| tasks.move, models.move (`move_under_project`) | `AttachByName`, `AttachById` | `Find`, `SaveNew`, `Attach` |
| projects.move | `Move` | `Find`, `SaveNew` (the new location is created), `MoveProject`, `UpdateBelow` per project below |
| projects.update with a name | `Rename` | `RenameProject`, `ReadChildren`, `UpdateBelow` |
| projects.merge | `Merge` | `MergeEntities` (tasks, then models), `ReadDirect`, and per subproject `MergeChild`, `UpdateBelow`; `DropSource` |
| projects.delete | `Delete` | `Disassociate` (tasks, then models), `DeleteProjects` |

Names are unique (`database/model/project.py:38`), and a save of a name that is
taken ends the request where it is: `Taken`. A save is an upsert: it inserts the
document again if another request removed it (`Reposition`; here with all its fields,
where mongoengine would leave those that were not read at their defaults). A move creates its new location
before it may find out that the location is the old one, or within the project.

### 6.2 What the runs check

| run | instance | what it shows |
|---|---|---|
| `projects` | four projects, names of two segments and depth three, one entity, a model; one thread serves every request, the other creates; kills | `TypeOK`, `ProjectsAreATree`, `EntitiesAreHeld`, `DepthIsBounded`, and `NamesBelowAreFree`: no write below a moved or renamed project meets a taken name. Of merges this holds because nothing is more than three deep (section 6.4) |
| `claim_merge` | four projects, depth four, create and merge one after the other | a project is left below one that is gone (section 6.4) |

**Bounds.** Four projects hold a chain of three beside a place to move it to, the
least with which a name two levels below is rewritten. `EntitiesAreHeld` is about each
entity by itself, and models are what a request updates last. Creating fails when no id
is left, as any save may fail. `UntilTorn` ends behaviours in a torn tree, of
which little is claimed, and `FewBeside` lets both threads be busy while there are
fewer than three projects. Ids are interchangeable (`ProjectIds`). Moves,
renames, merges and deletes do not overlap with other requests (`Overlapping`):
section 6.5.

### 6.3 What is proved

For any number of projects, entities, threads, segments and any depth, with kills
and with taken names wherever they can be (`Projects_proofs`, from
`ProjectsAssumption` and `NoneIsNoDocument`):

| theorem | says | assumes |
|---|---|---|
| `TypeCorrect` | `Spec => []TypeOK` | nothing more: any requests overlap |
| `RequestsHoldEntities` | `Spec => []EntitiesAreHeld` | `MovesAlone` |
| `MovesKeepTheTree` | `Spec => []ProjectsAreATree` | `MovesAlone`, `NoMerges` |
| `MovesKeepTheDepth` | `Spec => [](~torn => DepthIsBounded)` | `MovesAlone`, `NoMerges` |
| `WritesEndTheSubtree` | `Spec => []NamesBelowAreFree` | `MovesAlone`, `NoMerges` |

`MovesAlone` says that creates and attaches overlap with each other as they like,
and that moves, renames, merges and deletes run alone, as in the run (section 6.5
says what happens otherwise). `NoMerges` leaves merges out of the theorems about
the tree, because with them they are false from depth four on: section 6.4.

Four layers of invariants carry the proofs.

- `TInv` (types): `CallOK` says which local variables of a request are set at
  which `pc`, and that what it read is a project document.
- `Beside`: of two requests under way both are of kinds that overlap. With
  `MovesAlone`, whoever writes to a subtree is the only request there is
  (`RunsAlone`).
- `HInv` (entities): a project is removed only by a request that has moved its
  entities before, and an entity is attached only to a place that exists. Merges
  are in it.
- `SInv` (the tree) adds `Good`, in a tree that nothing tore: it is a tree (`Tree`)
  whenever nobody is writing to a subtree, names are unique, their length is
  bounded, and what each request holds `Fits` the projects as they are.
  - For a create, the place it remembers is the top or an existing project as it
    still is.
  - For a move or a rename in the middle of a subtree, `Descends` speaks of the tree
    `T` there was before the first write, which can be put together from what the
    request read (`Before`): each project below has the document it had in `T`, if
    it is yet to be written, or else that document with the new name and path in
    front (`Regrown`). When nothing is left to write, `TreeMoves` shows that a tree
    whose subtree was regrown under a place outside of it is a tree.
  - `NoCollision`: a name about to be written below is free. The new name at the
    top was free in `T`. A project elsewhere with the name to be written would have,
    among the projects above it, one with that new name, as parents have the names
    that begin those of their children; and two projects of the subtree that get
    one name had one name before.
  - The depth is bounded because what `validate_projects_depth` adds up from the
    paths before the move is the length of each name written after it: in a tree
    a name has one part more than the path.

What stays model-checked only: the tree, its depth and the names below with merges
(on the instance of depth three, where merges are right).

### 6.4 Finding

`claim_merge`: `merge_project` gives `_reposition_project_with_children` only the
direct children of each subproject (`bll/project/project_bll.py:105`), while
`move_project` gives it the projects of all levels below. After a merge of "a" with
"a/b/c/d" in it to the top, "b/c" is right, and the project "a/b/c/d" keeps this
name and the id of "a" in its path, though its docstring says that the merge moves
"all the tasks and sub projects". A later deletion of "b" still finds it by the id
of "b" in its path; a lookup by the name "b/c/d" does not.

### 6.5 What the properties do not say

- A request that creates a project below one that is moved, renamed, merged or
  deleted meanwhile breaks the tree, as does a move across a move: what was read
  before is written after. No document says otherwise, and requests of these
  kinds are made by one user at a time as a rule.
- A kill in the middle of a subtree leaves it torn, and nothing repairs it. A taken
  name would do so too: alone, a request meets none (`NamesBelowAreFree`).
- Archived entities stay with a source that a merge deletes
  (`system_tags__nin`, `project_bll.py:98`): `EntitiesAreHeld` is about the others.

### 6.6 Left out

Deleting with `delete_contents`, the special rules for pipelines and datasets,
public projects of other companies, visibility, tags, descriptions, output
destinations, update times, and the caches of tags that these requests reset.
The two reads of the name by which `find_or_create` begins are one step.

## 7. Workers and the watchdog

### 7.1 How the model corresponds to the code

An agent reports to `workers.status_report` again and again, and may call
`workers.register` with tags and a timeout of its own. Both save the worker's entry:
a key of Redis with a time to live, and members of sorted sets (all workers, and
one set for each tag) whose score is the time they expire. Redis removes the key;
the members stay until a query by tag removes those whose score has passed. A
report also sets `last_update` of the task the agent runs, by which `tasks.stop`
and the watchdog decide. Time passes in ticks: `Tick` ages every record.

| state | code |
|---|---|
| `agent[w]` | the agent, outside the repository: up or dead, its task, the time since it reported; and, a history, how many of its reports in a row did not update the task |
| `registered[w]` | the worker's key: the time it has left, the tags and the timeout in it |
| `listed[n][w]` | the time until the score of `w` in the sorted set of tag `n`, or of all; 0 when it has passed and nothing has removed the member |
| `second` | the ticks since the last full second: scores are in whole seconds (`int(time())`), keys expire by the full time |
| `task[t]` | `status`, the age of `last_update`, whether `status_message` is "stopping", whether `last_worker` is set |
| `report[w]` | a request in `register` or `status_report`: its task, tags and timeout, the sets its entry is still to be added to and the score |
| `stop[t]` | a request in `tasks.stop` that has read `t`, and the status it will write |
| `watchdog` | the tasks that a pass of the watchdog has read and not yet stopped |
| `cut` | the workers whose last entry a kill or a failing write cut short (history) |

| code | actions |
|---|---|
| `status_report` | `Report` (`_get_worker`), `UpdateTask` or `UpdateFails`, then as `_save_worker_data` |
| `register`, and `status_report` of a worker that is not registered | `Register`, then as `_save_worker_data`, without tags when it is a report that registers |
| `_save_worker_data` | `SetKey`, `AddToAll`, `AddToTag` per tag, `Saved`; `SaveFails` at any of them |
| `unregister_worker`, `tasks.ping`, `tasks.enqueue` | `Unregister`, `Ping`, `Enqueue` |
| `tasks.stop` | `Stop` (the read, and what follows from it), `WriteStop` (the update, filtered by the status) |
| queries by tag | `Purge` per set they look at, `Found` |
| `cleanup_tasks` | `Watch`, then `StopSilent` per task |
| the agent | `Start`, `End`, `LoseReport` (no answer), `Die`, `Return` |
| time, the server | `Tick`, `Kill` |

`UpdateFails` is a report whose statistics cannot be logged to Elasticsearch, or
whose task cannot be updated (`bll/workers/__init__.py:160`): the `finally` at line
210 saves the entry all the same, so that the worker stays registered while its
task gets old.

### 7.2 What the runs check

| run | instance | what it shows |
|---|---|---|
| `workers` | one worker, one task, one tag; time in seconds: a registration lives for one, a worker counts as active for one, the watchdog's threshold is one, an agent that is up reports in each; one kill | `TypeOK`, `TagsFindWorkers`, `ReportedTaskIsNotSilent`, `SilentTaskIsStopped`, `StopIsHonoured` |

| property | says |
|---|---|
| `TagsFindWorkers` | a worker that is registered for a second more is a member, not yet expired, of the set of each of its tags and of the set of all, unless a kill or a failing write cut its last entry short |
| `ReportedTaskIsNotSilent` | the task of an agent that is up is silent to the watchdog only when so many reports in a row failed that these and one interval more outlast the threshold |
| `SilentTaskIsStopped` | a task in progress that nobody updates is stopped |
| `StopIsHonoured` | a stop is obeyed by the worker, or the watchdog stops the task when the worker has died |

`TagsFindWorkers` asks for a second more because of `int(time())`: the score of a
member is up to a second less than the key's end, and a query in that second
removes a worker that is still registered. Nothing is promised of members
that are no longer registered: they go when a query looks at their set, and nothing
in the server makes anybody look.

`ReportedTaskIsNotSilent` is about the tasks that a pass begins with. That the task
of an agent that is up and reports is never stopped would be wrong: reports may
fail while the agent lives, and a pass stops what it has read without looking
again (section 7.4).

**Bounds.** Ages are counted up to the first that somebody tells from a greater
one, failures up to the threshold. In the code the threshold (7200 s) is many
reports long. The run reports one set of tags (`TagSets`) and counts time in whole
seconds (`Second`): two ticks to a second are the least with a fraction of one, and
they, a second tag, and registrations that live longer than one another are left to
the proofs, with which the instance would be too large for the liveness properties.
The worker's records do not depend on other workers; a second task would only wait
for the same worker.

**Fairness** (`FairSpec`): time passes (`SF` of `Tick`, which waits while a report is
handled); an agent that is up reports (`SF`, as it may also be registering at
any moment) and ends a task whose stop it was asked for (`SF`: it looks at the
task each time, and may be busy reporting); the server's threads go on (`WF`), and the
watchdog's thread runs for ever, its loop catching every exception (`WF`). Agents
may die, and need not return; reports may all fail; nobody need query.

### 7.3 What is proved

For any number of workers, tasks and tags, any timeouts and times
(`Workers_proofs`, from `WorkersAssumption`, `TimeoutsAssumption` and
`NoneIsNoEntry`):

| theorem | says |
|---|---|
| `TypeCorrect` | `Spec => []TypeOK` |
| `TagsFindTheirWorkers` | `Spec => []TagsFindWorkers` |
| `ReportedTasksAreNotSilent` | `Spec => []ReportedTaskIsNotSilent` |

`TagsFindWorkers` is proved from `SInv`, with an invariant for each point of a report:
once the key is saved with its tags and its full life, only what the rest of the
report will write may be missing, the score in hand is less than a second short of
the key's end, and so is each score written with it. Keys, scores and the score in
hand then age together, and what a query removes had no time left.

`ReportedTaskIsNotSilent` rests on `WInv`: the task of an agent that is up is no older
than one interval for each failed report and the time since the last one, for which
a report that may yet update the task (`Unhandled`) counts as a whole interval. The other
properties are liveness and only model-checked.

### 7.4 What the properties do not say

- `unregister` deletes the key only (`bll/workers/__init__.py:125`). The sorted sets,
  by which `get_count` counts when tags are given (line 484), keep the member until
  its score passes: a worker that unregistered is still counted, where the schema
  says "Returns the number of registered workers." (`schema/services/workers.conf:297`).
- A task that is stopped and run anew between the watchdog's read
  (`non_responsive_tasks_watchdog.py:63`) and its update (line 81, which asks for
  the status only) is stopped though it was never silent. A report or a ping in that
  window does not save a task either. The model has both.
- A stop that is left to the worker makes `last_update` recent
  (`bll/task/utils.py:52`): somebody who asks again and again keeps the task of a
  dead worker in progress, for `tasks.stop` (600 s) and for the watchdog. The run
  lets each stop be asked for once (`Impatient`).
- A kill, or a failing write, between the key and the sets leaves a worker that its
  tags do not find, until its next report: `TagsFindWorkers` exempts it (`cut`).
- A worker that reports other tags stays listed under the old ones until they
  expire. Errors while the entry is saved at the end of a report are logged and
  swallowed.

### 7.5 Left out

The statistics in Elasticsearch, the queues and resources workers report,
several users with workers of one id, `system_tags` (kept as `tags` are), and
what the queries that list workers answer.

## 8. Not modelled

Components without a module, with the reason for each, are in `components` of
`PROJECT.json`. Three kinds: code without a protocol of its own (queries,
statistics, events, settings, dispatch, input and output), code outside the
server's core (the vendored SDK with its generated API bindings, which is most
of the repository's lines, the web application, deployment scripts), and two
candidates that were not reached: the model registry with `cleanup_task`, and
sessions. The serving registry repeats the workers registry.
