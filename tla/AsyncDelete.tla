------------------------------ MODULE AsyncDelete ------------------------------
(***************************************************************************)
(* The deletion of the files of deleted tasks and models: requests         *)
(* schedule URLs (schedule_for_delete in bll/task/task_cleanup.py), and    *)
(* one process, jobs/async_urls_delete.py, deletes them in a loop, batch   *)
(* by batch, and counts the failures of each.                              *)
(***************************************************************************)
EXTENDS Integers, FiniteSets

CONSTANTS
  Urls,
  Storages,     \* a company's storages: the file server, a cloud
  StorageOf,    \* StorageOf[u]: the storage the scheme of u names
  Bases,        \* the hosts and buckets the loop has a client for
  BaseOf,       \* BaseOf[u]: that of u, None when none is configured
  Pathless,     \* the URLs that name no file below their base
  Calls,        \* the server's request threads
  Ids,          \* the ids of the documents
  max_retries,
  BatchSize,    \* the URLs read in a pass
  ChunkSize,    \* the files a storage is asked to delete at once
  None

ASSUME AsyncDeleteAssumption ==
  /\ StorageOf \in [Urls -> Storages]
  /\ BaseOf \in [Urls -> Bases \cup {None}]
  /\ Pathless \subseteq Urls
  /\ max_retries \in Nat \ {0}
  /\ BatchSize \in Nat \ {0} /\ ChunkSize \in Nat \ {0}
  /\ None \notin Storages \cup Bases \cup Ids \cup Urls

(* A UrlToDelete document.  failed_at stands for last_failure_time: unset, *)
(* or within retry_timeout of the loop's `now' or before it.               *)
Documents ==
  [id : Ids, status : {"created", "failed"}, retry_count : Nat,
   failed_at : {"never", "recent", "old"}]
ASSUME NoneIsNoDocument == None \notin Documents

(* A document as the loop remembers it.                                    *)
Items == [url : Urls, id : Ids]

VARIABLES
  doc,        \* doc[u]: the document of u, None when there is none
  files,      \* the URLs whose file is in its storage
  loop,       \* the loop's local state
  call,       \* call[c]: the URL thread c is scheduling
  scheduled   \* history: the URLs that requests were told are scheduled

vars == <<doc, files, loop, call, scheduled>>

(***************************************************************************)
(* The local state of the loop.                                            *)
(*   todo      the batch but for the bases already dealt with              *)
(*   group     the URLs of the base it is at, of which `rest' is not yet   *)
(*             asked for                                                   *)
(*   asked, deleted, errors, missing  the chunk sent to the storage, what  *)
(*             the storage says it deleted, what it says it could not and  *)
(*             is not counted yet, and what it says nothing of             *)
(*   counting  what mark_retry_failed is called with, and `next' what      *)
(*             follows the call                                            *)
(***************************************************************************)
LoopSteps ==
  {"pick", "list", "base", "chunk", "delete", "errors", "count", "give_up"}

LoopStates ==
  [pc : LoopSteps, storage : Storages \cup {None}, todo : SUBSET Items,
   group : SUBSET Items, rest : SUBSET Items, asked : SUBSET Items,
   deleted : SUBSET Items, errors : SUBSET Items, missing : SUBSET Items,
   counting : SUBSET Items, next : LoopSteps]

NewPass ==
  [pc |-> "pick", storage |-> None, todo |-> {}, group |-> {}, rest |-> {},
   asked |-> {}, deleted |-> {}, errors |-> {}, missing |-> {}, counting |-> {},
   next |-> "pick"]

Counting(r, items, next) ==
  IF items = {} THEN [r EXCEPT !.pc = next]
  ELSE [r EXCEPT !.pc = "count", !.counting = items, !.next = next]

CallStates ==
  [pc : {"idle", "save", "find", "update"}, url : Urls \cup {None}, id : Ids \cup {None}]
NoCall == [pc |-> "idle", url |-> None, id |-> None]

Init ==
  /\ doc = [u \in Urls |-> None]
  /\ files = Urls
  /\ loop = NewPass
  /\ call = [c \in Calls |-> NoCall]
  /\ scheduled = {}

(* The documents an update or a deletion by ids reaches.                   *)
Named(u, items) == doc[u] # None /\ [url |-> u, id |-> doc[u].id] \in items

(***************************************************************************)
(* schedule_for_delete, for one URL: insert a document; if there is one    *)
(* already, find it and make it new again, by its id.  The URL counts as   *)
(* scheduled even when the document is gone by then.  Ids are compared     *)
(* between documents of one URL only: a new one is one that nobody has     *)
(* kept of an earlier document of the URL.                                 *)
(***************************************************************************)
UsedIds(u) ==
  {i.id : i \in {j \in loop.todo \cup loop.group \cup loop.counting : j.url = u}}
    \cup {call[c].id : c \in {d \in Calls : call[d].url = u}}

NewDocument_NoDefault(i) ==
  [id |-> i, status |-> "created", retry_count |-> None, failed_at |-> "never"]
NewDocument(i) ==
  [id |-> i, status |-> "created", retry_count |-> 0, failed_at |-> "never"]

Scheduled(c) ==
  /\ call' = [call EXCEPT ![c] = NoCall]
  /\ scheduled' = scheduled \cup {call[c].url}

Schedule(c, u) ==
  /\ call[c] = NoCall
  /\ call' = [call EXCEPT ![c] = [NoCall EXCEPT !.pc = "save", !.url = u]]
  /\ UNCHANGED <<doc, files, loop, scheduled>>

SaveUrl(c) ==
  LET u == call[c].url IN
  /\ call[c].pc = "save"
  /\ IF doc[u] = None
     THEN /\ Ids \ UsedIds(u) # {}
          /\ doc' = [doc EXCEPT ![u] = NewDocument(CHOOSE i \in Ids \ UsedIds(u) : TRUE)]
          /\ Scheduled(c)
     ELSE call' = [call EXCEPT ![c].pc = "find"] /\ UNCHANGED <<doc, scheduled>>
  /\ UNCHANGED <<files, loop>>

FindExisting(c) ==
  LET u == call[c].url IN
  /\ call[c].pc = "find"
  /\ IF doc[u] = None THEN Scheduled(c)
     ELSE /\ call' = [call EXCEPT ![c] = [@ EXCEPT !.pc = "update", !.id = doc[u].id]]
          /\ UNCHANGED scheduled
  /\ UNCHANGED <<doc, files, loop>>

UpdateExisting(c) ==
  LET u == call[c].url IN
  /\ call[c].pc = "update"
  /\ doc' = IF Named(u, {[url |-> u, id |-> call[c].id]})
            THEN [doc EXCEPT ![u] = NewDocument(call[c].id)] ELSE doc
  /\ Scheduled(c)
  /\ UNCHANGED <<files, loop>>

(***************************************************************************)
(* run_delete_loop: the URL that failed least names the storage to delete  *)
(* from; delete_urls then reads a batch of that storage.  Both queries use *)
(* the `now' of the start of the pass, so that time passes between passes. *)
(***************************************************************************)
IsDue_FirstTimeOnly(d) == d.failed_at = "never"
IsDue(d) == d.failed_at # "recent"
Eligible(u) ==
  doc[u] # None /\ doc[u].status # "failed" /\ doc[u].retry_count < max_retries /\ IsDue(doc[u])

RetryTimeout ==
  /\ loop.pc = "pick"
  /\ \E u \in Urls :
       /\ doc[u] # None /\ doc[u].failed_at = "recent"
       /\ doc' = [doc EXCEPT ![u] = [@ EXCEPT !.failed_at = "old"]]
  /\ UNCHANGED <<files, loop, call, scheduled>>

PickStorage ==
  /\ loop.pc = "pick"
  /\ \E u \in {v \in Urls : Eligible(v)} :
       /\ \A v \in Urls : Eligible(v) => doc[u].retry_count <= doc[v].retry_count
       /\ loop' = [NewPass EXCEPT !.pc = "list", !.storage = StorageOf[u]]
  /\ UNCHANGED <<doc, files, call, scheduled>>

(* The first so many in the order of the URLs; here any so many.           *)
Cut(s, n) == IF Cardinality(s) <= n THEN {s} ELSE {part \in SUBSET s : Cardinality(part) = n}

ListUrls ==
  /\ loop.pc = "list"
  /\ \E batch \in Cut({u \in Urls : Eligible(u) /\ StorageOf[u] = loop.storage}, BatchSize) :
       loop' = [loop EXCEPT !.pc = "base", !.storage = None,
                  !.todo = {[url |-> u, id |-> doc[u].id] : u \in batch}]
  /\ UNCHANGED <<doc, files, call, scheduled>>

GroupOf(base) == {i \in loop.todo : BaseOf[i.url] = base}

MarkFailed(items) ==
  doc' = [u \in Urls |-> IF Named(u, items)
            THEN [doc[u] EXCEPT !.status = "failed", !.failed_at = "recent"] ELSE doc[u]]

RefuseBase ==
  /\ loop.pc = "base" /\ GroupOf(None) # {}
  /\ MarkFailed(GroupOf(None))
  /\ loop' = [loop EXCEPT !.todo = @ \ GroupOf(None)]
  /\ UNCHANGED <<files, call, scheduled>>

(* get_client may raise: no credentials, no connection.                    *)
OpenBase ==
  /\ loop.pc = "base"
  /\ \E base \in Bases :
       /\ GroupOf(base) # {}
       /\ LET rest == [loop EXCEPT !.todo = @ \ GroupOf(base)] IN
            \/ loop' = [rest EXCEPT !.pc = "chunk", !.group = GroupOf(base),
                          !.rest = GroupOf(base)]
            \/ loop' = Counting(rest, GroupOf(base), "base")
  /\ UNCHANGED <<doc, files, call, scheduled>>

EndPass ==
  /\ loop.pc = "base" /\ loop.todo = {}
  /\ loop' = NewPass
  /\ UNCHANGED <<doc, files, call, scheduled>>

NextChunk ==
  /\ loop.pc = "chunk" /\ loop.rest # {}
  /\ \E chunk \in Cut(loop.rest, ChunkSize) :
       LET pathless == {i \in chunk : i.url \in Pathless} IN
       /\ MarkFailed(pathless)
       /\ loop' = [loop EXCEPT !.rest = @ \ chunk, !.asked = chunk \ pathless,
                     !.pc = IF chunk = pathless THEN "chunk" ELSE "delete"]
  /\ UNCHANGED <<files, call, scheduled>>

EndGroup ==
  /\ loop.pc = "chunk" /\ loop.rest = {}
  /\ loop' = [loop EXCEPT !.pc = "base", !.group = {}]
  /\ UNCHANGED <<doc, files, call, scheduled>>

(***************************************************************************)
(* delete_many.  The storage removes some of the files.  It may then fail  *)
(* to answer (a timeout); all of the group counts a failure.  Or it        *)
(* answers with the files it deleted, those it could not delete by the     *)
(* reason why, and says nothing of others (the answers of some storages    *)
(* cannot be told apart from silence, the file's path being returned in    *)
(* another form).  Each reason is counted by a call of its own.            *)
(***************************************************************************)
RemoveFiles ==
  \E gone \in SUBSET {i.url : i \in loop.asked} : files' = files \ gone

DeleteRaises ==
  /\ loop.pc = "delete"
  /\ RemoveFiles
  /\ loop' = Counting([loop EXCEPT !.asked = {}], loop.group, "chunk")
  /\ UNCHANGED <<doc, call, scheduled>>

DeleteAnswers ==
  /\ loop.pc = "delete"
  /\ RemoveFiles
  /\ \E deleted \in SUBSET {i \in loop.asked : i.url \notin files'} :
       \E errors \in SUBSET (loop.asked \ deleted) :
         loop' = [loop EXCEPT !.pc = "errors", !.asked = {}, !.deleted = deleted,
                    !.errors = errors, !.missing = loop.asked \ (deleted \cup errors)]
  /\ UNCHANGED <<doc, call, scheduled>>

CountErrors ==
  /\ loop.pc = "errors" /\ loop.errors # {}
  /\ \E reason \in SUBSET loop.errors \ {{}} :
       loop' = Counting([loop EXCEPT !.errors = @ \ reason], reason, "errors")
  /\ UNCHANGED <<doc, files, call, scheduled>>

(* mark_retry_failed: two updates.                                         *)
CountFailure ==
  /\ loop.pc = "count"
  /\ doc' = [u \in Urls |-> IF Named(u, loop.counting)
               THEN [doc[u] EXCEPT !.retry_count = @ + 1, !.failed_at = "recent"] ELSE doc[u]]
  /\ loop' = [loop EXCEPT !.pc = "give_up"]
  /\ UNCHANGED <<files, call, scheduled>>

IsExhausted_OneEarly(d) == d.retry_count >= max_retries - 1
IsExhausted_OneLate(d) == d.retry_count > max_retries
IsExhausted(d) == d.retry_count >= max_retries

GiveUp ==
  /\ loop.pc = "give_up"
  /\ doc' = [u \in Urls |-> IF Named(u, loop.counting) /\ IsExhausted(doc[u])
               THEN [doc[u] EXCEPT !.status = "failed"] ELSE doc[u]]
  /\ loop' = [loop EXCEPT !.pc = loop.next, !.counting = {}]
  /\ UNCHANGED <<files, call, scheduled>>

Done_OrSilent == loop.deleted \cup loop.missing
Done == loop.deleted

ForgetDeleted ==
  /\ loop.pc = "errors" /\ loop.errors = {}
  /\ doc' = [u \in Urls |-> IF Named(u, Done) THEN None ELSE doc[u]]
  /\ loop' = Counting([loop EXCEPT !.deleted = {}, !.missing = {}], loop.missing, "chunk")
  /\ UNCHANGED <<files, call, scheduled>>

(* The process is killed and started again.                                *)
Kill ==
  /\ loop.pc # "pick"
  /\ loop' = NewPass
  /\ UNCHANGED <<doc, files, call, scheduled>>

LoopStep ==
  \/ PickStorage \/ ListUrls \/ RefuseBase \/ OpenBase \/ EndPass \/ NextChunk \/ EndGroup
  \/ DeleteRaises \/ DeleteAnswers \/ CountErrors \/ CountFailure \/ GiveUp \/ ForgetDeleted

CallStep(c) ==
  \/ \E u \in Urls : Schedule(c, u)
  \/ SaveUrl(c) \/ FindExisting(c) \/ UpdateExisting(c)

Next == LoopStep \/ RetryTimeout \/ Kill \/ \E c \in Calls : CallStep(c)

Spec == Init /\ [][Next]_vars

(* The loop's process runs (it is restarted when it ends) and time passes. *)
FairSpec == Spec /\ WF_vars(LoopStep) /\ WF_vars(RetryTimeout)

TypeOK ==
  /\ doc \in [Urls -> Documents \cup {None}]
  /\ files \subseteq Urls
  /\ loop \in LoopStates
  /\ call \in [Calls -> CallStates]
  /\ scheduled \subseteq Urls

(* Whatever fails and whoever schedules a URL while the loop works on it,  *)
(* a URL that a request was told is scheduled keeps its document as long   *)
(* as its file is there.                                                   *)
NothingForgotten == \A u \in scheduled \cap files : doc[u] # None

(* A URL is reported failed only when no client can delete it or it failed *)
(* max_retries times, a new request for it in the middle of a pass making  *)
(* its count start anew.                                                   *)
GivenUpForAReason ==
  \A u \in Urls : doc[u] # None /\ doc[u].status = "failed" =>
    doc[u].retry_count >= max_retries \/ BaseOf[u] = None \/ u \in Pathless

(* And one that failed so often, which no pass takes again, is reported:   *)
(* only a kill between its two updates leaves it there unreported.         *)
Exhausted(u) == doc[u] # None /\ doc[u].retry_count >= max_retries
Stuck(u) ==
  /\ Exhausted(u) /\ doc[u].status # "failed"
  /\ ~(loop.pc = "give_up" /\ Named(u, loop.counting))
ExhaustedIsReported ==
  [][\A u \in Urls : ~Stuck(u) /\ Stuck(u)' => Kill]_vars

(* Once no more requests come and the loop is not killed any more, every   *)
(* URL is deleted or reported failed, unless a kill left it stuck.         *)
Settled(u) == doc[u] = None \/ doc[u].status = "failed" \/ Exhausted(u)
EveryUrlSettles ==
  <>[](\A c \in Calls : call[c] = NoCall) /\ <>[][~Kill]_vars =>
    \A u \in Urls : <>[]Settled(u)
===============================================================================
