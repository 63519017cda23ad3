----------------------------- MODULE MCTaskQueues -----------------------------
(***************************************************************************)
(* Instances of TaskQueues for TLC: which requests the threads handle.     *)
(***************************************************************************)
EXTENDS DocumentedClaims
CONSTANTS t1, t2, q1, q2, c1, c2

All(kinds) == [c \in Calls |-> kinds]
Pair(first, second) == c1 :> first @@ c2 :> second

EveryRequestButAddTask == All(RequestKinds \ {"add_task", "get_next_task"})

(* Every request but those that put a task in a second queue on purpose,   *)
(* with one publish of a task at a time: a second one would take the       *)
(* "publishing" of the first for the status to go back to.                 *)
OneWriterBesideOthers ==
  Pair({"enqueue", "publish"}, RequestKinds \ {"add_task", "move_task", "publish"})
StatusRequests == {"enqueue", "report", "dequeue", "stop", "reset", "delete", "archive"}
StatusRequestsByBoth == All(StatusRequests)
AgentBesideClients == Pair({"agent"}, {"enqueue", "report", "stop"})
QueueRequestsByBoth ==
  All({"agent", "get_next_task", "enqueue", "add_task", "remove_task", "reposition",
       "clear_queue", "delete_queue"})
EnqueueOnly == All({"enqueue"})

Symmetric == Permutations(Calls)
===============================================================================
