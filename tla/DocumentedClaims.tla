--------------------------- MODULE DocumentedClaims ---------------------------
(***************************************************************************)
(* What a comment says of a request, where the code does something else:   *)
(* a run finds it violated.                                                *)
(***************************************************************************)
EXTENDS TaskQueues

(* tasks.enqueue, its push failed: "failed enqueueing, revert to previous  *)
(* state": an enqueue of a task that is in no queue leaves it in none.     *)
FailedEnqueueLeavesNoEntry ==
  [][\A c \in Calls : UndoEnqueue(c) /\ call[c].st = "created" =>
       ~InQueue(call[c].task, call[c].queue)]_vars
===============================================================================
