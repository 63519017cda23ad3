------------------------------ MODULE TaskStatus ------------------------------
(***************************************************************************)
(* The task statuses and the transition rules every status change goes     *)
(* through (apiserver/bll/task/utils.py).                                  *)
(***************************************************************************)

Statuses == {"created", "queued", "in_progress", "stopped", "publishing",
             "published", "closed", "failed", "completed", "unknown"}

(* The rules: for each status, the statuses a request without `force' may  *)
(* move a task to.  "unknown" is a valid status with no rule at all.       *)
state_machine ==
  [created     |-> {"queued", "in_progress"},
   queued      |-> {"created", "in_progress", "stopped"},
   in_progress |-> {"stopped", "failed", "created", "completed"},
   stopped     |-> {"closed", "created", "failed", "queued", "in_progress",
                    "published", "publishing", "completed"},
   closed      |-> {"created", "failed", "published", "publishing", "stopped"},
   failed      |-> {"created", "stopped", "published", "queued"},
   publishing  |-> {"published"},
   published   |-> {},
   completed   |-> {"published", "in_progress", "created"}]

(* validate_status_change: a status without a rule allows nothing.         *)
validate_status_change(from, to) ==
  from \in DOMAIN state_machine /\ to \in state_machine[from]

(* ChangeStatusRequest.validate_transition: `force' skips the rules, and a *)
(* change to the status the task already has is always allowed.            *)
validate_transition(from, to, force) ==
  force \/ from = to \/ validate_status_change(from, to)
===============================================================================
