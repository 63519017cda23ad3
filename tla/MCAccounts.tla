------------------------------ MODULE MCAccounts ------------------------------
(***************************************************************************)
(* Instances of Accounts for TLC: which requests the two threads handle.   *)
(***************************************************************************)
EXTENDS Accounts
CONSTANTS c1, c2

(* Requests that take administrators away, and none that makes one of an   *)
(* account another request may have read.                                  *)
OnlyRemovals ==
  [c \in Calls |-> IF c = c1 THEN {"create_user", "delete", "user"} ELSE {"delete", "disabled"}]

(* The same beside one request that promotes.                              *)
PromoteBesideDemote == [c \in Calls |-> IF c = c1 THEN {"admin", "user"} ELSE {"disabled"}]
===============================================================================
