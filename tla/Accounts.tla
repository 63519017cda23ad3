------------------------------- MODULE Accounts -------------------------------
(***************************************************************************)
(* The accounts of the local IAM (services/iam.py, bll/iam/__init__.py):   *)
(* an administrator's requests create, change and delete them, each a      *)
(* sequence of round trips to MongoDB and to Redis, where one lock,        *)
(* iam:last-admin, protects the last active administrator.  A request      *)
(* reads the account before it takes the lock, and save() writes the       *)
(* fields that differ from what it read.                                   *)
(***************************************************************************)
EXTENDS Naturals, FiniteSets

CONSTANTS
  Users,        \* the ids of accounts
  Calls,        \* the server's request threads
  Serves,       \* Serves[c]: the requests that thread c handles
  Faults,       \* what may go wrong, a subset of FaultKinds
  Dead,         \* the lock's owner when its process was killed
  None

(* "admin", "user", "active" and "disabled" are what a change may set.     *)
RequestKinds ==
  {"create_admin", "create_user", "delete", "admin", "user", "active", "disabled"}

(* profile   the insert of the backend user fails                          *)
(* kill      the server is killed, with all its requests                   *)
(* expiry    a request outlasts the 10 seconds of its lock                 *)
FaultKinds == {"profile", "kill", "expiry"}

ASSUME AccountsAssumption ==
  /\ IsFiniteSet(Users)
  /\ Serves \in [Calls -> SUBSET RequestKinds]
  /\ Faults \subseteq FaultKinds
  /\ Dead \notin Calls /\ None \notin Calls \cup Users \cup {Dead}

Roles == {"admin", "user"}
StatusValues == {"active", "disabled"}
Documents == [role : Roles, status : StatusValues]
ASSUME NoneIsNoAccount == None \notin Documents \cup Roles \cup StatusValues

VARIABLES
  account,    \* account[u]: the document of u in the auth database, or None
  profile,    \* the users with a document in the backend database
  lock,       \* who owns iam:last-admin
  call,       \* call[c]: the local state of the request that c handles
  cut         \* history: the accounts a kill left half created or deleted

vars == <<account, profile, lock, call, cut>>

(***************************************************************************)
(* A request's local state: the account it is about, as it was read, and   *)
(* the role and the status it is asked to set (None: not asked).           *)
(***************************************************************************)
Steps ==
  {"idle", "save_profile", "lock", "check", "save", "drop_profile", "drop_account",
   "release"}
CallStates ==
  [pc : Steps, user : Users \cup {None}, read : Documents \cup {None},
   role : Roles \cup {None}, status : StatusValues \cup {None}, deleting : BOOLEAN]

NoCall ==
  [pc |-> "idle", user |-> None, read |-> None, role |-> None, status |-> None,
   deleting |-> FALSE]

IsActiveAdmin(doc) == doc # None /\ doc.role = "admin" /\ doc.status = "active"
ActiveAdmins == {u \in Users : IsActiveAdmin(account[u])}

Init ==
  /\ account \in [Users -> Documents \cup {None}]
  /\ ActiveAdmins # {}
  /\ profile = {u \in Users : account[u] # None}
  /\ lock = None
  /\ call = [c \in Calls |-> NoCall]
  /\ cut = {}

Goto(c, pc) == call' = [call EXCEPT ![c].pc = pc]
Ends(c) == call' = [call EXCEPT ![c] = NoCall]

(***************************************************************************)
(* iam.create_user and iam.signup.  Ids are fresh: an id is used again     *)
(* only when nothing remembers it.  When the profile cannot be inserted    *)
(* the account is deleted again.                                           *)
(***************************************************************************)
Fresh(u) == account[u] = None /\ u \notin profile /\ \A c \in Calls : call[c].user # u

CreateKind(role) == IF role = "admin" THEN "create_admin" ELSE "create_user"

Create(c, u, role) ==
  /\ call[c] = NoCall
  /\ Fresh(u)
  /\ CreateKind(role) \in Serves[c]
  /\ account' = [account EXCEPT ![u] = [role |-> role, status |-> "active"]]
  /\ call' = [call EXCEPT ![c] = [NoCall EXCEPT !.pc = "save_profile", !.user = u]]
  /\ cut' = cut \ {u}
  /\ UNCHANGED <<profile, lock>>

SaveProfile(c) ==
  /\ call[c].pc = "save_profile"
  /\ profile' = profile \cup {call[c].user}
  /\ Ends(c)
  /\ UNCHANGED <<account, lock, cut>>

Uncreated_Kept(c) == account' = account
Uncreated(c) == account' = [account EXCEPT ![call[c].user] = None]

ProfileFails(c) ==
  /\ "profile" \in Faults
  /\ call[c].pc = "save_profile"
  /\ Uncreated(c)
  /\ Ends(c)
  /\ UNCHANGED <<profile, lock, cut>>

(***************************************************************************)
(* iam.update_user, enable_user, disable_user and delete_user read the     *)
(* account first.  Nobody deletes themselves: there is another account.    *)
(***************************************************************************)
Update(c, u, role, status) ==
  /\ call[c] = NoCall
  /\ account[u] # None
  /\ role \in {None} \cup (Serves[c] \cap Roles)
  /\ status \in {None} \cup (Serves[c] \cap StatusValues)
  /\ role # None \/ status # None
  /\ call' = [call EXCEPT ![c] = [pc |-> "lock", user |-> u, read |-> account[u],
                                  role |-> role, status |-> status, deleting |-> FALSE]]
  /\ UNCHANGED <<account, profile, lock, cut>>

Delete(c, u) ==
  /\ call[c] = NoCall
  /\ "delete" \in Serves[c]
  /\ account[u] # None
  /\ \E actor \in Users \ {u} : account[actor] # None
  /\ call' = [call EXCEPT ![c] = [pc |-> "lock", user |-> u, read |-> account[u],
                                  role |-> None, status |-> None, deleting |-> TRUE]]
  /\ UNCHANGED <<account, profile, lock, cut>>

(* redis.lock(..., timeout=10, blocking_timeout=5).                        *)
Acquire(c) ==
  /\ call[c].pc = "lock"
  /\ lock = None
  /\ lock' = c
  /\ Goto(c, "check")
  /\ UNCHANGED <<account, profile, cut>>

GiveUpWaiting_GoesOn(c) ==
  /\ call[c].pc = "lock"
  /\ lock # None
  /\ Goto(c, "check")
  /\ UNCHANGED <<account, profile, lock, cut>>
GiveUpWaiting(c) ==
  /\ call[c].pc = "lock"
  /\ lock # None
  /\ Ends(c)
  /\ UNCHANGED <<account, profile, lock, cut>>

(***************************************************************************)
(* _protect_last_admin: the account as it was read, the number of          *)
(* administrators as it is.                                                *)
(***************************************************************************)
RemovesAdmin(r) == r.deleting \/ r.role = "user" \/ r.status = "disabled"
IsLastAdmin(doc) == IsActiveAdmin(doc) /\ Cardinality(ActiveAdmins) <= 1

Check(c) ==
  LET r == call[c] IN
  /\ r.pc = "check"
  /\ Goto(c, IF RemovesAdmin(r) /\ IsLastAdmin(r.read) THEN "release"
             ELSE IF r.deleting THEN "drop_profile" ELSE "save")
  /\ UNCHANGED <<account, profile, lock, cut>>

(***************************************************************************)
(* save(): what differs from the account as it was read, by its id.  An    *)
(* account deleted meanwhile is inserted with those fields only, without   *)
(* the username and the company that every query here asks for: it does    *)
(* not come back.                                                          *)
(***************************************************************************)
Written_Asked(old, read, asked) == asked
Written(old, read, asked) == IF asked = None \/ asked = read THEN old ELSE asked

Save(c) ==
  LET r == call[c] IN
  /\ r.pc = "save"
  /\ account' = [account EXCEPT ![r.user] =
       IF @ = None THEN None
       ELSE [role |-> Written(@.role, r.read.role, r.role),
             status |-> Written(@.status, r.read.status, r.status)]]
  /\ Goto(c, "release")
  /\ UNCHANGED <<profile, lock, cut>>

DropProfile(c) ==
  /\ call[c].pc = "drop_profile"
  /\ profile' = profile \ {call[c].user}
  /\ Goto(c, "drop_account")
  /\ UNCHANGED <<account, lock, cut>>

DropAccount(c) ==
  /\ call[c].pc = "drop_account"
  /\ account' = [account EXCEPT ![call[c].user] = None]
  /\ Goto(c, "release")
  /\ UNCHANGED <<profile, lock, cut>>

(* The end of the with block, reached by every way out of it: only the     *)
(* owner's lock is released.                                               *)
Freed_AfterWrite(c) == IF lock = c /\ call[c].read # account[call[c].user] THEN None ELSE lock
Freed(c) == IF lock = c THEN None ELSE lock

Release(c) ==
  /\ call[c].pc = "release"
  /\ lock' = Freed(c)
  /\ Ends(c)
  /\ UNCHANGED <<account, profile, cut>>

(***************************************************************************)
(* The lock has a time to live, which a killed owner's lock reaches, and   *)
(* that of a slow request too.                                             *)
(***************************************************************************)
LockExpires ==
  /\ lock = Dead \/ (lock # None /\ "expiry" \in Faults)
  /\ lock' = None
  /\ UNCHANGED <<account, profile, call, cut>>

Kill ==
  /\ "kill" \in Faults
  /\ \E c \in Calls : call[c] # NoCall
  /\ cut' = cut \cup {call[c].user :
       c \in {d \in Calls : call[d].pc \in {"save_profile", "drop_account"}}}
  /\ lock' = IF lock = None THEN None ELSE Dead
  /\ call' = [c \in Calls |-> NoCall]
  /\ UNCHANGED <<account, profile>>

HandleRequest(c) ==
  \/ SaveProfile(c) \/ ProfileFails(c)
  \/ Acquire(c) \/ GiveUpWaiting(c) \/ Check(c)
  \/ Save(c) \/ DropProfile(c) \/ DropAccount(c) \/ Release(c)

Next ==
  \/ \E c \in Calls, u \in Users, role \in Roles : Create(c, u, role)
  \/ \E c \in Calls, u \in Users, role \in Roles \cup {None},
       status \in StatusValues \cup {None} : Update(c, u, role, status)
  \/ \E c \in Calls, u \in Users : Delete(c, u)
  \/ \E c \in Calls : HandleRequest(c)
  \/ LockExpires
  \/ Kill

Spec == Init /\ [][Next]_vars

(* A thread goes on with a request it has begun, and Redis expires keys.   *)
FairSpec ==
  Spec /\ WF_vars(LockExpires) /\ \A c \in Calls : WF_vars(HandleRequest(c))

(* The types of the state, read by every handler.                          *)
TypeOK ==
  /\ account \in [Users -> Documents \cup {None}]
  /\ profile \subseteq Users
  /\ lock \in Calls \cup {Dead, None}
  /\ call \in [Calls -> CallStates]
  /\ cut \subseteq Users

(* Somebody can administer the company: whatever requests overlap, they    *)
(* do not disable, delete and downgrade the active administrators to the   *)
(* last one.                                                               *)
AdminRemains == ActiveAdmins # {}

(* An account that no request is creating or deleting, or was when the     *)
(* server was killed, has its profile in the backend database.             *)
AtWork(u) ==
  \E c \in Calls : call[c].user = u /\ call[c].pc \in {"save_profile", "drop_account"}
AccountHasProfile == \A u \in Users : account[u] # None => u \in profile \cup cut \/ AtWork(u)

(* Requests are not shut out: whoever owns the lock, refuses, fails or is  *)
(* killed in the block, the lock is free again in the end.                 *)
LockIsFreed == (lock # None) ~> (lock = None)
===============================================================================
