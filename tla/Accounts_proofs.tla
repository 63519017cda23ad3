---------------------------- MODULE Accounts_proofs ----------------------------
(***************************************************************************)
(* Proofs about the accounts: for any number of accounts and threads, the  *)
(* types hold, accounts have their profiles, and requests that only take   *)
(* administrators away leave an active one.                                *)
(***************************************************************************)
EXTENDS Accounts, FiniteSetTheorems, TLAPS

(* A request in progress knows its account, and one that goes for the lock *)
(* has read it.                                                            *)
Busy ==
  \A c \in Calls :
    /\ call[c].pc # "idle" => call[c].user \in Users
    /\ call[c].pc \notin {"idle", "save_profile"} => call[c].read \in Documents

TInv == TypeOK /\ Busy

LEMMA NoCallType == NoCall \in CallStates /\ NoCall.pc = "idle" /\ NoCall.user = None
  BY DEF NoCall, CallStates, Steps

LEMMA InitTypes == Init => TInv
  BY NoCallType DEF Init, TypeOK, Busy, TInv

(* Going to another step keeps the types of the requests.                  *)
LEMMA GotoTypes ==
  ASSUME TInv, NEW c \in Calls, NEW pc \in Steps, call[c].pc \notin {"idle", "save_profile"},
         Goto(c, pc)
  PROVE  call' \in [Calls -> CallStates] /\ Busy'
<1>1. [call[c] EXCEPT !.pc = pc] \in CallStates
  BY DEF TInv, TypeOK, CallStates
<1>2. call' = [call EXCEPT ![c] = [call[c] EXCEPT !.pc = pc]]
  BY DEF Goto
<1>3. call[c].user \in Users /\ call[c].read \in Documents
  BY DEF TInv, Busy
<1>4. /\ [call[c] EXCEPT !.pc = pc].user = call[c].user
      /\ [call[c] EXCEPT !.pc = pc].read = call[c].read
  BY DEF TInv, TypeOK, CallStates
<1> QED
  BY <1>1, <1>2, <1>3, <1>4 DEF TInv, TypeOK, Busy

LEMMA EndsTypes ==
  ASSUME TInv, NEW c \in Calls, Ends(c)
  PROVE  call' \in [Calls -> CallStates] /\ Busy'
  BY NoCallType DEF TInv, TypeOK, Busy, Ends

LEMMA HandlerTypes ==
  ASSUME TInv, NEW c \in Calls, HandleRequest(c)
  PROVE  TInv'
<1> USE DEF TInv
<1>0. call[c] \in CallStates
  BY DEF TypeOK
<1>1. CASE SaveProfile(c)
  <2>1. call[c].user \in Users
    BY <1>1 DEF SaveProfile, Busy
  <2> QED
    BY <1>1, <2>1, EndsTypes DEF SaveProfile, TypeOK
<1>2. CASE ProfileFails(c)
  <2>1. account' \in [Users -> Documents \cup {None}]
    BY <1>2 DEF ProfileFails, Uncreated, TypeOK
  <2> QED
    BY <1>2, <2>1, EndsTypes DEF ProfileFails, TypeOK
<1>3. CASE Acquire(c)
  <2>1. lock' = c /\ Goto(c, "check") /\ call[c].pc = "lock"
    BY <1>3 DEF Acquire
  <2> QED
    BY <1>3, <2>1, GotoTypes DEF Acquire, TypeOK, Steps
<1>4. CASE GiveUpWaiting(c)
  BY <1>4, EndsTypes DEF GiveUpWaiting, TypeOK
<1>5. CASE Check(c)
  <2>1. PICK pc \in {"release", "drop_profile", "save"} : Goto(c, pc)
    BY <1>5 DEF Check
  <2> QED
    BY <1>5, <2>1, GotoTypes DEF Check, TypeOK, Steps
<1>6. CASE Save(c)
  <2> DEFINE u == call[c].user
  <2>1. u \in Users /\ call[c].read \in Documents
    BY <1>6 DEF Save, Busy
  <2>2. CASE account[u] = None
    <3>1. account' = [account EXCEPT ![u] = None]
      BY <1>6, <2>2 DEF Save
    <3> QED
      BY <1>6, <3>1, GotoTypes DEF Save, TypeOK, Steps
  <2>3. CASE account[u] # None
    <3> DEFINE role == Written(account[u].role, call[c].read.role, call[c].role)
               status == Written(account[u].status, call[c].read.status, call[c].status)
    <3>1. account' = [account EXCEPT ![u] = [role |-> role, status |-> status]]
      BY <1>6, <2>3 DEF Save
    <3>2. account[u] \in Documents
      BY <2>1, <2>3 DEF TypeOK
    <3>3. account[u].role \in Roles /\ account[u].status \in StatusValues
      BY <3>2 DEF Documents
    <3>4. call[c].role \in Roles \cup {None} /\ call[c].status \in StatusValues \cup {None}
      BY <1>0 DEF CallStates
    <3>5. role \in Roles /\ status \in StatusValues
      BY <3>3, <3>4 DEF Written
    <3>6. [role |-> role, status |-> status] \in Documents
      BY <3>5 DEF Documents
    <3> HIDE DEF role, status
    <3>7. account' \in [Users -> Documents \cup {None}]
      BY <3>1, <3>6 DEF TypeOK
    <3> QED
      BY <1>6, <3>7, GotoTypes DEF Save, TypeOK, Steps
  <2> QED
    BY <2>2, <2>3
<1>7. CASE DropProfile(c)
  BY <1>7, GotoTypes DEF DropProfile, TypeOK, Steps
<1>8. CASE DropAccount(c)
  <2>1. account' \in [Users -> Documents \cup {None}]
    BY <1>8 DEF DropAccount, TypeOK
  <2> QED
    BY <1>8, <2>1, GotoTypes DEF DropAccount, TypeOK, Steps
<1>9. CASE Release(c)
  BY <1>9, EndsTypes DEF Release, Freed, TypeOK
<1> QED
  BY <1>1, <1>2, <1>3, <1>4, <1>5, <1>6, <1>7, <1>8, <1>9 DEF HandleRequest

LEMMA CreateTypes ==
  ASSUME TInv, NEW c \in Calls, NEW u \in Users, NEW role \in Roles, Create(c, u, role)
  PROVE  TInv'
<1> DEFINE r == [NoCall EXCEPT !.pc = "save_profile", !.user = u]
<1>1. r \in CallStates /\ r.user = u /\ r.pc = "save_profile"
  BY DEF NoCall, CallStates, Steps
<1>2. [role |-> role, status |-> "active"] \in Documents
  BY DEF Documents, StatusValues
<1>3. call' = [call EXCEPT ![c] = r]
  BY DEF Create
<1> HIDE DEF r
<1>4. Busy'
  BY <1>1, <1>3 DEF TInv, TypeOK, Busy
<1> QED
  BY <1>1, <1>2, <1>3, <1>4 DEF Create, TInv, TypeOK

(* What Update and Delete begin is a request.                              *)
LEMMA BeginTypes ==
  ASSUME TInv, NEW c \in Calls, NEW u \in Users, account[u] # None,
         NEW role \in Roles \cup {None}, NEW status \in StatusValues \cup {None},
         NEW deleting \in BOOLEAN,
         call' = [call EXCEPT ![c] = [pc |-> "lock", user |-> u, read |-> account[u],
                                      role |-> role, status |-> status, deleting |-> deleting]],
         UNCHANGED <<account, profile, lock, cut>>
  PROVE  TInv'
<1> DEFINE r == [pc |-> "lock", user |-> u, read |-> account[u],
                 role |-> role, status |-> status, deleting |-> deleting]
<1>1. account[u] \in Documents
  BY DEF TInv, TypeOK
<1>2. r \in CallStates /\ r.user = u /\ r.read = account[u]
  BY <1>1 DEF CallStates, Steps
<1>3. call' = [call EXCEPT ![c] = r]
  OBVIOUS
<1> HIDE DEF r
<1>4. Busy'
  BY <1>1, <1>2, <1>3 DEF TInv, TypeOK, Busy
<1> QED
  BY <1>2, <1>3, <1>4 DEF TInv, TypeOK

LEMMA StepTypes == TInv /\ [Next]_vars => TInv'
<1> SUFFICES ASSUME TInv, [Next]_vars PROVE TInv'
  OBVIOUS
<1>1. CASE \E c \in Calls, u \in Users, role \in Roles : Create(c, u, role)
  BY <1>1, CreateTypes
<1>2. ASSUME NEW c \in Calls, NEW u \in Users, NEW role \in Roles \cup {None},
             NEW status \in StatusValues \cup {None}, Update(c, u, role, status)
      PROVE  TInv'
  BY <1>2, BeginTypes DEF Update
<1>3. ASSUME NEW c \in Calls, NEW u \in Users, Delete(c, u)
      PROVE  TInv'
  BY <1>3, BeginTypes DEF Delete
<1>4. CASE \E c \in Calls : HandleRequest(c)
  BY <1>4, HandlerTypes
<1>5. CASE LockExpires
  BY <1>5 DEF LockExpires, TInv, TypeOK, Busy
<1>6. CASE Kill
  <2>1. call' \in [Calls -> CallStates] /\ Busy'
    BY <1>6, NoCallType DEF Kill, TInv, TypeOK, Busy
  <2>2. cut' \subseteq Users
    BY <1>6 DEF Kill, TInv, TypeOK, Busy
  <2> QED
    BY <1>6, <2>1, <2>2 DEF Kill, TInv, TypeOK
<1>7. CASE UNCHANGED vars
  BY <1>7 DEF vars, TInv, TypeOK, Busy
<1> QED
  BY <1>1, <1>2, <1>3, <1>4, <1>5, <1>6, <1>7 DEF Next

(* Accounts, the lock and the requests keep their types.                   *)
THEOREM TypeCorrect == Spec => []TypeOK
<1>1. Spec => []TInv
  BY InitTypes, StepTypes, PTL DEF Spec
<1>2. TInv => TypeOK
  BY DEF TInv
<1> QED
  BY <1>1, <1>2, PTL
(***************************************************************************)
(* Profiles.  Only the request that is creating or deleting an account     *)
(* leaves it without a profile.                                            *)
(***************************************************************************)
LEMMA InitProfiles == Init => AccountHasProfile
  BY DEF Init, AccountHasProfile

(* A step of one request that is not at work on v leaves v at work.        *)
LEMMA StaysAtWork ==
  ASSUME NEW c \in Calls, NEW v, AtWork(v),
         call[c].user # v \/ call[c].pc \notin {"save_profile", "drop_account"},
         \A d \in Calls \ {c} : call'[d] = call[d]
  PROVE  AtWork(v)'
  BY DEF AtWork

LEMMA HandlerProfiles ==
  ASSUME TInv, AccountHasProfile, NEW c \in Calls, HandleRequest(c)
  PROVE  AccountHasProfile'
<1> SUFFICES ASSUME NEW v \in Users, account'[v] # None
             PROVE  v \in profile' \cup cut' \/ AtWork(v)'
  BY DEF AccountHasProfile
<1> DEFINE u == call[c].user
<1>0. \A d \in Calls \ {c} : call'[d] = call[d]
  BY DEF HandleRequest, SaveProfile, ProfileFails, Acquire, GiveUpWaiting,
         Check, Save, DropProfile, DropAccount, Release, Goto, Ends, TInv, TypeOK
<1>1. CASE SaveProfile(c)
  <2>1. CASE v = u
    BY <1>1, <2>1 DEF SaveProfile
  <2>2. CASE v # u
    BY <1>0, <1>1, <2>2, StaysAtWork DEF SaveProfile, AccountHasProfile
  <2> QED
    BY <2>1, <2>2
<1>2. CASE ProfileFails(c) \/ DropAccount(c)
  <2>1. u \in Users
    BY <1>2 DEF ProfileFails, DropAccount, TInv, Busy
  <2>2. v # u /\ account'[v] = account[v]
    BY <1>2, <2>1 DEF ProfileFails, Uncreated, DropAccount, TInv, TypeOK
  <2>3. profile' = profile /\ cut' = cut
    BY <1>2 DEF ProfileFails, DropAccount
  <2> QED
    BY <1>0, <2>2, <2>3, StaysAtWork DEF AccountHasProfile
<1>3. CASE DropProfile(c)
  <2>1. CASE v = u
    <3>1. call'[c].pc = "drop_account" /\ call'[c].user = u
      BY <1>3 DEF DropProfile, Goto, TInv, TypeOK, CallStates
    <3> QED
      BY <2>1, <3>1 DEF AtWork
  <2>2. CASE v # u
    BY <1>0, <1>3, <2>2, StaysAtWork DEF DropProfile, AccountHasProfile
  <2> QED
    BY <2>1, <2>2
<1>4. CASE Save(c)
  <2>1. account[v] # None
    BY <1>4 DEF Save, TInv, TypeOK, Busy
  <2> QED
    BY <1>0, <1>4, <2>1, StaysAtWork DEF Save, AccountHasProfile
<1>5. CASE Acquire(c) \/ GiveUpWaiting(c) \/ Check(c) \/ Release(c)
  <2>1. UNCHANGED <<account, profile, cut>> /\ call[c].pc \in {"lock", "check", "release"}
    BY <1>5 DEF Acquire, GiveUpWaiting, Check, Release
  <2> QED
    BY <1>0, <2>1, StaysAtWork DEF AccountHasProfile
<1> QED
  BY <1>1, <1>2, <1>3, <1>4, <1>5 DEF HandleRequest

LEMMA StepProfiles == TInv /\ AccountHasProfile /\ [Next]_vars => AccountHasProfile'
<1> SUFFICES ASSUME TInv, AccountHasProfile, [Next]_vars PROVE AccountHasProfile'
  OBVIOUS
<1>1. ASSUME NEW c \in Calls, NEW u \in Users, NEW role \in Roles, Create(c, u, role)
      PROVE  AccountHasProfile'
  <2> SUFFICES ASSUME NEW v \in Users, account'[v] # None
               PROVE  v \in profile' \cup cut' \/ AtWork(v)'
    BY DEF AccountHasProfile
  <2>1. CASE v = u
    <3>1. call'[c].pc = "save_profile" /\ call'[c].user = u
      BY <1>1 DEF Create, NoCall, TInv, TypeOK
    <3> QED
      BY <2>1, <3>1 DEF AtWork
  <2>2. CASE v # u
    <3>1. account[v] # None /\ profile' = profile /\ (v \in cut => v \in cut')
      BY <1>1, <2>2 DEF Create, TInv, TypeOK
    <3>2. \A d \in Calls \ {c} : call'[d] = call[d]
      BY <1>1 DEF Create, TInv, TypeOK
    <3>3. call[c].pc = "idle"
      BY <1>1, NoCallType DEF Create
    <3> QED
      BY <3>1, <3>2, <3>3, StaysAtWork DEF AccountHasProfile
  <2> QED
    BY <2>1, <2>2
<1>2. ASSUME NEW c \in Calls, NEW u \in Users, NEW role, NEW status,
             Update(c, u, role, status) \/ Delete(c, u)
      PROVE  AccountHasProfile'
  <2>1. /\ UNCHANGED <<account, profile, cut>> /\ call[c].pc = "idle"
        /\ \A d \in Calls \ {c} : call'[d] = call[d]
    BY <1>2, NoCallType DEF Update, Delete, TInv, TypeOK
  <2>2. \A v : AtWork(v) => AtWork(v)'
    BY <2>1, StaysAtWork
  <2> QED
    BY <2>1, <2>2 DEF AccountHasProfile
<1>3. CASE \E c \in Calls : HandleRequest(c)
  BY <1>3, HandlerProfiles
<1>4. CASE LockExpires \/ UNCHANGED vars
  BY <1>4 DEF LockExpires, vars, AccountHasProfile, AtWork
<1>5. CASE Kill
  BY <1>5 DEF Kill, AccountHasProfile, AtWork
<1> QED
  BY <1>1, <1>2, <1>3, <1>4, <1>5 DEF Next

(* Whatever fails and whatever overlaps, an account is without its profile *)
(* only while one request creates or deletes it, or after a kill cut that  *)
(* request short.                                                          *)
THEOREM AccountsHaveProfiles == Spec => []AccountHasProfile
<1>1. Init => TInv /\ AccountHasProfile
  BY InitTypes, InitProfiles
<1>2. (TInv /\ AccountHasProfile) /\ [Next]_vars => (TInv /\ AccountHasProfile)'
  BY StepTypes, StepProfiles
<1> QED
  BY <1>1, <1>2, PTL DEF Spec

(***************************************************************************)
(* The last administrator.  Requests only take administrators away, the    *)
(* accounts that may be undone are plain users', and nobody outlasts the   *)
(* lock.  Then what a request read of an account is never less than what   *)
(* it is now; and one that has passed the check leaves another active      *)
(* administrator, whom nobody else can touch without the lock.             *)
(***************************************************************************)
OnlyTakesAway ==
  /\ \A c \in Calls : {"admin", "active"} \cap Serves[c] = {}
  /\ "profile" \in Faults => \A c \in Calls : "create_admin" \notin Serves[c]
  /\ "expiry" \notin Faults

InBlock == {"check", "save", "drop_profile", "drop_account", "release"}
Passed == {"save", "drop_profile", "drop_account"}

Mutex == \A c \in Calls : call[c].pc \in InBlock => lock = c

GrantsNothing ==
  \A c \in Calls : call[c].pc \in {"lock"} \cup InBlock =>
    RemovesAdmin(call[c]) /\ call[c].role # "admin" /\ call[c].status # "active"

ReadIsNoLess ==
  \A c \in Calls : call[c].pc \in {"lock"} \cup InBlock =>
    (IsActiveAdmin(account[call[c].user]) => IsActiveAdmin(call[c].read))

LeavesAnother ==
  \A c \in Calls : call[c].pc \in Passed /\ IsActiveAdmin(call[c].read) =>
    \E v \in Users \ {call[c].user} : IsActiveAdmin(account[v])

UndoesPlainUsers ==
  "profile" \in Faults =>
    \A c \in Calls : call[c].pc = "save_profile" => ~IsActiveAdmin(account[call[c].user])

LInv ==
  /\ TInv /\ AdminRemains
  /\ Mutex /\ GrantsNothing /\ ReadIsNoLess /\ LeavesAnother /\ UndoesPlainUsers

LEMMA InitLasts == Init => LInv
<1>1. Init => \A c \in Calls : call[c].pc = "idle"
  BY NoCallType DEF Init
<1> QED
  BY <1>1, InitTypes DEF Init, LInv, AdminRemains, Mutex, GrantsNothing, ReadIsNoLess,
     LeavesAnother, UndoesPlainUsers, InBlock, Passed

(* An account that is not the last active administrator leaves another.    *)
LEMMA AnotherOne ==
  ASSUME NEW u, ~(Cardinality(ActiveAdmins) <= 1)
  PROVE  \E v \in Users \ {u} : IsActiveAdmin(account[v])
<1>1. IsFiniteSet(ActiveAdmins)
  BY FS_Subset, AccountsAssumption DEF ActiveAdmins
<1>2. ASSUME ActiveAdmins \subseteq {u} PROVE FALSE
  <2>1. IsFiniteSet({u}) /\ Cardinality({u}) = 1
    BY FS_Singleton
  <2>2. Cardinality(ActiveAdmins) <= 1
    BY <1>2, <2>1, FS_Subset
  <2> QED
    BY <2>2
<1> QED
  BY <1>2 DEF ActiveAdmins

(* A step that begins, waits, checks or ends, and writes no account.       *)
LEMMA ReadingSteps ==
  ASSUME OnlyTakesAway, LInv, NEW c \in Calls,
         SaveProfile(c) \/ Acquire(c) \/ GiveUpWaiting(c) \/ Check(c) \/ DropProfile(c)
           \/ Release(c)
  PROVE  LInv'
<1> DEFINE r == call[c]
           q == call'[c]
<1>0. TInv' /\ r \in CallStates
  BY HandlerTypes DEF LInv, HandleRequest, TInv, TypeOK
<1>1. account' = account /\ AdminRemains' /\ \A d \in Calls \ {c} : call'[d] = call[d]
  BY DEF SaveProfile, Acquire, GiveUpWaiting, Check, DropProfile, Release,
         Goto, Ends, LInv, TInv, TypeOK, AdminRemains, ActiveAdmins
<1>2. \/ q.pc = "idle"
      \/ /\ r.pc \in {"lock"} \cup InBlock /\ q = [r EXCEPT !.pc = q.pc]
         /\ q.pc \in InBlock
  BY NoCallType DEF SaveProfile, Acquire, GiveUpWaiting, Check, DropProfile,
         Release, Goto, Ends, LInv, TInv, TypeOK, CallStates, InBlock
<1>3. q.pc = "idle" \/ (q.user = r.user /\ q.read = r.read /\ q.role = r.role
        /\ q.status = r.status /\ q.deleting = r.deleting)
  BY <1>0, <1>2 DEF CallStates
<1>4. Mutex'
  <2>1. q.pc \in InBlock => lock' = c
    BY <1>0, <1>2 DEF SaveProfile, Acquire, GiveUpWaiting, Check, DropProfile,
       Release, LInv, Mutex, InBlock, Ends, TInv, TypeOK, NoCall
  <2>2. ASSUME NEW d \in Calls \ {c}, call[d].pc \in InBlock PROVE lock' = d
    <3>1. lock = d /\ d # None
      BY <2>2, AccountsAssumption DEF LInv, Mutex
    <3> QED
      BY <3>1 DEF SaveProfile, Acquire, GiveUpWaiting, Check, DropProfile,
         Release, Freed
  <2> QED
    BY <1>1, <2>1, <2>2 DEF Mutex
<1>5. GrantsNothing'
  BY <1>1, <1>2, <1>3 DEF LInv, GrantsNothing, RemovesAdmin, InBlock
<1>6. ReadIsNoLess'
  BY <1>1, <1>2, <1>3 DEF LInv, ReadIsNoLess, InBlock
<1>7. LeavesAnother'
  <2>1. ASSUME q.pc \in Passed, IsActiveAdmin(q.read)
        PROVE  \E v \in Users \ {q.user} : IsActiveAdmin(account[v])
    <3>1. q.user = r.user /\ q.read = r.read /\ r.pc # "idle"
      BY <1>2, <1>3, <2>1 DEF Passed, InBlock
    <3>2. CASE Check(c)
      <4>1. ~(RemovesAdmin(r) /\ IsLastAdmin(r.read))
        <5> SUFFICES ASSUME RemovesAdmin(r) /\ IsLastAdmin(r.read) PROVE FALSE
          OBVIOUS
        <5>1. Goto(c, "release")
          BY <3>2 DEF Check
        <5>2. q.pc = "release"
          BY <1>0, <5>1 DEF Goto, LInv, TInv, TypeOK, CallStates
        <5> QED
          BY <2>1, <5>2 DEF Passed
      <4>2. RemovesAdmin(r)
        BY <3>2 DEF Check, LInv, GrantsNothing, InBlock
      <4> QED
        BY <2>1, <3>1, <4>1, <4>2, AnotherOne DEF IsLastAdmin
    <3>3. CASE DropProfile(c)
      BY <2>1, <3>1, <3>3 DEF DropProfile, LInv, LeavesAnother, Passed
    <3>4. CASE ~Check(c) /\ ~DropProfile(c)
      <4>1. q.pc \in {"idle", "check"}
        BY <3>4, NoCallType DEF SaveProfile, Acquire, GiveUpWaiting, Release,
           Goto, Ends, LInv, TInv, TypeOK, CallStates
      <4> QED
        BY <2>1, <4>1 DEF Passed
    <3> QED
      BY <3>2, <3>3, <3>4
  <2> QED
    BY <1>1, <2>1 DEF LInv, LeavesAnother
<1>8. UndoesPlainUsers'
  BY <1>1, <1>2 DEF LInv, UndoesPlainUsers, InBlock
<1> QED
  BY <1>0, <1>1, <1>4, <1>5, <1>6, <1>7, <1>8 DEF LInv

(* Save and DropAccount take at most their own account away, and hold the  *)
(* lock, so that no other request relies on the administrator they take.   *)
LEMMA WritingSteps ==
  ASSUME OnlyTakesAway, LInv, NEW c \in Calls, Save(c) \/ DropAccount(c)
  PROVE  LInv'
<1> DEFINE u == call[c].user
<1>0. TInv' /\ u \in Users /\ call[c].pc \in Passed /\ lock' = lock
  BY HandlerTypes DEF LInv, HandleRequest, TInv, Busy, Save, DropAccount, Passed
<1>1. \A d \in Calls \ {c} : call'[d] = call[d]
  BY DEF Save, DropAccount, Goto, LInv, TInv, TypeOK
<1>2. call'[c] = [call[c] EXCEPT !.pc = "release"]
  BY DEF Save, DropAccount, Goto, LInv, TInv, TypeOK
<1>3. \A v \in Users \ {u} : account'[v] = account[v]
  BY <1>0 DEF Save, DropAccount, LInv, TInv, TypeOK
<1>4. IsActiveAdmin(account'[u]) => IsActiveAdmin(account[u])
  <2>1. CASE DropAccount(c)
    BY <1>0, <2>1 DEF DropAccount, IsActiveAdmin, LInv, TInv, TypeOK
  <2>2. CASE Save(c) /\ account[u] = None
    BY <1>0, <2>2 DEF Save, IsActiveAdmin, LInv, TInv, TypeOK
  <2>3. CASE Save(c) /\ account[u] # None
    <3> DEFINE role == Written(account[u].role, call[c].read.role, call[c].role)
               status == Written(account[u].status, call[c].read.status, call[c].status)
    <3>1. account'[u] = [role |-> role, status |-> status]
      BY <1>0, <2>3 DEF Save, LInv, TInv, TypeOK
    <3>2. call[c].role # "admin" /\ call[c].status # "active"
      BY <1>0 DEF LInv, GrantsNothing, InBlock, Passed
    <3>3. role = "admin" => account[u].role = "admin"
      BY <3>2 DEF Written
    <3>4. status = "active" => account[u].status = "active"
      BY <3>2 DEF Written
    <3> HIDE DEF role, status
    <3> QED
      BY <2>3, <3>1, <3>3, <3>4 DEF IsActiveAdmin
  <2> QED
    BY <2>1, <2>2, <2>3
<1>5. AdminRemains'
  <2>1. CASE IsActiveAdmin(account[u])
    <3>1. \E v \in Users \ {u} : IsActiveAdmin(account[v])
      BY <1>0, <2>1 DEF LInv, ReadIsNoLess, LeavesAnother, Passed, InBlock
    <3> QED
      BY <1>3, <3>1 DEF AdminRemains, ActiveAdmins
  <2>2. CASE ~IsActiveAdmin(account[u])
    BY <1>3, <2>2 DEF LInv, AdminRemains, ActiveAdmins
  <2> QED
    BY <2>1, <2>2
<1>6. call'[c].pc = "release" /\ call'[c].user = u /\ call'[c].read = call[c].read
        /\ call'[c].role = call[c].role /\ call'[c].status = call[c].status
        /\ call'[c].deleting = call[c].deleting
  BY <1>2 DEF LInv, TInv, TypeOK, CallStates
<1>7. \A d \in Calls : call'[d].pc \in InBlock => call[d].pc \in InBlock
  BY <1>0, <1>1 DEF Passed, InBlock
<1>8. Mutex'
  BY <1>0, <1>7 DEF LInv, Mutex
<1>9. GrantsNothing'
  BY <1>0, <1>1, <1>6 DEF LInv, GrantsNothing, RemovesAdmin, Passed, InBlock
<1>10. ReadIsNoLess'
  <2> SUFFICES ASSUME NEW d \in Calls, call'[d].pc \in {"lock"} \cup InBlock,
                      IsActiveAdmin(account'[call'[d].user])
               PROVE  IsActiveAdmin(call'[d].read)
    BY DEF ReadIsNoLess
  <2>1. call[d].pc \in {"lock"} \cup InBlock /\ call'[d].user = call[d].user
          /\ call'[d].read = call[d].read
    BY <1>0, <1>1, <1>6 DEF Passed, InBlock
  <2>2. call[d].user \in Users
    BY <2>1 DEF LInv, TInv, Busy, InBlock
  <2>3. IsActiveAdmin(account[call[d].user])
    BY <1>3, <1>4, <2>1, <2>2
  <2> QED
    BY <2>1, <2>3 DEF LInv, ReadIsNoLess
<1>11. LeavesAnother'
  <2>1. \A d \in Calls : call'[d].pc \notin Passed
    <3>1. ASSUME NEW d \in Calls \ {c}, call[d].pc \in Passed PROVE FALSE
      BY <1>0, <3>1 DEF LInv, Mutex, Passed, InBlock
    <3> QED
      BY <1>1, <1>6, <3>1 DEF Passed
  <2> QED
    BY <2>1 DEF LeavesAnother
<1>12. UndoesPlainUsers'
  <2> SUFFICES ASSUME "profile" \in Faults, NEW d \in Calls, call'[d].pc = "save_profile"
               PROVE  ~IsActiveAdmin(account'[call'[d].user])
    BY DEF UndoesPlainUsers
  <2>1. call'[d] = call[d] /\ ~IsActiveAdmin(account[call[d].user]) /\ call[d].user \in Users
    BY <1>1, <1>6 DEF LInv, UndoesPlainUsers, TInv, Busy
  <2> QED
    BY <1>3, <1>4, <2>1
<1> QED
  BY <1>0, <1>5, <1>8, <1>9, <1>10, <1>11, <1>12 DEF LInv

(* A request that begins reads the account as it is.                       *)
LEMMA BeginningSteps ==
  ASSUME OnlyTakesAway, LInv, TInv', NEW c \in Calls, NEW u \in Users,
         \/ Delete(c, u)
         \/ \E role \in Roles \cup {None}, status \in StatusValues \cup {None} :
              Update(c, u, role, status)
  PROVE  LInv'
<1>1. /\ UNCHANGED <<account, profile, lock, cut>>
      /\ \A d \in Calls \ {c} : call'[d] = call[d]
  BY DEF Delete, Update, LInv, TInv, TypeOK
<1>2. /\ call'[c].pc = "lock" /\ call'[c].read = account[u] /\ call'[c].user = u
      /\ RemovesAdmin(call'[c])
      /\ call'[c].role # "admin" /\ call'[c].status # "active"
  <2>1. CASE Delete(c, u)
    BY <2>1, NoneIsNoAccount DEF Delete, LInv, TInv, TypeOK, RemovesAdmin, Roles, StatusValues
  <2>2. CASE \E role \in Roles \cup {None}, status \in StatusValues \cup {None} :
               Update(c, u, role, status)
    <3> PICK role \in Roles \cup {None}, status \in StatusValues \cup {None} :
               Update(c, u, role, status)
      BY <2>2
    <3>1. role # "admin" /\ status # "active"
      BY NoneIsNoAccount DEF Update, OnlyTakesAway, Roles, StatusValues
    <3>2. role = "user" \/ status = "disabled"
      BY <3>1 DEF Update, Roles, StatusValues
    <3> QED
      BY <3>1, <3>2 DEF Update, LInv, TInv, TypeOK, RemovesAdmin
  <2> QED
    BY <2>1, <2>2
<1>3. Mutex' /\ GrantsNothing' /\ ReadIsNoLess' /\ LeavesAnother' /\ UndoesPlainUsers'
  BY <1>1, <1>2 DEF LInv, Mutex, GrantsNothing, ReadIsNoLess, LeavesAnother, UndoesPlainUsers,
     InBlock, Passed
<1> QED
  BY <1>1, <1>3 DEF LInv, AdminRemains, ActiveAdmins

(* A new account has an id that no request knows.                          *)
LEMMA CreatingStep ==
  ASSUME OnlyTakesAway, LInv, NEW c \in Calls, NEW u \in Users, NEW role \in Roles,
         Create(c, u, role)
  PROVE  LInv'
<1>1. /\ \A d \in Calls \ {c} : call'[d] = call[d]
      /\ \A v \in Users \ {u} : account'[v] = account[v]
      /\ account'[u] = [role |-> role, status |-> "active"]
      /\ account[u] = None /\ lock' = lock
  BY DEF Create, Fresh, LInv, TInv, TypeOK
<1>2. call'[c].pc = "save_profile" /\ call'[c].user = u
  BY DEF Create, NoCall, LInv, TInv, TypeOK
<1>3. \A d \in Calls : call[d].user # u
  BY DEF Create, Fresh
<1>4. TInv'
  BY CreateTypes DEF LInv
<1>5. AdminRemains'
  BY <1>1 DEF LInv, AdminRemains, ActiveAdmins, IsActiveAdmin
<1>6. Mutex' /\ GrantsNothing'
  BY <1>1, <1>2 DEF LInv, Mutex, GrantsNothing, InBlock
<1>7. ASSUME NEW d \in Calls, call'[d].pc # "save_profile", call'[d].pc # "idle"
      PROVE  /\ call'[d] = call[d] /\ call[d].user \in Users \ {u}
             /\ account'[call[d].user] = account[call[d].user]
  BY <1>1, <1>2, <1>3, <1>7 DEF LInv, TInv, Busy
<1>8. ReadIsNoLess'
  BY <1>7 DEF LInv, ReadIsNoLess, InBlock
<1>9. LeavesAnother'
  <2> SUFFICES ASSUME NEW d \in Calls, call'[d].pc \in Passed, IsActiveAdmin(call'[d].read)
               PROVE  \E v \in Users \ {call'[d].user} : IsActiveAdmin(account'[v])
    BY DEF LeavesAnother
  <2>1. call'[d] = call[d]
    BY <1>7 DEF Passed
  <2>2. PICK v \in Users \ {call[d].user} : IsActiveAdmin(account[v])
    BY <2>1 DEF LInv, LeavesAnother
  <2>3. v # u
    BY <1>1, <2>2 DEF IsActiveAdmin
  <2> QED
    BY <1>1, <2>1, <2>2, <2>3
<1>10. UndoesPlainUsers'
  <2> SUFFICES ASSUME "profile" \in Faults, NEW d \in Calls, call'[d].pc = "save_profile"
               PROVE  ~IsActiveAdmin(account'[call'[d].user])
    BY DEF UndoesPlainUsers
  <2>1. CASE d = c
    <3>1. role # "admin"
      BY DEF OnlyTakesAway, Create, CreateKind
    <3> QED
      BY <1>1, <1>2, <2>1, <3>1 DEF IsActiveAdmin
  <2>2. CASE d # c
    <3>1. call'[d] = call[d] /\ call[d].user \in Users \ {u}
      BY <1>1, <1>3, <2>2 DEF LInv, TInv, Busy
    <3> QED
      BY <1>1, <3>1 DEF LInv, UndoesPlainUsers
  <2> QED
    BY <2>1, <2>2
<1> QED
  BY <1>4, <1>5, <1>6, <1>8, <1>9, <1>10 DEF LInv

(* A creation is undone for plain users only.                              *)
LEMMA UndoingStep ==
  ASSUME OnlyTakesAway, LInv, NEW c \in Calls, ProfileFails(c)
  PROVE  LInv'
<1> DEFINE u == call[c].user
<1>1. /\ u \in Users /\ account' = [account EXCEPT ![u] = None] /\ lock' = lock
      /\ ~IsActiveAdmin(account[u])
      /\ call'[c] = NoCall /\ \A d \in Calls \ {c} : call'[d] = call[d]
  BY DEF ProfileFails, Uncreated, Ends, LInv, TInv, Busy, TypeOK, UndoesPlainUsers
<1>2. \A v \in Users : IsActiveAdmin(account'[v]) <=> IsActiveAdmin(account[v])
  BY <1>1 DEF IsActiveAdmin, LInv, TInv, TypeOK
<1>3. TInv'
  BY HandlerTypes DEF LInv, HandleRequest
<1>4. AdminRemains'
  BY <1>2 DEF LInv, AdminRemains, ActiveAdmins
<1>5. \A d \in Calls : call'[d].pc # "idle" => call'[d] = call[d] /\ call[d].user \in Users
  BY <1>1, NoCallType DEF LInv, TInv, Busy
<1>6. Mutex' /\ GrantsNothing'
  BY <1>1, <1>5 DEF LInv, Mutex, GrantsNothing, InBlock
<1>7. ReadIsNoLess' /\ LeavesAnother' /\ UndoesPlainUsers'
  BY <1>2, <1>5 DEF LInv, ReadIsNoLess, LeavesAnother, UndoesPlainUsers, InBlock, Passed
<1> QED
  BY <1>3, <1>4, <1>6, <1>7 DEF LInv

LEMMA StepLasts == OnlyTakesAway /\ LInv /\ [Next]_vars => LInv'
<1> SUFFICES ASSUME OnlyTakesAway, LInv, [Next]_vars PROVE LInv'
  OBVIOUS
<1>0. TInv'
  BY StepTypes DEF LInv
<1>1. CASE \E c \in Calls, u \in Users, role \in Roles : Create(c, u, role)
  BY <1>1, CreatingStep
<1>2. CASE \E c \in Calls, u \in Users, role \in Roles \cup {None},
             status \in StatusValues \cup {None} : Update(c, u, role, status)
  BY <1>0, <1>2, BeginningSteps
<1>3. CASE \E c \in Calls, u \in Users : Delete(c, u)
  BY <1>0, <1>3, BeginningSteps
<1>4. CASE \E c \in Calls : HandleRequest(c)
  BY <1>4, ReadingSteps, WritingSteps, UndoingStep DEF HandleRequest
<1>5. CASE LockExpires
  <2>1. UNCHANGED <<account, call>> /\ lock = Dead
    BY <1>5 DEF LockExpires, OnlyTakesAway
  <2>2. Mutex'
    BY <2>1, AccountsAssumption DEF LInv, Mutex
  <2> QED
    BY <1>0, <2>1, <2>2 DEF LInv, AdminRemains, ActiveAdmins, GrantsNothing, ReadIsNoLess,
       LeavesAnother, UndoesPlainUsers
<1>6. CASE Kill
  <2>1. account' = account /\ \A c \in Calls : call'[c].pc = "idle"
    BY <1>6, NoCallType DEF Kill
  <2> QED
    BY <1>0, <2>1 DEF LInv, AdminRemains, ActiveAdmins, Mutex, GrantsNothing, ReadIsNoLess,
       LeavesAnother, UndoesPlainUsers, InBlock, Passed
<1>7. CASE UNCHANGED vars
  BY <1>0, <1>7 DEF vars, LInv, AdminRemains, ActiveAdmins, Mutex, GrantsNothing, ReadIsNoLess,
     LeavesAnother, UndoesPlainUsers
<1> QED
  BY <1>1, <1>2, <1>3, <1>4, <1>5, <1>6, <1>7 DEF Next

(* Where requests take administrators away and make none, a creation that  *)
(* may be undone is a plain user's, and no request outlasts its lock, they *)
(* leave an active administrator however they overlap.                     *)
THEOREM AnAdminRemains == OnlyTakesAway => (Spec => []AdminRemains)
<1> SUFFICES ASSUME OnlyTakesAway PROVE Spec => []AdminRemains
  OBVIOUS
<1>1. LInv /\ [Next]_vars => LInv'
  BY StepLasts
<1>2. LInv => AdminRemains
  BY DEF LInv
<1> QED
  BY <1>1, <1>2, InitLasts, PTL DEF Spec
===============================================================================
