--------------------------- MODULE Delivery_proofs ---------------------------
(***************************************************************************)
(* That the queues are lines: the requests of TaskQueues implement the     *)
(* steps of FifoQueues, and an entry is handed to one agent only.          *)
(***************************************************************************)
EXTENDS TaskQueues_proofs

AgentOps == {"get_next_task", "agent"}

(***************************************************************************)
(* The tasks of a queue, and what the updates of its entries do to them.   *)
(***************************************************************************)
Line(s) == [i \in DOMAIN s |-> s[i].task]

LEMMA LineType ==
  ASSUME NEW s \in Seq(Entries)
  PROVE  /\ Line(s) \in Seq(Tasks)
         /\ Len(Line(s)) = Len(s)
         /\ DOMAIN Line(s) = 1..Len(s) /\ DOMAIN s = 1..Len(s)
         /\ \A i \in 1..Len(s) : Line(s)[i] = s[i].task
<1>1. Len(s) \in Nat /\ DOMAIN s = 1..Len(s)
  BY LenProperties
<1>2. \A i \in 1..Len(s) : s[i].task \in Tasks
  BY <1>1, EntryType
<1>3. Line(s) = [i \in 1..Len(s) |-> s[i].task]
  BY <1>1 DEF Line
<1>4. Line(s) \in Seq(Tasks)
  BY <1>1, <1>2, <1>3, IsASeq
<1>5. Len(Line(s)) = Len(s)
  BY <1>1, <1>3, <1>4, LenProperties
<1> QED
  BY <1>1, <1>3, <1>4, <1>5

LEMMA LineAppend ==
  ASSUME NEW s \in Seq(Entries), NEW e \in Entries
  PROVE  Line(Append(s, e)) = Append(Line(s), e.task)
<1> DEFINE l == Line(Append(s, e))
           m == Append(Line(s), e.task)
<1>1. /\ Append(s, e) \in Seq(Entries)
      /\ Len(Append(s, e)) = Len(s) + 1
      /\ \A i \in 1..Len(s) : Append(s, e)[i] = s[i]
      /\ Append(s, e)[Len(s) + 1] = e
  BY AppendProperties
<1>2. Line(s) \in Seq(Tasks) /\ Len(Line(s)) = Len(s) /\ Len(s) \in Nat /\ e.task \in Tasks
      /\ \A i \in 1..Len(s) : Line(s)[i] = s[i].task
  BY LineType, LenProperties DEF Entries
<1>3. /\ m \in Seq(Tasks)
      /\ Len(m) = Len(s) + 1
      /\ \A i \in 1..Len(s) : m[i] = s[i].task
      /\ m[Len(s) + 1] = e.task
  BY <1>2, AppendProperties
<1>4. /\ l \in Seq(Tasks)
      /\ Len(l) = Len(s) + 1
      /\ \A i \in 1..(Len(s) + 1) : l[i] = Append(s, e)[i].task
  BY <1>1, LineType
<1>5. \A i \in 1..Len(l) : l[i] = m[i]
  BY <1>1, <1>2, <1>3, <1>4
<1> HIDE DEF l, m
<1>6. l = m
  BY <1>3, <1>4, <1>5, SeqEqual
<1> QED
  BY <1>6 DEF l, m

LEMMA RemovedTask ==
  ASSUME NEW w \in Seq(Tasks), NEW n, n = Len(w), NEW k \in 1..n
  PROVE  /\ RemoveAt(w, k) \in Seq(Tasks)
         /\ Len(RemoveAt(w, k)) = n - 1
         /\ \A j \in 1..(n - 1) : RemoveAt(w, k)[j] = IF j < k THEN w[j] ELSE w[j + 1]
<1>1. k \in 1..Len(w)
  OBVIOUS
<1>2. /\ RemoveAt(w, k) \in Seq(Tasks)
      /\ Len(RemoveAt(w, k)) = Len(w) - 1
      /\ \A j \in 1..(Len(w) - 1) : RemoveAt(w, k)[j] = IF j < k THEN w[j] ELSE w[j + 1]
  BY <1>1, RemoveAtProperties
<1> QED
  BY <1>2

LEMMA LineRemove ==
  ASSUME NEW s \in Seq(Entries), NEW i \in DOMAIN s
  PROVE  Line(RemoveAt(s, i)) = RemoveAt(Line(s), i)
<1> DEFINE l == Line(RemoveAt(s, i))
           m == RemoveAt(Line(s), i)
<1>0. i \in 1..Len(s)
  BY LenProperties
<1>1. Line(s) \in Seq(Tasks) /\ Len(Line(s)) = Len(s) /\ Len(s) \in Nat /\ i \in 1..Len(s)
      /\ \A j \in 1..Len(s) : Line(s)[j] = s[j].task
  BY <1>0, LineType, LenProperties
<1>2. /\ RemoveAt(s, i) \in Seq(Entries)
      /\ Len(RemoveAt(s, i)) = Len(s) - 1
      /\ \A j \in 1..(Len(s) - 1) : RemoveAt(s, i)[j] = IF j < i THEN s[j] ELSE s[j + 1]
  BY <1>0, RemoveAtProperties
<1>3. /\ m \in Seq(Tasks)
      /\ Len(m) = Len(s) - 1
      /\ \A j \in 1..(Len(s) - 1) : m[j] = IF j < i THEN Line(s)[j] ELSE Line(s)[j + 1]
  <2>1. Line(s) \in Seq(Tasks) /\ Len(s) = Len(Line(s))
    BY <1>1
  <2> QED
    BY <1>0, <2>1, RemovedTask
<1>4. /\ l \in Seq(Tasks)
      /\ Len(l) = Len(s) - 1
      /\ \A j \in 1..(Len(s) - 1) : l[j] = RemoveAt(s, i)[j].task
  BY <1>2, LineType
<1> HIDE DEF l, m
<1>5. ASSUME NEW j \in 1..Len(l)
      PROVE  l[j] = m[j]
  <2>1. /\ j \in 1..(Len(s) - 1) /\ j \in 1..Len(s) /\ j + 1 \in 1..Len(s)
        /\ l[j] = RemoveAt(s, i)[j].task
    BY <1>1, <1>4
  <2>2. CASE j < i
    BY <1>1, <1>2, <1>3, <2>1, <2>2
  <2>3. CASE ~(j < i)
    BY <1>1, <1>2, <1>3, <2>1, <2>3
  <2> QED
    BY <2>2, <2>3
<1>6. l = m
  BY <1>3, <1>4, <1>5, SeqEqual
<1> QED
  BY <1>6 DEF l, m

(* u is w, which has n - 1 tasks, with t at position k.                    *)
Inserted(u, w, k, t, n) ==
  /\ u \in Seq(Tasks)
  /\ Len(u) = n
  /\ \A j \in 1..n : u[j] = IF j < k THEN w[j] ELSE IF j = k THEN t ELSE w[j - 1]

LEMMA InsertedAt ==
  ASSUME NEW w \in Seq(Tasks), NEW k \in 1..(Len(w) + 1), NEW t \in Tasks
  PROVE  Inserted(InsertAt(w, k, t), w, k, t, Len(w) + 1)
BY InsertAtProperties DEF Inserted

LEMMA LineInsert ==
  ASSUME NEW s \in Seq(Entries), NEW i \in 1..(Len(s) + 1), NEW e \in Entries
  PROVE  Line(InsertAt(s, i, e)) = InsertAt(Line(s), i, e.task)
<1> DEFINE l == Line(InsertAt(s, i, e))
           m == InsertAt(Line(s), i, e.task)
<1>1. Line(s) \in Seq(Tasks) /\ Len(Line(s)) = Len(s) /\ Len(s) \in Nat /\ e.task \in Tasks
      /\ \A j \in 1..Len(s) : Line(s)[j] = s[j].task
  BY LineType, LenProperties DEF Entries
<1>2. /\ InsertAt(s, i, e) \in Seq(Entries)
      /\ Len(InsertAt(s, i, e)) = Len(s) + 1
      /\ \A j \in 1..(Len(s) + 1) :
           InsertAt(s, i, e)[j] = IF j < i THEN s[j] ELSE IF j = i THEN e ELSE s[j - 1]
  BY InsertAtProperties
<1>3. /\ m \in Seq(Tasks)
      /\ Len(m) = Len(s) + 1
      /\ \A j \in 1..(Len(s) + 1) :
           m[j] = IF j < i THEN Line(s)[j] ELSE IF j = i THEN e.task ELSE Line(s)[j - 1]
  <2>1. Line(s) \in Seq(Tasks) /\ Len(s) = Len(Line(s)) /\ e.task \in Tasks
    BY <1>1
  <2>2. i \in 1..(Len(Line(s)) + 1)
    BY <2>1
  <2>3. Inserted(m, Line(s), i, e.task, Len(Line(s)) + 1)
    BY <2>1, <2>2, InsertedAt
  <2>4. Inserted(m, Line(s), i, e.task, Len(s) + 1)
    BY <2>1, <2>3
  <2> QED
    BY <2>4, Zenon DEF Inserted
<1>4. /\ l \in Seq(Tasks)
      /\ Len(l) = Len(s) + 1
      /\ \A j \in 1..(Len(s) + 1) : l[j] = InsertAt(s, i, e)[j].task
  BY <1>2, LineType
<1> HIDE DEF l, m
<1>5. ASSUME NEW j \in 1..Len(l)
      PROVE  l[j] = m[j]
  <2>1. j \in 1..(Len(s) + 1) /\ l[j] = InsertAt(s, i, e)[j].task /\ i \in Int
    BY <1>1, <1>4
  <2>2. InsertAt(s, i, e)[j] = IF j < i THEN s[j] ELSE IF j = i THEN e ELSE s[j - 1]
    BY <1>2, <2>1, Zenon
  <2>3. m[j] = IF j < i THEN Line(s)[j] ELSE IF j = i THEN e.task ELSE Line(s)[j - 1]
    BY <1>3, <2>1, Zenon
  <2>4. CASE j < i
    <3>1. j \in 1..Len(s)
      BY <1>1, <2>1, <2>4
    <3>2. Line(s)[j] = s[j].task
      BY <1>1, <3>1
    <3> QED
      BY <2>1, <2>2, <2>3, <2>4, <3>2
  <2>5. CASE j = i
    BY <2>1, <2>2, <2>3, <2>5
  <2>6. CASE i < j
    <3>1. j - 1 \in 1..Len(s) /\ ~(j < i) /\ j # i
      BY <1>1, <2>1, <2>6
    <3>2. Line(s)[j - 1] = s[j - 1].task
      BY <1>1, <3>1
    <3> QED
      BY <2>1, <2>2, <2>3, <3>1, <3>2
  <2> QED
    BY <2>1, <2>4, <2>5, <2>6
<1>6. l = m
  BY <1>3, <1>4, <1>5, SeqEqual
<1> QED
  BY <1>6 DEF l, m

LEMMA LinePop ==
  ASSUME NEW s \in Seq(Entries), s # <<>>
  PROVE  /\ Line(s) # <<>>
         /\ Head(Line(s)) = s[1].task
         /\ Tail(Line(s)) = Line(RemoveAt(s, 1))
<1>1. Len(s) \in Nat /\ Len(s) >= 1 /\ 1 \in DOMAIN s
  BY EmptySeq, LenProperties
<1>2. Line(s) \in Seq(Tasks) /\ Len(Line(s)) = Len(s)
      /\ \A j \in 1..Len(s) : Line(s)[j] = s[j].task
  BY LineType
<1>3. Line(s) # <<>>
  BY <1>1, <1>2, EmptySeq
<1>4. /\ Tail(Line(s)) \in Seq(Tasks)
      /\ Len(Tail(Line(s))) = Len(s) - 1
      /\ \A j \in 1..(Len(s) - 1) : Tail(Line(s))[j] = Line(s)[j + 1]
  BY <1>1, <1>2, <1>3, HeadTailProperties
<1>5. /\ RemoveAt(Line(s), 1) \in Seq(Tasks)
      /\ Len(RemoveAt(Line(s), 1)) = Len(s) - 1
      /\ \A j \in 1..(Len(s) - 1) :
           RemoveAt(Line(s), 1)[j] = IF j < 1 THEN Line(s)[j] ELSE Line(s)[j + 1]
  BY <1>1, <1>2, RemoveAtProperties
<1>6. Tail(Line(s)) = RemoveAt(Line(s), 1)
  <2>1. \A j \in 1..(Len(s) - 1) : ~(j < 1)
    BY <1>1
  <2>2. \A j \in 1..Len(Tail(Line(s))) : Tail(Line(s))[j] = RemoveAt(Line(s), 1)[j]
    BY <1>4, <1>5, <2>1
  <2> QED
    BY <1>4, <1>5, <2>2, SeqEqual
<1>7. Head(Line(s)) = s[1].task
  BY <1>1, <1>2, <1>3
<1> QED
  BY <1>1, <1>3, <1>6, <1>7, LineRemove

(***************************************************************************)
(* What a step does to the queues, and to what agents hold.                *)
(***************************************************************************)
Pushes ==
  \E q \in Queues, e \in Entries :
    /\ ~Holds(entries[q], e.task)
    /\ e.added \notin UsedStamps
    /\ entries' = [entries EXCEPT ![q] = Append(entries[q], e)]
Removes ==
  \E q \in Queues : \E i \in DOMAIN entries[q] :
    entries' = [entries EXCEPT ![q] = RemoveAt(entries[q], i)]
Shifts ==
  \E q \in Queues : \E i, j \in DOMAIN entries[q] :
    entries' = [entries EXCEPT ![q] = InsertAt(RemoveAt(entries[q], i), j, entries[q][i])]
Clears ==
  \E q \in Queues : entries' = [entries EXCEPT ![q] = <<>>]

(* A request that goes on as n holds the entry it held, or none any more;  *)
(* it gives one up only in a step that leaves the queues alone.            *)
Retains(r, n) == n.op \in AgentOps => n.op = r.op /\ n.task = r.task /\ n.ent = r.ent
Keeps(r, n) == Retains(r, n) /\ (r.op \in AgentOps => n.op \in AgentOps)

LEMMA AtKeeps ==
  ASSUME NEW r \in Requests
  PROVE  /\ \A pc : Keeps(r, At(r, pc))
         /\ \A qs : Keeps(r, Sweeping(r, qs))
         /\ \A qs : Keeps(r, [r EXCEPT !.todo = qs])
         /\ Retains(r, Idle)
         /\ Retains(r, ChangeDone(r)) /\ Retains(r, ChangeFailed(r))
         /\ Retains(r, ChangeIfActive(r)) /\ Retains(r, Handed(r))
<1>1. /\ \A pc : Keeps(r, At(r, pc))
      /\ \A qs : Keeps(r, Sweeping(r, qs))
      /\ \A qs : Keeps(r, [r EXCEPT !.todo = qs])
      /\ Retains(r, Idle)
  BY IdleFields DEF Keeps, Retains, At, Sweeping, Requests, AgentOps
<1>2. Retains(r, ChangeDone(r)) /\ Retains(r, ChangeFailed(r))
  BY <1>1 DEF ChangeDone, ChangeFailed, Keeps
<1>3. Retains(r, ChangeIfActive(r)) /\ Retains(r, Handed(r))
  BY <1>1, <1>2 DEF ChangeIfActive, Handed, Keeps
<1> QED
  BY <1>1, <1>2, <1>3

LEMMA RequestRetains ==
  ASSUME NEW r \in Requests
  PROVE  /\ Retains(r, AfterDequeue(r)) /\ Retains(r, SweepDone(r))
         /\ Retains(r, AddFailed(r)) /\ Retains(r, Added(r))
<1>1. Retains(r, AfterDequeue(r)) /\ Retains(r, SweepDone(r)) /\ Retains(r, Added(r))
  BY AtKeeps DEF AfterDequeue, SweepDone, Added, Keeps
<1>2. Retains(r, [r EXCEPT !.pc = "check", !.queue = r.source, !.source = None])
  BY DEF Requests, Retains
<1>3. Retains(r, AddFailed(r))
  BY <1>2, AtKeeps DEF AddFailed, Keeps
<1> QED
  BY <1>1, <1>3

(* A request that never was an agent's is none later on.                   *)
LEMMA OthersKeep ==
  ASSUME NEW r, NEW n, r.op \notin AgentOps, Continues(r, n)
  PROVE  Keeps(r, n)
  BY DEF Continues, Keeps, Retains, AgentOps

LEMMA ProceedQueues ==
  ASSUME IInv, NEW c \in Calls, Proceed(c)
  PROVE  \E n : /\ Goto(c, n)
                /\ Retains(call[c], n)
                /\ \/ entries' = entries
                   \/ Keeps(call[c], n) /\ (Pushes \/ Removes \/ Shifts \/ Clears)
<1> DEFINE r == call[c]
           P == \E n : /\ Goto(c, n)
                       /\ Retains(r, n)
                       /\ \/ entries' = entries
                          \/ Keeps(r, n) /\ (Pushes \/ Removes \/ Shifts \/ Clears)
<1>1. r \in Requests /\ RequestOK(r)
  BY CallOK
<1>2. /\ \A pc : Retains(r, At(r, pc))
      /\ Retains(r, Idle)
      /\ \A qs : Retains(r, Sweeping(r, qs))
      /\ Retains(r, ChangeDone(r)) /\ Retains(r, ChangeFailed(r))
      /\ Retains(r, ChangeIfActive(r)) /\ Retains(r, Handed(r))
      /\ Retains(r, AfterDequeue(r)) /\ Retains(r, SweepDone(r))
      /\ Retains(r, AddFailed(r)) /\ Retains(r, Added(r))
  BY <1>1, AtKeeps, RequestRetains DEF Keeps
<1>3. \A n : Goto(c, n) /\ Retains(r, n) /\ entries' = entries => P
  OBVIOUS
<1>4. \A n : Goto(c, n) /\ Keeps(r, n) /\ (Pushes \/ Removes \/ Shifts \/ Clears) => P
  BY DEF Keeps
<1> HIDE DEF P
<1>5. Change(c) \/ CheckQueue(c) \/ LogPushed(c) => P
  BY <1>2, <1>3 DEF Change, CheckQueue, LogPushed, queues
<1>6. UndoEnqueue(c) \/ SetExecutionQueue(c) => P
  BY <1>2, <1>3 DEF UndoEnqueue, SetExecutionQueue, queues
<1>7. CleanupTask(c) \/ SavePublishing(c) \/ RestoreStatus(c) \/ SaveForTrash(c) => P
  BY <1>2, <1>3 DEF CleanupTask, SavePublishing, RestoreStatus, SaveForTrash, queues
<1>8. EraseTask(c) \/ TagArchived(c) \/ LogPopped(c) \/ RecheckStatus(c) \/ RequeueStopped(c) => P
  BY <1>2, <1>3 DEF EraseTask, TagArchived, LogPopped, RecheckStatus, RequeueStopped, queues
<1>9. StartTask(c) => P
  <2>1. \A s : Retains(r, [r EXCEPT !.pc = "change", !.st = s, !.tgt = "in_progress"])
    BY <1>1 DEF Retains, Requests
  <2> QED
    BY <1>2, <1>3, <2>1 DEF StartTask, queues
<1>10. LogPulled(c) => P
  <2>1. Retains(r, [r EXCEPT !.pc = "check", !.queue = r.source, !.source = r.queue])
    BY <1>1 DEF Retains, Requests
  <2> QED
    BY <1>2, <1>3, <2>1 DEF LogPulled, queues
<1>11. FindEntry(c) => P
  <2>1. r.pc = "find" => r.op \notin AgentOps
    BY <1>1 DEF RequestOK, AgentOps
  <2>2. r.op \notin AgentOps => \A e : Retains(r, [r EXCEPT !.pc = "pull", !.ent = e])
    BY <1>1 DEF Retains, Requests
  <2> QED
    BY <1>2, <1>3, <2>1, <2>2 DEF FindEntry, queues
<1>12. InspectTask(c) \/ ReleaseTask(c) => P
  <2>1. r.pc \in {"inspect", "release"} => r.op \notin AgentOps
    BY <1>1 DEF RequestOK, AgentOps
  <2>2. r.op \notin AgentOps =>
          /\ \A t, s, n : Retains(r, [r EXCEPT !.pc = "release", !.task = t, !.st = s, !.tgt = n])
          /\ Retains(r, ReleasedOne(r))
          /\ \A t : Retains(r, ReleasedOne([r EXCEPT !.task = t]))
    <3>1. \A t, s, n : [r EXCEPT !.pc = "release", !.task = t, !.st = s, !.tgt = n].op = r.op
      BY <1>1 DEF Requests
    <3> QED
      BY <1>1, <3>1, RequestContinues, OthersKeep DEF Keeps, Continues, Retains
  <2>3. InspectTask(c) => P
    BY <1>3, <2>1, <2>2 DEF InspectTask, queues
  <2>4. ReleaseTask(c) => P
    BY <1>3, <2>1, <2>2 DEF ReleaseTask, queues
  <2> QED
    BY <2>3, <2>4
<1>13. PushEntry(c) => P
  <2>1. SUFFICES ASSUME PushEntry(c) PROVE P
    OBVIOUS
  <2>2. r.pc = "push" /\ r.task \in Tasks /\ r.queue \in Queues
    BY <1>1, <2>1 DEF PushEntry, RequestOK
  <2>3. CASE MayPush(r.queue, r.task)
    <3> DEFINE s == CHOOSE x \in Stamps \ UsedStamps : TRUE
               e == [task |-> r.task, added |-> s]
    <3>1. Stamps \ UsedStamps # {} /\ Goto(c, At(r, "pushed"))
          /\ entries' = [entries EXCEPT ![r.queue] = Append(entries[r.queue], e)]
      BY <2>1, <2>3 DEF PushEntry, Pushed
    <3>2. s \in Stamps /\ s \notin UsedStamps
      BY <3>1
    <3> HIDE DEF s
    <3>3. e \in Entries /\ e.added \notin UsedStamps /\ ~Holds(entries[r.queue], e.task)
      BY <2>2, <2>3, <3>2 DEF Entries, MayPush, InQueue
    <3>4. Pushes
      BY <2>2, <3>1, <3>3 DEF Pushes
    <3> QED
      BY <1>1, <1>4, <3>1, <3>4, AtKeeps
  <2>4. CASE ~MayPush(r.queue, r.task)
    BY <1>2, <1>3, <2>1, <2>4 DEF PushEntry
  <2> QED
    BY <2>3, <2>4
<1>14. ASSUME NEW q \in Queues, NEW t, entries' = [entries EXCEPT ![q] = Pull(entries[q], t)]
       PROVE  entries' = entries \/ Removes
  <2>1. CASE Holds(entries[q], t)
    <3> DEFINE i == CHOOSE k \in Positions(entries[q], t) : TRUE
    <3>1. i \in DOMAIN entries[q]
      BY <2>1 DEF Holds, Positions
    <3>2. entries' = [entries EXCEPT ![q] = RemoveAt(entries[q], i)]
      BY <1>14, <2>1 DEF Pull
    <3> QED
      BY <3>1, <3>2 DEF Removes
  <2>2. CASE ~Holds(entries[q], t)
    BY <1>14, <2>2 DEF Pull, IInv, TypeOK
  <2> QED
    BY <2>1, <2>2
<1>15. Sweep(c) => P
  <2>1. \A q \in r.todo : q \in Queues
    BY <1>1 DEF Requests
  <2> QED
    BY <1>1, <1>2, <1>3, <1>4, <1>14, <2>1, AtKeeps DEF Sweep, Keeps
<1>16. PullEntry(c) => P
  <2>1. SUFFICES ASSUME PullEntry(c) PROVE P
    OBVIOUS
  <2>2. r.pc = "pull" /\ r.queue \in Queues /\ r.op \notin AgentOps
    BY <1>1, <2>1 DEF PullEntry, RequestOK, AgentOps
  <2>3. entries' = entries \/ Removes
    BY <1>14, <2>1, <2>2 DEF PullEntry
  <2>4. /\ \A pc : Continues(r, [r EXCEPT !.pc = pc, !.ent = None])
        /\ \A s : Continues(r, [r EXCEPT !.pc = "inspect", !.left = s, !.ent = None])
        /\ Continues(r, Idle)
    BY <1>1, IdleFields DEF Continues, Requests
  <2>5. \E n : Goto(c, n) /\ Continues(r, n)
    BY <2>1, <2>4 DEF PullEntry
  <2> QED
    BY <1>3, <1>4, <2>2, <2>3, <2>5, OthersKeep DEF Keeps
<1>17. ASSUME r.pc \in {"empty", "drop", "reposition"}
       PROVE  r.op \notin AgentOps /\ r.queue \in Queues /\ Keeps(r, Idle)
  BY <1>1, <1>17, IdleFields DEF RequestOK, AgentOps, Keeps, Retains
<1>18. EmptyQueue(c) \/ DropQueue(c) => P
  BY <1>4, <1>17 DEF EmptyQueue, DropQueue, Clears
<1>19. RepositionEntry(c) => P
  <2>1. SUFFICES ASSUME RepositionEntry(c) PROVE P
    OBVIOUS
  <2> DEFINE s == entries[r.queue]
  <2>2. /\ r.queue \in Queues /\ Keeps(r, Idle) /\ Goto(c, Idle) /\ r.by \in Int
    BY <1>1, <1>17, <2>1 DEF RepositionEntry, Requests
  <2>3. CASE Live(r.queue) /\ InQueue(r.task, r.queue)
    <3> DEFINE i == CHOOSE k \in Positions(s, r.task) : TRUE
               rest == RemoveAt(s, i)
               new == i - 1 + r.by
               bounded == IF new <= 0 THEN 0 ELSE IF new >= Len(rest) THEN Len(rest) ELSE new
    <3>1. i \in DOMAIN s
      BY <2>3 DEF InQueue, Holds, Positions
    <3>2. s \in Seq(Entries) /\ DOMAIN s = 1..Len(s) /\ Len(s) \in Nat
      BY <2>2, QueueOK, LenProperties
    <3>3. Len(rest) = Len(s) - 1
      BY <3>1, <3>2, RemoveAtProperties
    <3>4. entries' = [entries EXCEPT ![r.queue] = InsertAt(rest, 1 + bounded, s[i])]
      BY <2>1, <2>3 DEF RepositionEntry, Repositioned
    <3> HIDE DEF i, rest, s
    <3>5. 1 + bounded \in DOMAIN s
      BY <2>2, <3>1, <3>2, <3>3
    <3> HIDE DEF bounded
    <3> USE DEF s, rest
    <3>6. Shifts
      BY <2>2, <3>1, <3>4, <3>5 DEF Shifts
    <3> QED
      BY <1>4, <2>2, <3>6
  <2>4. CASE ~(Live(r.queue) /\ InQueue(r.task, r.queue))
    BY <1>2, <1>3, <2>1, <2>4 DEF RepositionEntry
  <2> QED
    BY <2>3, <2>4
<1>20. P
  BY <1>5, <1>6, <1>7, <1>8, <1>9, <1>10, <1>11, <1>12, <1>13, <1>15, <1>16, <1>18, <1>19
  DEF Proceed
<1> QED
  BY <1>20 DEF P

LEMMA BeginDequeueQueues ==
  ASSUME IInv, NEW c \in Calls,
         NEW op \in {"dequeue", "stop", "reset", "delete", "trash", "archive"},
         NEW t \in Tasks, NEW tgt \in Statuses, NEW opt \in BOOLEAN,
         Exists(t), BeginDequeue(c, Dequeuing(op, t, tgt, opt))
  PROVE  entries' = entries /\ \E n : Goto(c, n) /\ n.op \notin AgentOps
<1> DEFINE r == Dequeuing(op, t, tgt, opt)
<1>1. r \in Requests
  BY DequeuingRequest
<1>2. r.op = op /\ op \notin AgentOps /\ "none" \notin AgentOps
  BY IdleFields DEF Dequeuing, AgentOps, Idle
<1>3. Goto(c, IF IsEnqueued(r.task) THEN At(r, "find") ELSE AfterDequeue(r)) /\ entries' = entries
  BY DEF BeginDequeue, queues
<1> HIDE DEF r
<1>4. Continues(r, At(r, "find")) /\ Continues(r, AfterDequeue(r))
  BY <1>1, AtContinues, RequestContinues
<1>5. At(r, "find").op \notin AgentOps /\ AfterDequeue(r).op \notin AgentOps
  BY <1>2, <1>4 DEF Continues
<1>6. CASE IsEnqueued(r.task)
  BY <1>3, <1>5, <1>6, Zenon
<1>7. CASE ~IsEnqueued(r.task)
  BY <1>3, <1>5, <1>7, Zenon
<1> QED
  BY <1>6, <1>7

LEMMA BeginQueues ==
  ASSUME IInv, NEW c \in Calls, Begin(c)
  PROVE  \/ entries' = entries /\ call' = call
         \/ entries' = entries /\ \E n : Goto(c, n) /\ n.op \notin AgentOps
         \/ \E q \in Queues, op \in AgentOps : GetNextTask(c, q, op)
<1> DEFINE Starts == entries' = entries /\ \E n : Goto(c, n) /\ n.op \notin AgentOps
           P == \/ entries' = entries /\ call' = call
                \/ Starts
                \/ \E q \in Queues, op \in AgentOps : GetNextTask(c, q, op)
<1>1. \A n : Goto(c, n) /\ n.op \notin AgentOps /\ UNCHANGED queues => Starts
  BY DEF queues
<1> HIDE DEF Starts
<1>2. ASSUME NEW t \in Tasks, NEW q \in Queues, NEW force \in Forces, NEW upd \in Options,
             Enqueue(c, t, q, force, upd)
      PROVE  Starts
  BY <1>1, <1>2, IdleOK DEF Enqueue, Requests, AgentOps
<1>3. ASSUME NEW t \in Tasks, NEW q \in Queues, NEW p \in Queues, NEW upd \in Options,
             AddTask(c, t, q, upd) \/ RemoveTask(c, t, q, upd) \/ MoveTask(c, t, q, p, upd)
      PROVE  Starts
  BY <1>1, <1>3, IdleOK DEF AddTask, RemoveTask, MoveTask, Requests, AgentOps
<1>4. ASSUME NEW t \in Tasks, NEW q \in Queues, NEW by, Reposition(c, t, q, by)
      PROVE  Starts
  BY <1>1, <1>4, IdleOK DEF Reposition, Requests, AgentOps
<1>5. ASSUME NEW t \in Tasks, NEW n \in NewStatuses \cup {None}, NEW all \in Options,
             Dequeue(c, t, n, all)
      PROVE  Starts
  <2>1. (IF n # None THEN n ELSE PriorStatus(t)) \in Statuses /\ all \in BOOLEAN
    BY TaskOK, ConstantsAssumption
  <2>2. "dequeue" \in {"dequeue", "stop", "reset", "delete", "trash", "archive"}
    OBVIOUS
  <2> QED
    BY <1>5, <2>1, <2>2, BeginDequeueQueues DEF Dequeue, Starts
<1>6. ASSUME NEW t \in Tasks, DequeueDeleted(c, t)
      PROVE  Starts
  BY <1>1, <1>6, IdleOK DEF DequeueDeleted, Sweeping, Requests, AgentOps
<1>7. ASSUME NEW t \in Tasks, NEW force \in Forces, NEW op \in {"stop", "reset", "delete", "trash"},
             \/ op = "stop" /\ Stop(c, t, force)
             \/ op = "reset" /\ Reset(c, t, force)
             \/ Delete(c, t, force, op)
      PROVE  Starts
  <2>1. force \in BOOLEAN /\ PriorStatus(t) \in Statuses /\ FALSE \in BOOLEAN
    BY TaskOK, ConstantsAssumption
  <2>2. op \in {"dequeue", "stop", "reset", "delete", "trash", "archive"}
    OBVIOUS
  <2>3. CASE op = "stop" /\ Stop(c, t, force)
    BY <2>1, <2>2, <2>3, BeginDequeueQueues, StatusNames DEF Stop, Starts
  <2>4. CASE op = "reset" /\ Reset(c, t, force)
    BY <2>1, <2>2, <2>4, BeginDequeueQueues, StatusNames DEF Reset, Starts
  <2>5. CASE Delete(c, t, force, op)
    BY <2>1, <2>2, <2>5, BeginDequeueQueues DEF Delete, Starts
  <2> QED
    BY <1>7, <2>3, <2>4, <2>5
<1>8. ASSUME NEW t \in Tasks, NEW s, NEW force \in Forces,
             Report(c, t, s, force) \/ Publish(c, t, force)
      PROVE  Starts
  BY <1>1, <1>8, IdleOK DEF Report, Publish, Requests, AgentOps
<1>9. ASSUME NEW t \in Tasks, Archive(c, t)
      PROVE  Starts
  <2>1. (IF status[t] = "in_progress" THEN "stopped" ELSE PriorStatus(t)) \in Statuses
    BY TaskOK, StatusNames
  <2>2. "archive" \in {"dequeue", "stop", "reset", "delete", "trash", "archive"}
    OBVIOUS
  <2> QED
    BY <1>9, <2>1, <2>2, BeginDequeueQueues DEF Archive, Starts
<1>10. ASSUME NEW t \in Tasks, Unarchive(c, t)
       PROVE  entries' = entries /\ call' = call
  BY <1>10 DEF Unarchive, queues
<1>11. ASSUME NEW q \in Queues, NEW force, ClearQueue(c, q) \/ DeleteQueue(c, q, force)
       PROVE  Starts
  BY <1>1, <1>11, IdleOK DEF ClearQueue, DeleteQueue, Requests, AgentOps
<1> HIDE DEF P
<1>12. P
  <2>1. CASE \E t \in Tasks, q \in Queues :
               \/ \E force \in Forces, upd \in Options : Enqueue(c, t, q, force, upd)
               \/ \E upd \in Options, p \in Queues :
                    AddTask(c, t, q, upd) \/ RemoveTask(c, t, q, upd) \/ MoveTask(c, t, q, p, upd)
               \/ \E m \in Moves : Reposition(c, t, q, m) \/ Reposition(c, t, q, -m)
    BY <1>2, <1>3, <1>4, <2>1 DEF P
  <2>2. CASE \E t \in Tasks :
               \/ \E n \in NewStatuses \cup {None}, all \in Options : Dequeue(c, t, n, all)
               \/ DequeueDeleted(c, t) \/ Archive(c, t) \/ Unarchive(c, t)
    BY <1>5, <1>6, <1>9, <1>10, <2>2 DEF P
  <2>3. CASE \E t \in Tasks, force \in Forces :
               \/ Stop(c, t, force) \/ Reset(c, t, force) \/ Publish(c, t, force)
               \/ \E op \in {"delete", "trash"} : Delete(c, t, force, op)
               \/ \E s \in Reports : Report(c, t, s, force)
    BY <1>7, <1>8, <2>3 DEF P
  <2>4. CASE \E q \in Queues :
               \/ \E op \in {"get_next_task", "agent"} : GetNextTask(c, q, op)
               \/ ClearQueue(c, q)
               \/ \E force \in Forces : DeleteQueue(c, q, force)
    BY <1>11, <2>4 DEF P, AgentOps
  <2> QED
    BY <2>1, <2>2, <2>3, <2>4 DEF Begin
<1> QED
  BY <1>12 DEF P, Starts

(***************************************************************************)
(* Every step, seen from the queues: requests that neither hold an entry   *)
(* nor change a queue are left out.                                        *)
(***************************************************************************)
Pops(c) ==
  \E q \in Queues, n \in Requests :
    /\ call[c].op \notin AgentOps /\ n.op \in AgentOps
    /\ entries[q] # <<>>
    /\ n.ent = entries[q][1] /\ n.task = entries[q][1].task
    /\ entries' = [entries EXCEPT ![q] = RemoveAt(entries[q], 1)]
    /\ Goto(c, n)

LEMMA QueueSteps ==
  ASSUME IInv, [Next]_vars
  PROVE  \/ entries' = entries /\ call' = call
         \/ \E c \in Calls : \E n :
              /\ Goto(c, n)
              /\ Retains(call[c], n)
              /\ \/ entries' = entries
                 \/ Keeps(call[c], n) /\ (Pushes \/ Removes \/ Shifts \/ Clears)
         \/ \E c \in Calls : Pops(c)
<1> DEFINE P == \/ entries' = entries /\ call' = call
                \/ \E c \in Calls : \E n :
                     /\ Goto(c, n)
                     /\ Retains(call[c], n)
                     /\ \/ entries' = entries
                        \/ Keeps(call[c], n) /\ (Pushes \/ Removes \/ Shifts \/ Clears)
                \/ \E c \in Calls : Pops(c)
<1>1. ASSUME NEW c \in Calls, NEW n, Goto(c, n), n.op \notin AgentOps, entries' = entries
      PROVE  P
  BY <1>1 DEF Retains
<1>2. ASSUME NEW c \in Calls, NEW q \in Queues, NEW op \in AgentOps, GetNextTask(c, q, op)
      PROVE  P
  <2> DEFINE e == entries[q][1]
             n == [Idle EXCEPT !.op = op, !.pc = "popped", !.task = e.task, !.ent = e]
  <2>1. /\ call[c] = Idle /\ entries[q] # <<>>
        /\ entries' = [entries EXCEPT ![q] = RemoveAt(entries[q], 1)]
        /\ Goto(c, n)
    BY <1>2 DEF GetNextTask, Accepts, Popped, NextUp
  <2>2. e \in Entries /\ e.task \in Tasks
    BY <2>1, QueueOK, PopEntry DEF NextUp, Entries
  <2> HIDE DEF e
  <2>3. n \in Requests /\ n.op = op /\ n.ent = e /\ n.task = e.task
    <3>1. op \in RequestKinds /\ "popped" \in Steps
      BY DEF RequestKinds, Steps, AgentOps
    <3>2. n \in Requests
      BY <2>2, <3>1, IdleOK DEF Requests
    <3> QED
      BY <3>2, IdleOK DEF Requests
  <2>4. call[c].op \notin AgentOps
    BY <2>1, IdleFields DEF AgentOps
  <2> HIDE DEF n
  <2>5. Pops(c)
    BY <2>1, <2>3, <2>4 DEF Pops, e
  <2> QED
    BY <2>5
<1>3. ASSUME NEW c \in Calls, Begin(c)
      PROVE  P
  BY <1>1, <1>2, <1>3, BeginQueues
<1>4. ASSUME NEW c \in Calls, Proceed(c)
      PROVE  P
  BY <1>4, ProceedQueues
<1>5. ASSUME NEW c \in Calls, Crash(c)
      PROVE  P
  BY <1>1, <1>5, IdleFields DEF Crash, queues, AgentOps
<1>6. (\E q \in Queues : CreateQueue(q)) \/ UNCHANGED vars => P
  BY DEF CreateQueue, vars, queues
<1> HIDE DEF P
<1>7. P
  BY <1>3, <1>4, <1>5, <1>6 DEF Next
<1> QED
  BY <1>7 DEF P

(***************************************************************************)
(* Each entry is in one queue or one agent's hands.  What makes it so is   *)
(* that a pushed entry is new: its stamp is that of no entry in a queue or *)
(* in a request.                                                           *)
(***************************************************************************)
HasItem(s, e) == \E i \in DOMAIN s : s[i] = e

EInv ==
  /\ \A p, q \in Queues : \A e :
       HasItem(entries[p], e) /\ HasItem(entries[q], e) => p = q
  /\ \A c \in Calls : HasEntry(c) =>
       /\ call[c].ent # None
       /\ \A q \in Queues : ~HasItem(entries[q], call[c].ent)
  /\ \A c, d \in Calls : HasEntry(c) /\ HasEntry(d) /\ call[c].ent = call[d].ent => c = d

(* Removing an entry takes that entry away and brings in none.             *)
LEMMA RemovedItems ==
  ASSUME NEW s \in Seq(Entries), Distinct(s), NEW i \in DOMAIN s, NEW e,
         HasItem(RemoveAt(s, i), e)
  PROVE  HasItem(s, e) /\ e # s[i]
<1>1. Len(s) \in Nat /\ i \in 1..Len(s) /\ DOMAIN s = 1..Len(s)
  BY LenProperties
<1>2. /\ RemoveAt(s, i) \in Seq(Entries)
      /\ Len(RemoveAt(s, i)) = Len(s) - 1
      /\ \A j \in 1..(Len(s) - 1) : RemoveAt(s, i)[j] = IF j < i THEN s[j] ELSE s[j + 1]
  BY <1>1, RemoveAtProperties
<1>3. PICK j \in 1..(Len(s) - 1) : RemoveAt(s, i)[j] = e
  BY <1>2, LenProperties DEF HasItem
<1>4. PICK k \in DOMAIN s : k # i /\ s[k] = e
  <2>1. CASE j < i
    BY <1>1, <1>2, <1>3, <2>1
  <2>2. CASE ~(j < i)
    <3>1. j + 1 \in DOMAIN s /\ j + 1 # i /\ s[j + 1] = e
      BY <1>1, <1>2, <1>3, <2>2
    <3> QED
      BY <3>1
  <2> QED
    BY <2>1, <2>2
<1> QED
  BY <1>4 DEF HasItem, Distinct

LEMMA InsertedItems ==
  ASSUME NEW s \in Seq(Entries), NEW i \in 1..(Len(s) + 1), NEW x \in Entries, NEW e,
         HasItem(InsertAt(s, i, x), e)
  PROVE  HasItem(s, e) \/ e = x
<1> DEFINE m == InsertAt(s, i, x)
<1>1. Len(s) \in Nat /\ DOMAIN s = 1..Len(s) /\ i \in Int
  BY LenProperties
<1>2. /\ m \in Seq(Entries)
      /\ Len(m) = Len(s) + 1
      /\ \A j \in 1..(Len(s) + 1) :
           m[j] = IF j < i THEN s[j] ELSE IF j = i THEN x ELSE s[j - 1]
  BY InsertAtProperties
<1>3. PICK j \in 1..(Len(s) + 1) : m[j] = e
  BY <1>2, LenProperties DEF HasItem
<1> HIDE DEF m
<1>4. CASE j < i
  <2>1. j \in 1..Len(s)
    BY <1>1, <1>4
  <2>2. s[j] = e
    BY <1>2, <1>3, <1>4
  <2> QED
    BY <1>1, <2>1, <2>2 DEF HasItem
<1>5. CASE j = i
  BY <1>2, <1>3, <1>5
<1>6. CASE i < j
  <2>1. j - 1 \in DOMAIN s /\ s[j - 1] = e
    BY <1>1, <1>2, <1>3, <1>6
  <2> QED
    BY <2>1 DEF HasItem
<1> QED
  BY <1>1, <1>4, <1>5, <1>6

LEMMA AppendedItems ==
  ASSUME NEW s \in Seq(Entries), NEW x \in Entries, NEW e, HasItem(Append(s, x), e)
  PROVE  HasItem(s, e) \/ e = x
<1>1. Len(s) \in Nat /\ DOMAIN s = 1..Len(s)
  BY LenProperties
<1>2. /\ Append(s, x) \in Seq(Entries)
      /\ Len(Append(s, x)) = Len(s) + 1
      /\ \A i \in 1..Len(s) : Append(s, x)[i] = s[i]
      /\ Append(s, x)[Len(s) + 1] = x
  BY AppendProperties
<1>3. PICK j \in 1..(Len(s) + 1) : Append(s, x)[j] = e
  BY <1>2, LenProperties DEF HasItem
<1> QED
  BY <1>1, <1>2, <1>3 DEF HasItem

(* The updates other than a push bring no entry into a queue.              *)
LEMMA NothingNew ==
  ASSUME IInv, Removes \/ Shifts \/ Clears, NEW q \in Queues, NEW e, HasItem(entries'[q], e)
  PROVE  HasItem(entries[q], e)
<1>1. \A p \in Queues : entries[p] \in Seq(Entries) /\ Distinct(entries[p])
  BY QueueOK
<1>2. entries \in [Queues -> Seq(Entries)]
  BY DEF IInv, TypeOK
<1>3. ASSUME NEW p \in Queues, NEW i \in DOMAIN entries[p],
             entries' = [entries EXCEPT ![p] = RemoveAt(entries[p], i)]
      PROVE  HasItem(entries[q], e)
  BY <1>1, <1>2, <1>3, RemovedItems
<1>4. ASSUME NEW p \in Queues, NEW i \in DOMAIN entries[p], NEW j \in DOMAIN entries[p],
             entries' = [entries EXCEPT ![p] =
                           InsertAt(RemoveAt(entries[p], i), j, entries[p][i])]
      PROVE  HasItem(entries[q], e)
  <2> DEFINE s == entries[p]
             rest == RemoveAt(s, i)
  <2>1. s \in Seq(Entries) /\ Distinct(s) /\ i \in 1..Len(s) /\ j \in 1..Len(s)
        /\ Len(s) \in Nat /\ s[i] \in Entries
    BY <1>1, EntryType, LenProperties
  <2>2. rest \in Seq(Entries) /\ Len(rest) = Len(s) - 1
    BY <2>1, RemoveAtProperties
  <2>3. j \in 1..(Len(rest) + 1)
    BY <2>1, <2>2
  <2>4. CASE q = p
    <3>1. HasItem(InsertAt(rest, j, s[i]), e)
      BY <1>2, <1>4, <2>4
    <3> HIDE DEF rest, s
    <3>2. HasItem(rest, e) \/ e = s[i]
      BY <2>1, <2>2, <2>3, <3>1, InsertedItems
    <3> USE DEF rest, s
    <3>3. HasItem(rest, e) => HasItem(s, e)
      BY <2>1, RemovedItems
    <3> QED
      BY <2>4, <3>2, <3>3 DEF HasItem
  <2>5. CASE q # p
    BY <1>2, <1>4, <2>5
  <2> QED
    BY <2>4, <2>5
<1>5. ASSUME NEW p \in Queues, entries' = [entries EXCEPT ![p] = <<>>]
      PROVE  HasItem(entries[q], e)
  BY <1>2, <1>5 DEF HasItem
<1> QED
  BY <1>3, <1>4, <1>5 DEF Removes, Shifts, Clears

(* An entry with a new stamp is in no queue and in no agent's hands.       *)
LEMMA NewStamp ==
  ASSUME IInv, EInv, NEW e, e.added \notin UsedStamps
  PROVE  /\ \A q \in Queues : ~HasItem(entries[q], e)
         /\ \A c \in Calls : HasEntry(c) => call[c].ent # e
<1>1. ASSUME NEW q \in Queues, HasItem(entries[q], e)
      PROVE  FALSE
  <2>1. PICK i \in DOMAIN entries[q] : entries[q][i] = e
    BY <1>1 DEF HasItem
  <2>2. e.added \in {entries[q][k].added : k \in DOMAIN entries[q]}
    BY <2>1
  <2> QED
    BY <2>2 DEF UsedStamps
<1>2. ASSUME NEW c \in Calls, HasEntry(c), call[c].ent = e
      PROVE  FALSE
  <2>1. call[c].ent # None
    BY <1>2 DEF EInv
  <2>2. e.added \in {call[d].ent.added : d \in {d \in Calls : call[d].ent # None}}
    BY <1>2, <2>1
  <2> QED
    BY <2>2 DEF UsedStamps
<1> QED
  BY <1>1, <1>2

LEMMA EInvStep ==
  ASSUME IInv, EInv, [Next]_vars
  PROVE  EInv'
<1>0. ASSUME NEW c \in Calls, NEW n, Goto(c, n)
      PROVE  \A d \in Calls : call'[d] = IF d = c THEN n ELSE call[d]
  BY <1>0 DEF Goto, IInv, TypeOK
<1>1. CASE entries' = entries /\ call' = call
  BY <1>1 DEF EInv, HasEntry
<1>2. ASSUME NEW c \in Calls, NEW n, Goto(c, n), Retains(call[c], n),
             \A q \in Queues : \A e : HasItem(entries'[q], e) => HasItem(entries[q], e)
      PROVE  EInv'
  <2>1. \A d \in Calls : HasEntry(d)' => HasEntry(d) /\ call'[d].ent = call[d].ent
    BY <1>0, <1>2 DEF HasEntry, Retains, AgentOps
  <2> QED
    BY <1>2, <2>1 DEF EInv
<1>3. ASSUME NEW c \in Calls, NEW n, Goto(c, n), Retains(call[c], n), Pushes
      PROVE  EInv'
  <2>1. \A d \in Calls : HasEntry(d)' => HasEntry(d) /\ call'[d].ent = call[d].ent
    BY <1>0, <1>3 DEF HasEntry, Retains, AgentOps
  <2>2. PICK q \in Queues, x \in Entries :
          /\ x.added \notin UsedStamps
          /\ entries' = [entries EXCEPT ![q] = Append(entries[q], x)]
    BY <1>3 DEF Pushes
  <2>3. /\ \A p \in Queues : ~HasItem(entries[p], x)
        /\ \A d \in Calls : HasEntry(d) => call[d].ent # x
    BY <2>2, NewStamp
  <2>4. \A p \in Queues : \A e :
          HasItem(entries'[p], e) => HasItem(entries[p], e) \/ (p = q /\ e = x)
    <3>1. \A p \in Queues : entries'[p] = IF p = q THEN Append(entries[q], x) ELSE entries[p]
      BY <2>2 DEF IInv, TypeOK
    <3>2. ASSUME NEW e, HasItem(Append(entries[q], x), e)
          PROVE  HasItem(entries[q], e) \/ e = x
      BY <3>2, QueueOK, AppendedItems
    <3>3. ASSUME NEW p \in Queues, NEW e, HasItem(entries'[p], e)
          PROVE  HasItem(entries[p], e) \/ (p = q /\ e = x)
      <4>1. CASE p = q
        <5>1. entries'[p] = Append(entries[q], x)
          BY <3>1, <4>1
        <5>2. HasItem(Append(entries[q], x), e)
          BY <3>3, <5>1, Zenon
        <5> QED
          BY <3>2, <4>1, <5>2, Zenon
      <4>2. CASE p # q
        <5>1. entries'[p] = entries[p]
          BY <3>1, <4>2
        <5> QED
          BY <3>3, <5>1, Zenon
      <4> QED
        BY <4>1, <4>2
    <3> QED
      BY <3>3, Zenon
  <2>5. \A p, r \in Queues : \A e :
          HasItem(entries'[p], e) /\ HasItem(entries'[r], e) => p = r
    <3>1. ASSUME NEW p \in Queues, NEW r \in Queues, NEW e,
                 HasItem(entries'[p], e), HasItem(entries'[r], e)
          PROVE  p = r
      <4>1. /\ HasItem(entries[p], e) \/ (p = q /\ e = x)
            /\ HasItem(entries[r], e) \/ (r = q /\ e = x)
        BY <2>4, <3>1, Zenon
      <4>2. CASE e = x
        BY <2>3, <4>1, <4>2, Zenon
      <4>3. CASE e # x
        BY <4>1, <4>3, Zenon DEF EInv
      <4> QED
        BY <4>2, <4>3
    <3> QED
      BY <3>1, Zenon
  <2>6. \A d \in Calls : HasEntry(d)' =>
          /\ call'[d].ent # None
          /\ \A p \in Queues : ~HasItem(entries'[p], call'[d].ent)
    BY <2>1, <2>3, <2>4 DEF EInv
  <2>7. \A d, f \in Calls : HasEntry(d)' /\ HasEntry(f)' /\ call'[d].ent = call'[f].ent => d = f
    BY <2>1 DEF EInv
  <2> QED
    BY <2>5, <2>6, <2>7 DEF EInv
<1>4. ASSUME NEW c \in Calls, Pops(c)
      PROVE  EInv'
  <2>1. PICK q \in Queues, n \in Requests :
          /\ call[c].op \notin AgentOps /\ n.op \in AgentOps
          /\ entries[q] # <<>>
          /\ n.ent = entries[q][1]
          /\ entries' = [entries EXCEPT ![q] = RemoveAt(entries[q], 1)]
          /\ Goto(c, n)
    BY <1>4 DEF Pops
  <2>2. /\ entries[q] \in Seq(Entries) /\ Distinct(entries[q])
        /\ 1 \in DOMAIN entries[q] /\ n.ent \in Entries
    BY <2>1, QueueOK, EmptySeq, LenProperties, EntryType
  <2>3. HasItem(entries[q], n.ent)
    BY <2>1, <2>2 DEF HasItem
  <2>4. \A p \in Queues : \A e :
          HasItem(entries'[p], e) => HasItem(entries[p], e) /\ (p = q => e # n.ent)
    <3>1. \A p \in Queues : entries'[p] = IF p = q THEN RemoveAt(entries[q], 1) ELSE entries[p]
      BY <2>1 DEF IInv, TypeOK
    <3>2. \A e : HasItem(RemoveAt(entries[q], 1), e) => HasItem(entries[q], e) /\ e # n.ent
      BY <2>1, <2>2, RemovedItems
    <3> QED
      BY <3>1, <3>2
  <2>5. \A d \in Calls \ {c} : call'[d] = call[d] /\ (HasEntry(d)' <=> HasEntry(d))
    BY <1>0, <2>1 DEF HasEntry
  <2>6. call'[c] = n
    BY <1>0, <2>1
  <2>7. n.ent # None
    BY <2>2, ConstantsAssumption
  <2>8. \A p, r \in Queues : \A e : HasItem(entries'[p], e) /\ HasItem(entries'[r], e) => p = r
    BY <2>4 DEF EInv
  <2>9. \A p \in Queues : ~HasItem(entries'[p], n.ent)
    BY <2>3, <2>4 DEF EInv
  <2>10. \A d \in Calls : HasEntry(d)' =>
           call'[d].ent # None /\ \A p \in Queues : ~HasItem(entries'[p], call'[d].ent)
    BY <2>4, <2>5, <2>6, <2>7, <2>9 DEF EInv
  <2>11. \A d \in Calls \ {c} : HasEntry(d)' => call'[d].ent # n.ent
    BY <2>3, <2>5 DEF EInv
  <2>12. \A d, f \in Calls : HasEntry(d)' /\ HasEntry(f)' /\ call'[d].ent = call'[f].ent => d = f
    BY <2>5, <2>6, <2>11 DEF EInv
  <2> QED
    BY <2>8, <2>10, <2>12 DEF EInv
<1>5. Removes \/ Shifts \/ Clears =>
        \A q \in Queues : \A e : HasItem(entries'[q], e) => HasItem(entries[q], e)
  BY NothingNew
<1> QED
  BY <1>1, <1>2, <1>3, <1>4, <1>5, QueueSteps

(* Each entry goes to one agent: what an agent was handed is in no queue,  *)
(* and no other agent was handed it.                                       *)
THEOREM DeliveryIsExclusive == Spec => []ExclusiveDelivery
<1>1. Init => EInv
  BY IdleFields DEF Init, EInv, HasItem, HasEntry
<1>2. IInv /\ EInv /\ [Next]_vars => EInv'
  BY EInvStep
<1>3. EInv => ExclusiveDelivery
  BY DEF EInv, ExclusiveDelivery, HasItem
<1> QED
  BY <1>1, <1>2, <1>3, Invariant, PTL DEF Spec

(***************************************************************************)
(* The refinement: the state that Fifo sees, and its steps.                *)
(***************************************************************************)
Lines == [q \in Queues |-> Line(entries[q])]
Hands == [c \in Calls |-> IF HasEntry(c) THEN call[c].task ELSE None]

LEMMA JoinStep ==
  ASSUME NEW q \in Queues, NEW t \in Tasks, ~Holds(entries[q], t),
         Lines' = [Lines EXCEPT ![q] = Append(Lines[q], t)], Hands' = Hands
  PROVE  Fifo!Join(t, q)
  BY DEF Fifo!Join, Fifo!Waiting, Lines, Hands, Line, Holds, Positions

LEMMA TakeStep ==
  ASSUME NEW q \in Queues, NEW c \in Calls, Lines[q] # <<>>, Hands[c] = None,
         Lines' = [Lines EXCEPT ![q] = Tail(Lines[q])],
         Hands' = [Hands EXCEPT ![c] = Head(Lines[q])]
  PROVE  Fifo!Take(c, q)
  BY DEF Fifo!Take, Lines, Hands, Line

LEMMA LeaveStep ==
  ASSUME NEW q \in Queues, NEW i \in DOMAIN Lines[q],
         Lines' = [Lines EXCEPT ![q] = RemoveAt(Lines[q], i)], Hands' = Hands
  PROVE  Fifo!Leave(q)
  BY DEF Fifo!Leave, Fifo!RemoveAt, RemoveAt, Lines, Hands, Line

LEMMA MoveStep ==
  ASSUME NEW q \in Queues, NEW i \in DOMAIN Lines[q], NEW j \in DOMAIN Lines[q],
         Lines' = [Lines EXCEPT ![q] = InsertAt(RemoveAt(Lines[q], i), j, Lines[q][i])],
         Hands' = Hands
  PROVE  Fifo!Move(q)
<1>1. InsertAt(RemoveAt(Lines[q], i), j, Lines[q][i])
        = Fifo!InsertAt(Fifo!RemoveAt(Lines[q], i), j, Lines[q][i])
  BY DEF Fifo!InsertAt, Fifo!RemoveAt, InsertAt, RemoveAt
<1>2. Lines' = [Lines EXCEPT ![q] = Fifo!InsertAt(Fifo!RemoveAt(Lines[q], i), j, Lines[q][i])]
  BY <1>1
<1>3. \E x, y \in DOMAIN Lines[q] :
        Lines' = [Lines EXCEPT ![q] = Fifo!InsertAt(Fifo!RemoveAt(Lines[q], x), y, Lines[q][x])]
  BY <1>2, Zenon
<1> QED
  BY <1>3, Zenon DEF Fifo!Move, Lines, Hands, Line

LEMMA DissolveStep ==
  ASSUME NEW q \in Queues, Lines' = [Lines EXCEPT ![q] = <<>>], Hands' = Hands
  PROVE  Fifo!Dissolve(q)
  BY DEF Fifo!Dissolve, Lines, Hands, Line

LEMMA SettleStep ==
  ASSUME NEW c \in Calls, Lines' = Lines, Hands' = [Hands EXCEPT ![c] = None]
  PROVE  Fifo!Settle(c)
  BY DEF Fifo!Settle, Lines, Hands, Line

LEMMA LinesStep ==
  ASSUME IInv, NEW q \in Queues, NEW s, entries' = [entries EXCEPT ![q] = s]
  PROVE  Lines' = [Lines EXCEPT ![q] = Line(s)]
  BY DEF IInv, TypeOK, Lines

LEMMA FifoStep ==
  ASSUME IInv, [Next]_vars
  PROVE  Fifo!Next \/ (Lines' = Lines /\ Hands' = Hands)
<1> DEFINE P == Fifo!Next \/ (Lines' = Lines /\ Hands' = Hands)
<1>0. ASSUME NEW c \in Calls, NEW n, Goto(c, n)
      PROVE  \A d \in Calls : call'[d] = IF d = c THEN n ELSE call[d]
  BY <1>0 DEF Goto, IInv, TypeOK
<1>1. CASE entries' = entries /\ call' = call
  BY <1>1 DEF Lines, Hands, HasEntry
<1>2. ASSUME NEW c \in Calls, NEW n, Goto(c, n), Retains(call[c], n), entries' = entries
      PROVE  P
  <2>1. Lines' = Lines
    BY <1>2 DEF Lines
  <2>2. CASE HasEntry(c)' \/ ~HasEntry(c)
    <3>1. \A d \in Calls : (HasEntry(d)' <=> HasEntry(d))
                           /\ (HasEntry(d) => call'[d].task = call[d].task)
      BY <1>0, <1>2, <2>2 DEF HasEntry, Retains, AgentOps
    <3>2. Hands' = Hands
      BY <3>1 DEF Hands
    <3> QED
      BY <2>1, <3>2
  <2>3. CASE ~HasEntry(c)' /\ HasEntry(c)
    <3>1. \A d \in Calls \ {c} : (HasEntry(d)' <=> HasEntry(d)) /\ call'[d] = call[d]
      BY <1>0, <1>2 DEF HasEntry
    <3>2. Hands' = [Hands EXCEPT ![c] = None]
      BY <2>3, <3>1 DEF Hands
    <3>3. Fifo!Settle(c)
      BY <2>1, <3>2, SettleStep
    <3> QED
      BY <3>3 DEF Fifo!Next
  <2> QED
    BY <2>2, <2>3
<1>3. ASSUME NEW c \in Calls, NEW n, Goto(c, n), Keeps(call[c], n)
      PROVE  Hands' = Hands
  <2>1. \A d \in Calls : (HasEntry(d)' <=> HasEntry(d))
                         /\ (HasEntry(d) => call'[d].task = call[d].task)
    BY <1>0, <1>3 DEF HasEntry, Retains, Keeps, AgentOps
  <2> QED
    BY <2>1 DEF Hands
<1>4. ASSUME Hands' = Hands, Pushes
      PROVE  P
  <2>1. PICK q \in Queues, e \in Entries :
          /\ ~Holds(entries[q], e.task)
          /\ entries' = [entries EXCEPT ![q] = Append(entries[q], e)]
    BY <1>4 DEF Pushes
  <2>2. Lines' = [Lines EXCEPT ![q] = Append(Lines[q], e.task)]
    <3>1. Lines' = [Lines EXCEPT ![q] = Line(Append(entries[q], e))]
      BY <2>1, LinesStep
    <3>2. Line(Append(entries[q], e)) = Append(Line(entries[q]), e.task)
      BY QueueOK, LineAppend
    <3>3. Lines[q] = Line(entries[q])
      BY DEF Lines
    <3> QED
      BY <3>1, <3>2, <3>3
  <2>3. e.task \in Tasks
    BY DEF Entries
  <2>4. Fifo!Join(e.task, q)
    BY <1>4, <2>1, <2>2, <2>3, JoinStep
  <2> QED
    BY <2>3, <2>4 DEF Fifo!Next
<1>5. ASSUME Hands' = Hands, Removes
      PROVE  P
  <2>1. PICK q \in Queues : \E i \in DOMAIN entries[q] :
          entries' = [entries EXCEPT ![q] = RemoveAt(entries[q], i)]
    BY <1>5 DEF Removes
  <2>2. PICK i \in DOMAIN entries[q] : entries' = [entries EXCEPT ![q] = RemoveAt(entries[q], i)]
    BY <2>1
  <2>3. Lines' = [Lines EXCEPT ![q] = RemoveAt(Lines[q], i)] /\ i \in DOMAIN Lines[q]
    <3>1. Lines' = [Lines EXCEPT ![q] = Line(RemoveAt(entries[q], i))]
      BY <2>2, LinesStep
    <3>2. /\ Line(RemoveAt(entries[q], i)) = RemoveAt(Line(entries[q]), i)
          /\ DOMAIN Line(entries[q]) = DOMAIN entries[q]
      BY QueueOK, LineRemove, LineType
    <3>3. Lines[q] = Line(entries[q])
      BY DEF Lines
    <3> QED
      BY <3>1, <3>2, <3>3
  <2>4. Fifo!Leave(q)
    BY <1>5, <2>3, LeaveStep
  <2> QED
    BY <2>4 DEF Fifo!Next
<1>6. ASSUME Hands' = Hands, Shifts
      PROVE  P
  <2>1. PICK q \in Queues : \E i, j \in DOMAIN entries[q] :
          entries' = [entries EXCEPT ![q] = InsertAt(RemoveAt(entries[q], i), j, entries[q][i])]
    BY <1>6 DEF Shifts
  <2> DEFINE s == entries[q]
  <2>2. PICK i \in DOMAIN s, j \in DOMAIN s :
          entries' = [entries EXCEPT ![q] = InsertAt(RemoveAt(s, i), j, s[i])]
    BY <2>1
  <2>3. s \in Seq(Entries) /\ i \in 1..Len(s) /\ j \in 1..Len(s) /\ Len(s) \in Nat
        /\ s[i] \in Entries
    BY QueueOK, EntryType, LenProperties
  <2>4. RemoveAt(s, i) \in Seq(Entries) /\ Len(RemoveAt(s, i)) = Len(s) - 1
    BY <2>3, RemoveAtProperties
  <2>5. j \in 1..(Len(RemoveAt(s, i)) + 1)
    BY <2>3, <2>4
  <2>6. Line(InsertAt(RemoveAt(s, i), j, s[i])) = InsertAt(Line(RemoveAt(s, i)), j, s[i].task)
    BY <2>3, <2>4, <2>5, LineInsert
  <2>7. Line(RemoveAt(s, i)) = RemoveAt(Line(s), i) /\ s[i].task = Line(s)[i]
        /\ DOMAIN Line(s) = DOMAIN s
    BY <2>3, LineRemove, LineType
  <2>8. Lines[q] = Line(s)
    BY DEF Lines
  <2>9. Lines' = [Lines EXCEPT ![q] = InsertAt(RemoveAt(Lines[q], i), j, Lines[q][i])]
    <3>1. Lines' = [Lines EXCEPT ![q] = Line(InsertAt(RemoveAt(s, i), j, s[i]))]
      BY <2>2, LinesStep
    <3> QED
      BY <2>6, <2>7, <2>8, <3>1
  <2>10. i \in DOMAIN Lines[q] /\ j \in DOMAIN Lines[q]
    BY <2>7, <2>8
  <2>11. Fifo!Move(q)
    BY <1>6, <2>9, <2>10, MoveStep
  <2> QED
    BY <2>11 DEF Fifo!Next
<1>7. ASSUME Hands' = Hands, Clears
      PROVE  P
  <2>1. PICK q \in Queues : entries' = [entries EXCEPT ![q] = <<>>]
    BY <1>7 DEF Clears
  <2>2. Line(<<>>) = <<>>
    BY DEF Line
  <2>3. Fifo!Dissolve(q)
    BY <1>7, <2>1, <2>2, LinesStep, DissolveStep
  <2> QED
    BY <2>3 DEF Fifo!Next
<1>8. ASSUME NEW c \in Calls, Pops(c)
      PROVE  P
  <2>1. PICK q \in Queues, n \in Requests :
          /\ call[c].op \notin AgentOps /\ n.op \in AgentOps
          /\ entries[q] # <<>>
          /\ n.task = entries[q][1].task
          /\ entries' = [entries EXCEPT ![q] = RemoveAt(entries[q], 1)]
          /\ Goto(c, n)
    BY <1>8 DEF Pops
  <2>2. /\ Lines[q] # <<>> /\ Head(Lines[q]) = n.task
        /\ Lines' = [Lines EXCEPT ![q] = Tail(Lines[q])]
    <3>1. Lines' = [Lines EXCEPT ![q] = Line(RemoveAt(entries[q], 1))]
      BY <2>1, LinesStep
    <3>2. /\ Line(entries[q]) # <<>> /\ Head(Line(entries[q])) = entries[q][1].task
          /\ Tail(Line(entries[q])) = Line(RemoveAt(entries[q], 1))
      BY <2>1, QueueOK, LinePop
    <3>3. Lines[q] = Line(entries[q])
      BY DEF Lines
    <3> QED
      BY <2>1, <3>1, <3>2, <3>3
  <2>3. ~HasEntry(c) /\ HasEntry(c)' /\ call'[c].task = n.task
    BY <1>0, <2>1 DEF HasEntry, AgentOps
  <2>4. \A d \in Calls \ {c} : (HasEntry(d)' <=> HasEntry(d)) /\ call'[d] = call[d]
    BY <1>0, <2>1 DEF HasEntry
  <2>5. Hands[c] = None /\ Hands' = [Hands EXCEPT ![c] = n.task]
    BY <2>3, <2>4 DEF Hands
  <2>6. Fifo!Take(c, q)
    BY <2>2, <2>5, TakeStep
  <2> QED
    BY <2>6 DEF Fifo!Next
<1> HIDE DEF P
<1>9. P
  BY <1>1, <1>2, <1>3, <1>4, <1>5, <1>6, <1>7, <1>8, QueueSteps DEF P
<1> QED
  BY <1>9 DEF P

(* The queues implement FifoQueues: however requests overlap, a task joins *)
(* a queue at its end, an agent is handed the first one, and a task that   *)
(* is not moved overtakes no other.                                        *)
THEOREM QueuesAreFifo == Spec => ServesInOrder
<1>1. Init => Fifo!Init
  BY IdleFields DEF Init, Fifo!Init, HasEntry
<1>2. IInv /\ [Next]_vars => [Fifo!Next]_<<Lines, Hands>>
  BY FifoStep
<1>3. IInv /\ [Next]_vars =>
        [Fifo!Next]_<<[q \in Queues |-> [i \in DOMAIN entries[q] |-> entries[q][i].task]],
                      [c \in Calls |-> IF HasEntry(c) THEN call[c].task ELSE None]>>
  BY <1>2 DEF Lines, Hands, Line
<1> QED
  BY <1>1, <1>3, Invariant, PTL DEF Spec, ServesInOrder, Fifo!Spec
==============================================================================
