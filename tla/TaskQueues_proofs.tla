-------------------------- MODULE TaskQueues_proofs --------------------------
(***************************************************************************)
(* Theorems about TaskQueues, for every set of tasks, queues and threads.  *)
(***************************************************************************)
EXTENDS TaskQueues, SequenceTheorems, TLAPS

(***************************************************************************)
(* What RemoveAt and InsertAt of the community modules return.             *)
(***************************************************************************)

(* Removing position i moves the elements behind it one place forward.     *)
LEMMA RemoveAtProperties ==
  ASSUME NEW S, NEW s \in Seq(S), NEW i \in 1..Len(s)
  PROVE  /\ RemoveAt(s, i) \in Seq(S)
         /\ Len(RemoveAt(s, i)) = Len(s) - 1
         /\ \A j \in 1..(Len(s) - 1) :
              RemoveAt(s, i)[j] = IF j < i THEN s[j] ELSE s[j + 1]
<1> DEFINE front == SubSeq(s, 1, i - 1)
           back == SubSeq(s, i + 1, Len(s))
<1>1. Len(s) \in Nat /\ i \in Int /\ i >= 1 /\ i <= Len(s)
  BY LenProperties
<1>2. \A j \in 1..Len(s) : s[j] \in S
  BY ElementOfSeq
<1>3. /\ front \in Seq(S)
      /\ Len(front) = i - 1
      /\ \A j \in 1..(i - 1) : front[j] = s[j]
  <2>1. \A j \in 1..(i - 1) : s[j] \in S
    BY <1>1, <1>2
  <2>2. /\ front \in Seq(S)
        /\ Len(front) = IF 1 <= i - 1 THEN i - 1 - 1 + 1 ELSE 0
        /\ \A j \in 1..(i - 1 - 1 + 1) : front[j] = s[1 + j - 1]
    BY <1>1, <2>1, SubSeqProperties, Z3
  <2> QED
    BY <1>1, <2>2
<1>4. /\ back \in Seq(S)
      /\ Len(back) = Len(s) - i
      /\ \A j \in 1..(Len(s) - i) : back[j] = s[i + j]
  <2>1. \A j \in (i + 1)..Len(s) : s[j] \in S
    BY <1>1, <1>2
  <2>2. /\ back \in Seq(S)
        /\ Len(back) = IF i + 1 <= Len(s) THEN Len(s) - (i + 1) + 1 ELSE 0
        /\ \A j \in 1..(Len(s) - (i + 1) + 1) : back[j] = s[(i + 1) + j - 1]
    BY <1>1, <2>1, SubSeqProperties, Z3
  <2> QED
    BY <1>1, <2>2
<1>5. /\ front \o back \in Seq(S)
      /\ Len(front \o back) = Len(front) + Len(back)
      /\ \A j \in 1..(Len(front) + Len(back)) :
           (front \o back)[j] = IF j <= Len(front) THEN front[j] ELSE back[j - Len(front)]
  BY <1>3, <1>4, ConcatProperties, Zenon
<1>6. RemoveAt(s, i) = front \o back
  BY DEF RemoveAt
<1>7. Len(s) - 1 = Len(front) + Len(back)
  <2> HIDE DEF front, back
  <2> QED BY <1>1, <1>3, <1>4
<1> HIDE DEF front, back
<1>8. ASSUME NEW j \in 1..(Len(s) - 1)
      PROVE  (front \o back)[j] = IF j < i THEN s[j] ELSE s[j + 1]
  <2>1. (front \o back)[j] = IF j <= Len(front) THEN front[j] ELSE back[j - Len(front)]
    BY <1>5, <1>7
  <2>2. CASE j < i
    BY <1>1, <1>3, <2>1, <2>2
  <2>3. CASE ~(j < i)
    <3>1. j - Len(front) \in 1..(Len(s) - i) /\ i + (j - Len(front)) = j + 1
      BY <1>1, <1>3, <2>3
    <3> QED
      BY <1>1, <1>3, <1>4, <2>1, <2>3, <3>1
  <2> QED
    BY <2>2, <2>3
<1> QED
  BY <1>5, <1>6, <1>7, <1>8

(* Inserting e puts it at position i and leaves the order of the others.   *)
LEMMA InsertAtProperties ==
  ASSUME NEW S, NEW s \in Seq(S), NEW i \in 1..(Len(s) + 1), NEW e \in S
  PROVE  /\ InsertAt(s, i, e) \in Seq(S)
         /\ Len(InsertAt(s, i, e)) = Len(s) + 1
         /\ \A j \in 1..(Len(s) + 1) :
              InsertAt(s, i, e)[j] = IF j < i THEN s[j] ELSE IF j = i THEN e ELSE s[j - 1]
<1> DEFINE front == SubSeq(s, 1, i - 1)
           back == SubSeq(s, i, Len(s))
           upto == front \o <<e>>
<1>1. Len(s) \in Nat /\ i \in Int /\ i >= 1 /\ i <= Len(s) + 1
  BY LenProperties
<1>2. \A j \in 1..Len(s) : s[j] \in S
  BY ElementOfSeq
<1>3. /\ front \in Seq(S)
      /\ Len(front) = i - 1
      /\ \A j \in 1..(i - 1) : front[j] = s[j]
  <2>1. \A j \in 1..(i - 1) : s[j] \in S
    BY <1>1, <1>2
  <2>2. /\ front \in Seq(S)
        /\ Len(front) = IF 1 <= i - 1 THEN i - 1 - 1 + 1 ELSE 0
        /\ \A j \in 1..(i - 1 - 1 + 1) : front[j] = s[1 + j - 1]
    BY <1>1, <2>1, SubSeqProperties, Z3
  <2> QED
    BY <1>1, <2>2
<1>4. /\ back \in Seq(S)
      /\ Len(back) = Len(s) - i + 1
      /\ \A j \in 1..(Len(s) - i + 1) : back[j] = s[i + j - 1]
  <2>1. \A j \in i..Len(s) : s[j] \in S
    BY <1>1, <1>2
  <2>2. /\ back \in Seq(S)
        /\ Len(back) = IF i <= Len(s) THEN Len(s) - i + 1 ELSE 0
        /\ \A j \in 1..(Len(s) - i + 1) : back[j] = s[i + j - 1]
    BY <1>1, <2>1, SubSeqProperties, Z3
  <2> QED
    BY <1>1, <2>2
<1>5. /\ upto \in Seq(S)
      /\ Len(upto) = i
      /\ \A j \in 1..(i - 1) : upto[j] = s[j]
      /\ upto[i] = e
  <2>1. upto = Append(front, e)
    BY <1>3, AppendIsConcat, Zenon
  <2> HIDE DEF front, upto
  <2>2. /\ Append(front, e) \in Seq(S)
        /\ Len(Append(front, e)) = Len(front) + 1
        /\ \A j \in 1..Len(front) : Append(front, e)[j] = front[j]
        /\ Append(front, e)[Len(front) + 1] = e
    BY <1>3, AppendProperties
  <2> QED
    BY <1>1, <1>3, <2>1, <2>2
<1> HIDE DEF front, back, upto
<1>6. /\ upto \o back \in Seq(S)
      /\ Len(upto \o back) = Len(upto) + Len(back)
      /\ \A j \in 1..(Len(upto) + Len(back)) :
           (upto \o back)[j] = IF j <= Len(upto) THEN upto[j] ELSE back[j - Len(upto)]
  BY <1>4, <1>5, ConcatProperties, Zenon
<1>7. InsertAt(s, i, e) = upto \o back
  BY DEF InsertAt, front, back, upto
<1>8. Len(s) + 1 = Len(upto) + Len(back)
  BY <1>1, <1>4, <1>5
<1>9. ASSUME NEW j \in 1..(Len(s) + 1)
      PROVE  (upto \o back)[j] = IF j < i THEN s[j] ELSE IF j = i THEN e ELSE s[j - 1]
  <2>1. (upto \o back)[j] = IF j <= Len(upto) THEN upto[j] ELSE back[j - Len(upto)]
    BY <1>6, <1>8
  <2>2. CASE j <= i
    BY <1>1, <1>5, <2>1, <2>2
  <2>3. CASE ~(j <= i)
    <3>1. j - Len(upto) \in 1..(Len(s) - i + 1) /\ i + (j - Len(upto)) - 1 = j - 1
      BY <1>1, <1>5, <2>3
    <3> QED
      BY <1>1, <1>4, <1>5, <2>1, <2>3, <3>1
  <2> QED
    BY <2>2, <2>3
<1>10. Len(upto \o back) = Len(s) + 1
  BY <1>6, <1>8, Zenon
<1> QED
  BY <1>6, <1>7, <1>9, <1>10

(***************************************************************************)
(* The entries of one queue: what the updates of Queue.entries do to them. *)
(***************************************************************************)
Distinct(s) == \A i, j \in DOMAIN s : s[i].task = s[j].task => i = j

LEMMA EntryType ==
  ASSUME NEW s \in Seq(Entries), NEW i \in DOMAIN s
  PROVE  s[i] \in Entries /\ s[i].task \in Tasks /\ s[i].added \in Stamps
<1>1. i \in 1..Len(s)
  BY LenProperties
<1>2. s[i] \in Entries
  BY <1>1, ElementOfSeq
<1> QED
  BY <1>2 DEF Entries

(* Removing one of distinct entries removes its task and no other.         *)
LEMMA RemoveEntry ==
  ASSUME NEW s \in Seq(Entries), Distinct(s), NEW i \in DOMAIN s
  PROVE  /\ RemoveAt(s, i) \in Seq(Entries)
         /\ Distinct(RemoveAt(s, i))
         /\ \A t : Holds(RemoveAt(s, i), t) => Holds(s, t) /\ t # s[i].task
<1> DEFINE r == RemoveAt(s, i)
           old(j) == IF j < i THEN j ELSE j + 1
<1>1. Len(s) \in Nat /\ i \in 1..Len(s) /\ DOMAIN s = 1..Len(s)
  BY LenProperties
<1>2. /\ r \in Seq(Entries)
      /\ Len(r) = Len(s) - 1
      /\ \A j \in 1..(Len(s) - 1) : r[j] = IF j < i THEN s[j] ELSE s[j + 1]
  BY <1>1, RemoveAtProperties
<1> HIDE DEF r
<1>3. DOMAIN r = 1..(Len(s) - 1)
  BY <1>2, LenProperties
<1>4. \A j \in DOMAIN r : old(j) \in DOMAIN s /\ old(j) # i /\ r[j] = s[old(j)]
  BY <1>1, <1>2, <1>3
<1>5. \A j, k \in DOMAIN r : old(j) = old(k) => j = k
  BY <1>1, <1>3
<1> HIDE DEF old
<1>6. Distinct(r)
  BY <1>4, <1>5 DEF Distinct
<1>7. \A t : Holds(r, t) => Holds(s, t) /\ t # s[i].task
  BY <1>1, <1>4 DEF Holds, Positions, Distinct
<1> QED
  BY <1>2, <1>6, <1>7 DEF r

LEMMA PullTask ==
  ASSUME NEW s \in Seq(Entries), Distinct(s), NEW t
  PROVE  /\ Pull(s, t) \in Seq(Entries)
         /\ Distinct(Pull(s, t))
         /\ \A u : Holds(Pull(s, t), u) => Holds(s, u) /\ u # t
<1>1. CASE Holds(s, t)
  <2> DEFINE i == CHOOSE k \in Positions(s, t) : TRUE
  <2>1. i \in DOMAIN s /\ s[i].task = t
    BY <1>1 DEF Holds, Positions
  <2>2. Pull(s, t) = RemoveAt(s, i)
    BY <1>1 DEF Pull
  <2> HIDE DEF i
  <2> QED
    BY <2>1, <2>2, RemoveEntry
<1>2. CASE ~Holds(s, t)
  BY <1>2 DEF Pull
<1> QED
  BY <1>1, <1>2

LEMMA PopEntry ==
  ASSUME NEW s \in Seq(Entries), Distinct(s), s # <<>>
  PROVE  /\ s[NextUp(s)] \in Entries
         /\ Popped(s) \in Seq(Entries)
         /\ Distinct(Popped(s))
         /\ \A t : Holds(Popped(s), t) => Holds(s, t)
<1>1. 1 \in DOMAIN s
  BY EmptySeq, LenProperties
<1> QED
  BY <1>1, RemoveEntry, EntryType DEF Popped, NextUp

LEMMA PushEntryOf ==
  ASSUME NEW s \in Seq(Entries), Distinct(s), NEW e \in Entries, ~Holds(s, e.task)
  PROVE  /\ Pushed(s, e) \in Seq(Entries)
         /\ Distinct(Pushed(s, e))
         /\ \A t : Holds(Pushed(s, e), t) => Holds(s, t) \/ t = e.task
<1> DEFINE p == Append(s, e)
<1>1. Len(s) \in Nat /\ DOMAIN s = 1..Len(s)
  BY LenProperties
<1>2. /\ p \in Seq(Entries)
      /\ Len(p) = Len(s) + 1
      /\ \A i \in 1..Len(s) : p[i] = s[i]
      /\ p[Len(s) + 1] = e
  BY AppendProperties
<1> HIDE DEF p
<1>3. DOMAIN p = 1..(Len(s) + 1)
  BY <1>2, LenProperties
<1>4. \A i \in DOMAIN p : (i \in DOMAIN s /\ p[i] = s[i]) \/ (i = Len(s) + 1 /\ p[i] = e)
  BY <1>1, <1>2, <1>3
<1>5. \A i \in DOMAIN s : s[i].task # e.task
  BY DEF Holds, Positions
<1>6. Distinct(p)
  BY <1>4, <1>5 DEF Distinct
<1>7. \A t : Holds(p, t) => Holds(s, t) \/ t = e.task
  BY <1>4 DEF Holds, Positions
<1> QED
  BY <1>2, <1>6, <1>7 DEF p, Pushed

LEMMA RepositionEntryOf ==
  ASSUME NEW s \in Seq(Entries), Distinct(s), NEW t, Holds(s, t), NEW by \in Int
  PROVE  /\ Repositioned(s, t, by) \in Seq(Entries)
         /\ Distinct(Repositioned(s, t, by))
         /\ \A u : Holds(Repositioned(s, t, by), u) => Holds(s, u)
<1> DEFINE pos == CHOOSE i \in Positions(s, t) : TRUE
           rest == RemoveAt(s, pos)
           new == pos - 1 + by
           bounded == IF new <= 0 THEN 0 ELSE IF new >= Len(rest) THEN Len(rest) ELSE new
           at == 1 + bounded
           m == InsertAt(rest, at, s[pos])
           old(j) == IF j < at THEN j ELSE j - 1
<1>1. pos \in DOMAIN s /\ s[pos].task = t
  BY DEF Holds, Positions
<1>2. /\ rest \in Seq(Entries)
      /\ Distinct(rest)
      /\ \A u : Holds(rest, u) => Holds(s, u) /\ u # t
  BY <1>1, RemoveEntry
<1>3. s[pos] \in Entries /\ pos \in Int
  BY <1>1, EntryType, LenProperties
<1>4. Repositioned(s, t, by) = m
  BY DEF Repositioned
<1> HIDE DEF pos, rest
<1>5. Len(rest) \in Nat /\ DOMAIN rest = 1..Len(rest)
  BY <1>2, LenProperties
<1>6. at \in Int /\ at \in 1..(Len(rest) + 1)
  BY <1>3, <1>5
<1> HIDE DEF at, new, bounded
<1>7. /\ m \in Seq(Entries)
      /\ Len(m) = Len(rest) + 1
      /\ \A j \in 1..(Len(rest) + 1) :
           m[j] = IF j < at THEN rest[j]
                  ELSE IF j = at THEN s[pos] ELSE rest[j - 1]
  <2>1. \A i \in 1..(Len(rest) + 1), e \in Entries :
          /\ InsertAt(rest, i, e) \in Seq(Entries)
          /\ Len(InsertAt(rest, i, e)) = Len(rest) + 1
          /\ \A j \in 1..(Len(rest) + 1) :
               InsertAt(rest, i, e)[j] = IF j < i THEN rest[j]
                                         ELSE IF j = i THEN e ELSE rest[j - 1]
    BY <1>2, InsertAtProperties
  <2> QED
    BY <1>3, <1>6, <2>1, Zenon
<1> HIDE DEF m
<1>8. DOMAIN m = 1..(Len(rest) + 1)
  BY <1>7, LenProperties
<1>9. \A j \in DOMAIN m : \/ j = at /\ m[j] = s[pos]
                          \/ /\ j # at
                             /\ old(j) \in DOMAIN rest
                             /\ m[j] = rest[old(j)]
  BY <1>5, <1>6, <1>7, <1>8
<1>10. \A j, k \in DOMAIN m :
         j # at /\ k # at /\ old(j) = old(k) => j = k
  BY <1>6, <1>8
<1> HIDE DEF old
<1>11. \A j \in DOMAIN rest : rest[j].task # s[pos].task
  BY <1>1, <1>2 DEF Holds, Positions
<1>12. Distinct(m)
  BY <1>2, <1>9, <1>10, <1>11 DEF Distinct
<1>13. ASSUME NEW u, Holds(m, u)
       PROVE  Holds(s, u)
  <2>1. PICK j \in DOMAIN m : m[j].task = u
    BY <1>13 DEF Holds, Positions
  <2>2. CASE j = at
    BY <1>1, <1>9, <2>1, <2>2
  <2>3. CASE j # at
    <3>1. Holds(rest, u)
      BY <1>9, <2>1, <2>3 DEF Holds, Positions
    <3> QED
      BY <1>2, <3>1
  <2> QED
    BY <2>2, <2>3
<1> QED
  BY <1>4, <1>7, <1>12, <1>13

(***************************************************************************)
(* And that they lose no task but the one they are about.                  *)
(***************************************************************************)
LEMMA RemoveKeeps ==
  ASSUME NEW s \in Seq(Entries), NEW i \in DOMAIN s, NEW t, Holds(s, t), t # s[i].task
  PROVE  Holds(RemoveAt(s, i), t)
<1> DEFINE r == RemoveAt(s, i)
<1>1. Len(s) \in Nat /\ i \in 1..Len(s) /\ DOMAIN s = 1..Len(s)
  BY LenProperties
<1>2. /\ r \in Seq(Entries)
      /\ Len(r) = Len(s) - 1
      /\ \A j \in 1..(Len(s) - 1) : r[j] = IF j < i THEN s[j] ELSE s[j + 1]
  BY <1>1, RemoveAtProperties, Zenon
<1> HIDE DEF r
<1>3. DOMAIN r = 1..(Len(s) - 1)
  BY <1>2, LenProperties
<1>4. PICK k \in 1..Len(s) : s[k].task = t /\ k # i
  BY <1>1 DEF Holds, Positions
<1> DEFINE j == IF k < i THEN k ELSE k - 1
<1>5. j \in 1..(Len(s) - 1) /\ (j < i => j = k) /\ (~(j < i) => j + 1 = k)
  BY <1>1, <1>4
<1> HIDE DEF j
<1>6. r[j] = s[k]
  BY <1>2, <1>5
<1> QED
  BY <1>3, <1>4, <1>5, <1>6 DEF Holds, Positions, r

LEMMA PullKeeps ==
  ASSUME NEW s \in Seq(Entries), NEW t, NEW u, u # t, Holds(s, u)
  PROVE  Holds(Pull(s, t), u)
<1>1. CASE Holds(s, t)
  <2> DEFINE i == CHOOSE k \in Positions(s, t) : TRUE
  <2>1. i \in DOMAIN s /\ s[i].task = t
    BY <1>1 DEF Holds, Positions
  <2>2. Pull(s, t) = RemoveAt(s, i)
    BY <1>1 DEF Pull
  <2> HIDE DEF i
  <2> QED
    BY <2>1, <2>2, RemoveKeeps
<1>2. CASE ~Holds(s, t)
  BY <1>2 DEF Pull
<1> QED
  BY <1>1, <1>2

LEMMA PopKeeps ==
  ASSUME NEW s \in Seq(Entries), s # <<>>, NEW t, Holds(s, t), t # s[NextUp(s)].task
  PROVE  Holds(Popped(s), t)
<1>1. 1 \in DOMAIN s
  BY EmptySeq, LenProperties
<1> QED
  BY <1>1, RemoveKeeps DEF Popped, NextUp

LEMMA PushKeeps ==
  ASSUME NEW s \in Seq(Entries), NEW e \in Entries
  PROVE  /\ Holds(Pushed(s, e), e.task)
         /\ \A t : Holds(s, t) => Holds(Pushed(s, e), t)
<1> DEFINE p == Append(s, e)
<1>1. Len(s) \in Nat /\ DOMAIN s = 1..Len(s)
  BY LenProperties
<1>2. /\ p \in Seq(Entries)
      /\ Len(p) = Len(s) + 1
      /\ \A i \in 1..Len(s) : p[i] = s[i]
      /\ p[Len(s) + 1] = e
  BY AppendProperties
<1> HIDE DEF p
<1>3. DOMAIN p = 1..(Len(s) + 1)
  BY <1>2, LenProperties
<1>4. Len(s) + 1 \in DOMAIN p /\ \A i \in DOMAIN s : i \in DOMAIN p /\ p[i] = s[i]
  BY <1>1, <1>2, <1>3
<1> QED
  BY <1>2, <1>4 DEF Holds, Positions, p, Pushed

LEMMA RepositionKeeps ==
  ASSUME NEW s \in Seq(Entries), Distinct(s), NEW t, Holds(s, t), NEW by \in Int, NEW u,
         Holds(s, u)
  PROVE  Holds(Repositioned(s, t, by), u)
<1> DEFINE pos == CHOOSE i \in Positions(s, t) : TRUE
           rest == RemoveAt(s, pos)
           new == pos - 1 + by
           bounded == IF new <= 0 THEN 0 ELSE IF new >= Len(rest) THEN Len(rest) ELSE new
           at == 1 + bounded
           m == InsertAt(rest, at, s[pos])
<1>1. pos \in DOMAIN s /\ s[pos].task = t
  BY DEF Holds, Positions
<1>2. rest \in Seq(Entries) /\ (u # t => Holds(rest, u))
  BY <1>1, RemoveEntry, RemoveKeeps
<1>3. s[pos] \in Entries /\ pos \in Int
  BY <1>1, EntryType, LenProperties
<1>4. Repositioned(s, t, by) = m
  BY DEF Repositioned
<1> HIDE DEF pos, rest
<1>5. Len(rest) \in Nat /\ DOMAIN rest = 1..Len(rest)
  BY <1>2, LenProperties
<1>6. at \in Int /\ at \in 1..(Len(rest) + 1)
  BY <1>3, <1>5
<1> HIDE DEF at, new, bounded
<1>7. /\ m \in Seq(Entries)
      /\ Len(m) = Len(rest) + 1
      /\ \A j \in 1..(Len(rest) + 1) :
           m[j] = IF j < at THEN rest[j]
                  ELSE IF j = at THEN s[pos] ELSE rest[j - 1]
  <2>1. \A i \in 1..(Len(rest) + 1), e \in Entries :
          /\ InsertAt(rest, i, e) \in Seq(Entries)
          /\ Len(InsertAt(rest, i, e)) = Len(rest) + 1
          /\ \A j \in 1..(Len(rest) + 1) :
               InsertAt(rest, i, e)[j] = IF j < i THEN rest[j]
                                         ELSE IF j = i THEN e ELSE rest[j - 1]
    BY <1>2, InsertAtProperties
  <2> QED
    BY <1>3, <1>6, <2>1, Zenon
<1> HIDE DEF m
<1>8. DOMAIN m = 1..(Len(rest) + 1)
  BY <1>7, LenProperties
<1>9. CASE u = t
  <2>1. at \in DOMAIN m /\ m[at] = s[pos]
    BY <1>6, <1>7, <1>8
  <2> QED
    BY <1>1, <1>4, <1>9, <2>1 DEF Holds, Positions
<1>10. CASE u # t
  <2>1. PICK k \in 1..Len(rest) : rest[k].task = u
    BY <1>2, <1>5, <1>10 DEF Holds, Positions
  <2> DEFINE j == IF k < at THEN k ELSE k + 1
  <2>2. /\ j \in 1..(Len(rest) + 1)
        /\ (j < at => j = k) /\ (~(j < at) => j # at /\ j - 1 = k)
    BY <1>5, <1>6, <2>1
  <2> HIDE DEF j
  <2>3. m[j] = rest[k]
    BY <1>7, <2>2
  <2> QED
    BY <1>4, <1>8, <2>1, <2>2, <2>3 DEF Holds, Positions
<1> QED
  BY <1>9, <1>10

(***************************************************************************)
(* Types.  That a request writes a status needs more than the types of its *)
(* local variables: once it has read a task it knows a status to write,    *)
(* and from then on the task and queue it needs are set.                   *)
(***************************************************************************)
RequestOK(r) ==
  /\ r.pc \notin {"idle", "inspect", "empty", "drop"} => r.task \in Tasks
  /\ r.op = "enqueue" => r.queue \in Queues
  /\ r.pc \in {"check", "push", "pushed", "undo", "set_queue", "find", "pull", "pulled",
               "missed", "inspect", "release", "empty", "drop", "reposition"} =>
       r.queue \in Queues
  /\ r.op = "move_task" /\ r.pc \in {"find", "pull", "pulled", "missed"} =>
       r.source \in Queues
  /\ r.pc \in {"find", "pull", "pulled", "missed"} =>
       r.op \in {"dequeue", "stop", "reset", "delete", "trash", "archive",
                "remove_task", "move_task"}
  /\ r.pc \in {"pulled", "missed"} => r.op # "remove_task"
  /\ r.pc \in {"inspect", "release"} => r.op \in {"remove_task", "clear_queue", "delete_queue"}
  /\ r.st # None => r.tgt \in Statuses
  /\ r.op \in {"enqueue", "stop", "reset"} \/ r.pc \in {"change", "release", "undo"} => r.st # None
  /\ r.op = "publish" => r.es \in Statuses
  /\ r.pc \in {"set_publishing", "restore"} => r.op = "publish" /\ r.st # None
  /\ r.pc = "to_trash" => r.op = "trash"
  /\ r.pc \in {"empty", "drop", "reposition"} =>
       r.op \in {"clear_queue", "delete_queue", "reposition"}

CallsOK == \A c \in Calls : RequestOK(call[c])

IInv == TypeOK /\ CallsOK /\ NoDuplicateEntries

LEMMA NoneIsNothing == None \notin Tasks /\ None \notin Queues /\ None \notin Statuses
  BY ConstantsAssumption

LEMMA StatusNames ==
  /\ \A s \in {"created", "queued", "in_progress", "stopped", "publishing", "published"} :
       s \in Statuses
  /\ Absent \notin Statuses
  BY DEF Statuses, Absent

LEMMA IdleOK == Idle \in Requests /\ RequestOK(Idle)
  BY DEF Idle, Requests, RequestOK, Steps, RequestKinds

LEMMA IdleFields ==
  /\ Idle.op = "none" /\ Idle.pc = "idle" /\ Idle.task = None /\ Idle.queue = None
  /\ Idle.source = None /\ Idle.st = None /\ Idle.tgt = None
  BY DEF Idle

(* The fields of a request one by one.                                     *)
LEMMA RequestFields ==
  ASSUME NEW r
  PROVE  r \in Requests <=>
           /\ r = [op |-> r.op, pc |-> r.pc, task |-> r.task, queue |-> r.queue,
                   source |-> r.source, st |-> r.st, tgt |-> r.tgt, es |-> r.es,
                   ent |-> r.ent, todo |-> r.todo, left |-> r.left, by |-> r.by,
                   opt |-> r.opt]
           /\ r.op \in RequestKinds \cup {"none"}
           /\ r.pc \in Steps
           /\ r.task \in Tasks \cup {None}
           /\ r.queue \in Queues \cup {None}
           /\ r.source \in Queues \cup {None}
           /\ r.st \in Statuses \cup {None}
           /\ r.tgt \in Statuses \cup {None}
           /\ r.es \in Statuses \cup {None}
           /\ r.ent \in Entries \cup {None}
           /\ r.todo \in SUBSET Queues
           /\ r.left \in SUBSET Tasks
           /\ r.by \in Int
           /\ r.opt \in BOOLEAN
  BY DEF Requests

LEMMA AtOK ==
  ASSUME NEW r \in Requests, NEW pc \in Steps
  PROVE  /\ At(r, pc) \in Requests
         /\ At(r, pc).pc = pc
         /\ At(r, pc).op = r.op
         /\ At(r, pc).task = r.task
         /\ At(r, pc).queue = r.queue
         /\ At(r, pc).source = r.source
         /\ At(r, pc).st = r.st
         /\ At(r, pc).tgt = r.tgt
         /\ At(r, pc).es = r.es
         /\ At(r, pc).opt = r.opt
         /\ At(r, pc).todo = r.todo
  BY DEF Requests, At

LEMMA SweepingOK ==
  ASSUME NEW r \in Requests, NEW qs \in SUBSET Queues, RequestOK(r), r.task \in Tasks
  PROVE  /\ Sweeping(r, qs) \in Requests /\ RequestOK(Sweeping(r, qs))
         /\ Sweeping(r, qs).pc = "sweep"
         /\ Sweeping(r, qs).todo = qs
         /\ Sweeping(r, qs).op = r.op
         /\ Sweeping(r, qs).task = r.task
         /\ Sweeping(r, qs).queue = r.queue
         /\ Sweeping(r, qs).st = r.st
         /\ Sweeping(r, qs).tgt = r.tgt
         /\ Sweeping(r, qs).es = r.es
         /\ Sweeping(r, qs).opt = r.opt
<1> DEFINE w == Sweeping(r, qs)
<1>1. w = [r EXCEPT !.pc = "sweep", !.todo = qs]
  BY DEF Sweeping
<1>2. w \in Requests
  <2>1. "sweep" \in Steps
    BY DEF Steps
  <2> QED
    BY <1>1, <2>1 DEF Requests
<1>3. /\ w.pc = "sweep" /\ w.op = r.op /\ w.task = r.task /\ w.queue = r.queue
      /\ w.source = r.source /\ w.st = r.st /\ w.tgt = r.tgt /\ w.es = r.es
      /\ w.opt = r.opt /\ w.todo = qs
  BY <1>1 DEF Requests
<1> HIDE DEF w
<1>4. RequestOK(w)
  BY <1>3 DEF RequestOK
<1> QED
  BY <1>2, <1>3, <1>4 DEF w

LEMMA ChangeDoneOK ==
  ASSUME NEW r \in Requests, RequestOK(r), r.task \in Tasks
  PROVE  ChangeDone(r) \in Requests /\ RequestOK(ChangeDone(r))
  BY AtOK, IdleOK DEF ChangeDone, RequestOK, Steps

LEMMA ChangeFailedOK ==
  ASSUME NEW r \in Requests, RequestOK(r), r.pc = "change"
  PROVE  ChangeFailed(r) \in Requests /\ RequestOK(ChangeFailed(r))
<1>1. r.task \in Tasks
  BY DEF RequestOK
<1>2. r.op = "publish" => At(r, "restore") \in Requests /\ RequestOK(At(r, "restore"))
  BY <1>1, AtOK DEF RequestOK, Steps
<1> QED
  BY <1>1, <1>2, ChangeDoneOK DEF ChangeFailed

LEMMA AfterDequeueOK ==
  ASSUME NEW r \in Requests, RequestOK(r), r.task \in Tasks,
         r.op \in {"dequeue", "stop", "reset", "delete", "trash", "archive"}
  PROVE  AfterDequeue(r) \in Requests /\ RequestOK(AfterDequeue(r))
<1>1. At(r, "change") \in Requests /\ (r.st # None => RequestOK(At(r, "change")))
  BY AtOK DEF RequestOK, Steps
<1>2. ChangeIfActive(r) \in Requests /\ RequestOK(ChangeIfActive(r))
  BY <1>1, ChangeDoneOK, NoneIsNothing, StatusNames DEF ChangeIfActive
<1>3. Sweeping(r, Queues) \in Requests /\ RequestOK(Sweeping(r, Queues))
  BY SweepingOK
<1>4. r.op = "stop" => r.st # None
  BY DEF RequestOK
<1> QED
  BY <1>1, <1>2, <1>3, <1>4 DEF AfterDequeue

LEMMA SweepDoneOK ==
  ASSUME NEW r \in Requests, RequestOK(r), r.pc = "sweep"
  PROVE  SweepDone(r) \in Requests /\ RequestOK(SweepDone(r))
<1>1. r.task \in Tasks
  BY DEF RequestOK
<1>2. At(r, "cleanup") \in Requests /\ RequestOK(At(r, "cleanup"))
  BY <1>1, AtOK DEF RequestOK, Steps
<1>3. At(r, "change") \in Requests /\ (r.st # None => RequestOK(At(r, "change")))
  BY <1>1, AtOK DEF RequestOK, Steps
<1>4. ChangeIfActive(r) \in Requests /\ RequestOK(ChangeIfActive(r))
  BY <1>1, <1>3, ChangeDoneOK, NoneIsNothing, StatusNames DEF ChangeIfActive
<1> QED
  BY <1>2, <1>4, IdleOK DEF SweepDone

LEMMA AddFailedOK ==
  ASSUME NEW r \in Requests, RequestOK(r), r.pc \in {"check", "push", "pushed"}
  PROVE  AddFailed(r) \in Requests /\ RequestOK(AddFailed(r))
<1>1. r.task \in Tasks /\ r.queue \in Queues
  BY DEF RequestOK
<1>2. r.op = "enqueue" => At(r, "undo") \in Requests /\ RequestOK(At(r, "undo"))
  BY <1>1, AtOK DEF RequestOK, Steps
<1>3. ASSUME r.source # None, r.op = "move_task"
      PROVE  LET b == [r EXCEPT !.pc = "check", !.queue = r.source, !.source = None]
             IN b \in Requests /\ RequestOK(b)
  <2> DEFINE b == [r EXCEPT !.pc = "check", !.queue = r.source, !.source = None]
  <2>1. b \in Requests
    <3>1. "check" \in Steps
      BY DEF Steps
    <3> QED
      BY <3>1 DEF Requests
  <2>2. /\ b.pc = "check" /\ b.op = r.op /\ b.task = r.task /\ b.queue = r.source
        /\ b.source = None /\ b.es = r.es /\ b.st = r.st /\ b.tgt = r.tgt
    BY DEF Requests
  <2>3. r.source \in Queues
    BY <1>3 DEF Requests
  <2> HIDE DEF b
  <2>4. RequestOK(b)
    BY <1>1, <1>3, <2>2, <2>3 DEF RequestOK
  <2> QED
    BY <2>1, <2>4 DEF b
<1> QED
  BY <1>2, <1>3, IdleOK DEF AddFailed

LEMMA AddedOK ==
  ASSUME NEW r \in Requests, RequestOK(r), r.pc = "pushed"
  PROVE  Added(r) \in Requests /\ RequestOK(Added(r))
<1>1. r.task \in Tasks /\ r.queue \in Queues
  BY DEF RequestOK
<1>2. At(r, "set_queue") \in Requests /\ RequestOK(At(r, "set_queue"))
  BY <1>1, AtOK DEF RequestOK, Steps
<1>3. OtherQueues(r.queue) \in SUBSET Queues
  BY DEF OtherQueues
<1> QED
  BY <1>1, <1>2, <1>3, SweepingOK, IdleOK DEF Added

LEMMA HandedOK ==
  ASSUME NEW r \in Requests, RequestOK(r), r.task \in Tasks
  PROVE  Handed(r) \in Requests /\ RequestOK(Handed(r))
  BY AtOK, IdleOK DEF Handed, RequestOK, Steps

LEMMA ReleasedOneOK ==
  ASSUME NEW r \in Requests, r.queue \in Queues,
         r.op \in {"remove_task", "clear_queue", "delete_queue"}
  PROVE  ReleasedOne(r) \in Requests /\ RequestOK(ReleasedOne(r))
<1> DEFINE rest == r.left \ {r.task}
           next == [r EXCEPT !.left = rest, !.task = None, !.st = None, !.tgt = None]
<1>1. next \in Requests
  BY DEF Requests
<1>2. next.op = r.op /\ next.queue = r.queue /\ next.st = None
  BY DEF Requests
<1> HIDE DEF next
<1>3. \A pc \in {"inspect", "empty", "drop"} :
        /\ At(next, pc) \in Requests
        /\ pc = "inspect" \/ r.op # "remove_task" => RequestOK(At(next, pc))
  BY <1>1, <1>2, AtOK DEF RequestOK, Steps
<1> QED
  BY <1>3, IdleOK DEF ReleasedOne, next

LEMMA GotoOK ==
  ASSUME TypeOK, CallsOK, NEW c \in Calls, NEW r \in Requests, RequestOK(r), Goto(c, r)
  PROVE  call' \in [Calls -> Requests] /\ CallsOK'
<1>1. /\ call' = [call EXCEPT ![c] = r]
      /\ call \in [Calls -> Requests]
  BY DEF Goto, TypeOK
<1>2. \A d \in Calls : call'[d] = IF d = c THEN r ELSE call[d]
  BY <1>1
<1> QED
  BY <1>1, <1>2 DEF CallsOK

(* Most steps change nothing but the local state of one request.           *)
LEMMA LocalStep ==
  ASSUME IInv, NEW c \in Calls, NEW r \in Requests, RequestOK(r), Goto(c, r),
         UNCHANGED <<docs, queues>>
  PROVE  IInv'
  BY GotoOK DEF IInv, TypeOK, NoDuplicateEntries, docs, queues

(* The others that leave the queues alone, and those that leave the tasks. *)
LEMMA TaskStep ==
  ASSUME IInv, NEW c \in Calls, NEW r \in Requests, RequestOK(r), Goto(c, r),
         UNCHANGED queues,
         status' \in [Tasks -> Statuses \cup {Absent}],
         enqueue_status' \in [Tasks -> Statuses \cup {None}],
         exec_queue' \in [Tasks -> Queues \cup {None}],
         archived' \subseteq Tasks
  PROVE  IInv'
  BY GotoOK DEF IInv, TypeOK, NoDuplicateEntries, queues

LEMMA QueueStep ==
  ASSUME IInv, NEW c \in Calls, NEW r \in Requests, RequestOK(r), Goto(c, r),
         UNCHANGED <<docs, queue_state>>,
         NEW q \in Queues, NEW s \in Seq(Entries), Distinct(s),
         entries' = [entries EXCEPT ![q] = s]
  PROVE  IInv'
<1>1. entries \in [Queues -> Seq(Entries)]
  BY DEF IInv, TypeOK
<1>2. entries' \in [Queues -> Seq(Entries)]
  BY <1>1
<1>3. \A p \in Queues : entries'[p] = IF p = q THEN s ELSE entries[p]
  BY <1>1
<1>4. NoDuplicateEntries'
  BY <1>3 DEF IInv, NoDuplicateEntries, Distinct
<1> QED
  BY <1>2, <1>4, GotoOK DEF IInv, TypeOK, docs

LEMMA QueueOK ==
  ASSUME IInv, NEW q \in Queues
  PROVE  entries[q] \in Seq(Entries) /\ Distinct(entries[q])
  BY DEF IInv, TypeOK, NoDuplicateEntries, Distinct

LEMMA CallOK ==
  ASSUME IInv, NEW c \in Calls
  PROVE  call[c] \in Requests /\ RequestOK(call[c])
  BY DEF IInv, TypeOK, CallsOK

LEMMA TaskOK ==
  ASSUME IInv, NEW t \in Tasks
  PROVE  /\ status[t] \in Statuses \cup {Absent}
         /\ Exists(t) => status[t] \in Statuses
         /\ enqueue_status[t] \in Statuses \cup {None}
         /\ PriorStatus(t) \in Statuses
         /\ exec_queue[t] \in Queues \cup {None}
  BY StatusNames, NoneIsNothing DEF IInv, TypeOK, Exists, PriorStatus

(* How requests begin.  BeginDequeue is shared by five of them.            *)
LEMMA DequeuingRequest ==
  ASSUME IInv, NEW op \in {"dequeue", "stop", "reset", "delete", "trash", "archive"},
         NEW t \in Tasks, Exists(t), NEW tgt \in Statuses, NEW opt \in BOOLEAN
  PROVE  Dequeuing(op, t, tgt, opt) \in Requests
<1>1. op \in RequestKinds
  BY DEF RequestKinds
<1>2. Idle \in Requests
  BY IdleOK
<1>3. status[t] \in Statuses /\ exec_queue[t] \in Queues \cup {None}
  BY TaskOK
<1> QED
  BY <1>1, <1>2, <1>3 DEF Dequeuing, Requests

LEMMA BeginDequeueOK ==
  ASSUME IInv, NEW c \in Calls,
         NEW op \in {"dequeue", "stop", "reset", "delete", "trash", "archive"},
         NEW t \in Tasks, Exists(t), NEW tgt \in Statuses, NEW opt \in BOOLEAN,
         BeginDequeue(c, Dequeuing(op, t, tgt, opt))
  PROVE  IInv'
<1> DEFINE r == Dequeuing(op, t, tgt, opt)
<1>1. status[t] \in Statuses /\ exec_queue[t] \in Queues \cup {None}
  BY TaskOK
<1>2. r = [Idle EXCEPT !.op = op, !.task = t, !.queue = exec_queue[t],
             !.st = status[t], !.tgt = tgt, !.opt = opt]
  BY DEF Dequeuing
<1>3. r \in Requests
  BY DequeuingRequest
<1>4. /\ r.op = op /\ r.pc = "idle" /\ r.task = t
      /\ r.queue = exec_queue[t] /\ r.source = None
      /\ r.st = status[t] /\ r.tgt = tgt
  BY <1>2, IdleOK, IdleFields DEF Requests
<1> HIDE DEF r
<1>5. RequestOK(r)
  BY <1>1, <1>3, <1>4, NoneIsNothing DEF RequestOK
<1>6. AfterDequeue(r) \in Requests /\ RequestOK(AfterDequeue(r))
  BY <1>3, <1>4, <1>5, AfterDequeueOK
<1>7. IsEnqueued(r.task) => At(r, "find") \in Requests /\ RequestOK(At(r, "find"))
  BY <1>1, <1>3, <1>4, AtOK, NoneIsNothing DEF RequestOK, Steps, IsEnqueued
<1>8. Goto(c, IF IsEnqueued(r.task) THEN At(r, "find") ELSE AfterDequeue(r))
      /\ UNCHANGED <<docs, queues>>
  BY DEF BeginDequeue, r
<1> QED
  BY <1>6, <1>7, <1>8, LocalStep

LEMMA BeginOK ==
  ASSUME IInv, NEW c \in Calls, Begin(c)
  PROVE  IInv'
<1>2. ASSUME NEW t \in Tasks, NEW q \in Queues, NEW force \in Forces, NEW upd \in Options,
             Enqueue(c, t, q, force, upd)
      PROVE  IInv'
  <2> DEFINE r == [Idle EXCEPT !.op = "enqueue", !.pc = "change", !.task = t,
                     !.queue = q, !.st = status[t], !.tgt = "queued",
                     !.es = BeforeEnqueueStatus(t), !.opt = upd]
  <2>1. status[t] \in Statuses
    BY <1>2, ConstantsAssumption DEF Enqueue
  <2>2. BeforeEnqueueStatus(t) \in Statuses
    BY <2>1, TaskOK DEF BeforeEnqueueStatus
  <2>3. r \in Requests
    <3>1. "enqueue" \in RequestKinds /\ "change" \in Steps
      BY DEF RequestKinds, Steps
    <3> QED
      BY <2>1, <2>2, <3>1, StatusNames, NoneIsNothing, ConstantsAssumption, IdleOK DEF Requests
  <2>4. /\ r.op = "enqueue" /\ r.pc = "change" /\ r.task = t
        /\ r.queue = q /\ r.source = None
        /\ r.st = status[t] /\ r.tgt = "queued"
    BY IdleOK, IdleFields DEF Requests
  <2> HIDE DEF r
  <2>5. r \in Requests /\ RequestOK(r)
    BY <2>3, <2>1, <2>2, StatusNames, NoneIsNothing, <2>4 DEF RequestOK
  <2> USE DEF r
  <2> QED
    BY <1>2, <2>5, LocalStep DEF Enqueue
<1>3. ASSUME NEW t \in Tasks, NEW q \in Queues, NEW upd \in Options, AddTask(c, t, q, upd)
      PROVE  IInv'
  <2> DEFINE r == [Idle EXCEPT !.op = "add_task", !.pc = "check", !.task = t,
                     !.queue = q, !.opt = upd]
  <2>1. r \in Requests
    <3>1. "add_task" \in RequestKinds /\ "check" \in Steps
      BY DEF RequestKinds, Steps
    <3> QED
      BY <3>1, ConstantsAssumption, IdleOK DEF Requests
  <2>2. /\ r.op = "add_task" /\ r.pc = "check" /\ r.task = t
        /\ r.queue = q /\ r.source = None
        /\ r.st = None /\ r.tgt = None
    BY IdleOK, IdleFields DEF Requests
  <2> HIDE DEF r
  <2>3. r \in Requests /\ RequestOK(r)
    BY <2>1, <2>2, NoneIsNothing, StatusNames DEF RequestOK
  <2> USE DEF r
  <2> QED
    BY <1>3, <2>3, LocalStep DEF AddTask
<1>4. ASSUME NEW t \in Tasks, NEW q \in Queues, NEW upd \in Options, RemoveTask(c, t, q, upd)
      PROVE  IInv'
  <2> DEFINE r == [Idle EXCEPT !.op = "remove_task", !.pc = "find", !.task = t,
                     !.queue = q, !.opt = upd]
  <2>1. r \in Requests
    <3>1. "remove_task" \in RequestKinds /\ "find" \in Steps
      BY DEF RequestKinds, Steps
    <3> QED
      BY <3>1, ConstantsAssumption, IdleOK DEF Requests
  <2>2. /\ r.op = "remove_task" /\ r.pc = "find" /\ r.task = t
        /\ r.queue = q /\ r.source = None
        /\ r.st = None /\ r.tgt = None
    BY IdleOK, IdleFields DEF Requests
  <2> HIDE DEF r
  <2>3. r \in Requests /\ RequestOK(r)
    BY <2>1, <2>2, NoneIsNothing, StatusNames DEF RequestOK
  <2> USE DEF r
  <2> QED
    BY <1>4, <2>3, LocalStep DEF RemoveTask
<1>5. ASSUME NEW t \in Tasks, NEW q \in Queues, NEW p \in Queues, NEW upd \in Options,
             MoveTask(c, t, q, p, upd)
      PROVE  IInv'
  <2> DEFINE r == [Idle EXCEPT !.op = "move_task", !.pc = "find", !.task = t,
                     !.queue = q, !.source = p, !.opt = upd]
  <2>1. r \in Requests
    <3>1. "move_task" \in RequestKinds /\ "find" \in Steps
      BY DEF RequestKinds, Steps
    <3> QED
      BY <3>1, ConstantsAssumption, IdleOK DEF Requests
  <2>2. /\ r.op = "move_task" /\ r.pc = "find" /\ r.task = t
        /\ r.queue = q /\ r.source = p
        /\ r.st = None /\ r.tgt = None
    BY IdleOK, IdleFields DEF Requests
  <2> HIDE DEF r
  <2>3. r \in Requests /\ RequestOK(r)
    BY <2>1, <2>2, NoneIsNothing, StatusNames DEF RequestOK
  <2> USE DEF r
  <2> QED
    BY <1>5, <2>3, LocalStep DEF MoveTask
<1>6. ASSUME NEW t \in Tasks, NEW q \in Queues, NEW by \in Int, Reposition(c, t, q, by)
      PROVE  IInv'
  <2> DEFINE r == [Idle EXCEPT !.op = "reposition", !.pc = "reposition", !.task = t,
                     !.queue = q, !.by = by]
  <2>1. r \in Requests
    <3>1. "reposition" \in RequestKinds /\ "reposition" \in Steps
      BY DEF RequestKinds, Steps
    <3> QED
      BY <3>1, IdleOK DEF Requests
  <2>2. /\ r.op = "reposition" /\ r.pc = "reposition" /\ r.task = t
        /\ r.queue = q /\ r.source = None
        /\ r.st = None /\ r.tgt = None
    BY IdleOK, IdleFields DEF Requests
  <2> HIDE DEF r
  <2>3. r \in Requests /\ RequestOK(r)
    BY <2>1, <2>2, NoneIsNothing, StatusNames DEF RequestOK
  <2> USE DEF r
  <2> QED
    BY <1>6, <2>3, LocalStep DEF Reposition
<1>7. ASSUME NEW t \in Tasks, NEW n \in NewStatuses \cup {None}, NEW all \in Options,
             Dequeue(c, t, n, all)
      PROVE  IInv'
  <2>1. (IF n # None THEN n ELSE PriorStatus(t)) \in Statuses
    BY TaskOK, ConstantsAssumption
  <2> QED
    BY <1>7, <2>1, BeginDequeueOK, ConstantsAssumption DEF Dequeue
<1>8. ASSUME NEW t \in Tasks, DequeueDeleted(c, t)
      PROVE  IInv'
  <2> DEFINE r == [Idle EXCEPT !.op = "dequeue", !.task = t]
  <2>1. r \in Requests
    <3>1. "dequeue" \in RequestKinds
      BY DEF RequestKinds
    <3> QED
      BY <3>1, IdleOK DEF Requests
  <2>2. /\ r.op = "dequeue" /\ r.pc = "idle" /\ r.task = t
        /\ r.queue = None /\ r.source = None
        /\ r.st = None /\ r.tgt = None
    BY IdleOK, IdleFields DEF Requests
  <2> HIDE DEF r
  <2>3. r \in Requests /\ RequestOK(r)
    BY <2>1, <2>2, NoneIsNothing DEF RequestOK
  <2>4. Sweeping(r, Queues) \in Requests /\ RequestOK(Sweeping(r, Queues))
    BY <2>2, <2>3, SweepingOK
  <2> QED
    BY <1>8, <2>4, LocalStep DEF DequeueDeleted, r
<1>9. ASSUME NEW t \in Tasks, NEW force \in Forces,
             \/ Stop(c, t, force) \/ Reset(c, t, force)
             \/ \E op \in {"delete", "trash"} : Delete(c, t, force, op)
      PROVE  IInv'
  BY <1>9, BeginDequeueOK, TaskOK, StatusNames, ConstantsAssumption DEF Stop, Reset, Delete
<1>17. ASSUME NEW t \in Tasks, NEW force \in Forces, Publish(c, t, force)
       PROVE  IInv'
  <2> DEFINE r == [Idle EXCEPT !.op = "publish", !.pc = "set_publishing", !.task = t,
                     !.st = "publishing", !.tgt = "published", !.es = PreviousStatus(t)]
  <2>1. PreviousStatus(t) \in Statuses
    BY <1>17, TaskOK DEF Publish, PreviousStatus
  <2>2. r \in Requests
    <3>1. "publish" \in RequestKinds /\ "set_publishing" \in Steps
      BY DEF RequestKinds, Steps
    <3> QED
      BY <2>1, <3>1, IdleOK, StatusNames DEF Requests
  <2>3. /\ r.op = "publish" /\ r.pc = "set_publishing" /\ r.task = t
        /\ r.queue = None /\ r.source = None /\ r.es = PreviousStatus(t)
        /\ r.st = "publishing" /\ r.tgt = "published"
    BY IdleOK, IdleFields DEF Requests
  <2> HIDE DEF r
  <2>4. r \in Requests /\ RequestOK(r)
    BY <2>1, <2>2, <2>3, NoneIsNothing, StatusNames DEF RequestOK
  <2> USE DEF r
  <2> QED
    BY <1>17, <2>4, LocalStep DEF Publish
<1>10. ASSUME NEW t \in Tasks, NEW s \in Reports, NEW force \in Forces, Report(c, t, s, force)
       PROVE  IInv'
  <2> DEFINE r == [Idle EXCEPT !.op = "report", !.pc = "change", !.task = t,
                     !.st = status[t], !.tgt = s]
  <2>1. status[t] \in Statuses /\ s \in Statuses
    BY <1>10, TaskOK, ConstantsAssumption DEF Report
  <2>2. r \in Requests
    <3>1. "report" \in RequestKinds /\ "change" \in Steps
      BY DEF RequestKinds, Steps
    <3> QED
      BY <2>1, <3>1, NoneIsNothing, IdleOK DEF Requests
  <2>3. /\ r.op = "report" /\ r.pc = "change" /\ r.task = t
        /\ r.queue = None /\ r.source = None
        /\ r.st = status[t] /\ r.tgt = s
    BY IdleOK, IdleFields DEF Requests
  <2> HIDE DEF r
  <2>4. r \in Requests /\ RequestOK(r)
    BY <2>2, <2>1, <2>3, NoneIsNothing, StatusNames DEF RequestOK
  <2> USE DEF r
  <2> QED
    BY <1>10, <2>4, LocalStep DEF Report
<1>11. ASSUME NEW t \in Tasks, Archive(c, t)
       PROVE  IInv'
  <2>1. (IF status[t] = "in_progress" THEN "stopped" ELSE PriorStatus(t)) \in Statuses
    BY TaskOK, StatusNames
  <2> QED
    BY <1>11, <2>1, BeginDequeueOK DEF Archive
<1>12. ASSUME NEW t \in Tasks, Unarchive(c, t)
       PROVE  IInv'
  BY <1>12 DEF Unarchive, IInv, TypeOK, CallsOK, NoDuplicateEntries, queues
<1>13. ASSUME NEW q \in Queues, NEW op \in {"get_next_task", "agent"}, GetNextTask(c, q, op)
       PROVE  IInv'
  <2> DEFINE e == entries[q][NextUp(entries[q])]
             r == [Idle EXCEPT !.op = op, !.pc = "popped", !.task = e.task, !.ent = e]
  <2>1. /\ e \in Entries
        /\ Popped(entries[q]) \in Seq(Entries)
        /\ Distinct(Popped(entries[q]))
    BY <1>13, QueueOK, PopEntry DEF GetNextTask
  <2>2. e.task \in Tasks
    BY <2>1 DEF Entries
  <2>3. /\ Goto(c, r)
        /\ UNCHANGED <<docs, queue_state>>
        /\ entries' = [entries EXCEPT ![q] = Popped(entries[q])]
    BY <1>13 DEF GetNextTask
  <2> HIDE DEF e
  <2>4. r \in Requests
    <3>1. op \in RequestKinds /\ "popped" \in Steps
      BY DEF RequestKinds, Steps
    <3> QED
      BY <2>1, <2>2, <3>1, IdleOK DEF Requests
  <2>5. /\ r.op = op /\ r.pc = "popped" /\ r.task = e.task
        /\ r.queue = None /\ r.source = None
        /\ r.st = None /\ r.tgt = None
    BY IdleOK, IdleFields DEF Requests
  <2> HIDE DEF r
  <2>6. r \in Requests /\ RequestOK(r)
    BY <2>4, <2>1, <2>2, <2>5, NoneIsNothing, StatusNames DEF RequestOK
  <2> QED
    BY <2>1, <2>3, <2>6, QueueStep
<1>14. ASSUME NEW q \in Queues, ClearQueue(c, q)
       PROVE  IInv'
  <2> DEFINE r == [Idle EXCEPT !.op = "clear_queue", !.pc = "inspect", !.queue = q,
                     !.left = TasksIn(q)]
  <2>1. TasksIn(q) \subseteq Tasks
    BY QueueOK, EntryType DEF TasksIn
  <2>2. r \in Requests
    <3>1. "clear_queue" \in RequestKinds /\ "inspect" \in Steps
      BY DEF RequestKinds, Steps
    <3> QED
      BY <2>1, <3>1, IdleOK DEF Requests
  <2>3. /\ r.op = "clear_queue" /\ r.pc = "inspect" /\ r.task = None
        /\ r.queue = q /\ r.source = None
        /\ r.st = None /\ r.tgt = None
    BY IdleOK, IdleFields DEF Requests
  <2> HIDE DEF r
  <2>4. r \in Requests /\ RequestOK(r)
    BY <2>2, <2>1, <2>3, NoneIsNothing, StatusNames DEF RequestOK
  <2> USE DEF r
  <2> QED
    BY <1>14, <2>4, LocalStep DEF ClearQueue
<1>15. ASSUME NEW q \in Queues, NEW force \in Forces, DeleteQueue(c, q, force)
       PROVE  IInv'
  <2> DEFINE pc == IF entries[q] = <<>> THEN "drop" ELSE "inspect"
             r == [Idle EXCEPT !.op = "delete_queue", !.pc = pc, !.queue = q,
                     !.left = TasksIn(q), !.opt = force]
  <2>1. TasksIn(q) \subseteq Tasks /\ pc \in {"drop", "inspect"}
    BY QueueOK, EntryType DEF TasksIn
  <2> HIDE DEF pc
  <2>2. r \in Requests
    <3>1. "delete_queue" \in RequestKinds /\ pc \in Steps
      BY <2>1 DEF RequestKinds, Steps
    <3> QED
      BY <2>1, <3>1, ConstantsAssumption, IdleOK DEF Requests
  <2>3. /\ r.op = "delete_queue" /\ r.pc = pc /\ r.task = None
        /\ r.queue = q /\ r.source = None
        /\ r.st = None /\ r.tgt = None
    BY IdleOK, IdleFields DEF Requests
  <2> HIDE DEF r
  <2>4. r \in Requests /\ RequestOK(r)
    BY <2>2, <2>1, <2>3, NoneIsNothing, StatusNames DEF RequestOK
  <2> USE DEF r
  <2> QED
    BY <1>15, <2>4, LocalStep DEF DeleteQueue, pc
<1>16. \A m \in Moves : m \in Int /\ -m \in Int
  BY ConstantsAssumption
<1> QED
  BY <1>2, <1>3, <1>4, <1>5, <1>6, <1>7, <1>8, <1>9, <1>10, <1>11, <1>12, <1>13,
     <1>14, <1>15, <1>16, <1>17 DEF Begin

(* The steps of a request under way.                                       *)
LEMMA ProceedOK ==
  ASSUME IInv, NEW c \in Calls, Proceed(c)
  PROVE  IInv'
<1> DEFINE r == call[c]
<1>0. r \in Requests /\ RequestOK(r)
  BY CallOK
<1>1. CASE Change(c)
  <2>1. r.pc = "change" /\ r.task \in Tasks /\ r.tgt \in Statuses /\ r.st # None
    BY <1>0, <1>1 DEF Change, RequestOK
  <2>2. /\ ChangeDone(r) \in Requests /\ RequestOK(ChangeDone(r))
        /\ ChangeFailed(r) \in Requests /\ RequestOK(ChangeFailed(r))
    BY <1>0, <2>1, ChangeDoneOK, ChangeFailedOK
  <2>3. r.op = "enqueue" => At(r, "check") \in Requests /\ RequestOK(At(r, "check"))
    BY <1>0, <2>1, AtOK DEF RequestOK, Steps
  <2>4. r.es \in Statuses \cup {None}
    BY <1>0 DEF Requests
  <2>5. /\ status' \in [Tasks -> Statuses \cup {Absent}]
        /\ enqueue_status' \in [Tasks -> Statuses \cup {None}]
        /\ exec_queue' \in [Tasks -> Queues \cup {None}]
        /\ archived' \subseteq Tasks
        /\ UNCHANGED queues
    BY <1>1, <2>1, <2>4 DEF Change, IInv, TypeOK
  <2>6. \/ Goto(c, ChangeDone(r)) \/ Goto(c, ChangeFailed(r))
        \/ r.op = "enqueue" /\ Goto(c, At(r, "check"))
    BY <1>1 DEF Change
  <2> HIDE DEF r
  <2> QED
    BY <2>2, <2>3, <2>5, <2>6, TaskStep
<1>2. CASE CheckQueue(c)
  <2>1. r.pc = "check" /\ r.task \in Tasks /\ r.queue \in Queues
    BY <1>0, <1>2 DEF CheckQueue, RequestOK
  <2>2. At(r, "push") \in Requests /\ RequestOK(At(r, "push"))
    BY <1>0, <2>1, AtOK DEF RequestOK, Steps
  <2>3. AddFailed(r) \in Requests /\ RequestOK(AddFailed(r))
    BY <1>0, <2>1, AddFailedOK
  <2> QED
    BY <1>2, <2>2, <2>3, LocalStep DEF CheckQueue
<1>3. CASE PushEntry(c)
  <2>1. r.pc = "push" /\ r.task \in Tasks /\ r.queue \in Queues
    BY <1>0, <1>3 DEF PushEntry, RequestOK
  <2>2. AddFailed(r) \in Requests /\ RequestOK(AddFailed(r))
    BY <1>0, <2>1, AddFailedOK
  <2>3. CASE MayPush(r.queue, r.task)
    <3> DEFINE e == [task |-> r.task, added |-> CHOOSE s \in Stamps \ UsedStamps : TRUE]
    <3>1. /\ Stamps \ UsedStamps # {}
          /\ entries' = [entries EXCEPT ![r.queue] = Pushed(entries[r.queue], e)]
          /\ Goto(c, At(r, "pushed"))
          /\ UNCHANGED <<docs, queue_state>>
      BY <1>3, <2>3 DEF PushEntry
    <3>2. e \in Entries /\ e.task = r.task
      BY <2>1, <3>1 DEF Entries
    <3> HIDE DEF e
    <3>3. ~Holds(entries[r.queue], e.task)
      BY <2>3, <3>2 DEF MayPush, InQueue
    <3>4. entries[r.queue] \in Seq(Entries) /\ Distinct(entries[r.queue])
      BY <2>1, QueueOK
    <3>5. Pushed(entries[r.queue], e) \in Seq(Entries) /\ Distinct(Pushed(entries[r.queue], e))
      BY <3>2, <3>3, <3>4, PushEntryOf
    <3>6. At(r, "pushed") \in Requests /\ RequestOK(At(r, "pushed"))
      BY <1>0, <2>1, AtOK DEF RequestOK, Steps
    <3> HIDE DEF r
    <3> QED
      BY <2>1, <3>1, <3>5, <3>6, QueueStep
  <2>4. CASE ~MayPush(r.queue, r.task)
    BY <1>3, <2>2, <2>4, LocalStep DEF PushEntry, queues
  <2> QED
    BY <2>3, <2>4
<1>4. CASE LogPushed(c)
  <2>1. r.pc = "pushed"
    BY <1>4 DEF LogPushed
  <2>2. AddFailed(r) \in Requests /\ RequestOK(AddFailed(r))
    BY <1>0, <2>1, AddFailedOK
  <2>3. Added(r) \in Requests /\ RequestOK(Added(r))
    BY <1>0, <2>1, AddedOK
  <2> QED
    BY <1>4, <2>2, <2>3, LocalStep DEF LogPushed
<1>5. CASE UndoEnqueue(c)
  <2>1. r.st \in Statuses
    BY <1>0, <1>5 DEF UndoEnqueue, RequestOK, Requests
  <2>2. /\ status' \in [Tasks -> Statuses \cup {Absent}]
        /\ enqueue_status' \in [Tasks -> Statuses \cup {None}]
        /\ exec_queue' \in [Tasks -> Queues \cup {None}]
        /\ archived' \subseteq Tasks
        /\ UNCHANGED queues
        /\ Goto(c, Idle)
    BY <1>5, <2>1 DEF UndoEnqueue, IInv, TypeOK
  <2> QED
    BY <2>2, IdleOK, TaskStep
<1>6. CASE SetExecutionQueue(c)
  <2>1. r.pc = "set_queue" /\ r.task \in Tasks /\ r.queue \in Queues
    BY <1>0, <1>6 DEF SetExecutionQueue, RequestOK
  <2>2. Sweeping(r, OtherQueues(r.queue)) \in Requests
        /\ RequestOK(Sweeping(r, OtherQueues(r.queue)))
    BY <1>0, <2>1, SweepingOK DEF OtherQueues
  <2>3. exec_queue' \in [Tasks -> Queues \cup {None}]
    BY <1>6, <2>1 DEF SetExecutionQueue, IInv, TypeOK
  <2> QED
    BY <1>6, <2>2, <2>3, IdleOK, TaskStep DEF SetExecutionQueue, IInv, TypeOK
<1>7. CASE Sweep(c)
  <2>1. r.pc = "sweep" /\ r.task \in Tasks /\ r.todo \subseteq Queues
    BY <1>0, <1>7 DEF Sweep, RequestOK, Requests
  <2>2. ASSUME NEW q \in r.todo,
               entries' = [entries EXCEPT ![q] = Pull(entries[q], r.task)],
               Goto(c, [r EXCEPT !.todo = @ \ {q}])
        PROVE  IInv'
    <3> DEFINE n == Sweeping(r, r.todo \ {q})
    <3>1. n \in Requests /\ RequestOK(n)
      BY <1>0, <2>1, SweepingOK
    <3>2. [r EXCEPT !.todo = @ \ {q}] = n
      BY <1>0, <2>1 DEF Sweeping, Requests
    <3>3. q \in Queues
      BY <2>1
    <3>4. Pull(entries[q], r.task) \in Seq(Entries) /\ Distinct(Pull(entries[q], r.task))
      BY <3>3, QueueOK, PullTask
    <3>5. UNCHANGED <<docs, queue_state>>
      BY <1>7 DEF Sweep
    <3> HIDE DEF n, r
    <3> QED
      BY <2>2, <3>1, <3>2, <3>3, <3>4, <3>5, QueueStep
  <2>3. CASE r.todo = {} /\ Goto(c, SweepDone(r)) /\ UNCHANGED entries
    BY <1>0, <1>7, <2>1, <2>3, SweepDoneOK, LocalStep DEF Sweep, queues
  <2> QED
    BY <1>7, <2>2, <2>3 DEF Sweep
<1>8. CASE FindEntry(c)
  <2>1. r.pc = "find" /\ r.task \in Tasks /\ r.queue \in Queues
    BY <1>0, <1>8 DEF FindEntry, RequestOK
  <2>2. r.op \notin {"remove_task", "move_task"} =>
          AfterDequeue(r) \in Requests /\ RequestOK(AfterDequeue(r))
    BY <1>0, <2>1, AfterDequeueOK DEF RequestOK
  <2>3. ASSUME Live(r.queue), InQueue(r.task, r.queue)
        PROVE  LET n == [r EXCEPT !.pc = "pull", !.ent = EntryOf(entries[r.queue], r.task)]
               IN n \in Requests /\ RequestOK(n)
    <3> DEFINE e == EntryOf(entries[r.queue], r.task)
               n == [r EXCEPT !.pc = "pull", !.ent = e]
    <3>1. \E i \in DOMAIN entries[r.queue] : e = entries[r.queue][i]
      BY <2>3 DEF EntryOf, InQueue, Holds, Positions
    <3>2. e \in Entries
      BY <2>1, <3>1, QueueOK, EntryType
    <3> HIDE DEF e
    <3>3. n \in Requests
      <4>1. "pull" \in Steps
        BY DEF Steps
      <4> QED
        BY <1>0, <3>2, <4>1 DEF Requests
    <3>4. /\ n.pc = "pull" /\ n.op = r.op /\ n.task = r.task /\ n.queue = r.queue
          /\ n.es = r.es /\ n.source = r.source /\ n.st = r.st /\ n.tgt = r.tgt
      BY <1>0 DEF Requests
    <3> HIDE DEF n
    <3>5. RequestOK(n)
      BY <1>0, <2>1, <3>4 DEF RequestOK
    <3> QED
      BY <3>3, <3>5 DEF n, e
  <2> HIDE DEF r
  <2>4. /\ UNCHANGED <<docs, queues>>
        /\ \/ /\ Live(r.queue) /\ InQueue(r.task, r.queue)
              /\ Goto(c, [r EXCEPT !.pc = "pull", !.ent = EntryOf(entries[r.queue], r.task)])
           \/ Goto(c, Idle)
           \/ r.op \notin {"remove_task", "move_task"} /\ Goto(c, AfterDequeue(r))
    BY <1>8 DEF FindEntry, r
  <2> QED
    BY <2>2, <2>3, <2>4, IdleOK, LocalStep
<1>9. CASE PullEntry(c)
  <2> DEFINE q == r.queue
             matched == Live(q) /\ InQueue(r.task, q)
             p == IF matched THEN "pulled" ELSE "missed"
             n == [r EXCEPT !.pc = p, !.ent = None]
             m == [r EXCEPT !.pc = "inspect", !.left = {r.task}, !.ent = None]
             s == IF matched /\ EntryOf(entries[q], r.task) = r.ent
                  THEN Pull(entries[q], r.task) ELSE entries[q]
  <2>1. r.pc = "pull" /\ r.task \in Tasks /\ q \in Queues
    BY <1>0, <1>9 DEF PullEntry, RequestOK
  <2>2. s \in Seq(Entries) /\ Distinct(s)
    BY <2>1, QueueOK, PullTask
  <2>3. entries' = [entries EXCEPT ![q] = s]
    BY <1>9, <2>1 DEF PullEntry, IInv, TypeOK
  <2>4. UNCHANGED <<docs, queue_state>>
    BY <1>9 DEF PullEntry
  <2>5. \/ r.op # "remove_task" /\ Goto(c, n)
        \/ r.op = "remove_task" /\ Goto(c, m)
        \/ Goto(c, Idle)
    BY <1>9 DEF PullEntry
  <2>6. p \in {"pulled", "missed"}
    OBVIOUS
  <2> HIDE DEF s, p
  <2>7. r.op # "remove_task" => n \in Requests /\ RequestOK(n)
    <3>1. n \in Requests
      <4>1. p \in Steps
        BY <1>0, <2>6 DEF Steps
      <4> QED
        BY <1>0, <2>6, <4>1 DEF Requests
    <3>2. /\ n.pc = p /\ n.op = r.op /\ n.task = r.task /\ n.queue = r.queue
          /\ n.es = r.es /\ n.source = r.source /\ n.st = r.st /\ n.tgt = r.tgt
      BY <1>0 DEF Requests
    <3> HIDE DEF n
    <3> QED
      BY <1>0, <2>1, <2>6, <3>1, <3>2 DEF RequestOK
  <2>8. r.op = "remove_task" => m \in Requests /\ RequestOK(m)
    <3>1. m \in Requests
      <4>1. "inspect" \in Steps
        BY DEF Steps
      <4> QED
        BY <1>0, <2>1, <4>1 DEF Requests
    <3>2. /\ m.pc = "inspect" /\ m.op = r.op /\ m.task = r.task /\ m.queue = r.queue
          /\ m.es = r.es /\ m.source = r.source /\ m.st = r.st /\ m.tgt = r.tgt
      BY <1>0 DEF Requests
    <3> HIDE DEF m
    <3> QED
      BY <1>0, <2>1, <3>1, <3>2 DEF RequestOK
  <2> HIDE DEF n, m, q, r
  <2> QED
    BY <2>1, <2>2, <2>3, <2>4, <2>5, <2>7, <2>8, IdleOK, QueueStep
<1>10. CASE LogPulled(c)
  <2> DEFINE n == [r EXCEPT !.pc = "check", !.queue = r.source, !.source = r.queue]
  <2>1. r.pc \in {"pulled", "missed"} /\ r.task \in Tasks /\ r.queue \in Queues
    BY <1>0, <1>10 DEF LogPulled, RequestOK
  <2>2. r.op \notin {"remove_task", "move_task"} =>
          AfterDequeue(r) \in Requests /\ RequestOK(AfterDequeue(r))
    BY <1>0, <2>1, AfterDequeueOK DEF RequestOK
  <2>3. r.op = "move_task" => n \in Requests /\ RequestOK(n)
    <3> SUFFICES ASSUME r.op = "move_task" PROVE n \in Requests /\ RequestOK(n)
      OBVIOUS
    <3>1. r.source \in Queues
      BY <1>0, <2>1 DEF RequestOK
    <3>2. n \in Requests
      <4>1. "check" \in Steps
        BY DEF Steps
      <4> QED
        BY <1>0, <2>1, <3>1, <4>1 DEF Requests
    <3>3. /\ n.pc = "check" /\ n.op = r.op /\ n.task = r.task /\ n.queue = r.source
          /\ n.es = r.es /\ n.source = r.queue /\ n.st = r.st /\ n.tgt = r.tgt
      BY <1>0 DEF Requests
    <3> HIDE DEF n
    <3> QED
      BY <1>0, <2>1, <3>1, <3>2, <3>3 DEF RequestOK
  <2>4. /\ UNCHANGED <<docs, queues>>
        /\ \/ r.op # "move_task" /\ Goto(c, AfterDequeue(r))
           \/ r.op = "move_task" /\ Goto(c, n)
           \/ Goto(c, Idle)
    BY <1>10 DEF LogPulled
  <2>5. r.op # "remove_task"
    BY <1>0, <2>1 DEF RequestOK
  <2> HIDE DEF n, r
  <2> QED
    BY <2>2, <2>3, <2>4, <2>5, IdleOK, LocalStep
<1>11. CASE CleanupTask(c)
  <2>1. r.pc = "cleanup" /\ r.task \in Tasks
    BY <1>0, <1>11 DEF CleanupTask, RequestOK
  <2>2. At(r, "erase") \in Requests /\ RequestOK(At(r, "erase"))
    BY <1>0, <2>1, AtOK DEF RequestOK, Steps
  <2>3. r.op = "reset" => At(r, "change") \in Requests /\ RequestOK(At(r, "change"))
    BY <1>0, <2>1, AtOK DEF RequestOK, Steps
  <2>4. /\ UNCHANGED <<docs, queues>>
        /\ \/ Goto(c, At(r, "erase"))
           \/ r.op = "trash" /\ Goto(c, At(r, "to_trash"))
           \/ r.op = "reset" /\ Goto(c, At(r, "change"))
           \/ Goto(c, Idle)
    BY <1>11 DEF CleanupTask
  <2>5. r.op = "trash" => At(r, "to_trash") \in Requests /\ RequestOK(At(r, "to_trash"))
    BY <1>0, <2>1, AtOK DEF RequestOK, Steps
  <2> HIDE DEF r
  <2> QED
    BY <2>2, <2>3, <2>4, <2>5, IdleOK, LocalStep
<1>23. CASE SavePublishing(c) \/ RestoreStatus(c) \/ SaveForTrash(c)
  <2>1. r.pc \in {"set_publishing", "restore", "to_trash"} /\ r.task \in Tasks
    BY <1>0, <1>23 DEF SavePublishing, RestoreStatus, SaveForTrash, RequestOK
  <2>2. r.pc \in {"set_publishing", "restore"} => r.es \in Statuses
    BY <1>0 DEF RequestOK
  <2>3. r.pc = "set_publishing" =>
          /\ At(r, "change") \in Requests /\ RequestOK(At(r, "change"))
          /\ At(r, "restore") \in Requests /\ RequestOK(At(r, "restore"))
    BY <1>0, <2>1, AtOK DEF RequestOK, Steps
  <2>4. r.pc = "to_trash" => At(r, "erase") \in Requests /\ RequestOK(At(r, "erase"))
    BY <1>0, <2>1, AtOK DEF RequestOK, Steps
  <2>5. status' \in [Tasks -> Statuses \cup {Absent}]
    <3>1. \E s \in Statuses \cup {Absent} : Save(r.task, s)
      BY <1>23, <2>1, <2>2, TaskOK, StatusNames DEF SavePublishing, RestoreStatus, SaveForTrash
    <3> QED
      BY <3>1 DEF Save, IInv, TypeOK
  <2>6. /\ UNCHANGED <<enqueue_status, exec_queue, archived, queues>>
        /\ \/ r.pc = "set_publishing" /\ (Goto(c, At(r, "change")) \/ Goto(c, At(r, "restore")))
           \/ r.pc = "to_trash" /\ Goto(c, At(r, "erase"))
           \/ Goto(c, Idle)
    BY <1>23 DEF SavePublishing, RestoreStatus, SaveForTrash
  <2> HIDE DEF r
  <2> QED
    BY <2>3, <2>4, <2>5, <2>6, IdleOK, TaskStep DEF IInv, TypeOK
<1>12. CASE EraseTask(c)
  BY <1>12, IdleOK, TaskStep DEF EraseTask, IInv, TypeOK
<1>13. CASE TagArchived(c)
  <2>1. r.task \in Tasks
    BY <1>0, <1>13 DEF TagArchived, RequestOK
  <2> QED
    BY <1>13, <2>1, IdleOK, TaskStep DEF TagArchived, IInv, TypeOK
<1>14. CASE LogPopped(c)
  <2>1. At(r, "recheck") \in Requests /\ RequestOK(At(r, "recheck"))
    BY <1>0, <1>14, AtOK DEF LogPopped, RequestOK, Steps
  <2> QED
    BY <1>14, <2>1, IdleOK, LocalStep DEF LogPopped
<1>15. CASE RecheckStatus(c)
  <2>1. r.task \in Tasks
    BY <1>0, <1>15 DEF RecheckStatus, RequestOK
  <2>2. At(r, "requeue") \in Requests /\ RequestOK(At(r, "requeue"))
    BY <1>0, <1>15, AtOK DEF RecheckStatus, RequestOK, Steps
  <2>3. Handed(r) \in Requests /\ RequestOK(Handed(r))
    BY <1>0, <2>1, HandedOK
  <2> QED
    BY <1>15, <2>2, <2>3, LocalStep DEF RecheckStatus
<1>16. CASE RequeueStopped(c)
  <2>1. r.task \in Tasks
    BY <1>0, <1>16 DEF RequeueStopped, RequestOK
  <2>2. Handed(r) \in Requests /\ RequestOK(Handed(r))
    BY <1>0, <2>1, HandedOK
  <2>3. status' \in [Tasks -> Statuses \cup {Absent}]
    BY <1>16, StatusNames DEF RequeueStopped, IInv, TypeOK
  <2> QED
    BY <1>16, <2>2, <2>3, TaskStep DEF RequeueStopped, IInv, TypeOK
<1>17. CASE StartTask(c)
  <2> DEFINE n == [r EXCEPT !.pc = "change", !.st = status[r.task], !.tgt = "in_progress"]
  <2>1. r.pc = "start" /\ r.task \in Tasks
    BY <1>0, <1>17 DEF StartTask, RequestOK
  <2>2. Exists(r.task) => n \in Requests /\ RequestOK(n)
    <3> SUFFICES ASSUME Exists(r.task) PROVE n \in Requests /\ RequestOK(n)
      OBVIOUS
    <3>1. status[r.task] \in Statuses
      BY <2>1, TaskOK
    <3>2. n \in Requests
      <4>1. "change" \in Steps
        BY DEF Steps
      <4> QED
        BY <1>0, <3>1, <4>1, StatusNames DEF Requests
    <3>3. /\ n.pc = "change" /\ n.op = r.op /\ n.task = r.task /\ n.queue = r.queue
          /\ n.es = r.es /\ n.source = r.source /\ n.st = status[r.task] /\ n.tgt = "in_progress"
      BY <1>0 DEF Requests
    <3> HIDE DEF n
    <3> QED
      BY <1>0, <2>1, <3>1, <3>2, <3>3, StatusNames, NoneIsNothing DEF RequestOK
  <2>3. /\ UNCHANGED <<docs, queues>>
        /\ (Exists(r.task) /\ Goto(c, n)) \/ Goto(c, Idle)
    BY <1>17 DEF StartTask
  <2> HIDE DEF n
  <2> QED
    BY <2>2, <2>3, IdleOK, LocalStep
<1>18. CASE InspectTask(c)
  <2>1. r.pc = "inspect" /\ r.queue \in Queues /\ r.left \subseteq Tasks
        /\ r.op \in {"remove_task", "clear_queue", "delete_queue"}
    BY <1>0, <1>18 DEF InspectTask, RequestOK, Requests
  <2>2. ASSUME NEW t \in r.left, Exists(t)
        PROVE  LET n == [r EXCEPT !.pc = "release", !.task = t, !.st = status[t],
                           !.tgt = PriorStatus(t)]
               IN n \in Requests /\ RequestOK(n)
    <3> DEFINE n == [r EXCEPT !.pc = "release", !.task = t, !.st = status[t],
                       !.tgt = PriorStatus(t)]
    <3>1. t \in Tasks /\ status[t] \in Statuses /\ PriorStatus(t) \in Statuses
      BY <2>1, <2>2, TaskOK
    <3>2. n \in Requests
      <4>1. "release" \in Steps
        BY DEF Steps
      <4> QED
        BY <1>0, <3>1, <4>1 DEF Requests
    <3>3. /\ n.pc = "release" /\ n.op = r.op /\ n.task = t /\ n.queue = r.queue
          /\ n.es = r.es /\ n.source = r.source /\ n.st = status[t] /\ n.tgt = PriorStatus(t)
      BY <1>0 DEF Requests
    <3> HIDE DEF n
    <3>4. RequestOK(n)
      BY <1>0, <2>1, <3>1, <3>3, NoneIsNothing DEF RequestOK
    <3> QED
      BY <3>2, <3>4 DEF n
  <2>3. ASSUME NEW t \in r.left
        PROVE  LET n == ReleasedOne([r EXCEPT !.task = t])
               IN n \in Requests /\ RequestOK(n)
    <3> DEFINE m == [r EXCEPT !.task = t]
    <3>1. m \in Requests /\ m.queue = r.queue /\ m.op = r.op
      BY <1>0, <2>1, <2>3 DEF Requests
    <3> HIDE DEF m
    <3>2. ReleasedOne(m) \in Requests /\ RequestOK(ReleasedOne(m))
      BY <2>1, <3>1, ReleasedOneOK
    <3> QED
      BY <3>2 DEF m
  <2> HIDE DEF r
  <2>4. /\ UNCHANGED <<docs, queues>>
        /\ \E t \in r.left :
             \/ /\ Exists(t)
                /\ Goto(c, [r EXCEPT !.pc = "release", !.task = t, !.st = status[t],
                              !.tgt = PriorStatus(t)])
             \/ Goto(c, ReleasedOne([r EXCEPT !.task = t]))
    BY <1>18 DEF InspectTask, r
  <2> QED
    BY <2>2, <2>3, <2>4, LocalStep
<1>19. CASE ReleaseTask(c)
  <2>1. /\ r.task \in Tasks /\ r.queue \in Queues /\ r.tgt \in Statuses
        /\ r.op \in {"remove_task", "clear_queue", "delete_queue"}
    BY <1>0, <1>19 DEF ReleaseTask, RequestOK
  <2>2. ReleasedOne(r) \in Requests /\ RequestOK(ReleasedOne(r))
    BY <1>0, <2>1, ReleasedOneOK
  <2>3. /\ status' \in [Tasks -> Statuses \cup {Absent}]
        /\ enqueue_status' \in [Tasks -> Statuses \cup {None}]
        /\ exec_queue' \in [Tasks -> Queues \cup {None}]
        /\ archived' \subseteq Tasks
        /\ UNCHANGED queues
        /\ Goto(c, ReleasedOne(r))
    BY <1>19, <2>1 DEF ReleaseTask, IInv, TypeOK
  <2> HIDE DEF r
  <2> QED
    BY <2>2, <2>3, TaskStep
<1>20. CASE EmptyQueue(c)
  <2>1. r.queue \in Queues
    BY <1>0, <1>20 DEF EmptyQueue, RequestOK
  <2>2. <<>> \in Seq(Entries) /\ Distinct(<<>>)
    BY EmptySeq DEF Distinct
  <2> QED
    BY <1>20, <2>1, <2>2, IdleOK, QueueStep DEF EmptyQueue
<1>21. CASE DropQueue(c)
  <2>1. r.queue \in Queues
    BY <1>0, <1>21 DEF DropQueue, RequestOK
  <2>2. /\ queue_state' \in [Queues -> {"unborn", "live", "deleted"}]
        /\ entries' \in [Queues -> Seq(Entries)]
    BY <1>21, <2>1, EmptySeq DEF DropQueue, IInv, TypeOK
  <2>3. \A q \in Queues : Distinct(entries'[q])
    BY <1>21, <2>1, QueueOK DEF DropQueue, IInv, TypeOK, Distinct
  <2>4. call' \in [Calls -> Requests] /\ CallsOK'
    BY <1>21, IdleOK, GotoOK DEF DropQueue, IInv
  <2> QED
    BY <1>21, <2>2, <2>3, <2>4
    DEF DropQueue, IInv, TypeOK, NoDuplicateEntries, Distinct, docs
<1>22. CASE RepositionEntry(c)
  <2> DEFINE s == IF Live(r.queue) /\ InQueue(r.task, r.queue)
                  THEN Repositioned(entries[r.queue], r.task, r.by) ELSE entries[r.queue]
  <2>1. r.queue \in Queues /\ r.by \in Int
    BY <1>0, <1>22 DEF RepositionEntry, RequestOK, Requests
  <2>2. s \in Seq(Entries) /\ Distinct(s)
    BY <2>1, QueueOK, RepositionEntryOf DEF InQueue
  <2>3. entries' = [entries EXCEPT ![r.queue] = s]
    BY <1>22, <2>1 DEF RepositionEntry, IInv, TypeOK
  <2>4. Goto(c, Idle) /\ UNCHANGED <<docs, queue_state>>
    BY <1>22 DEF RepositionEntry
  <2> HIDE DEF s, r
  <2> QED
    BY <2>1, <2>2, <2>3, <2>4, IdleOK, QueueStep
<1> QED
  BY <1>1, <1>2, <1>3, <1>4, <1>5, <1>6, <1>7, <1>8, <1>9, <1>10, <1>11, <1>12, <1>13,
     <1>14, <1>15, <1>16, <1>17, <1>18, <1>19, <1>20, <1>21, <1>22, <1>23 DEF Proceed

LEMMA InitOK == Init => IInv
<1> SUFFICES ASSUME Init PROVE IInv
  OBVIOUS
<1>1. TypeOK
  BY IdleOK, StatusNames, EmptySeq DEF Init, TypeOK
<1>2. CallsOK
  BY IdleOK DEF Init, CallsOK
<1>3. NoDuplicateEntries
  BY DEF Init, NoDuplicateEntries
<1> QED
  BY <1>1, <1>2, <1>3 DEF IInv

LEMMA StepOK == IInv /\ [Next]_vars => IInv'
<1> SUFFICES ASSUME IInv, [Next]_vars PROVE IInv'
  OBVIOUS
<1>1. ASSUME NEW q \in Queues, CreateQueue(q)
      PROVE  IInv'
  BY <1>1 DEF CreateQueue, IInv, TypeOK, CallsOK, NoDuplicateEntries, docs
<1>2. ASSUME NEW c \in Calls, Begin(c)
      PROVE  IInv'
  BY <1>2, BeginOK
<1>3. ASSUME NEW c \in Calls, Proceed(c)
      PROVE  IInv'
  BY <1>3, ProceedOK
<1>4. ASSUME NEW c \in Calls, Crash(c)
      PROVE  IInv'
  BY <1>4, IdleOK, LocalStep DEF Crash
<1>5. CASE UNCHANGED vars
  BY <1>5 DEF vars, docs, queues, IInv, TypeOK, CallsOK, NoDuplicateEntries
<1> QED
  BY <1>1, <1>2, <1>3, <1>4, <1>5 DEF Next

LEMMA Invariant == Spec => []IInv
  BY InitOK, StepOK, PTL DEF Spec

(***************************************************************************)
(* A thread only ever works on a request of a kind it serves: whatever a   *)
(* request does next, it stays the request it is until its thread is idle. *)
(***************************************************************************)
Served == \A c \in Calls : call[c].op \in Serves[c] \cup {"none"}

Continues(r, n) == n.op \in {r.op, "none"}

LEMMA AtContinues ==
  ASSUME NEW r \in Requests
  PROVE  /\ Continues(r, Idle)
         /\ \A pc : Continues(r, At(r, pc))
         /\ \A qs : Continues(r, Sweeping(r, qs))
         /\ Continues(r, ChangeDone(r)) /\ Continues(r, ChangeFailed(r))
         /\ Continues(r, ChangeIfActive(r)) /\ Continues(r, Handed(r))
<1>1. /\ Continues(r, Idle)
      /\ \A pc : Continues(r, At(r, pc))
      /\ \A qs : Continues(r, Sweeping(r, qs))
  BY IdleFields DEF Continues, At, Sweeping, Requests
<1>2. Continues(r, ChangeDone(r)) /\ Continues(r, ChangeFailed(r))
  BY <1>1 DEF ChangeDone, ChangeFailed
<1>3. Continues(r, ChangeIfActive(r)) /\ Continues(r, Handed(r))
  BY <1>1, <1>2 DEF ChangeIfActive, Handed
<1> QED
  BY <1>1, <1>2, <1>3

LEMMA RequestContinues ==
  ASSUME NEW r \in Requests
  PROVE  /\ Continues(r, AfterDequeue(r)) /\ Continues(r, SweepDone(r))
         /\ Continues(r, AddFailed(r)) /\ Continues(r, Added(r))
         /\ Continues(r, ReleasedOne(r))
         /\ \A t : Continues(r, ReleasedOne([r EXCEPT !.task = t]))
<1>1. Continues(r, AfterDequeue(r)) /\ Continues(r, SweepDone(r)) /\ Continues(r, Added(r))
  BY AtContinues DEF AfterDequeue, SweepDone, Added
<1>2. Continues(r, [r EXCEPT !.pc = "check", !.queue = r.source, !.source = None])
  BY DEF Requests, Continues
<1>3. Continues(r, AddFailed(r))
  BY <1>2, AtContinues DEF AddFailed
<1>4. ASSUME NEW m, m = r \/ \E t : m = [r EXCEPT !.task = t]
      PROVE  Continues(r, ReleasedOne(m))
  <2> DEFINE next == [m EXCEPT !.left = m.left \ {m.task}, !.task = None, !.st = None,
                        !.tgt = None]
  <2>1. \A pc : At(next, pc).op = r.op
    BY <1>4 DEF Requests, At
  <2> HIDE DEF next
  <2>2. \/ ReleasedOne(m) = Idle
        \/ \E pc : ReleasedOne(m) = At(next, pc)
    BY DEF ReleasedOne, next
  <2> QED
    BY <2>1, <2>2, AtContinues DEF Continues
<1>5. \A t : Continues(r, ReleasedOne([r EXCEPT !.task = t]))
  BY <1>4
<1> QED
  BY <1>1, <1>3, <1>4, <1>5

(* A step of thread c after which it handles one of the requests ops.      *)
Handles(c, ops) ==
  /\ call'[c].op \in ops
  /\ \A d \in Calls \ {c} : call'[d] = call[d]

LEMMA GotoHandles ==
  ASSUME IInv, NEW c \in Calls, NEW r, Goto(c, r), NEW ops, r.op \in ops
  PROVE  Handles(c, ops)
<1>1. \A d \in Calls : call'[d] = IF d = c THEN r ELSE call[d]
  BY DEF Goto, IInv, TypeOK
<1> QED
  BY <1>1 DEF Handles

LEMMA BeginDequeueServed ==
  ASSUME NEW c \in Calls, NEW op \in Serves[c] \cap RequestKinds,
         NEW t \in Tasks, NEW tgt \in Statuses, NEW opt \in BOOLEAN,
         IInv, Exists(t), BeginDequeue(c, Dequeuing(op, t, tgt, opt))
  PROVE  Handles(c, Serves[c] \cup {"none"})
<1> DEFINE r == Dequeuing(op, t, tgt, opt)
<1>1. status[t] \in Statuses /\ exec_queue[t] \in Queues \cup {None}
  BY TaskOK
<1>2. r \in Requests /\ r.op = op
  BY <1>1, IdleOK DEF Requests, Dequeuing
<1>3. Goto(c, IF IsEnqueued(r.task) THEN At(r, "find") ELSE AfterDequeue(r))
  BY DEF BeginDequeue
<1> HIDE DEF r
<1>4. Continues(r, At(r, "find")) /\ Continues(r, AfterDequeue(r))
  BY <1>2, AtContinues, RequestContinues
<1> QED
  BY <1>2, <1>3, <1>4, GotoHandles DEF Continues

LEMMA BeginServed ==
  ASSUME IInv, NEW c \in Calls, Begin(c)
  PROVE  call' = call \/ Handles(c, Serves[c] \cup {"none"})
<1> DEFINE P == call' = call \/ Handles(c, Serves[c] \cup {"none"})
<1>1. \A r : Goto(c, r) /\ r.op \in Serves[c] => Handles(c, Serves[c] \cup {"none"})
  BY GotoHandles
<1>2. ASSUME NEW t \in Tasks, NEW q \in Queues, NEW force \in Forces, NEW upd \in Options,
             Enqueue(c, t, q, force, upd)
      PROVE  P
  BY <1>1, <1>2, IdleOK DEF Enqueue, Accepts, Requests
<1>3. ASSUME NEW t \in Tasks, NEW q \in Queues, NEW p \in Queues, NEW upd \in Options,
             AddTask(c, t, q, upd) \/ RemoveTask(c, t, q, upd) \/ MoveTask(c, t, q, p, upd)
      PROVE  P
  BY <1>1, <1>3, IdleOK DEF AddTask, RemoveTask, MoveTask, Accepts, Requests
<1>4. ASSUME NEW t \in Tasks, NEW q \in Queues, NEW by, Reposition(c, t, q, by)
      PROVE  P
  BY <1>1, <1>4, IdleOK DEF Reposition, Accepts, Requests
<1>5. ASSUME NEW t \in Tasks, NEW n \in NewStatuses \cup {None}, NEW all \in Options,
             Dequeue(c, t, n, all)
      PROVE  P
  <2>1. (IF n # None THEN n ELSE PriorStatus(t)) \in Statuses
    BY TaskOK, ConstantsAssumption
  <2> QED
    BY <1>5, <2>1, BeginDequeueServed, ConstantsAssumption DEF Dequeue, Accepts, RequestKinds
<1>6. ASSUME NEW t \in Tasks, DequeueDeleted(c, t)
      PROVE  P
  BY <1>1, <1>6, IdleOK DEF DequeueDeleted, Accepts, Sweeping, Requests
<1>7. ASSUME NEW t \in Tasks, NEW force \in Forces, NEW op \in {"stop", "reset", "delete", "trash"},
             \/ op = "stop" /\ Stop(c, t, force)
             \/ op = "reset" /\ Reset(c, t, force)
             \/ Delete(c, t, force, op)
      PROVE  P
  <2>1. force \in BOOLEAN /\ PriorStatus(t) \in Statuses
    BY TaskOK, ConstantsAssumption
  <2>2. op \in RequestKinds
    BY DEF RequestKinds
  <2>3. CASE op = "stop" /\ Stop(c, t, force)
    BY <2>1, <2>2, <2>3, BeginDequeueServed, StatusNames DEF Stop, Accepts
  <2>4. CASE op = "reset" /\ Reset(c, t, force)
    BY <2>1, <2>2, <2>4, BeginDequeueServed, StatusNames DEF Reset, Accepts
  <2>5. CASE Delete(c, t, force, op)
    BY <2>1, <2>2, <2>5, BeginDequeueServed DEF Delete, Accepts
  <2> QED
    BY <1>7, <2>3, <2>4, <2>5
<1>8. ASSUME NEW t \in Tasks, NEW s, NEW force \in Forces,
             Report(c, t, s, force) \/ Publish(c, t, force)
      PROVE  P
  BY <1>1, <1>8, IdleOK DEF Report, Publish, Accepts, Requests
<1>9. ASSUME NEW t \in Tasks, Archive(c, t)
      PROVE  P
  <2>1. (IF status[t] = "in_progress" THEN "stopped" ELSE PriorStatus(t)) \in Statuses
    BY TaskOK, StatusNames
  <2> QED
    BY <1>9, <2>1, BeginDequeueServed DEF Archive, Accepts, RequestKinds
<1>10. ASSUME NEW t \in Tasks, Unarchive(c, t)
      PROVE  P
  BY <1>10 DEF Unarchive
<1>11. ASSUME NEW q \in Queues, NEW op, GetNextTask(c, q, op)
      PROVE  P
  BY <1>1, <1>11, IdleOK DEF GetNextTask, Accepts, Requests
<1>12. ASSUME NEW q \in Queues, NEW force, ClearQueue(c, q) \/ DeleteQueue(c, q, force)
      PROVE  P
  BY <1>1, <1>12, IdleOK DEF ClearQueue, DeleteQueue, Accepts, Requests
<1> HIDE DEF P
<1>13. P
  <2>1. CASE \E t \in Tasks, q \in Queues :
               \/ \E force \in Forces, upd \in Options : Enqueue(c, t, q, force, upd)
               \/ \E upd \in Options, p \in Queues :
                    AddTask(c, t, q, upd) \/ RemoveTask(c, t, q, upd) \/ MoveTask(c, t, q, p, upd)
               \/ \E m \in Moves : Reposition(c, t, q, m) \/ Reposition(c, t, q, -m)
    BY <1>2, <1>3, <1>4, <2>1
  <2>2. CASE \E t \in Tasks :
               \/ \E n \in NewStatuses \cup {None}, all \in Options : Dequeue(c, t, n, all)
               \/ DequeueDeleted(c, t) \/ Archive(c, t) \/ Unarchive(c, t)
    BY <1>5, <1>6, <1>9, <1>10, <2>2
  <2>3. CASE \E t \in Tasks, force \in Forces :
               \/ Stop(c, t, force) \/ Reset(c, t, force) \/ Publish(c, t, force)
               \/ \E op \in {"delete", "trash"} : Delete(c, t, force, op)
               \/ \E s \in Reports : Report(c, t, s, force)
    BY <1>7, <1>8, <2>3
  <2>4. CASE \E q \in Queues :
               \/ \E op \in {"get_next_task", "agent"} : GetNextTask(c, q, op)
               \/ ClearQueue(c, q)
               \/ \E force \in Forces : DeleteQueue(c, q, force)
    BY <1>11, <1>12, <2>4
  <2> QED
    BY <2>1, <2>2, <2>3, <2>4 DEF Begin
<1> QED
  BY <1>13 DEF P

LEMMA ProceedServed ==
  ASSUME IInv, NEW c \in Calls, Proceed(c)
  PROVE  Handles(c, {call[c].op, "none"})
<1> DEFINE r == call[c]
           P == Handles(c, {r.op, "none"})
<1>1. \A n : Goto(c, n) /\ Continues(r, n) => P
  BY GotoHandles DEF Continues
<1>2. r \in Requests
  BY CallOK
<1>3. /\ \A pc : Continues(r, At(r, pc))
      /\ Continues(r, Idle)
      /\ \A qs : Continues(r, Sweeping(r, qs))
      /\ Continues(r, ChangeDone(r)) /\ Continues(r, ChangeFailed(r))
      /\ Continues(r, ChangeIfActive(r)) /\ Continues(r, Handed(r))
  BY <1>2, AtContinues
<1>4. /\ Continues(r, AfterDequeue(r)) /\ Continues(r, SweepDone(r))
      /\ Continues(r, AddFailed(r)) /\ Continues(r, Added(r))
      /\ Continues(r, ReleasedOne(r))
      /\ \A t : Continues(r, ReleasedOne([r EXCEPT !.task = t]))
  BY <1>2, RequestContinues
<1> HIDE DEF P
<1>5. Change(c) \/ CheckQueue(c) \/ PushEntry(c) \/ LogPushed(c) => P
  BY <1>1, <1>3, <1>4 DEF Change, CheckQueue, PushEntry, LogPushed
<1>6. UndoEnqueue(c) \/ SetExecutionQueue(c) => P
  BY <1>1, <1>3, <1>4 DEF UndoEnqueue, SetExecutionQueue
<1>7. Sweep(c) => P
  <2>1. \A qs : Continues(r, [r EXCEPT !.todo = qs])
    BY <1>2 DEF Continues, Requests
  <2> QED
    BY <1>1, <1>4, <2>1 DEF Sweep
<1>8. FindEntry(c) => P
  <2>1. \A e : Continues(r, [r EXCEPT !.pc = "pull", !.ent = e])
    BY <1>2 DEF Continues, Requests
  <2> QED
    BY <1>1, <1>3, <1>4, <2>1 DEF FindEntry
<1>9. PullEntry(c) => P
  <2>1. /\ \A pc : Continues(r, [r EXCEPT !.pc = pc, !.ent = None])
        /\ \A s : Continues(r, [r EXCEPT !.pc = "inspect", !.left = s, !.ent = None])
    BY <1>2 DEF Continues, Requests
  <2> QED
    BY <1>1, <1>3, <2>1 DEF PullEntry
<1>10. LogPulled(c) => P
  <2>1. Continues(r, [r EXCEPT !.pc = "check", !.queue = r.source, !.source = r.queue])
    BY <1>2 DEF Continues, Requests
  <2> QED
    BY <1>1, <1>3, <1>4, <2>1 DEF LogPulled
<1>11. CleanupTask(c) \/ SavePublishing(c) \/ RestoreStatus(c) \/ SaveForTrash(c) => P
  BY <1>1, <1>3 DEF CleanupTask, SavePublishing, RestoreStatus, SaveForTrash
<1>12. EraseTask(c) \/ TagArchived(c) \/ LogPopped(c) \/ RecheckStatus(c) \/ RequeueStopped(c) => P
  BY <1>1, <1>3 DEF EraseTask, TagArchived, LogPopped, RecheckStatus, RequeueStopped
<1>13. StartTask(c) => P
  <2>1. \A s : Continues(r, [r EXCEPT !.pc = "change", !.st = s, !.tgt = "in_progress"])
    BY <1>2 DEF Continues, Requests
  <2> QED
    BY <1>1, <1>3, <2>1 DEF StartTask
<1>14. InspectTask(c) => P
  <2>1. \A t, s, n : Continues(r, [r EXCEPT !.pc = "release", !.task = t, !.st = s, !.tgt = n])
    BY <1>2 DEF Continues, Requests
  <2> QED
    BY <1>1, <1>4, <2>1 DEF InspectTask
<1>15. ReleaseTask(c) => P
  BY <1>1, <1>4 DEF ReleaseTask
<1>16. EmptyQueue(c) \/ DropQueue(c) \/ RepositionEntry(c) => P
  BY <1>1, <1>3 DEF EmptyQueue, DropQueue, RepositionEntry
<1>17. P
  BY <1>5, <1>6, <1>7, <1>8, <1>9, <1>10, <1>11, <1>12, <1>13, <1>14, <1>15, <1>16
  DEF Proceed
<1> QED
  BY <1>17 DEF P

LEMMA ServedInvariant == Spec => []Served
<1>1. Init => Served
  BY IdleFields DEF Init, Served
<1>2. IInv /\ Served /\ [Next]_vars => Served'
  <2> SUFFICES ASSUME IInv, Served, [Next]_vars PROVE Served'
    OBVIOUS
  <2>1. ASSUME NEW c \in Calls, Handles(c, Serves[c] \cup {"none"})
        PROVE  Served'
    BY <2>1 DEF Handles, Served
  <2>2. call' = call => Served'
    BY DEF Served
  <2>3. ASSUME NEW c \in Calls, Begin(c)
        PROVE  Served'
    BY <2>1, <2>2, <2>3, BeginServed
  <2>4. ASSUME NEW c \in Calls, Proceed(c)
        PROVE  Served'
    <3>1. Handles(c, {call[c].op, "none"}) /\ call[c].op \in Serves[c] \cup {"none"}
      BY <2>4, ProceedServed DEF Served
    <3>2. Handles(c, Serves[c] \cup {"none"})
      BY <3>1 DEF Handles
    <3> QED
      BY <2>1, <3>2
  <2>5. ASSUME NEW c \in Calls, Crash(c)
        PROVE  Served'
    <3>1. Handles(c, Serves[c] \cup {"none"})
      BY <2>5, GotoHandles, IdleFields DEF Crash
    <3> QED
      BY <2>1, <3>1
  <2>6. (\E q \in Queues : CreateQueue(q)) \/ UNCHANGED vars => call' = call
    BY DEF CreateQueue, vars
  <2> QED
    BY <2>2, <2>3, <2>4, <2>5, <2>6 DEF Next
<1> QED
  BY <1>1, <1>2, Invariant, PTL DEF Spec

(* Every variable keeps its type: no request ever writes a status, or      *)
(* waits to work on a task or queue, that it has not read.                 *)
THEOREM TypeCorrect == Spec => []TypeOK
<1>1. IInv => TypeOK
  BY DEF IInv
<1> QED
  BY <1>1, Invariant, PTL

(* However requests overlap, no queue ever holds a task twice.             *)
THEOREM EntriesAreDistinct == Spec => []NoDuplicateEntries
<1>1. IInv => NoDuplicateEntries
  BY DEF IInv
<1> QED
  BY <1>1, Invariant, PTL
==============================================================================
