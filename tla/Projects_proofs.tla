---------------------------- MODULE Projects_proofs ----------------------------
(***************************************************************************)
(* Proofs about the tree of projects, for any number of projects, threads  *)
(* and names.  The types are kept whatever overlaps.  The tree is kept by  *)
(* creates, moves, renames and deletes, killed anywhere, when those that   *)
(* write to a subtree run alone; creates race with each other.             *)
(***************************************************************************)
EXTENDS Projects, SequenceTheorems, TLAPS

(***************************************************************************)
(* Names and paths.  What is said of sequences is said of their elements.  *)
(***************************************************************************)
Begins(s, t) == Len(s) <= Len(t) /\ \A j \in 1..Len(s) : s[j] = t[j]

LEMMA ElementsOf ==
  ASSUME NEW S, NEW s \in Seq(S)
  PROVE  Len(s) \in Nat /\ DOMAIN s = 1..Len(s) /\ \A i \in 1..Len(s) : s[i] \in S
  BY LenProperties, ElementOfSeq

LEMMA SameElements ==
  ASSUME NEW S, NEW s \in Seq(S), NEW t \in Seq(S), Len(s) = Len(t), Begins(s, t)
  PROVE  s = t
<1>1. \A i \in 1..Len(s) : s[i] = t[i]
  BY DEF Begins
<1> QED
  BY <1>1, SeqEqual

LEMMA AppendElements ==
  ASSUME NEW S, NEW s \in Seq(S), NEW e \in S
  PROVE  /\ Append(s, e) \in Seq(S)
         /\ Len(Append(s, e)) = Len(s) + 1
         /\ Append(s, e) # <<>>
         /\ Begins(s, Append(s, e))
         /\ Append(s, e)[Len(s) + 1] = e
<1>1. Len(s) \in Nat
  BY ElementsOf
<1>2. /\ Append(s, e) \in Seq(S)
      /\ Len(Append(s, e)) = Len(s) + 1
      /\ \A i \in 1..Len(s) : Append(s, e)[i] = s[i]
      /\ Append(s, e)[Len(s) + 1] = e
  BY AppendProperties
<1>3. Append(s, e) # <<>>
  BY <1>1, <1>2, EmptySeq
<1> QED
  BY <1>1, <1>2, <1>3 DEF Begins

LEMMA FrontElements ==
  ASSUME NEW S, NEW s \in Seq(S), s # <<>>
  PROVE  /\ Front(s) \in Seq(S)
         /\ Len(s) - 1 \in Nat /\ Len(Front(s)) = Len(s) - 1
         /\ Begins(Front(s), s)
         /\ Last(s) \in S /\ Last(s) = s[Len(s)]
<1>1. Len(s) \in Nat /\ Len(s) # 0 /\ \A i \in 1..Len(s) : s[i] \in S
  BY ElementsOf, EmptySeq
<1>2. \A i \in 1..(Len(s) - 1) : s[i] \in S
  BY <1>1
<1>3. /\ SubSeq(s, 1, Len(s) - 1) \in Seq(S)
      /\ Len(SubSeq(s, 1, Len(s) - 1)) = IF 1 <= Len(s) - 1 THEN Len(s) - 1 - 1 + 1 ELSE 0
      /\ \A i \in 1..(Len(s) - 1 - 1 + 1) : SubSeq(s, 1, Len(s) - 1)[i] = s[1 + i - 1]
  BY <1>1, <1>2, SubSeqProperties, Z3
<1> DEFINE f == SubSeq(s, 1, Len(s) - 1)
<1>4. Front(s) = f
  BY DEF Front
<1>5. f \in Seq(S) /\ Len(f) = Len(s) - 1 /\ \A i \in 1..Len(f) : f[i] = s[i]
  <2>1. \A i \in 1..(Len(s) - 1 - 1 + 1) : f[i] = s[1 + i - 1]
    BY <1>3
  <2>2. f \in Seq(S) /\ Len(f) = IF 1 <= Len(s) - 1 THEN Len(s) - 1 - 1 + 1 ELSE 0
    BY <1>3
  <2> HIDE DEF f
  <2>3. f \in Seq(S) /\ Len(f) = Len(s) - 1
    <3>1. Len(s) \in Nat /\ Len(s) # 0
      BY <1>1
    <3> QED
      BY <2>2, <3>1
  <2>4. ASSUME NEW i \in 1..Len(f)
        PROVE  f[i] = s[i]
    <3>1. i \in 1..(Len(s) - 1 - 1 + 1) /\ 1 + i - 1 = i
      <4>1. Len(s) \in Nat /\ Len(f) = Len(s) - 1
        BY <1>1, <2>3
      <4> QED
        BY <4>1
    <3> QED
      BY <2>1, <3>1
  <2> QED
    BY <2>3, <2>4
<1> HIDE DEF f
<1>6. Last(s) = s[Len(s)] /\ Last(s) \in S
  BY <1>1 DEF Last
<1>7. Len(s) - 1 \in Nat /\ Len(s) - 1 <= Len(s)
  BY <1>1
<1> QED
  BY <1>4, <1>5, <1>6, <1>7 DEF Begins

(* What a name or path becomes whose first k parts are replaced.           *)
Grafted(g, t, s, k) ==
  /\ Len(g) = Len(t) + Len(s) - k
  /\ \A j \in 1..Len(g) : g[j] = IF j <= Len(t) THEN t[j] ELSE s[j - Len(t) + k]

LEMMA GraftElements ==
  ASSUME NEW S, NEW s \in Seq(S), NEW t \in Seq(S), NEW k \in Nat, NEW g,
         g = t \o SubSeq(s, k + 1, Len(s))
  PROVE  /\ g \in Seq(S)
         /\ Begins(t, g)
         /\ k <= Len(s) => Grafted(g, t, s, k)
<1> DEFINE b == SubSeq(s, k + 1, Len(s))
<1>1. Len(s) \in Nat /\ Len(t) \in Nat /\ \A i \in 1..Len(s) : s[i] \in S
  BY ElementsOf
<1>2. \A i \in (k + 1)..Len(s) : s[i] \in S
  BY <1>1
<1>3. /\ b \in Seq(S)
      /\ Len(b) = IF k + 1 <= Len(s) THEN Len(s) - (k + 1) + 1 ELSE 0
      /\ \A i \in 1..(Len(s) - (k + 1) + 1) : b[i] = s[(k + 1) + i - 1]
  BY <1>1, <1>2, SubSeqProperties, Z3
<1> HIDE DEF b
<1>4. Len(b) \in Nat /\ (k <= Len(s) => Len(b) = Len(s) - k)
      /\ \A i \in 1..Len(b) : b[i] = s[k + i]
  BY <1>1, <1>3
<1>5. /\ t \o b \in Seq(S)
      /\ Len(t \o b) = Len(t) + Len(b)
      /\ \A j \in 1..(Len(t) + Len(b)) :
           (t \o b)[j] = IF j <= Len(t) THEN t[j] ELSE b[j - Len(t)]
  BY <1>3, ConcatProperties, Zenon
<1>6. g = t \o b
  BY DEF b
<1>7. ASSUME k <= Len(s), NEW j \in 1..Len(g)
      PROVE  g[j] = IF j <= Len(t) THEN t[j] ELSE s[j - Len(t) + k]
  <2>1. g[j] = IF j <= Len(t) THEN t[j] ELSE b[j - Len(t)]
    BY <1>5, <1>6
  <2>2. CASE j <= Len(t)
    BY <2>1, <2>2
  <2>3. CASE ~(j <= Len(t))
    <3>1. j - Len(t) \in 1..Len(b) /\ k + (j - Len(t)) = j - Len(t) + k
      BY <1>1, <1>4, <1>5, <1>6, <2>3
    <3> QED
      BY <1>4, <2>1, <2>3, <3>1
  <2> QED
    BY <2>2, <2>3
<1>8. Begins(t, g)
  BY <1>1, <1>4, <1>5, <1>6 DEF Begins
<1>9. k <= Len(s) => Len(g) = Len(t) + Len(s) - k
  BY <1>1, <1>4, <1>5, <1>6
<1>10. k <= Len(s) => Grafted(g, t, s, k)
  BY <1>7, <1>9 DEF Grafted
<1> QED
  BY <1>5, <1>6, <1>8, <1>10

(* A prefix is extended by the part that follows it.                       *)
LEMMA PrefixExtends ==
  ASSUME NEW S, NEW s \in Seq(S), NEW k \in Nat, k < Len(s)
  PROVE  /\ s[k + 1] \in S
         /\ Append(SubSeq(s, 1, k), s[k + 1]) = SubSeq(s, 1, k + 1)
<1>1. Len(s) \in Nat /\ \A i \in 1..Len(s) : s[i] \in S
  BY LenProperties
<1>2. 1 \in 1..Len(s) /\ k + 1 \in 1..Len(s) /\ k + 1 - 1 = k
  BY <1>1
<1>3. SubSeq(s, 1, k) \in Seq(S)
  <2>1. \A i \in 1..k : s[i] \in S
    BY <1>1
  <2> QED
    BY <2>1, SubSeqProperties
<1>4. SubSeq(s, 1, k + 1) = SubSeq(s, 1, k) \o <<s[k + 1]>>
  BY <1>2, SubSeqRecursiveSecond
<1> QED
  BY <1>1, <1>2, <1>3, <1>4, AppendIsConcat

LEMMA PrefixProperties ==
  ASSUME NEW S, NEW s \in Seq(S), NEW k \in Nat, k <= Len(s)
  PROVE  /\ SubSeq(s, 1, k) \in Seq(S)
         /\ Len(SubSeq(s, 1, k)) = k
         /\ k = Len(s) => SubSeq(s, 1, k) = s
         /\ k = 0 => SubSeq(s, 1, k) = <<>>
<1>1. Len(s) \in Nat /\ \A i \in 1..Len(s) : s[i] \in S
  BY LenProperties
<1>2. \A i \in 1..k : s[i] \in S
  BY <1>1
<1>3. SubSeq(s, 1, k) \in Seq(S) /\ Len(SubSeq(s, 1, k)) = IF 1 <= k THEN k - 1 + 1 ELSE 0
  BY <1>2, SubSeqProperties
<1> QED
  BY <1>1, <1>3, SubSeqFull, SubSeqEmpty

LEMMA NamesAreSequences ==
  ASSUME NEW name \in Names
  PROVE  name \in Seq(Segments) /\ Len(name) \in Nat
<1>1. PICK n \in 1..MaxDepth + 1 : name \in [1..n -> Segments]
  BY DEF Names
<1>2. n \in Nat /\ MaxDepth \in Nat
  BY <1>1, ProjectsAssumption
<1>3. name \in Seq(Segments)
  BY <1>1, <1>2, SeqDef
<1>4. Len(name) \in Nat /\ 1..Len(name) = 1..n
  BY <1>1, <1>3, LenProperties
<1>5. Len(name) = n
  BY <1>2, <1>4
<1> QED
  BY <1>1, <1>3, <1>4, <1>5, ProjectsAssumption

(***************************************************************************)
(* Types.  Every document that is kept or read has a name of its own; what *)
(* a request has read, and what it will write, follows from where it is.   *)
(***************************************************************************)
NDocs == {d \in Documents : d.name # <<>>}
Reads == UNION {[ids -> NDocs] : ids \in SUBSET Projects}

CallRecords ==
  [pc : Steps, kind : RequestKinds \cup {None}, id : Projects \cup Entities \cup {None},
   target : Seq(Segments), depth : Nat, under : Documents, moved : Projects \cup {None},
   read : NDocs \cup {None}, new : NDocs \cup {None}, below : Reads, left : SUBSET Projects,
   todo : Reads]

CallOK(r) ==
  /\ r.pc = "idle" => r = NoCall
  /\ r.kind = None => r.pc = "idle"
  /\ r.depth <= Len(r.target)
  /\ r.pc \in {"find", "save"} => r.kind \in {"create", "attach", "move"}
  /\ r.pc = "save" => /\ Len(r.under.name) < Len(r.target)
                      /\ r.under.name = SubSeq(r.target, 1, Len(r.under.name))
  /\ r.pc = "attach" => r.kind = "attach"
  /\ r.pc = "move" => r.kind = "move"
  /\ r.pc \in {"rename", "children"} => r.kind = "rename"
  /\ r.pc \in {"merge_tasks", "merge_models", "direct", "merge"} => r.kind = "merge"
  /\ r.pc \in {"disassociate_tasks", "disassociate_models", "delete"} => r.kind = "delete"
  /\ r.pc = "descend" =>
       /\ r.kind \in {"move", "rename", "merge"} /\ r.moved # None
       /\ r.read # None /\ r.new # None /\ r.left \subseteq DOMAIN r.below
  /\ r.kind = "attach" => r.id \in Entities
  /\ r.kind \in {"move", "rename", "merge", "delete"} => r.id \in Projects
  /\ r.kind \in {"move", "rename"} => r.moved = r.id /\ r.read # None
  /\ r.kind = "rename" => r.new # None

TInv ==
  /\ project \in [Projects -> NDocs \cup {None}]
  /\ entity \in [Entities -> Projects \cup {None}]
  /\ torn \in BOOLEAN
  /\ call \in [Calls -> CallRecords]
  /\ \A c \in Calls : CallOK(call[c])

LEMMA NoneIsNothing == None \notin Projects /\ None \notin Entities /\ None \notin RequestKinds
                       /\ None \notin NDocs
  BY ProjectsAssumption, NoneIsNoDocument DEF NDocs

LEMMA DocFields ==
  ASSUME NEW d \in Documents
  PROVE  /\ d.name \in Seq(Segments) /\ d.path \in Seq(Projects)
         /\ d.parent \in Projects \cup {None}
         /\ Len(d.name) \in Nat /\ Len(d.path) \in Nat
  BY ElementsOf DEF Documents

LEMMA NDocFields ==
  ASSUME NEW d \in NDocs
  PROVE  d \in Documents /\ d.name # <<>> /\ d # None
  BY NoneIsNoDocument DEF NDocs

LEMMA ReadsOK ==
  /\ <<>> \in Reads
  /\ \A f \in Reads : DOMAIN f \subseteq Projects /\ f \in [DOMAIN f -> NDocs]
<1>1. <<>> \in [{} -> NDocs]
  OBVIOUS
<1>2. {} \in SUBSET Projects
  OBVIOUS
<1>3. <<>> \in Reads
  BY <1>1, <1>2 DEF Reads
<1> QED
  BY <1>3 DEF Reads

LEMMA ReadOK ==
  ASSUME TInv, NEW ids \in SUBSET Existing
  PROVE  /\ Read(ids) \in Reads /\ DOMAIN Read(ids) = ids
         /\ \A q \in ids : Read(ids)[q] = project[q]
<1>1. Read(ids) = [q \in ids |-> project[q]]
  BY DEF Read
<1>2. ids \in SUBSET Projects /\ \A q \in ids : project[q] \in NDocs
  BY DEF TInv, Existing
<1>3. Read(ids) \in [ids -> NDocs]
  BY <1>1, <1>2
<1> QED
  BY <1>1, <1>2, <1>3 DEF Reads

LEMMA BelowExists == ASSUME NEW p PROVE Below(p) \in SUBSET Existing
  BY DEF Below

LEMMA RootOK == Root \in Documents /\ Root.name = <<>> /\ Root.path = <<>> /\ Root.parent = None
  BY DEF Root, Documents

LEMMA UnderOK ==
  ASSUME NEW p \in Projects, NEW d \in Documents
  PROVE  /\ Under(p, d) \in Documents /\ Under(p, d).parent = p
         /\ Under(p, d).name = d.name /\ Under(p, d).path = Append(d.path, p)
<1>1. Append(d.path, p) \in Seq(Projects) /\ d.name \in Seq(Segments)
  BY DocFields, AppendElements
<1> QED
  BY <1>1 DEF Under, Documents

LEMMA DocAtOK ==
  ASSUME NEW u \in Documents, NEW base \in Segments
  PROVE  /\ DocAt(u, base) \in NDocs
         /\ DocAt(u, base).name = Append(u.name, base)
         /\ DocAt(u, base).parent = u.parent /\ DocAt(u, base).path = u.path
<1>1. Append(u.name, base) \in Seq(Segments) /\ Append(u.name, base) # <<>>
  BY DocFields, AppendElements
<1>2. DocAt(u, base) = [u EXCEPT !.name = Append(u.name, base)]
  BY DEF DocAt, Documents
<1> QED
  BY <1>1, <1>2 DEF Documents, NDocs

LEMMA NoCallOK ==
  NoCall \in CallRecords /\ CallOK(NoCall) /\ NoCall.pc = "idle" /\ NoCall.kind = None
<1>1. <<>> \in Seq(Segments) /\ Len(<<>>) = 0
  BY EmptySeq
<1>2. NoCall \in CallRecords
  BY <1>1, RootOK, ReadsOK DEF NoCall, CallRecords, Steps
<1>3. /\ NoCall.pc = "idle" /\ NoCall.kind = None /\ NoCall.depth = 0
      /\ NoCall.target = <<>>
  BY DEF NoCall
<1> QED
  BY <1>1, <1>2, <1>3, NoneIsNothing DEF CallOK, RequestKinds

(* What a request is when it begins.                                       *)
LEMMA RequestFields ==
  ASSUME NEW kind \in RequestKinds
  PROVE  /\ Request(kind) \in CallRecords /\ Request(kind).kind = kind
         /\ Request(kind).pc = "idle" /\ Request(kind).target = <<>>
         /\ Request(kind).depth = 0 /\ Request(kind).under = Root
         /\ Request(kind).moved = None /\ Request(kind).read = None
         /\ Request(kind).new = None
  BY NoCallOK DEF Request, CallRecords, NoCall

(***************************************************************************)
(* Every step keeps the types.                                             *)
(***************************************************************************)
LEMMA TStep ==
  ASSUME TInv, NEW c \in Calls, NEW r \in CallRecords, CallOK(r), Goto(c, r),
         project' \in [Projects -> NDocs \cup {None}],
         entity' \in [Entities -> Projects \cup {None}],
         torn' \in BOOLEAN
  PROVE  TInv'
<1>1. \A d \in Calls : call'[d] = IF d = c THEN r ELSE call[d]
  BY DEF Goto, TInv
<1>2. call' \in [Calls -> CallRecords]
  BY DEF Goto, TInv
<1> QED
  BY <1>1, <1>2 DEF TInv

LEMMA TEnd ==
  ASSUME TInv, NEW c \in Calls, Ends(c),
         project' \in [Projects -> NDocs \cup {None}],
         entity' \in [Entities -> Projects \cup {None}],
         torn' \in BOOLEAN
  PROVE  TInv'
  BY NoCallOK, TStep DEF Ends, Goto

LEMMA TLocal ==
  ASSUME TInv, NEW c \in Calls, NEW r \in CallRecords, CallOK(r), Goto(c, r),
         UNCHANGED <<project, entity, torn>>
  PROVE  TInv'
<1>1. /\ project' \in [Projects -> NDocs \cup {None}]
      /\ entity' \in [Entities -> Projects \cup {None}]
      /\ torn' \in BOOLEAN
  BY DEF TInv
<1> QED
  BY <1>1, TStep

LEMMA EnsureOK ==
  ASSUME NEW r \in CallRecords, NEW name \in Seq(Segments)
  PROVE  LET n == Ensure(r, name) IN
         /\ n \in CallRecords /\ n.pc = "find" /\ n.target = name /\ n.depth = Len(name)
         /\ n.kind = r.kind /\ n.id = r.id /\ n.moved = r.moved /\ n.read = r.read
         /\ n.below = r.below /\ n.new = r.new
  BY ElementsOf DEF Ensure, CallRecords, Steps

LEMMA LocatedOK ==
  ASSUME NEW r \in CallRecords, CallOK(r), r.pc \in {"find", "save"}, NEW place \in Documents
  PROVE  LET n == Located(r, place) IN
         /\ n \in CallRecords /\ CallOK(n)
         /\ \/ n = NoCall
            \/ r.kind = "attach" /\ n.pc = "attach" /\ n.kind = "attach" /\ n.under = place
               /\ n.id = r.id
            \/ /\ r.kind = "move" /\ n.pc = "move" /\ n.kind = "move" /\ n.under = place
               /\ n.id = r.id /\ n.moved = r.moved /\ n.read = r.read /\ n.below = r.below
               /\ n.target = r.target /\ r.id \notin Range(place.path)
<1> DEFINE n == Located(r, place)
           m(pc) == [r EXCEPT !.pc = pc, !.under = place]
<1>1. r.kind \in {"create", "attach", "move"}
  BY DEF CallOK
<1>2. \A pc \in {"attach", "move"} :
        /\ m(pc) \in CallRecords /\ m(pc).pc = pc /\ m(pc).kind = r.kind /\ m(pc).under = place
        /\ m(pc).id = r.id /\ m(pc).moved = r.moved /\ m(pc).read = r.read
        /\ m(pc).below = r.below /\ m(pc).target = r.target /\ m(pc).depth = r.depth
        /\ m(pc).new = r.new
  BY DEF CallRecords, Steps
<1>3. \/ n = NoCall
      \/ r.kind = "attach" /\ n = m("attach")
      \/ r.kind = "move" /\ n = m("move") /\ r.id \notin Range(place.path)
  BY <1>1 DEF Located
<1> HIDE DEF m, n
<1>4. \A pc \in {"attach", "move"} : r.kind = pc => CallOK(m(pc))
  BY <1>2 DEF CallOK
<1> QED
  BY <1>2, <1>3, <1>4, NoCallOK DEF n

LEMMA ReachedOK ==
  ASSUME NEW r \in CallRecords, CallOK(r), r.pc \in {"find", "save"}, NEW place \in Documents,
         NEW k \in Nat, k <= Len(r.target), place.name = SubSeq(r.target, 1, k)
  PROVE  LET n == Reached(r, place) IN
         /\ n \in CallRecords /\ CallOK(n)
         /\ \/ n = Located(r, place) /\ place.name = r.target
            \/ /\ n.pc = "save" /\ n.under = place /\ n.kind = r.kind /\ n.id = r.id
               /\ n.moved = r.moved /\ n.read = r.read /\ n.below = r.below
               /\ n.target = r.target
<1> DEFINE n == [r EXCEPT !.pc = "save", !.under = place]
<1>1. CASE place.name = r.target
  <2>1. Reached(r, place) = Located(r, place)
    BY <1>1 DEF Reached
  <2>2. Located(r, place) \in CallRecords /\ CallOK(Located(r, place))
    BY LocatedOK
  <2> QED
    BY <1>1, <2>1, <2>2
<1>2. CASE place.name # r.target
  <2>1. r.target \in Seq(Segments) /\ Len(r.target) \in Nat
    BY ElementsOf DEF CallRecords
  <2>2. Len(place.name) = k /\ k # Len(r.target)
    BY <1>2, <2>1, PrefixProperties
  <2>3. /\ n \in CallRecords /\ n.pc = "save" /\ n.under = place /\ n.kind = r.kind
        /\ n.id = r.id /\ n.moved = r.moved /\ n.read = r.read /\ n.below = r.below
        /\ n.target = r.target /\ n.depth = r.depth /\ n.new = r.new
    BY DEF CallRecords, Steps
  <2> HIDE DEF n
  <2>4. CallOK(n)
    BY <2>1, <2>2, <2>3 DEF CallOK
  <2>5. Reached(r, place) = n
    BY <1>2 DEF Reached, n
  <2> QED
    BY <2>3, <2>4, <2>5
<1> QED
  BY <1>1, <1>2

LEMMA DescendingOK ==
  ASSUME NEW r \in CallRecords, CallOK(r), r.kind \in {"move", "rename", "merge"},
         r.moved # None, r.read # None, r.new # None, NEW left, left \subseteq DOMAIN r.below
  PROVE  LET n == Descending(r, left) IN
         /\ n \in CallRecords /\ CallOK(n)
         /\ \/ left = {} /\ r.kind # "merge" /\ n = NoCall
            \/ left = {} /\ r.kind = "merge" /\ n = [r EXCEPT !.pc = "merge", !.left = {}]
            \/ left # {} /\ n = [r EXCEPT !.pc = "descend", !.left = left]
<1> DEFINE m == [r EXCEPT !.pc = "merge", !.left = {}]
           d == [r EXCEPT !.pc = "descend", !.left = left]
<1>1. left \subseteq Projects
  BY ReadsOK DEF CallRecords
<1>2. /\ m \in CallRecords /\ m.pc = "merge" /\ m.kind = r.kind /\ m.id = r.id
      /\ m.moved = r.moved /\ m.depth = r.depth /\ m.target = r.target
  BY DEF CallRecords, Steps
<1>3. /\ d \in CallRecords /\ d.pc = "descend" /\ d.kind = r.kind /\ d.id = r.id
      /\ d.moved = r.moved /\ d.depth = r.depth /\ d.target = r.target /\ d.read = r.read
      /\ d.new = r.new /\ d.left = left /\ d.below = r.below
  BY <1>1 DEF CallRecords, Steps
<1> HIDE DEF m, d
<1>0. r.kind # None
  BY NoneIsNothing DEF RequestKinds
<1>4. CallOK(d)
  BY <1>0, <1>3 DEF CallOK
<1>5. r.kind = "merge" => CallOK(m)
  BY <1>0, <1>2 DEF CallOK
<1>6. \/ left = {} /\ r.kind # "merge" /\ Descending(r, left) = NoCall
      \/ left = {} /\ r.kind = "merge" /\ Descending(r, left) = m
      \/ left # {} /\ Descending(r, left) = d
  BY DEF Descending, m, d
<1> QED
  BY <1>2, <1>3, <1>4, <1>5, <1>6, NoCallOK DEF m, d

(* The document of a project at its new place.                             *)
LEMMA NewOK ==
  ASSUME NEW u \in Documents, NEW d \in NDocs
  PROVE  /\ Last(d.name) \in Segments /\ DocAt(u, Last(d.name)) \in NDocs
         /\ DocAt(u, Last(d.name)).name = Append(u.name, Last(d.name))
         /\ DocAt(u, Last(d.name)).parent = u.parent /\ DocAt(u, Last(d.name)).path = u.path
<1>1. Last(d.name) \in Segments
  BY NDocFields, DocFields, FrontElements
<1> QED
  BY <1>1, DocAtOK

LEMMA TReposition ==
  ASSUME TInv, NEW c \in Calls, NEW r \in CallRecords, CallOK(r), r.kind \in {"move", "merge"},
         r.moved \in Projects, r.read \in NDocs, NEW left, left \subseteq DOMAIN r.below,
         Reposition(c, r, left), UNCHANGED <<entity, torn>>
  PROVE  TInv'
<1> DEFINE new == DocAt(r.under, Last(r.read.name))
           m == [r EXCEPT !.new = new]
<1>1. new \in NDocs
  BY NewOK DEF CallRecords
<1>2. CASE Ends(c) /\ UNCHANGED project
  BY <1>2, TEnd DEF TInv
<1>3. CASE /\ project' = [project EXCEPT ![r.moved] = new]
           /\ Goto(c, Descending(m, left))
  <2> HIDE DEF new
  <2>1. project' \in [Projects -> NDocs \cup {None}]
    BY <1>1, <1>3 DEF TInv
  <2>2. /\ m \in CallRecords /\ m.pc = r.pc /\ m.kind = r.kind /\ m.id = r.id
        /\ m.moved = r.moved /\ m.depth = r.depth /\ m.target = r.target /\ m.read = r.read
        /\ m.new = new /\ m.below = r.below /\ m.left = r.left /\ m.under = r.under
    BY <1>1 DEF CallRecords
  <2> HIDE DEF m
  <2>3. m.pc # "idle"
    <3>1. r.kind # None
      BY NoneIsNothing DEF RequestKinds
    <3> QED
      BY <2>2, <3>1, NoCallOK DEF CallOK
  <2>4. CallOK(m) /\ m.new # None /\ m.read # None /\ m.moved # None
    <3>1. new # None /\ r.read # None /\ r.moved # None
      BY <1>1, NDocFields, NoneIsNothing
    <3> QED
      BY <2>2, <2>3, <3>1 DEF CallOK
  <2>5. Descending(m, left) \in CallRecords /\ CallOK(Descending(m, left))
    BY <2>2, <2>4, DescendingOK
  <2>6. entity' \in [Entities -> Projects \cup {None}] /\ torn' \in BOOLEAN
    BY DEF TInv
  <2> QED
    BY <1>3, <2>1, <2>5, <2>6, TStep
<1> QED
  BY <1>2, <1>3 DEF Reposition

(* A lookup ends at a place that a project has, or at the top, or goes on. *)
PlaceIn(place, projects) ==
  place = Root \/ \E p \in Projects : projects[p] # None /\ place = Under(p, projects[p])

LEMMA PlaceOK ==
  ASSUME NEW projects \in [Projects -> NDocs \cup {None}], NEW place, PlaceIn(place, projects)
  PROVE  /\ place \in Documents
         /\ \/ place.parent = None
            \/ place.parent \in Projects /\ projects[place.parent] # None
<1>1. CASE place = Root
  BY <1>1, RootOK
<1>2. ASSUME NEW p \in Projects, projects[p] # None, place = Under(p, projects[p])
      PROVE  place \in Documents /\ place.parent = p
  <2>1. projects[p] \in Documents
    BY <1>2, NDocFields
  <2> QED
    BY <1>2, <2>1, UnderOK
<1> QED
  BY <1>1, <1>2, RootOK DEF PlaceIn

LEMMA Finds ==
  ASSUME TInv, NEW c \in Calls, Find(c)
  PROVE  LET r == call[c] IN
         /\ r \in CallRecords /\ CallOK(r) /\ r.pc = "find" /\ UNCHANGED <<project, entity, torn>>
         /\ \/ r.depth > 0 /\ Goto(c, [r EXCEPT !.depth = @ - 1])
            \/ \E place \in Documents, k \in Nat :
                 /\ PlaceIn(place, project) /\ k <= Len(r.target)
                 /\ place.name = SubSeq(r.target, 1, k) /\ Goto(c, Reached(r, place))
<1> DEFINE r == call[c]
           prefix == SubSeq(r.target, 1, r.depth)
<1>1. r \in CallRecords /\ CallOK(r) /\ r.pc = "find" /\ r.depth <= Len(r.target)
  BY DEF TInv, Find, CallOK
<1>2. r.target \in Seq(Segments) /\ r.depth \in Nat /\ Len(r.target) \in Nat
  BY <1>1, ElementsOf DEF CallRecords
<1>3. CASE r.depth = 0 /\ Goto(c, Reached(r, Root))
  <2>1. Root.name = prefix
    BY <1>1, <1>2, <1>3, PrefixProperties, RootOK
  <2> QED
    BY <1>1, <1>2, <1>3, <2>1, RootOK DEF PlaceIn, Find
<1>4. ASSUME NEW p \in Named(prefix), Goto(c, Reached(r, Under(p, project[p])))
      PROVE  \E place \in Documents, k \in Nat :
               /\ PlaceIn(place, project) /\ k <= Len(r.target)
               /\ place.name = SubSeq(r.target, 1, k) /\ Goto(c, Reached(r, place))
  <2> DEFINE place == Under(p, project[p])
  <2>1. /\ p \in Projects /\ project[p] # None /\ project[p] \in Documents
        /\ project[p].name = prefix
    BY NDocFields DEF TInv, Named, Existing
  <2>2. place \in Documents /\ place.name = prefix /\ PlaceIn(place, project)
    BY <2>1, UnderOK DEF PlaceIn
  <2>3. Goto(c, Reached(r, place))
    BY <1>4
  <2> HIDE DEF place
  <2> QED
    BY <1>1, <1>2, <2>2, <2>3
<1> QED
  BY <1>1, <1>3, <1>4 DEF Find

LEMMA TFind ==
  ASSUME TInv, NEW c \in Calls, Find(c)
  PROVE  TInv'
<1> DEFINE r == call[c]
<1>1. r \in CallRecords /\ CallOK(r) /\ r.pc = "find" /\ UNCHANGED <<project, entity, torn>>
  BY Finds
<1>2. ASSUME NEW place \in Documents, NEW k \in Nat, k <= Len(r.target),
             place.name = SubSeq(r.target, 1, k), Goto(c, Reached(r, place))
      PROVE  TInv'
  BY <1>1, <1>2, ReachedOK, TLocal
<1>3. CASE r.depth > 0 /\ Goto(c, [r EXCEPT !.depth = @ - 1])
  <2> DEFINE n == [r EXCEPT !.depth = @ - 1]
  <2>1. r.depth \in Nat /\ Len(r.target) \in Nat /\ r.depth <= Len(r.target)
    BY <1>1, ElementsOf DEF CallRecords, CallOK
  <2>2. /\ n \in CallRecords /\ n.pc = "find" /\ n.kind = r.kind /\ n.id = r.id
        /\ n.moved = r.moved /\ n.depth = r.depth - 1 /\ n.target = r.target
        /\ n.read = r.read /\ n.new = r.new
    BY <1>1, <1>3, <2>1 DEF CallRecords
  <2> HIDE DEF n
  <2>3. CallOK(n)
    BY <1>1, <2>1, <2>2 DEF CallOK
  <2> QED
    BY <1>1, <1>3, <2>2, <2>3, TLocal DEF n
<1>4. \/ r.depth > 0 /\ Goto(c, [r EXCEPT !.depth = @ - 1])
      \/ \E place \in Documents, k \in Nat :
           /\ PlaceIn(place, project) /\ k <= Len(r.target)
           /\ place.name = SubSeq(r.target, 1, k) /\ Goto(c, Reached(r, place))
  BY Finds
<1> QED
  BY <1>2, <1>3, <1>4

(* The document that SaveNew saves is the next on the way to the name.     *)
LEMMA SavedDoc ==
  ASSUME NEW r \in CallRecords, CallOK(r), r.pc = "save",
         NEW doc, doc = DocAt(r.under, r.target[Len(r.under.name) + 1])
  PROVE  /\ doc \in NDocs /\ doc.parent = r.under.parent /\ doc.path = r.under.path
         /\ r.target[Len(r.under.name) + 1] \in Segments
         /\ doc.name = Append(r.under.name, r.target[Len(r.under.name) + 1])
         /\ Len(r.under.name) + 1 \in Nat /\ Len(r.under.name) + 1 <= Len(r.target)
         /\ doc.name = SubSeq(r.target, 1, Len(r.under.name) + 1)
<1> DEFINE u == r.under
           k == Len(u.name)
<1>1. u \in Documents /\ r.target \in Seq(Segments) /\ Len(r.target) \in Nat
  BY ElementsOf DEF CallRecords
<1>2. k \in Nat /\ k < Len(r.target) /\ u.name = SubSeq(r.target, 1, k)
  BY <1>1, DocFields DEF CallOK
<1>3. /\ r.target[k + 1] \in Segments
      /\ Append(SubSeq(r.target, 1, k), r.target[k + 1]) = SubSeq(r.target, 1, k + 1)
  BY <1>1, <1>2, PrefixExtends
<1> HIDE DEF u, k
<1>4. k + 1 \in Nat /\ k + 1 <= Len(r.target)
  BY <1>1, <1>2
<1>5. doc = DocAt(u, r.target[k + 1])
  BY DEF u, k
<1>6. /\ doc \in NDocs /\ doc.name = Append(u.name, r.target[k + 1])
      /\ doc.parent = u.parent /\ doc.path = u.path
  BY <1>1, <1>3, <1>5, DocAtOK
<1> QED
  BY <1>2, <1>3, <1>4, <1>6 DEF u, k

LEMMA TSave ==
  ASSUME TInv, NEW c \in Calls, SaveNew(c)
  PROVE  TInv'
<1> DEFINE r == call[c]
           doc == DocAt(r.under, r.target[Len(r.under.name) + 1])
           k == Len(r.under.name) + 1
<1>1. r \in CallRecords /\ CallOK(r) /\ r.pc = "save"
  BY DEF TInv, SaveNew
<1>2. doc \in NDocs /\ k \in Nat /\ k <= Len(r.target) /\ doc.name = SubSeq(r.target, 1, k)
  BY <1>1, SavedDoc
<1>3. entity' \in [Entities -> Projects \cup {None}] /\ torn' \in BOOLEAN
  BY DEF TInv, SaveNew
<1>4. CASE Ends(c) /\ UNCHANGED project
  BY <1>3, <1>4, TEnd DEF TInv
<1>5. ASSUME NEW p \in Projects, project' = [project EXCEPT ![p] = doc],
             Goto(c, Reached(r, Under(p, doc)))
      PROVE  TInv'
  <2> HIDE DEF doc, k
  <2>1. project' \in [Projects -> NDocs \cup {None}]
    BY <1>2, <1>5 DEF TInv
  <2>2. Under(p, doc) \in Documents /\ Under(p, doc).name = doc.name
    BY <1>2, NDocFields, UnderOK
  <2>3. Reached(r, Under(p, doc)) \in CallRecords /\ CallOK(Reached(r, Under(p, doc)))
    BY <1>1, <1>2, <2>2, ReachedOK
  <2> QED
    BY <1>3, <1>5, <2>1, <2>3, TStep
<1> QED
  BY <1>4, <1>5 DEF SaveNew

(* The document of a project below the one that moves.                     *)
LEMMA RewrittenOK ==
  ASSUME TInv, NEW r \in CallRecords, r.read \in NDocs, r.new \in NDocs,
         NEW q \in Projects, r.below[q] \in NDocs
  PROVE  /\ Rewritten(r, q) \in NDocs \cup {None}
         /\ project[q] = None => Rewritten(r, q) = None
         /\ project[q] # None =>
              /\ Rewritten(r, q) \in NDocs
              /\ Rewritten(r, q).name = NameBelow(r, r.below[q])
              /\ Rewritten(r, q).parent = project[q].parent
              /\ Rewritten(r, q).path = IF r.kind = "rename" THEN project[q].path
                                        ELSE PathBelow(r, r.below[q])
<1> DEFINE old == r.below[q]
           name == NameBelow(r, old)
           path == PathBelow(r, old)
           doc == project[q]
           kept == IF r.kind = "rename" THEN doc.path ELSE path
<1>1. old \in Documents /\ r.read \in Documents /\ r.new \in Documents /\ r.new.name # <<>>
  BY NDocFields
<1>2. name \in Seq(Segments) /\ path \in Seq(Projects) /\ Begins(r.new.name, name)
  BY <1>1, DocFields, GraftElements DEF NameBelow, PathBelow
<1>3. name # <<>>
  <2> HIDE DEF name
  <2> QED
    BY <1>1, <1>2, DocFields, ElementsOf, EmptySeq DEF Begins
<1>4. doc = None => Rewritten(r, q) = None
  BY DEF Rewritten
<1>5. CASE doc # None
  <2>1. doc \in NDocs /\ doc \in Documents /\ doc.path \in Seq(Projects)
    BY <1>5, NDocFields, DocFields DEF TInv
  <2>2. kept \in Seq(Projects)
    BY <1>2, <2>1
  <2>3. Rewritten(r, q) = [doc EXCEPT !.name = name, !.path = kept]
    BY <1>5 DEF Rewritten
  <2>4. kept = IF r.kind = "rename" THEN doc.path ELSE path
    OBVIOUS
  <2> HIDE DEF kept, name, path, old, doc
  <2> DEFINE w == [doc EXCEPT !.name = name, !.path = kept]
  <2>5. w \in NDocs /\ w.name = name /\ w.parent = doc.parent /\ w.path = kept
    BY <1>2, <1>3, <2>1, <2>2 DEF NDocs, Documents
  <2> QED
    BY <2>3, <2>4, <2>5, <1>5 DEF name, path, old, doc
<1> QED
  BY <1>4, <1>5

LEMMA TUpdateBelow ==
  ASSUME TInv, NEW c \in Calls, UpdateBelow(c)
  PROVE  TInv'
<1> DEFINE r == call[c]
<1>1. r \in CallRecords /\ CallOK(r) /\ r.pc = "descend"
  BY DEF TInv, UpdateBelow
<1>2. /\ r.kind \in {"move", "rename", "merge"} /\ r.moved # None
      /\ r.read # None /\ r.new # None /\ r.left \subseteq DOMAIN r.below
  BY <1>1 DEF CallOK
<1>3. /\ r.read \in NDocs /\ r.new \in NDocs /\ r.left \subseteq Projects
      /\ \A q \in r.left : r.below[q] \in NDocs
  BY <1>1, <1>2, ReadsOK DEF CallRecords
<1>4. PICK q \in r.left :
        \/ Ends(c) /\ torn' = TRUE /\ UNCHANGED project
        \/ /\ project' = [project EXCEPT ![q] = Rewritten(r, q)]
           /\ Goto(c, Descending(r, r.left \ {q}))
           /\ UNCHANGED torn
  BY DEF UpdateBelow
<1>5. UNCHANGED entity /\ entity' \in [Entities -> Projects \cup {None}]
  BY DEF UpdateBelow, TInv
<1>6. CASE Ends(c) /\ torn' = TRUE /\ UNCHANGED project
  BY <1>5, <1>6, TEnd DEF TInv
<1>7. CASE /\ project' = [project EXCEPT ![q] = Rewritten(r, q)]
           /\ Goto(c, Descending(r, r.left \ {q}))
           /\ UNCHANGED torn
  <2>1. q \in Projects /\ Rewritten(r, q) \in NDocs \cup {None}
    BY <1>1, <1>3, <1>4, RewrittenOK
  <2>2. project' \in [Projects -> NDocs \cup {None}]
    BY <1>7, <2>1 DEF TInv
  <2>3. Descending(r, r.left \ {q}) \in CallRecords /\ CallOK(Descending(r, r.left \ {q}))
    BY <1>1, <1>2, DescendingOK
  <2>4. torn' \in BOOLEAN
    BY <1>7 DEF TInv
  <2> QED
    BY <1>5, <1>7, <2>2, <2>3, <2>4, TStep
<1> QED
  BY <1>4, <1>6, <1>7

LEMMA TRename ==
  ASSUME TInv, NEW c \in Calls, RenameProject(c) \/ ReadChildren(c)
  PROVE  TInv'
<1> DEFINE r == call[c]
<1>1. r \in CallRecords /\ CallOK(r) /\ r.pc \in {"rename", "children"} /\ r.kind = "rename"
  BY DEF TInv, RenameProject, ReadChildren, CallOK
<1>2. r.id \in Projects /\ r.moved = r.id /\ r.new \in NDocs /\ r.read \in NDocs
  BY <1>1 DEF CallOK, CallRecords
<1>3. entity' \in [Entities -> Projects \cup {None}] /\ torn' \in BOOLEAN
  BY DEF RenameProject, ReadChildren, TInv
<1>4. CASE Ends(c) /\ UNCHANGED project
  BY <1>3, <1>4, TEnd DEF TInv
<1>5. CASE /\ project' = [project EXCEPT ![r.id] =
               IF @ = None THEN None ELSE [@ EXCEPT !.name = r.new.name]]
           /\ Goto(c, [r EXCEPT !.pc = "children"])
  <2> DEFINE n == [r EXCEPT !.pc = "children"]
             w(d) == IF d = None THEN None ELSE [d EXCEPT !.name = r.new.name]
  <2>1. \A d \in NDocs \cup {None} : w(d) \in NDocs \cup {None}
    BY <1>2 DEF NDocs, Documents
  <2>2. project' = [project EXCEPT ![r.id] = w(project[r.id])]
    BY <1>5
  <2> HIDE DEF w
  <2>3. project' \in [Projects -> NDocs \cup {None}]
    BY <1>2, <2>1, <2>2 DEF TInv
  <2>4. /\ n \in CallRecords /\ n.pc = "children" /\ n.kind = r.kind /\ n.id = r.id
        /\ n.moved = r.moved /\ n.depth = r.depth /\ n.target = r.target
        /\ n.read = r.read /\ n.new = r.new
    BY <1>1 DEF CallRecords, Steps
  <2> HIDE DEF n
  <2>5. CallOK(n)
    BY <1>1, <2>4 DEF CallOK
  <2> QED
    BY <1>3, <1>5, <2>3, <2>4, <2>5, TStep DEF n
<1>6. CASE ReadChildren(c)
  <2> DEFINE ids == Below(r.id)
             m == [r EXCEPT !.below = Read(ids)]
  <2>1. Read(ids) \in Reads /\ DOMAIN Read(ids) = ids
    BY BelowExists, ReadOK
  <2>2. /\ m \in CallRecords /\ m.pc = r.pc /\ m.kind = r.kind /\ m.id = r.id
        /\ m.moved = r.moved /\ m.depth = r.depth /\ m.target = r.target
        /\ m.read = r.read /\ m.new = r.new /\ m.below = Read(ids)
    BY <1>1, <2>1 DEF CallRecords
  <2>3. Goto(c, Descending(m, ids)) /\ UNCHANGED <<project, entity, torn>>
    BY <1>6 DEF ReadChildren
  <2> HIDE DEF m, ids
  <2>4. CallOK(m)
    BY <1>1, <2>2 DEF CallOK
  <2>5. Descending(m, ids) \in CallRecords /\ CallOK(Descending(m, ids))
    BY <1>1, <1>2, <2>1, <2>2, <2>4, NoneIsNothing, DescendingOK
  <2> QED
    BY <2>3, <2>5, TLocal
<1> QED
  BY <1>4, <1>5, <1>6 DEF RenameProject

LEMMA MergesChild ==
  ASSUME TInv, NEW c \in Calls, MergeChild(c)
  PROVE  \E m \in CallRecords, left \in SUBSET Projects :
           /\ CallOK(m) /\ m.pc = "merge" /\ m.kind = "merge" /\ m.id = call[c].id
           /\ m.moved \in Projects /\ m.read \in NDocs
           /\ left \subseteq DOMAIN m.below /\ Reposition(c, m, left)
<1> DEFINE r == call[c]
<1>1. r \in CallRecords /\ CallOK(r) /\ r.kind = "merge" /\ r.pc = "merge"
  BY DEF TInv, MergeChild, CallOK
<1>2. PICK q \in DOMAIN r.todo :
        Reposition(c, [r EXCEPT !.moved = q, !.read = r.todo[q],
                                !.todo = [d \in DOMAIN @ \ {q} |-> @[d]]],
                   {d \in DOMAIN r.below : r.below[d].parent = q})
  BY DEF MergeChild
<1> DEFINE rest == [d \in DOMAIN r.todo \ {q} |-> r.todo[d]]
           left == {d \in DOMAIN r.below : r.below[d].parent = q}
           m == [r EXCEPT !.moved = q, !.read = r.todo[q], !.todo = rest]
<1>3. Reposition(c, m, left)
  <2>1. m = [r EXCEPT !.moved = q, !.read = r.todo[q],
                      !.todo = [d \in DOMAIN @ \ {q} |-> @[d]]]
    OBVIOUS
  <2> QED
    BY <1>2, <2>1
<1>4. r.todo \in Reads /\ DOMAIN r.todo \subseteq Projects /\ r.todo \in [DOMAIN r.todo -> NDocs]
  BY <1>1, ReadsOK DEF CallRecords
<1>5. q \in Projects /\ r.todo[q] \in NDocs
  BY <1>2, <1>4
<1>6. rest \in Reads
  <2>1. rest \in [DOMAIN r.todo \ {q} -> NDocs]
    BY <1>4
  <2>2. DOMAIN r.todo \ {q} \in SUBSET Projects
    BY <1>4
  <2> QED
    BY <2>1, <2>2 DEF Reads
<1> HIDE DEF rest
<1>7. /\ m \in CallRecords /\ m.pc = r.pc /\ m.kind = r.kind /\ m.id = r.id
      /\ m.moved = q /\ m.depth = r.depth /\ m.target = r.target /\ m.read = r.todo[q]
      /\ m.below = r.below
  BY <1>1, <1>5, <1>6 DEF CallRecords
<1>8. left \subseteq DOMAIN m.below /\ left \in SUBSET Projects
  BY <1>1, <1>7, ReadsOK DEF CallRecords
<1> HIDE DEF m, left
<1>9. CallOK(m)
  BY <1>1, <1>7 DEF CallOK
<1> QED
  BY <1>1, <1>3, <1>5, <1>7, <1>8, <1>9

LEMMA TMerge ==
  ASSUME TInv, NEW c \in Calls, MergeEntities(c) \/ ReadDirect(c) \/ MergeChild(c)
  PROVE  TInv'
<1> DEFINE r == call[c]
<1>1. /\ r \in CallRecords /\ CallOK(r) /\ r.kind = "merge" /\ r.id \in Projects
      /\ r.pc \in {"merge_tasks", "merge_models", "direct", "merge"}
  BY DEF TInv, MergeEntities, ReadDirect, MergeChild, CallOK
<1>2. r.under.parent \in Projects \cup {None}
  BY <1>1, DocFields DEF CallRecords
<1>3. CASE MergeEntities(c)
  <2> DEFINE n == [r EXCEPT !.pc = IF @ = "merge_tasks" THEN "merge_models" ELSE "direct"]
  <2>1. entity' = [e \in Entities |->
          IF entity[e] = r.id /\ e \in OfTurn(r) \ Archived THEN r.under.parent ELSE entity[e]]
    BY <1>3 DEF MergeEntities
  <2>2. entity' \in [Entities -> Projects \cup {None}]
    BY <1>2, <2>1 DEF TInv
  <2>3. /\ n \in CallRecords /\ n.pc \in {"merge_models", "direct"}
        /\ n.kind = r.kind /\ n.id = r.id
        /\ n.moved = r.moved /\ n.depth = r.depth /\ n.target = r.target
    BY <1>1 DEF CallRecords, Steps
  <2>4. Goto(c, n) /\ UNCHANGED <<project, torn>>
    BY <1>3 DEF MergeEntities
  <2> HIDE DEF n
  <2>5. CallOK(n)
    BY <1>1, <2>3 DEF CallOK
  <2>6. project' \in [Projects -> NDocs \cup {None}] /\ torn' \in BOOLEAN
    BY <2>4 DEF TInv
  <2> QED
    BY <2>2, <2>3, <2>4, <2>5, <2>6, TStep
<1>4. CASE ReadDirect(c)
  <2> DEFINE ids == {q \in Existing : project[q].parent = r.id}
             n == [r EXCEPT !.pc = "merge", !.todo = Read(ids)]
  <2>1. Read(ids) \in Reads
    BY ReadOK
  <2>2. /\ n \in CallRecords /\ n.pc = "merge" /\ n.kind = r.kind /\ n.id = r.id
        /\ n.moved = r.moved /\ n.depth = r.depth /\ n.target = r.target
    BY <1>1, <2>1 DEF CallRecords, Steps
  <2>3. Goto(c, n) /\ UNCHANGED <<project, entity, torn>>
    BY <1>4 DEF ReadDirect
  <2> HIDE DEF n
  <2>4. CallOK(n)
    BY <1>1, <2>2 DEF CallOK
  <2> QED
    BY <2>2, <2>3, <2>4, TLocal
<1>5. CASE MergeChild(c)
  <2>1. PICK m \in CallRecords, left \in SUBSET Projects :
          /\ CallOK(m) /\ m.kind = "merge" /\ m.moved \in Projects /\ m.read \in NDocs
          /\ left \subseteq DOMAIN m.below /\ Reposition(c, m, left)
    BY <1>5, MergesChild
  <2>2. UNCHANGED <<entity, torn>>
    BY <1>5 DEF MergeChild
  <2> QED
    BY <2>1, <2>2, TReposition
<1> QED
  BY <1>3, <1>4, <1>5

LEMMA TOthers ==
  ASSUME TInv, NEW c \in Calls,
         Attach(c) \/ MoveProject(c) \/ DropSource(c) \/ Disassociate(c) \/ DeleteProjects(c)
  PROVE  TInv'
<1> DEFINE r == call[c]
<1>1. r \in CallRecords /\ CallOK(r)
  BY DEF TInv
<1>2. CASE Attach(c)
  <2>1. r.id \in Entities /\ r.under.parent \in Projects \cup {None}
    BY <1>1, <1>2, DocFields DEF Attach, CallOK, CallRecords
  <2>2. entity' \in [Entities -> Projects \cup {None}]
    BY <1>2, <2>1 DEF Attach, TInv
  <2>3. project' \in [Projects -> NDocs \cup {None}] /\ torn' \in BOOLEAN
    BY <1>2 DEF Attach, TInv
  <2> QED
    BY <1>2, <2>2, <2>3, TEnd DEF Attach
<1>3. CASE MoveProject(c)
  <2>1. r.pc = "move" /\ r.kind = "move" /\ r.moved \in Projects /\ r.read \in NDocs
    BY <1>1, <1>3 DEF MoveProject, CallOK, CallRecords
  <2> QED
    BY <1>1, <1>3, <2>1, TReposition DEF MoveProject
<1>4. CASE DropSource(c) \/ DeleteProjects(c)
  <2>1. project' \in [Projects -> NDocs \cup {None}]
    BY <1>4 DEF DropSource, DeleteProjects, TInv
  <2>2. entity' \in [Entities -> Projects \cup {None}] /\ torn' \in BOOLEAN
    BY <1>4 DEF DropSource, DeleteProjects, TInv
  <2> QED
    BY <1>4, <2>1, <2>2, TEnd DEF DropSource, DeleteProjects
<1>5. CASE Disassociate(c)
  <2> DEFINE n == [r EXCEPT !.pc = IF @ = "disassociate_tasks" THEN "disassociate_models"
                                   ELSE "delete"]
  <2>1. entity' \in [Entities -> Projects \cup {None}]
    BY <1>5 DEF Disassociate, TInv
  <2>2. /\ n \in CallRecords /\ n.pc \in {"disassociate_models", "delete"}
        /\ n.kind = r.kind /\ n.id = r.id
        /\ n.moved = r.moved /\ n.depth = r.depth /\ n.target = r.target
    BY <1>1 DEF CallRecords, Steps
  <2>3. /\ r.kind = "delete" /\ Goto(c, n)
        /\ project' \in [Projects -> NDocs \cup {None}] /\ torn' \in BOOLEAN
    BY <1>1, <1>5 DEF Disassociate, CallOK, TInv
  <2> HIDE DEF n
  <2>4. CallOK(n)
    BY <1>1, <2>2, <2>3, NoneIsNothing DEF CallOK, RequestKinds
  <2> QED
    BY <2>1, <2>2, <2>3, <2>4, TStep
<1> QED
  BY <1>2, <1>3, <1>4, <1>5
(* What a request that begins is about, as it was read.                    *)
Begun(n) ==
  \/ /\ n.kind \in {"create", "attach"} /\ n.pc = "find" /\ n.target \in Names
     /\ Named(n.target) # {} \/ Len(n.target) <= MaxDepth
  \/ n.kind = "attach" /\ n.pc = "attach" /\ n.under.parent \in Existing \cup {None}
  \/ /\ n.kind = "move" /\ n.pc = "find" /\ n.target \in {<<>>} \cup Names
     /\ n.id \in Existing /\ n.read = project[n.id] /\ n.below = Read(Below(n.id))
     /\ FitsAt({n.id} \cup Below(n.id), Len(project[n.id].path), Len(n.target))
  \/ /\ n.kind = "rename" /\ n.pc = "rename"
     /\ n.id \in Existing /\ n.read = project[n.id] /\ n.new.parent = n.read.parent
     /\ n.new.path = n.read.path
     /\ \E base \in Segments : n.new.name = Append(Front(n.read.name), base)
  \/ /\ n.kind = "merge" /\ n.pc = "merge_tasks" /\ n.id \in Existing
     /\ n.under.parent \in (Existing \cup {None}) \ {n.id}
  \/ /\ n.kind = "delete" /\ n.pc = "disassociate_tasks" /\ n.id \in Existing
     /\ n.left = {n.id} \cup Below(n.id)

LEMMA AskEnsure ==
  ASSUME NEW name \in Seq(Segments),
         NEW r \in CallRecords, r.kind \in {"create", "attach", "move"},
         r.kind = "attach" => r.id \in Entities,
         r.kind = "move" => r.id \in Projects /\ r.moved = r.id /\ r.read # None
  PROVE  Ensure(r, name) \in CallRecords /\ CallOK(Ensure(r, name))
<1> DEFINE n == Ensure(r, name)
<1>1. /\ n \in CallRecords /\ n.pc = "find" /\ n.target = name /\ n.depth = Len(name)
      /\ n.kind = r.kind /\ n.id = r.id /\ n.moved = r.moved /\ n.read = r.read
  BY EnsureOK
<1>2. r.kind # None /\ Len(name) \in Nat
  BY NoneIsNothing, ElementsOf DEF RequestKinds
<1> HIDE DEF n
<1>3. CallOK(n)
  BY <1>1, <1>2 DEF CallOK
<1> QED
  BY <1>1, <1>3 DEF n

LEMMA AskCreate ==
  ASSUME NEW c \in Calls, NEW name \in Names, Create(c, name)
  PROVE  \E n \in CallRecords : CallOK(n) /\ Goto(c, n) /\ Asked(c, n.kind) /\ Begun(n)
<1> DEFINE n == Ensure(Request("create"), name)
<1>1. Request("create") \in CallRecords /\ Request("create").kind = "create"
  BY RequestFields DEF RequestKinds
<1>2. n \in CallRecords /\ CallOK(n) /\ n.kind = "create" /\ n.pc = "find" /\ n.target = name
  BY <1>1, NamesAreSequences, AskEnsure, EnsureOK
<1>3. Goto(c, n) /\ Asked(c, "create") /\ Len(name) <= MaxDepth
  BY DEF Create
<1> HIDE DEF n
<1> QED
  BY <1>2, <1>3 DEF Begun

LEMMA AskAttachByName ==
  ASSUME NEW c \in Calls, NEW e \in Entities, NEW name \in Names, AttachByName(c, e, name)
  PROVE  \E n \in CallRecords : CallOK(n) /\ Goto(c, n) /\ Asked(c, n.kind) /\ Begun(n)
<1> DEFINE r == [Request("attach") EXCEPT !.id = e]
           n == Ensure(r, name)
<1>1. r \in CallRecords /\ r.kind = "attach" /\ r.id = e
  <2>1. Request("attach") \in CallRecords /\ Request("attach").kind = "attach"
    BY RequestFields DEF RequestKinds
  <2> QED
    BY <2>1 DEF CallRecords
<1>2. Goto(c, n) /\ Asked(c, "attach") /\ (Named(name) # {} \/ Len(name) <= MaxDepth)
  BY DEF AttachByName
<1> HIDE DEF r
<1>3. n \in CallRecords /\ CallOK(n) /\ n.kind = "attach" /\ n.pc = "find" /\ n.target = name
  BY <1>1, NamesAreSequences, AskEnsure, EnsureOK
<1> HIDE DEF n
<1> QED
  BY <1>2, <1>3 DEF Begun

LEMMA AskAttachById ==
  ASSUME NEW c \in Calls, NEW e \in Entities, NEW p \in Projects \cup {None},
         AttachById(c, e, p)
  PROVE  \E n \in CallRecords : CallOK(n) /\ Goto(c, n) /\ Asked(c, n.kind) /\ Begun(n)
<1> DEFINE q == Request("attach")
           n == [q EXCEPT !.pc = "attach", !.id = e, !.under.parent = p]
           place == [q.under EXCEPT !.parent = p]
<1>1. p \in Existing \cup {None} /\ Goto(c, n) /\ Asked(c, "attach")
  BY DEF AttachById
<1>2. q \in CallRecords /\ q.kind = "attach" /\ q.target = <<>> /\ q.depth = 0
  BY RequestFields DEF RequestKinds
<1>3. q.under \in Documents
  BY <1>2 DEF CallRecords
<1>4. place \in Documents /\ place.parent = p
  BY <1>3 DEF Documents
<1>5. n = [q EXCEPT !.pc = "attach", !.id = e, !.under = place]
  BY <1>2 DEF CallRecords
<1> HIDE DEF q, place
<1> DEFINE m == [q EXCEPT !.pc = "attach", !.id = e, !.under = place]
<1>6. /\ m \in CallRecords /\ m.pc = "attach" /\ m.id = e /\ m.under = place
      /\ m.kind = "attach" /\ m.target = <<>> /\ m.depth = 0
  BY <1>2, <1>4 DEF CallRecords, Steps
<1>7. n = m
  BY <1>5
<1> HIDE DEF m, n
<1>8. CallOK(m)
  BY <1>6, EmptySeq, NoneIsNothing DEF CallOK, RequestKinds
<1> QED
  BY <1>1, <1>4, <1>6, <1>7, <1>8 DEF Begun

LEMMA AskMove ==
  ASSUME TInv, NEW c \in Calls, NEW p \in Projects, NEW location \in {<<>>} \cup Names,
         Move(c, p, location)
  PROVE  \E n \in CallRecords : CallOK(n) /\ Goto(c, n) /\ Asked(c, n.kind) /\ Begun(n)
<1> DEFINE q == Request("move")
           r == [q EXCEPT !.id = p, !.moved = p, !.read = project[p], !.below = Read(Below(p))]
           n == Ensure(r, location)
<1>1. /\ p \in Existing /\ Goto(c, n) /\ Asked(c, "move")
      /\ FitsAt({p} \cup Below(p), Len(project[p].path), Len(location))
  BY DEF Move
<1>2. q \in CallRecords /\ q.kind = "move"
  BY RequestFields DEF RequestKinds
<1>3. Read(Below(p)) \in Reads /\ project[p] \in NDocs /\ project[p] # None
  BY <1>1, BelowExists, ReadOK DEF TInv, Existing
<1> HIDE DEF q
<1>4. /\ r \in CallRecords /\ r.id = p /\ r.moved = p /\ r.read = project[p]
      /\ r.below = Read(Below(p)) /\ r.kind = "move"
  BY <1>2, <1>3 DEF CallRecords
<1>5. location \in Seq(Segments)
  BY NamesAreSequences, EmptySeq
<1> HIDE DEF r
<1>6. /\ n \in CallRecords /\ CallOK(n) /\ n.kind = "move" /\ n.pc = "find" /\ n.id = p
      /\ n.target = location /\ n.read = project[p] /\ n.below = Read(Below(p))
  <2>1. n \in CallRecords /\ CallOK(n)
    BY <1>3, <1>4, <1>5, AskEnsure
  <2> QED
    BY <1>4, <1>5, <2>1, EnsureOK
<1> HIDE DEF n
<1> QED
  BY <1>1, <1>6 DEF Begun

LEMMA AskRename ==
  ASSUME TInv, NEW c \in Calls, NEW p \in Projects, NEW base \in Segments, Rename(c, p, base)
  PROVE  \E n \in CallRecords : CallOK(n) /\ Goto(c, n) /\ Asked(c, n.kind) /\ Begun(n)
<1> DEFINE q == Request("rename")
           d == project[p]
           new == [d EXCEPT !.name = Append(Front(@), base)]
           n == [q EXCEPT !.pc = "rename", !.id = p, !.moved = p, !.read = d, !.new = new]
<1>1. p \in Existing /\ Goto(c, n) /\ Asked(c, "rename")
  BY DEF Rename
<1>2. q \in CallRecords /\ q.kind = "rename" /\ q.target = <<>> /\ q.depth = 0
  BY RequestFields DEF RequestKinds
<1>3. d \in NDocs /\ d \in Documents /\ d # None /\ d.name # <<>> /\ d.name \in Seq(Segments)
  BY <1>1, NDocFields, DocFields DEF TInv, Existing
<1>4. /\ new \in NDocs /\ new.name = Append(Front(d.name), base) /\ new.parent = d.parent
      /\ new.path = d.path
  <2>1. Front(d.name) \in Seq(Segments)
    BY <1>3, FrontElements
  <2> DEFINE name == Append(Front(d.name), base)
  <2>2. name \in Seq(Segments) /\ name # <<>>
    BY <2>1, AppendElements
  <2>3. new = [d EXCEPT !.name = name]
    OBVIOUS
  <2> HIDE DEF name, new, d
  <2>4. /\ new \in NDocs /\ new.name = name /\ new.parent = d.parent
        /\ new.path = d.path
    BY <1>3, <2>2, <2>3 DEF NDocs, Documents
  <2> QED
    BY <2>4 DEF name
<1> HIDE DEF q, new, d
<1>5. /\ n \in CallRecords /\ n.pc = "rename" /\ n.id = p /\ n.moved = p /\ n.read = d
      /\ n.new = new /\ n.kind = "rename" /\ n.target = <<>> /\ n.depth = 0
  BY <1>2, <1>3, <1>4 DEF CallRecords, Steps
<1> HIDE DEF n
<1>6. new # None
  BY <1>4, NDocFields
<1>7. CallOK(n)
  BY <1>3, <1>5, <1>6, EmptySeq, NoneIsNothing DEF CallOK, RequestKinds
<1>8. Begun(n)
  BY <1>1, <1>4, <1>5 DEF Begun, d
<1> QED
  BY <1>1, <1>5, <1>7, <1>8

LEMMA AskMerge ==
  ASSUME TInv, NEW c \in Calls, NEW p \in Projects, NEW q \in Projects \cup {None},
         Merge(c, p, q)
  PROVE  \E n \in CallRecords : CallOK(n) /\ Goto(c, n) /\ Asked(c, n.kind) /\ Begun(n)
<1> DEFINE m == Request("merge")
           place == IF q = None THEN Root ELSE Under(q, project[q])
           n == [m EXCEPT !.pc = "merge_tasks", !.id = p,
                          !.under = place, !.below = Read(Below(p))]
<1>1. /\ p \in Existing /\ q \in (Existing \cup {None}) \ {p} /\ Goto(c, n)
      /\ Asked(c, "merge")
  BY DEF Merge
<1>2. m \in CallRecords /\ m.kind = "merge" /\ m.target = <<>> /\ m.depth = 0
  BY RequestFields DEF RequestKinds
<1>3. Read(Below(p)) \in Reads
  BY BelowExists, ReadOK
<1>4. place \in Documents /\ place.parent = q
  <2>1. CASE q = None
    BY <2>1, RootOK
  <2>2. CASE q # None
    <3>1. q \in Projects /\ project[q] \in Documents
      BY <1>1, <2>2, NDocFields DEF TInv, Existing
    <3> QED
      BY <2>2, <3>1, UnderOK
  <2> QED
    BY <2>1, <2>2
<1> HIDE DEF m, place
<1>5. /\ n \in CallRecords /\ n.pc = "merge_tasks" /\ n.id = p /\ n.under = place
      /\ n.kind = "merge" /\ n.target = <<>> /\ n.depth = 0
  BY <1>2, <1>3, <1>4 DEF CallRecords, Steps
<1> HIDE DEF n
<1>6. CallOK(n)
  BY <1>5, EmptySeq, NoneIsNothing DEF CallOK, RequestKinds
<1> QED
  BY <1>1, <1>4, <1>5, <1>6 DEF Begun

LEMMA AskDelete ==
  ASSUME NEW c \in Calls, NEW p \in Projects, NEW forced \in BOOLEAN, Delete(c, p, forced)
  PROVE  \E n \in CallRecords : CallOK(n) /\ Goto(c, n) /\ Asked(c, n.kind) /\ Begun(n)
<1> DEFINE m == Request("delete")
           n == [m EXCEPT !.pc = "disassociate_tasks", !.id = p, !.left = {p} \cup Below(p)]
<1>1. p \in Existing /\ Goto(c, n) /\ Asked(c, "delete")
  BY DEF Delete
<1>2. m \in CallRecords /\ m.kind = "delete" /\ m.target = <<>> /\ m.depth = 0
  BY RequestFields DEF RequestKinds
<1>3. {p} \cup Below(p) \in SUBSET Projects
  BY DEF Below, Existing
<1> HIDE DEF m
<1>4. /\ n \in CallRecords /\ n.pc = "disassociate_tasks" /\ n.id = p /\ n.kind = "delete"
      /\ n.left = {p} \cup Below(p) /\ n.target = <<>> /\ n.depth = 0
  BY <1>2, <1>3 DEF CallRecords, Steps
<1> HIDE DEF n
<1>5. CallOK(n)
  BY <1>4, EmptySeq, NoneIsNothing DEF CallOK, RequestKinds
<1> QED
  BY <1>1, <1>4, <1>5 DEF Begun

LEMMA AskBegins ==
  ASSUME TInv, NEW c \in Calls, Ask(c)
  PROVE  /\ UNCHANGED <<project, entity, torn>>
         /\ \E n \in CallRecords : CallOK(n) /\ Goto(c, n) /\ Asked(c, n.kind) /\ Begun(n)
<1>1. UNCHANGED <<project, entity, torn>>
  BY DEF Ask, Create, AttachByName, AttachById, Move, Rename, Merge, Delete
<1> QED
  BY <1>1, AskCreate, AskAttachByName, AskAttachById, AskMove, AskRename, AskMerge,
     AskDelete DEF Ask

LEMMA NextTInv ==
  ASSUME TInv, [Next]_vars
  PROVE  TInv'
<1>1. CASE UNCHANGED vars
  BY <1>1 DEF vars, TInv, CallOK
<1>2. ASSUME NEW c \in Calls, Ask(c)
      PROVE  TInv'
  <2>1. PICK n \in CallRecords : CallOK(n) /\ Goto(c, n)
    BY <1>2, AskBegins
  <2>2. UNCHANGED <<project, entity, torn>>
    BY <1>2, AskBegins
  <2> QED
    BY <2>1, <2>2, TLocal
<1>3. ASSUME NEW c \in Calls, HandleRequest(c)
      PROVE  TInv'
  BY <1>3, TFind, TSave, TUpdateBelow, TRename, TMerge, TOthers DEF HandleRequest
<1>4. CASE Kill
  <2>1. \A c \in Calls : call'[c] = NoCall
    BY <1>4 DEF Kill
  <2>2. call' \in [Calls -> CallRecords]
    BY <1>4, NoCallOK DEF Kill
  <2>3. torn' \in BOOLEAN /\ UNCHANGED <<project, entity>>
    BY <1>4 DEF Kill, TInv
  <2> QED
    BY <2>1, <2>2, <2>3, NoCallOK DEF TInv
<1> QED
  BY <1>1, <1>2, <1>3, <1>4 DEF Next

LEMMA InitTInv == Init => TInv
  BY NoCallOK DEF Init, TInv

LEMMA AlwaysTInv == Spec => []TInv
<1> QED
  BY InitTInv, NextTInv, PTL DEF Spec

(* Every handler finds in the documents, and in what it keeps of them, what *)
(* it expects, whichever requests overlap, merges too: a subtree is written *)
(* with the document that was read and the one it becomes.                 *)
THEOREM TypeCorrect == Spec => []TypeOK
<1>1. TInv => TypeOK
  <2> SUFFICES ASSUME TInv PROVE TypeOK
    OBVIOUS
  <2>1. project \in [Projects -> Documents \cup {None}]
    BY DEF TInv, NDocs
  <2>2. ASSUME NEW c \in Calls, NEW r, r = call[c]
        PROVE  /\ r.pc \in Steps /\ r.kind \in RequestKinds \cup {None}
               /\ r.id \in Projects \cup Entities \cup {None}
               /\ r.moved \in Projects \cup {None}
               /\ r.target \in Seq(Segments) /\ r.depth \in 0..Len(r.target)
               /\ r.under \in Documents /\ {r.read, r.new} \subseteq Documents \cup {None}
               /\ r.left \subseteq Projects /\ DOMAIN r.below \subseteq Projects
               /\ DOMAIN r.todo \subseteq Projects
               /\ r.below \in DocsOf(DOMAIN r.below) /\ r.todo \in DocsOf(DOMAIN r.todo)
    <3>1. r \in CallRecords /\ CallOK(r)
      BY <2>2 DEF TInv
    <3>2. r.below \in Reads /\ r.todo \in Reads
      BY <3>1 DEF CallRecords
    <3>3. \A f \in Reads : DOMAIN f \subseteq Projects /\ f \in DocsOf(DOMAIN f)
      BY ReadsOK DEF DocsOf, NDocs
    <3>4. r.depth \in Nat /\ r.depth <= Len(r.target) /\ r.target \in Seq(Segments)
      BY <3>1 DEF CallRecords, CallOK
    <3>5. r.depth \in 0..Len(r.target)
      BY <3>4, ElementsOf
    <3> QED
      BY <3>1, <3>2, <3>3, <3>4, <3>5 DEF CallRecords, NDocs
  <2> QED
    BY <2>1, <2>2 DEF TypeOK, TInv
<1> QED
  BY <1>1, AlwaysTInv, PTL
(***************************************************************************)
(* Which requests run beside each other.                                   *)
(***************************************************************************)
MovesAlone == \A c \in Calls : Serves[c] \cap Overlapping \subseteq {"create", "attach"}

Beside ==
  /\ \A c \in Calls : call[c] # NoCall => call[c].kind \in Serves[c]
  /\ \A c, d \in Calls :
       c # d /\ call[c] # NoCall /\ call[d] # NoCall =>
         {call[c].kind, call[d].kind} \subseteq Overlapping

(* The same request, later on.                                             *)
Follows(n, r) ==
  /\ n.kind = r.kind /\ n.id = r.id
  /\ n.pc # "merge_tasks" /\ (n.pc = "merge_models" => r.pc = "merge_tasks")

LEMMA ReachedKind ==
  ASSUME NEW r \in CallRecords, CallOK(r), r.pc \in {"find", "save"}, NEW place \in Documents
  PROVE  Reached(r, place) = NoCall \/ Follows(Reached(r, place), r)
<1>1. Located(r, place) = NoCall \/ Follows(Located(r, place), r)
  BY LocatedOK DEF Follows
<1>2. Follows([r EXCEPT !.pc = "save", !.under = place], r)
  BY DEF CallRecords, Follows
<1> QED
  BY <1>1, <1>2 DEF Reached

LEMMA DescendingKind ==
  ASSUME NEW r \in CallRecords, NEW left
  PROVE  \/ Descending(r, left) = NoCall
         \/ Follows(Descending(r, left), r) /\ Descending(r, left).pc # "merge_models"
<1>1. \A n \in {[r EXCEPT !.pc = "descend", !.left = left],
                [r EXCEPT !.pc = "merge", !.left = {}]} : Follows(n, r) /\ n.pc # "merge_models"
  BY DEF CallRecords, Follows
<1> QED
  BY <1>1 DEF Descending

(* A handler goes on with its own request, until it ends.                  *)
Continues(c) ==
  /\ \A d \in Calls \ {c} : call'[d] = call[d]
  /\ call'[c] = NoCall \/ Follows(call'[c], call[c])

LEMMA GoesOn ==
  ASSUME TInv, NEW c \in Calls, NEW n, n = NoCall \/ Follows(n, call[c]), Goto(c, n)
  PROVE  Continues(c)
  BY DEF TInv, Continues, Goto

LEMMA EndsHere ==
  ASSUME TInv, NEW c \in Calls, Ends(c)
  PROVE  Continues(c)
  BY DEF TInv, Continues, Ends

LEMMA RepositionContinues ==
  ASSUME TInv, NEW c \in Calls, NEW r \in CallRecords, r.kind = call[c].kind,
         r.id = call[c].id, r.read \in NDocs, NEW left, Reposition(c, r, left)
  PROVE  Continues(c)
<1> DEFINE new == DocAt(r.under, Last(r.read.name))
           m == [r EXCEPT !.new = new]
<1>1. new \in NDocs
  BY NewOK DEF CallRecords
<1> HIDE DEF new
<1>2. m \in CallRecords /\ m.kind = r.kind /\ m.id = r.id
  BY <1>1 DEF CallRecords
<1>3. Ends(c) \/ Goto(c, Descending(m, left))
  BY DEF Reposition, new
<1> HIDE DEF m
<1>4. Descending(m, left) = NoCall \/ Follows(Descending(m, left), call[c])
  BY <1>2, DescendingKind DEF Follows
<1> QED
  BY <1>3, <1>4, GoesOn, EndsHere

LEMMA HandlerContinues ==
  ASSUME TInv, NEW c \in Calls, HandleRequest(c)
  PROVE  call[c] # NoCall /\ Continues(c)
<1> DEFINE r == call[c]
<1>1. r \in CallRecords /\ CallOK(r)
  BY DEF TInv
<1>2. r # NoCall
  BY NoCallOK DEF HandleRequest, Find, SaveNew, Attach, MoveProject, UpdateBelow, RenameProject,
     ReadChildren, MergeEntities, ReadDirect, MergeChild, DropSource, Disassociate,
     DeleteProjects
<1> SUFFICES Continues(c)
  BY <1>2
<1>3. CASE Ends(c)
  BY <1>3, EndsHere
<1>4. CASE Find(c)
  <2>1. ASSUME NEW place \in Documents, Goto(c, Reached(r, place)) PROVE Continues(c)
    BY <1>1, <1>4, <2>1, ReachedKind, GoesOn DEF Find
  <2>2. CASE Goto(c, [r EXCEPT !.depth = @ - 1])
    <3>1. Follows([r EXCEPT !.depth = @ - 1], r)
      BY <1>1, <1>4 DEF CallRecords, Follows, Find
    <3> QED
      BY <2>2, <3>1, GoesOn
  <2> QED
    BY <1>4, <2>1, <2>2, Finds
<1>5. CASE SaveNew(c)
  <2> DEFINE doc == DocAt(r.under, r.target[Len(r.under.name) + 1])
  <2>1. r.pc = "save" /\ doc \in Documents
    BY <1>1, <1>5, SavedDoc, NDocFields DEF SaveNew
  <2>2. ASSUME NEW p \in Projects, Goto(c, Reached(r, Under(p, doc)))
        PROVE  Continues(c)
    <3> HIDE DEF doc
    <3>1. Under(p, doc) \in Documents
      BY <2>1, UnderOK
    <3> QED
      BY <1>1, <2>1, <2>2, <3>1, ReachedKind, GoesOn
  <2> QED
    BY <1>3, <1>5, <2>2 DEF SaveNew
<1>6. CASE MoveProject(c)
  <2>1. r.read \in NDocs /\ Reposition(c, r, DOMAIN r.below)
    BY <1>1, <1>6 DEF MoveProject, CallOK, CallRecords
  <2> QED
    BY <1>1, <2>1, RepositionContinues
<1>7. CASE MergeChild(c)
  <2>1. PICK m \in CallRecords, left \in SUBSET Projects :
          m.kind = "merge" /\ m.id = r.id /\ m.read \in NDocs /\ Reposition(c, m, left)
    BY <1>7, MergesChild
  <2>2. r.kind = "merge"
    BY <1>1, <1>7 DEF MergeChild, CallOK
  <2> QED
    BY <2>1, <2>2, RepositionContinues
<1>8. CASE UpdateBelow(c)
  <2>1. ASSUME NEW left, Goto(c, Descending(r, left)) PROVE Continues(c)
    BY <1>1, <2>1, DescendingKind, GoesOn
  <2> QED
    BY <1>3, <1>8, <2>1 DEF UpdateBelow
<1>9. CASE ReadChildren(c)
  <2>1. Read(Below(r.id)) \in Reads
    BY BelowExists, ReadOK
  <2> DEFINE m == [r EXCEPT !.below = Read(Below(r.id))]
  <2>2. m \in CallRecords /\ m.kind = r.kind /\ m.id = r.id
    BY <1>1, <2>1 DEF CallRecords
  <2>3. Goto(c, Descending(m, Below(r.id)))
    BY <1>9 DEF ReadChildren
  <2> HIDE DEF m
  <2>4. Descending(m, Below(r.id)) = NoCall \/ Follows(Descending(m, Below(r.id)), r)
    BY <2>2, DescendingKind DEF Follows
  <2> QED
    BY <2>3, <2>4, GoesOn
<1>10. ASSUME NEW pc, pc \notin {"merge_tasks", "merge_models"}, Goto(c, [r EXCEPT !.pc = pc])
       PROVE  Continues(c)
  <2>1. Follows([r EXCEPT !.pc = pc], r)
    BY <1>1, <1>10 DEF CallRecords, Follows
  <2> QED
    BY <1>10, <2>1, GoesOn
<1>11. CASE ReadDirect(c)
  <2> DEFINE todo == Read({q \in Existing : project[q].parent = r.id})
  <2>1. Follows([r EXCEPT !.pc = "merge", !.todo = todo], r)
    BY <1>1 DEF CallRecords, Follows
  <2>2. Goto(c, [r EXCEPT !.pc = "merge", !.todo = todo])
    BY <1>11 DEF ReadDirect
  <2> QED
    BY <2>1, <2>2, GoesOn
<1>12. CASE RenameProject(c)
  BY <1>3, <1>10, <1>12 DEF RenameProject
<1>14. CASE MergeEntities(c)
  <2> DEFINE n == [r EXCEPT !.pc = IF @ = "merge_tasks" THEN "merge_models" ELSE "direct"]
  <2>1. Goto(c, n)
    BY <1>14 DEF MergeEntities
  <2>2. Follows(n, r)
    BY <1>1 DEF CallRecords, Follows
  <2> QED
    BY <2>1, <2>2, GoesOn
<1>15. CASE Disassociate(c)
  <2> DEFINE n == [r EXCEPT !.pc = IF @ = "disassociate_tasks" THEN "disassociate_models"
                                   ELSE "delete"]
  <2>1. Goto(c, n)
    BY <1>15 DEF Disassociate
  <2>2. Follows(n, r)
    BY <1>1 DEF CallRecords, Follows
  <2> QED
    BY <2>1, <2>2, GoesOn
<1>13. CASE Attach(c) \/ DropSource(c) \/ DeleteProjects(c)
  BY <1>3, <1>13 DEF Attach, DropSource, DeleteProjects
<1> QED
  BY <1>2, <1>4, <1>5, <1>6, <1>7, <1>8, <1>9, <1>11, <1>12, <1>13, <1>14, <1>15
  DEF HandleRequest

LEMMA NextBeside ==
  ASSUME TInv, Beside, [Next]_vars
  PROVE  Beside'
<1>1. CASE UNCHANGED vars
  BY <1>1 DEF vars, Beside
<1>2. ASSUME NEW c \in Calls, Ask(c)
      PROVE  Beside'
  <2>1. PICK n \in CallRecords : Goto(c, n) /\ Asked(c, n.kind)
    BY <1>2, AskBegins
  <2>2. \A d \in Calls : call'[d] = IF d = c THEN n ELSE call[d]
    BY <2>1 DEF Goto, TInv
  <2> QED
    BY <2>1, <2>2 DEF Beside, Asked
<1>3. ASSUME NEW c \in Calls, HandleRequest(c)
      PROVE  Beside'
  <2>1. call[c] # NoCall /\ Continues(c)
    BY <1>3, HandlerContinues
  <2> QED
    BY <2>1 DEF Beside, Continues, Follows
<1>4. CASE Kill
  BY <1>4 DEF Kill, Beside
<1> QED
  BY <1>1, <1>2, <1>3, <1>4 DEF Next

LEMMA InitBeside == Init => Beside
  BY DEF Init, Beside

(* A request that writes to a subtree, or deletes, runs with no other.      *)
LEMMA RunsAlone ==
  ASSUME MovesAlone, Beside, NEW c \in Calls, call[c] # NoCall,
         call[c].kind \notin {"create", "attach"}
  PROVE  \A d \in Calls \ {c} : call[d] = NoCall
  BY DEF MovesAlone, Beside

(***************************************************************************)
(* Entities.  A request that will put entities somewhere knows a project   *)
(* that is still there, and one that will remove projects has moved their  *)
(* entities before.                                                        *)
(***************************************************************************)
Keeps(r, there, where) ==
  /\ r.pc = "attach" => r.under.parent \in there \cup {None}
  /\ r.pc \in {"merge_tasks", "merge_models"} =>
       r.under.parent \in (there \cup {None}) \ {r.id}
  /\ r.kind = "merge" /\ r.pc # "merge_tasks" =>
       \A e \in Entities \ Archived : where[e] = r.id => r.pc = "merge_models" /\ e \in Models
  /\ r.pc \in {"disassociate_models", "delete"} =>
       \A e \in Entities : where[e] \in r.left => r.pc = "disassociate_models" /\ e \in Models

HInv ==
  /\ TInv
  /\ Beside
  /\ EntitiesAreHeld
  /\ \A c \in Calls : Keeps(call[c], Existing, entity)

LEMMA KeepsSimply ==
  ASSUME NEW r, CallOK(r), NEW there, NEW where,
         \/ r = NoCall \/ r.kind \in {"create", "move", "rename"}
         \/ r.kind = "attach" /\ r.pc # "attach"
         \/ r.kind = "delete" /\ r.pc \notin {"disassociate_models", "delete"}
  PROVE  Keeps(r, there, where)
<1>1. CASE r = NoCall
  <2>1. r.pc = "idle" /\ r.kind = None /\ None # "merge"
    BY <1>1, NoCallOK, NoneIsNothing DEF RequestKinds
  <2> QED
    BY <2>1 DEF Keeps
<1>2. CASE r # NoCall
  <2>1. /\ r.pc = "attach" => r.kind = "attach"
        /\ r.pc \in {"merge_tasks", "merge_models"} => r.kind = "merge"
        /\ r.pc \in {"disassociate_models", "delete"} => r.kind = "delete"
    BY DEF CallOK
  <2> QED
    BY <1>2, <2>1 DEF Keeps
<1> QED
  BY <1>1, <1>2

(* The other requests, when a handler or an ask leaves the entities and the *)
(* projects that are there, or when it runs alone.                         *)
LEMMA OthersKeep ==
  ASSUME HInv, NEW c \in Calls, NEW there, NEW where,
         \/ Existing \subseteq there /\ where = entity
         \/ \A d \in Calls \ {c} : call[d] = NoCall
  PROVE  \A d \in Calls \ {c} : Keeps(call[d], there, where)
<1>1. CASE Existing \subseteq there /\ where = entity
  BY <1>1 DEF HInv, Keeps
<1>2. CASE \A d \in Calls \ {c} : call[d] = NoCall
  BY <1>2, NoCallOK, KeepsSimply
<1> QED
  BY <1>1, <1>2

LEMMA HStep ==
  ASSUME HInv, TInv', Beside', NEW c \in Calls,
         \A d \in Calls \ {c} : call'[d] = call[d],
         \A d \in Calls \ {c} : Keeps(call[d], Existing', entity'),
         Keeps(call'[c], Existing', entity'), EntitiesAreHeld'
  PROVE  HInv'
<1>1. \A d \in Calls : Keeps(call'[d], Existing', entity')
  OBVIOUS
<1>2. \A d \in Calls : Keeps(call[d], Existing, entity)'
  BY <1>1 DEF Keeps
<1> QED
  BY <1>2 DEF HInv

LEMMA HKeep ==
  ASSUME HInv, TInv', Beside', NEW c \in Calls, \A d \in Calls \ {c} : call'[d] = call[d],
         Keeps(call'[c], Existing', entity'), Existing \subseteq Existing', entity' = entity
  PROVE  HInv'
<1>1. EntitiesAreHeld'
  BY DEF HInv, EntitiesAreHeld
<1>2. \A d \in Calls \ {c} : Keeps(call[d], Existing', entity')
  BY OthersKeep
<1> QED
  BY <1>1, <1>2, HStep

LEMMA HAsk ==
  ASSUME HInv, TInv', Beside', NEW c \in Calls, Ask(c)
  PROVE  HInv'
<1>1. PICK n \in CallRecords : CallOK(n) /\ Goto(c, n) /\ Begun(n)
  BY AskBegins DEF HInv
<1>2. UNCHANGED <<project, entity, torn>> /\ Existing' = Existing
  BY AskBegins DEF HInv, Existing
<1>3. call'[c] = n /\ \A d \in Calls \ {c} : call'[d] = call[d]
  BY <1>1 DEF Goto, HInv, TInv
<1>4. Keeps(n, Existing, entity)
  <2>1. CASE n.kind = "merge"
    <3>1. n.pc = "merge_tasks" /\ n.under.parent \in (Existing \cup {None}) \ {n.id}
      BY <1>1, <2>1 DEF Begun
    <3> QED
      BY <3>1 DEF Keeps
  <2>2. CASE n.kind = "attach" /\ n.pc = "attach"
    <3>1. n.under.parent \in Existing \cup {None}
      BY <1>1, <2>2 DEF Begun
    <3> QED
      BY <2>2, <3>1 DEF Keeps
  <2>3. CASE n.kind # "merge" /\ ~(n.kind = "attach" /\ n.pc = "attach")
    <3>1. \/ n.kind \in {"create", "move", "rename"}
          \/ n.kind = "attach" /\ n.pc # "attach"
          \/ n.kind = "delete" /\ n.pc \notin {"disassociate_models", "delete"}
      BY <1>1, <2>3 DEF Begun
    <3> QED
      BY <1>1, <3>1, KeepsSimply
  <2> QED
    BY <2>1, <2>2, <2>3
<1> QED
  BY <1>2, <1>3, <1>4, HKeep

(* Documents are written, and projects are made, but none is removed.      *)
LEMMA NothingRemoved ==
  ASSUME TInv, NEW c \in Calls,
         \/ Find(c) \/ SaveNew(c) \/ MoveProject(c) \/ UpdateBelow(c) \/ RenameProject(c)
         \/ ReadChildren(c) \/ ReadDirect(c) \/ MergeChild(c)
  PROVE  Existing \subseteq Existing' /\ entity' = entity
<1> DEFINE r == call[c]
<1>0. r \in CallRecords /\ CallOK(r)
  BY DEF TInv
<1>1. entity' = entity
  BY DEF Find, SaveNew, MoveProject, UpdateBelow, RenameProject, ReadChildren, ReadDirect,
         MergeChild
<1> SUFFICES Existing \subseteq Existing'
  BY <1>1
<1>2. ASSUME UNCHANGED project PROVE Existing \subseteq Existing'
  BY <1>2 DEF Existing
<1>3. ASSUME NEW p, NEW doc, project' = [project EXCEPT ![p] = doc],
             doc = None => project[p] = None
      PROVE  Existing \subseteq Existing'
  BY <1>3 DEF Existing, TInv
<1>4. CASE Find(c) \/ ReadChildren(c) \/ ReadDirect(c)
  BY <1>2, <1>4 DEF Find, ReadChildren, ReadDirect
<1>5. CASE SaveNew(c)
  <2> DEFINE doc == DocAt(r.under, r.target[Len(r.under.name) + 1])
  <2>1. doc \in NDocs /\ doc # None
    BY <1>0, <1>5, SavedDoc, NDocFields DEF SaveNew
  <2> HIDE DEF doc
  <2>2. UNCHANGED project \/ \E p \in Projects : project' = [project EXCEPT ![p] = doc]
    BY <1>5 DEF SaveNew, doc
  <2> QED
    BY <1>2, <1>3, <2>1, <2>2
<1>6. ASSUME NEW m \in CallRecords, m.read \in NDocs, NEW left, Reposition(c, m, left)
      PROVE  Existing \subseteq Existing'
  <2> DEFINE new == DocAt(m.under, Last(m.read.name))
  <2>1. new # None
    BY <1>6, NewOK, NDocFields DEF CallRecords
  <2>2. UNCHANGED project \/ project' = [project EXCEPT ![m.moved] = new]
    BY <1>6 DEF Reposition
  <2> HIDE DEF new
  <2> QED
    BY <1>2, <1>3, <2>1, <2>2
<1>7. CASE MoveProject(c)
  <2>1. r.read \in NDocs /\ Reposition(c, r, DOMAIN r.below)
    BY <1>0, <1>7 DEF MoveProject, CallOK, CallRecords
  <2> QED
    BY <1>0, <1>6, <2>1
<1>8. CASE MergeChild(c)
  BY <1>6, <1>8, MergesChild
<1>9. CASE UpdateBelow(c)
  <2>1. /\ r.read # None /\ r.new # None /\ r.left \subseteq DOMAIN r.below
    BY <1>0, <1>9 DEF UpdateBelow, CallOK
  <2>2. ASSUME NEW q \in r.left, project' = [project EXCEPT ![q] = Rewritten(r, q)]
        PROVE  Existing \subseteq Existing'
    <3>1. q \in Projects /\ r.below[q] \in NDocs /\ r.read \in NDocs /\ r.new \in NDocs
      BY <1>0, <2>1, <2>2, ReadsOK DEF CallRecords
    <3>2. Rewritten(r, q) = None => project[q] = None
      BY <1>0, <3>1, RewrittenOK, NDocFields
    <3> QED
      BY <1>3, <2>2, <3>2
  <2> QED
    BY <1>2, <1>9, <2>2 DEF UpdateBelow
<1>10. CASE RenameProject(c)
  <2> DEFINE d == project[r.id]
             doc == IF d = None THEN None ELSE [d EXCEPT !.name = r.new.name]
  <2>1. UNCHANGED project \/ project' = [project EXCEPT ![r.id] = doc]
    BY <1>10 DEF RenameProject
  <2>2. r.id \in Projects /\ r.new \in NDocs
    BY <1>0, <1>10 DEF RenameProject, CallOK, CallRecords
  <2>3. d \in NDocs => [d EXCEPT !.name = r.new.name] \in NDocs
    BY <2>2 DEF NDocs, Documents
  <2>4. doc = None => d = None
    BY <2>2, <2>3, NDocFields DEF TInv
  <2> HIDE DEF doc
  <2> QED
    BY <1>2, <1>3, <2>1, <2>4
<1> QED
  BY <1>1, <1>4, <1>5, <1>7, <1>8, <1>9, <1>10

(* What an attach does when its place is found or made.                    *)
LEMMA AttachIsAt ==
  ASSUME TInv, TInv', NEW c \in Calls, call[c].kind = "attach", Find(c) \/ SaveNew(c)
  PROVE  Keeps(call'[c], Existing', entity')
<1> DEFINE r == call[c]
<1>1. r \in CallRecords /\ CallOK(r) /\ CallOK(call'[c])
  BY DEF TInv
<1>2. ASSUME r.pc \in {"find", "save"}, NEW place \in Documents, NEW k \in Nat,
             k <= Len(r.target), place.name = SubSeq(r.target, 1, k),
             place.parent \in Existing' \cup {None}, call'[c] = Reached(r, place)
      PROVE  Keeps(call'[c], Existing', entity')
  <2> DEFINE n == Reached(r, place)
  <2>1. n \in CallRecords /\ CallOK(n)
        /\ \/ n = NoCall
           \/ n.pc = "attach" /\ n.kind = "attach" /\ n.under = place
           \/ n.pc = "save" /\ n.kind = "attach"
    <3>1. n \in CallRecords /\ CallOK(n)
          /\ \/ n = Located(r, place)
             \/ n.pc = "save" /\ n.kind = r.kind
      BY <1>1, <1>2, ReachedOK
    <3>2. \/ Located(r, place) = NoCall
          \/ /\ Located(r, place).pc = "attach" /\ Located(r, place).kind = "attach"
             /\ Located(r, place).under = place
      BY <1>1, <1>2, LocatedOK
    <3> QED
      BY <3>1, <3>2
  <2> HIDE DEF n
  <2>2. CASE n.pc = "attach" /\ n.kind = "attach" /\ n.under = place
    BY <1>2, <2>2 DEF Keeps, n
  <2>3. CASE n = NoCall \/ (n.pc = "save" /\ n.kind = "attach")
    BY <1>2, <2>1, <2>3, KeepsSimply DEF n
  <2> QED
    BY <2>1, <2>2, <2>3
<1>3. CASE Find(c)
  <2>1. r.pc = "find" /\ Existing' = Existing
    BY <1>3, Finds DEF Existing
  <2>2. CASE r.depth > 0 /\ Goto(c, [r EXCEPT !.depth = @ - 1])
    <3>1. [r EXCEPT !.depth = @ - 1].pc = "find" /\ [r EXCEPT !.depth = @ - 1].kind = "attach"
      BY <1>1, <2>1 DEF CallRecords
    <3>2. call'[c] = [r EXCEPT !.depth = @ - 1]
      BY <2>2 DEF Goto, TInv
    <3> QED
      BY <1>1, <3>1, <3>2, KeepsSimply
  <2>3. ASSUME NEW place \in Documents, NEW k \in Nat, PlaceIn(place, project),
               k <= Len(r.target), place.name = SubSeq(r.target, 1, k),
               Goto(c, Reached(r, place))
        PROVE  Keeps(call'[c], Existing', entity')
    <3>1. place.parent \in Existing \cup {None}
      BY <2>3, PlaceOK DEF TInv, Existing
    <3>2. call'[c] = Reached(r, place)
      BY <2>3 DEF Goto, TInv
    <3> QED
      BY <1>2, <2>1, <2>3, <3>1, <3>2
  <2> QED
    BY <1>3, <2>2, <2>3, Finds
<1>4. CASE SaveNew(c)
  <2> DEFINE doc == DocAt(r.under, r.target[Len(r.under.name) + 1])
             k == Len(r.under.name) + 1
  <2>1. r.pc = "save"
    BY <1>4 DEF SaveNew
  <2>2. /\ doc \in NDocs /\ doc \in Documents /\ doc # None /\ k \in Nat /\ k <= Len(r.target)
        /\ doc.name = SubSeq(r.target, 1, k)
    BY <1>1, <2>1, SavedDoc, NDocFields
  <2>3. CASE Ends(c)
    <3>1. call'[c] = NoCall
      BY <2>3 DEF Ends, TInv
    <3> QED
      BY <3>1, NoCallOK, KeepsSimply
  <2>4. ASSUME NEW p \in Projects, project' = [project EXCEPT ![p] = doc],
               Goto(c, Reached(r, Under(p, doc)))
        PROVE  Keeps(call'[c], Existing', entity')
    <3> HIDE DEF doc, k
    <3>1. p \in Existing'
      BY <2>2, <2>4 DEF Existing, TInv
    <3>2. /\ Under(p, doc) \in Documents /\ Under(p, doc).parent = p
          /\ Under(p, doc).name = doc.name
      BY <2>2, UnderOK
    <3>3. call'[c] = Reached(r, Under(p, doc))
      BY <2>4 DEF Goto, TInv
    <3> QED
      BY <1>2, <2>1, <2>2, <3>1, <3>2, <3>3
  <2> QED
    BY <1>4, <2>3, <2>4 DEF SaveNew
<1> QED
  BY <1>3, <1>4

LEMMA HWrite ==
  ASSUME HInv, TInv', Beside', NEW c \in Calls,
         \/ Find(c) \/ SaveNew(c) \/ MoveProject(c) \/ UpdateBelow(c) \/ RenameProject(c)
         \/ ReadChildren(c) \/ ReadDirect(c) \/ MergeChild(c)
  PROVE  HInv'
<1> DEFINE r == call[c]
<1>1. TInv /\ r \in CallRecords /\ CallOK(r) /\ CallOK(call'[c]) /\ Keeps(r, Existing, entity)
  BY DEF HInv, TInv
<1>2. Existing \subseteq Existing' /\ entity' = entity
  BY <1>1, NothingRemoved
<1>3. Continues(c)
  BY <1>1, HandlerContinues DEF HandleRequest
<1>4. \A d \in Calls \ {c} : call'[d] = call[d]
  BY <1>3 DEF Continues
<1> SUFFICES Keeps(call'[c], Existing', entity')
  BY <1>2, <1>4, HKeep
<1>5. CASE call'[c] = NoCall
  BY <1>1, <1>5, KeepsSimply
<1>6. CASE call'[c] # NoCall /\ r.kind \in {"create", "move", "rename"}
  <2>1. call'[c].kind \in {"create", "move", "rename"}
    BY <1>3, <1>6 DEF Continues, Follows
  <2> QED
    BY <1>1, <2>1, KeepsSimply
<1>7. CASE r.kind = "attach"
  <2>1. Find(c) \/ SaveNew(c)
    BY <1>1, <1>7 DEF CallOK, MoveProject, UpdateBelow, RenameProject, ReadChildren, ReadDirect,
                      MergeChild
  <2> QED
    BY <1>1, <1>7, <2>1, AttachIsAt
<1>8. CASE call'[c] # NoCall /\ r.kind = "merge"
  <2>1. call'[c].kind = "merge" /\ call'[c].id = r.id /\ call'[c].pc # "merge_tasks"
        /\ (call'[c].pc = "merge_models" => r.pc = "merge_tasks")
    BY <1>3, <1>8 DEF Continues, Follows
  <2>2. call'[c].pc \notin {"attach", "disassociate_models", "delete"}
    BY <1>1, <2>1 DEF CallOK
  <2>3. r.pc \notin {"merge_tasks", "merge_models"}
    BY DEF Find, SaveNew, MoveProject, UpdateBelow, RenameProject, ReadChildren, ReadDirect,
           MergeChild
  <2>4. \A e \in Entities \ Archived : entity[e] # r.id
    BY <1>1, <1>8, <2>3 DEF Keeps
  <2> QED
    BY <1>2, <2>1, <2>2, <2>3, <2>4 DEF Keeps
<1>9. r.kind \in {"create", "move", "rename", "attach", "merge"}
  BY <1>1 DEF CallOK, Find, SaveNew, MoveProject, UpdateBelow, RenameProject, ReadChildren,
              ReadDirect, MergeChild
<1> QED
  BY <1>5, <1>6, <1>7, <1>8, <1>9

LEMMA HAttach ==
  ASSUME HInv, TInv', Beside', MovesAlone, NEW c \in Calls, Attach(c)
  PROVE  HInv'
<1> DEFINE r == call[c]
<1>1. r \in CallRecords /\ CallOK(r) /\ Keeps(r, Existing, entity) /\ r # NoCall
  BY NoCallOK DEF HInv, TInv, Attach
<1>2. Existing' = Existing /\ call'[c] = NoCall /\ \A d \in Calls \ {c} : call'[d] = call[d]
  BY DEF Attach, Ends, Existing, HInv, TInv
<1>3. r.under.parent \in Existing \cup {None} /\ r.id \in Entities
  BY <1>1 DEF Attach, Keeps, CallOK
<1>4. EntitiesAreHeld'
  BY <1>2, <1>3 DEF EntitiesAreHeld, Attach, HInv, TInv
<1>5. ASSUME NEW d \in Calls \ {c}
      PROVE  Keeps(call[d], Existing, entity')
  <2>1. call[d] = NoCall \/ call[d].kind \in {"create", "attach"}
    BY <1>1, RunsAlone DEF HInv
  <2>2. CallOK(call[d]) /\ Keeps(call[d], Existing, entity)
    BY DEF HInv, TInv
  <2>3. CASE call[d].kind = "attach" /\ call[d].pc = "attach"
    BY <2>2, <2>3 DEF Keeps
  <2>4. CASE ~(call[d].kind = "attach" /\ call[d].pc = "attach")
    <3>1. \/ call[d] = NoCall \/ call[d].kind \in {"create", "move", "rename"}
          \/ call[d].kind = "attach" /\ call[d].pc # "attach"
      BY <2>1, <2>4
    <3> QED
      BY <2>2, <3>1, KeepsSimply
  <2> QED
    BY <2>3, <2>4
<1>6. Keeps(call'[c], Existing', entity')
  BY <1>2, NoCallOK, KeepsSimply
<1> QED
  BY <1>2, <1>4, <1>5, <1>6, HStep

LEMMA HAlone ==
  ASSUME HInv, TInv', Beside', MovesAlone, NEW c \in Calls,
         MergeEntities(c) \/ Disassociate(c) \/ DropSource(c) \/ DeleteProjects(c)
  PROVE  HInv'
<1> DEFINE r == call[c]
<1>1. /\ r \in CallRecords /\ CallOK(r) /\ Keeps(r, Existing, entity) /\ r # NoCall
      /\ r.kind \in {"merge", "delete"}
  BY NoCallOK DEF HInv, TInv, CallOK, MergeEntities, Disassociate, DropSource, DeleteProjects
<1>2. \A d \in Calls \ {c} : call[d] = NoCall
  BY <1>1, RunsAlone DEF HInv
<1>3. \A d \in Calls \ {c} : Keeps(call[d], Existing', entity')
  BY <1>2, OthersKeep
<1>4. \A d \in Calls \ {c} : call'[d] = call[d]
  BY HandlerContinues DEF Continues, HandleRequest, HInv
<1>5. CASE MergeEntities(c)
  <2>1. /\ r.under.parent \in (Existing \cup {None}) \ {r.id} /\ r.kind = "merge"
        /\ Existing' = Existing /\ r.pc \in {"merge_tasks", "merge_models"}
    BY <1>1, <1>5 DEF Keeps, MergeEntities, CallOK, Existing
  <2>2. \A e \in Entities \ Archived :
          entity'[e] = IF entity[e] = r.id /\ e \in OfTurn(r) THEN r.under.parent ELSE entity[e]
    BY <1>5 DEF MergeEntities, HInv, TInv
  <2>3. EntitiesAreHeld'
    BY <2>1, <2>2 DEF EntitiesAreHeld, HInv
  <2>4. /\ call'[c].pc = IF r.pc = "merge_tasks" THEN "merge_models" ELSE "direct"
        /\ call'[c].id = r.id /\ call'[c].under = r.under
    BY <1>1, <1>5 DEF MergeEntities, Goto, HInv, TInv, CallRecords
  <2>5. \A e \in Entities \ Archived :
          entity'[e] = r.id => r.pc = "merge_tasks" /\ e \in Models
    BY <1>1, <2>1, <2>2 DEF OfTurn, Keeps
  <2>6. Keeps(call'[c], Existing', entity')
    BY <2>1, <2>4, <2>5 DEF Keeps
  <2> QED
    BY <1>3, <1>4, <2>3, <2>6, HStep
<1>6. CASE Disassociate(c)
  <2>1. /\ Existing' = Existing /\ r.left \subseteq Projects /\ None \notin r.left
        /\ r.pc \in {"disassociate_tasks", "disassociate_models"} /\ r.kind = "delete"
    BY <1>1, <1>6, NoneIsNothing DEF Disassociate, Existing, CallRecords, CallOK
  <2>2. \A e \in Entities :
          entity'[e] = IF e \in OfTurn(r) /\ entity[e] \in r.left THEN None ELSE entity[e]
    BY <1>6 DEF Disassociate, Disassociated
  <2>3. EntitiesAreHeld'
    BY <2>1, <2>2 DEF EntitiesAreHeld, HInv
  <2>4. /\ call'[c].pc = IF r.pc = "disassociate_tasks" THEN "disassociate_models" ELSE "delete"
        /\ call'[c].kind = "delete" /\ call'[c].left = r.left
    BY <1>1, <1>6, <2>1 DEF Disassociate, Goto, HInv, TInv, CallRecords
  <2>5. \A e \in Entities :
          entity'[e] \in r.left => r.pc = "disassociate_tasks" /\ e \in Models
    BY <1>1, <2>1, <2>2 DEF OfTurn, Keeps
  <2>6. Keeps(call'[c], Existing', entity')
    BY <2>4, <2>5 DEF Keeps
  <2> QED
    BY <1>3, <1>4, <2>3, <2>6, HStep
<1>7. CASE DropSource(c)
  <2>1. r.kind = "merge" /\ r.pc = "merge"
    BY <1>1, <1>7 DEF DropSource, CallOK
  <2>2. \A e \in Entities \ Archived : entity[e] # r.id
    BY <1>1, <2>1 DEF Keeps
  <2>3. Existing \ {r.id} \subseteq Existing' /\ entity' = entity
    BY <1>7 DEF DropSource, Existing, HInv, TInv
  <2>4. EntitiesAreHeld'
    BY <2>2, <2>3 DEF EntitiesAreHeld, HInv
  <2>5. call'[c] = NoCall
    BY <1>7 DEF DropSource, Ends, HInv, TInv
  <2>6. Keeps(call'[c], Existing', entity')
    BY <2>5, NoCallOK, KeepsSimply
  <2> QED
    BY <1>3, <1>4, <2>4, <2>6, HStep
<1>8. CASE DeleteProjects(c)
  <2>1. r.pc = "delete"
    BY <1>8 DEF DeleteProjects
  <2>2. \A e \in Entities : entity[e] \notin r.left
    BY <1>1, <2>1 DEF Keeps
  <2>3. Existing \ r.left \subseteq Existing' /\ entity' = entity
    BY <1>8 DEF DeleteProjects, Existing
  <2>4. EntitiesAreHeld'
    BY <2>2, <2>3 DEF EntitiesAreHeld, HInv
  <2>5. call'[c] = NoCall
    BY <1>8 DEF DeleteProjects, Ends, HInv, TInv
  <2>6. Keeps(call'[c], Existing', entity')
    BY <2>5, NoCallOK, KeepsSimply
  <2> QED
    BY <1>3, <1>4, <2>4, <2>6, HStep
<1> QED
  BY <1>5, <1>6, <1>7, <1>8

LEMMA NextHInv ==
  ASSUME HInv, MovesAlone, [Next]_vars
  PROVE  HInv'
<1>1. TInv' /\ Beside'
  BY NextTInv, NextBeside DEF HInv
<1>2. CASE UNCHANGED vars
  <2>1. Existing' = Existing /\ entity' = entity /\ call' = call
    BY <1>2 DEF vars, Existing
  <2>2. \A c \in Calls : Keeps(call[c], Existing, entity)'
    BY <2>1 DEF HInv, Keeps
  <2> QED
    BY <1>1, <2>1, <2>2 DEF HInv, EntitiesAreHeld
<1>3. ASSUME NEW c \in Calls, Ask(c) PROVE HInv'
  BY <1>1, <1>3, HAsk
<1>4. ASSUME NEW c \in Calls, HandleRequest(c) PROVE HInv'
  BY <1>1, <1>4, HWrite, HAttach, HAlone DEF HandleRequest
<1>5. CASE Kill
  <2>1. Existing' = Existing /\ entity' = entity /\ \A c \in Calls : call'[c] = NoCall
    BY <1>5 DEF Kill, Existing
  <2>2. \A c \in Calls : Keeps(call[c], Existing, entity)'
    BY <2>1, NoCallOK, KeepsSimply DEF Keeps
  <2> QED
    BY <1>1, <2>1, <2>2 DEF HInv, EntitiesAreHeld
<1> QED
  BY <1>2, <1>3, <1>4, <1>5 DEF Next

LEMMA InitHInv == Init => HInv
<1> SUFFICES ASSUME Init PROVE HInv
  OBVIOUS
<1>1. TInv /\ Beside
  BY InitTInv, InitBeside
<1>2. \A c \in Calls : Keeps(call[c], Existing, entity)
  BY NoCallOK, KeepsSimply DEF Init
<1> QED
  BY <1>1, <1>2 DEF Init, HInv, EntitiesAreHeld

(* No entity that is not archived is in a project that is gone: attaches   *)
(* race with each other and with creates, and merges and deletes, which    *)
(* run alone, move the entities before they remove the projects, wherever  *)
(* they are cut short (move_under_project, merge_project, delete_project). *)
THEOREM RequestsHoldEntities == MovesAlone => (Spec => []EntitiesAreHeld)
<1> SUFFICES ASSUME MovesAlone PROVE Spec => []EntitiesAreHeld
  OBVIOUS
<1>1. Init => HInv
  BY InitHInv
<1>2. HInv /\ [Next]_vars => HInv'
  BY NextHInv
<1>3. HInv => EntitiesAreHeld
  BY DEF HInv
<1> QED
  BY <1>1, <1>2, <1>3, PTL DEF Spec

(***************************************************************************)
(* The tree.  A document has the names and the ids of all the projects     *)
(* above it: what a document says of them is what they say of themselves.  *)
(***************************************************************************)
Trees == [Projects -> NDocs \cup {None}]

Ancestry(T, d) ==
  /\ Len(d.name) = Len(d.path) + 1
  /\ d.parent = IF Len(d.path) = 0 THEN None ELSE d.path[Len(d.path)]
  /\ \A i \in 1..Len(d.path) :
       /\ T[d.path[i]] # None
       /\ Len(T[d.path[i]].path) = i - 1
       /\ Begins(T[d.path[i]].path, d.path)
       /\ Begins(T[d.path[i]].name, d.name)

Tree(T) == \A p \in Projects : T[p] # None => Ancestry(T, T[p])

IsBelow(d, p) == \E i \in 1..Len(d.path) : d.path[i] = p

LEMMA AncestorAt ==
  ASSUME NEW T, NEW d, Ancestry(T, d), NEW i \in 1..Len(d.path)
  PROVE  /\ T[d.path[i]] # None /\ Len(T[d.path[i]].path) = i - 1
         /\ Begins(T[d.path[i]].path, d.path) /\ Begins(T[d.path[i]].name, d.name)
  BY DEF Ancestry

LEMMA BeginsAgain ==
  ASSUME NEW s, NEW t, NEW u, Len(s) \in Nat, Len(t) \in Nat, Len(u) \in Nat,
         Begins(s, t), Begins(t, u)
  PROVE  Begins(s, u)
<1>1. Len(s) <= Len(t) /\ Len(t) <= Len(u)
  BY DEF Begins
<1>2. ASSUME NEW j \in 1..Len(s)
      PROVE  s[j] = u[j]
  <2>1. j \in 1..Len(t)
    BY <1>1
  <2> QED
    BY <2>1 DEF Begins
<1>3. Len(s) <= Len(u)
  BY <1>1
<1> QED
  BY <1>2, <1>3 DEF Begins

LEMMA InRange ==
  ASSUME NEW S, NEW s \in Seq(S), NEW p
  PROVE  p \in Range(s) <=> \E i \in 1..Len(s) : s[i] = p
  BY ElementsOf DEF Range

LEMMA TreeFields ==
  ASSUME NEW T \in Trees, NEW p \in Projects, T[p] # None
  PROVE  /\ T[p] \in NDocs /\ T[p] \in Documents
         /\ T[p].path \in Seq(Projects) /\ T[p].name \in Seq(Segments)
         /\ Len(T[p].path) \in Nat /\ Len(T[p].name) \in Nat
  BY NDocFields, DocFields DEF Trees

(* The projects above a document are above those below it, too.            *)
LEMMA AboveAncestor ==
  ASSUME NEW T \in Trees, NEW d \in Documents, Ancestry(T, d), NEW i \in 1..Len(d.path),
         NEW p, IsBelow(T[d.path[i]], p)
  PROVE  IsBelow(d, p)
<1>1. d.path[i] \in Projects /\ T[d.path[i]] # None /\ Begins(T[d.path[i]].path, d.path)
  BY DocFields, ElementsOf DEF Ancestry
<1>2. Len(T[d.path[i]].path) \in Nat /\ Len(d.path) \in Nat
  BY <1>1, TreeFields, DocFields
<1>3. PICK j \in 1..Len(T[d.path[i]].path) : T[d.path[i]].path[j] = p
  BY DEF IsBelow
<1>4. j \in 1..Len(d.path) /\ d.path[j] = p
  BY <1>1, <1>2, <1>3 DEF Begins
<1> QED
  BY <1>4 DEF IsBelow

(* A document stays in its place while those above it stay in theirs.      *)
LEMMA AncestryKept ==
  ASSUME NEW T, NEW U, NEW d, Ancestry(T, d),
         \A i \in 1..Len(d.path) : U[d.path[i]] = T[d.path[i]]
  PROVE  Ancestry(U, d)
  BY Zenon DEF Ancestry

LEMMA TreeGrows ==
  ASSUME NEW T \in Trees, Tree(T), NEW p \in Projects, T[p] = None, NEW d \in NDocs,
         Ancestry(T, d), NEW U, U = [T EXCEPT ![p] = d]
  PROVE  Tree(U)
<1>1. \A x \in Projects : U[x] = IF x = p THEN d ELSE T[x]
  BY DEF Trees
<1>2. ASSUME NEW e \in Documents, Ancestry(T, e)
      PROVE  Ancestry(U, e)
  <2>1. ASSUME NEW i \in 1..Len(e.path)
        PROVE  U[e.path[i]] = T[e.path[i]]
    <3>1. e.path[i] \in Projects /\ T[e.path[i]] # None
      BY <1>2, DocFields, ElementsOf DEF Ancestry
    <3> QED
      BY <1>1, <3>1
  <2> QED
    BY <1>2, <2>1, AncestryKept
<1>3. ASSUME NEW x \in Projects, U[x] # None
      PROVE  Ancestry(U, U[x])
  <2>1. CASE x = p
    BY <1>1, <1>2, <2>1, NDocFields
  <2>2. CASE x # p
    BY <1>1, <1>2, <1>3, <2>2, TreeFields DEF Tree
  <2> QED
    BY <2>1, <2>2
<1> QED
  BY <1>3 DEF Tree

(* The place of a project and a part of a name make a document.            *)
LEMMA PlaceAncestry ==
  ASSUME NEW T \in Trees, Tree(T), NEW u, PlaceIn(u, T), NEW base \in Segments
  PROVE  Ancestry(T, DocAt(u, base)) /\ Len(u.name) = Len(u.path)
<1> DEFINE d == DocAt(u, base)
<1>1. u \in Documents
  BY PlaceOK DEF Trees
<1>2. d.name = Append(u.name, base) /\ d.parent = u.parent /\ d.path = u.path
  BY <1>1, DocAtOK
<1>3. /\ u.name \in Seq(Segments) /\ u.path \in Seq(Projects)
      /\ Len(u.name) \in Nat /\ Len(u.path) \in Nat
  BY <1>1, DocFields
<1>4. Len(d.name) = Len(u.name) + 1 /\ Begins(u.name, d.name)
  BY <1>2, <1>3, AppendElements
<1> HIDE DEF d
<1>5. CASE u = Root
  <2>1. Len(u.path) = 0 /\ Len(u.name) = 0 /\ u.parent = None
    BY <1>5, RootOK, EmptySeq
  <2> QED
    BY <1>2, <1>4, <2>1 DEF Ancestry, d
<1>6. ASSUME NEW q \in Projects, T[q] # None, u = Under(q, T[q])
      PROVE  Ancestry(T, d) /\ Len(u.name) = Len(u.path)
  <2> DEFINE a == T[q]
  <2>1. /\ a \in Documents /\ a.path \in Seq(Projects) /\ a.name \in Seq(Segments)
        /\ Len(a.path) \in Nat /\ Len(a.name) \in Nat /\ Ancestry(T, a)
    BY <1>6, TreeFields DEF Tree
  <2>2. u.parent = q /\ u.name = a.name /\ u.path = Append(a.path, q)
    BY <1>6, <2>1, UnderOK
  <2>3. Len(u.path) = Len(a.path) + 1 /\ Begins(a.path, u.path) /\ u.path[Len(a.path) + 1] = q
    BY <2>1, <2>2, AppendElements
  <2>4. Len(a.name) = Len(a.path) + 1
    BY <2>1 DEF Ancestry
  <2>5. ASSUME NEW i \in 1..Len(u.path)
        PROVE  /\ T[u.path[i]] # None
               /\ Len(T[u.path[i]].path) = i - 1
               /\ Begins(T[u.path[i]].path, u.path)
               /\ Begins(T[u.path[i]].name, u.name)
    <3>1. CASE i = Len(a.path) + 1
      <4>1. Len(a.path) = i - 1 /\ Begins(a.name, u.name)
        BY <2>1, <2>2, <3>1 DEF Begins
      <4> QED
        BY <1>6, <2>3, <3>1, <4>1
    <3>2. CASE i # Len(a.path) + 1
      <4>1. i \in 1..Len(a.path)
        BY <2>1, <2>3, <3>2
      <4>2. u.path[i] = a.path[i]
        BY <2>3, <4>1 DEF Begins
      <4>3. /\ a.path[i] \in Projects /\ T[a.path[i]] # None
            /\ Len(T[a.path[i]].path) = i - 1
            /\ Begins(T[a.path[i]].path, a.path)
            /\ Begins(T[a.path[i]].name, a.name)
        BY <2>1, <4>1, ElementsOf DEF Ancestry
      <4>4. Len(T[a.path[i]].path) \in Nat
        BY <4>3, TreeFields
      <4>5. Begins(T[a.path[i]].path, u.path)
        BY <1>3, <2>1, <2>3, <4>3, <4>4, BeginsAgain
      <4> QED
        BY <2>2, <4>2, <4>3, <4>5
    <3> QED
      BY <3>1, <3>2
  <2> HIDE DEF a
  <2>6. Len(d.name) = Len(d.path) + 1 /\ Len(u.name) = Len(u.path)
    BY <1>2, <1>4, <2>2, <2>3, <2>4
  <2>7. d.parent = IF Len(d.path) = 0 THEN None ELSE d.path[Len(d.path)]
    <3>1. Len(d.path) # 0 /\ d.path[Len(d.path)] = q
      BY <1>2, <2>1, <2>3
    <3> QED
      BY <1>2, <2>2, <3>1
  <2>8. ASSUME NEW i \in 1..Len(d.path)
        PROVE  /\ T[d.path[i]] # None
               /\ Len(T[d.path[i]].path) = i - 1
               /\ Begins(T[d.path[i]].path, d.path)
               /\ Begins(T[d.path[i]].name, d.name)
    <3>1. i \in 1..Len(u.path) /\ d.path[i] = u.path[i]
      BY <1>2
    <3>2. /\ T[u.path[i]] # None
          /\ Len(T[u.path[i]].path) = i - 1
          /\ Begins(T[u.path[i]].path, u.path)
          /\ Begins(T[u.path[i]].name, u.name)
      BY <2>5, <3>1
    <3>3. u.path[i] \in Projects /\ Len(T[u.path[i]].name) \in Nat /\ Len(d.name) \in Nat
      BY <1>3, <1>4, <3>1, <3>2, ElementsOf, TreeFields
    <3>4. Begins(T[u.path[i]].name, d.name)
      BY <1>3, <1>4, <3>2, <3>3, BeginsAgain
    <3> QED
      BY <1>2, <3>1, <3>2, <3>4
  <2> QED
    BY <2>6, <2>7, <2>8 DEF Ancestry
<1> QED
  BY <1>5, <1>6 DEF PlaceIn, d

(***************************************************************************)
(* What is below a project moves with it: the first k parts are replaced   *)
(* by those of its new place.                                              *)
(***************************************************************************)
Regrown(d, old, read, new) ==
  /\ d.parent = old.parent
  /\ Grafted(d.path, new.path, old.path, Len(read.path))
  /\ Grafted(d.name, new.name, old.name, Len(read.name))

LEMMA GraftBegins ==
  ASSUME NEW s, NEW t, NEW gs, NEW gt, NEW new, NEW k \in Nat,
         Len(s) \in Nat, Len(t) \in Nat, Len(gs) \in Nat, Len(gt) \in Nat, Len(new) \in Nat,
         k <= Len(s), Begins(s, t), Grafted(gs, new, s, k), Grafted(gt, new, t, k)
  PROVE  Begins(gs, gt)
<1>1. Len(s) <= Len(t) /\ Len(gs) = Len(new) + Len(s) - k /\ Len(gt) = Len(new) + Len(t) - k
  BY DEF Begins, Grafted
<1>2. Len(gs) <= Len(gt)
  BY <1>1
<1>3. ASSUME NEW j \in 1..Len(gs)
      PROVE  gs[j] = gt[j]
  <2>1. j \in 1..Len(gt)
    BY <1>2
  <2>2. /\ gs[j] = IF j <= Len(new) THEN new[j] ELSE s[j - Len(new) + k]
        /\ gt[j] = IF j <= Len(new) THEN new[j] ELSE t[j - Len(new) + k]
    BY <2>1 DEF Grafted
  <2>3. CASE j <= Len(new)
    BY <2>2, <2>3
  <2>4. CASE ~(j <= Len(new))
    <3>1. j - Len(new) + k \in 1..Len(s)
      BY <1>1, <2>4
    <3>2. s[j - Len(new) + k] = t[j - Len(new) + k]
      BY <3>1 DEF Begins
    <3> QED
      BY <2>2, <2>4, <3>2
  <2> QED
    BY <2>3, <2>4
<1> QED
  BY <1>2, <1>3 DEF Begins

LEMMA GraftOnto ==
  ASSUME NEW s, NEW g, NEW new, NEW k \in Nat,
         Len(s) \in Nat, Len(g) \in Nat, Len(new) \in Nat, k <= Len(s), Grafted(g, new, s, k)
  PROVE  Begins(new, g)
<1>1. Len(g) = Len(new) + Len(s) - k
  BY DEF Grafted
<1>2. Len(new) <= Len(g)
  BY <1>1
<1>3. ASSUME NEW j \in 1..Len(new)
      PROVE  new[j] = g[j]
  <2>1. j \in 1..Len(g) /\ j <= Len(new)
    BY <1>2
  <2> QED
    BY <2>1 DEF Grafted
<1> QED
  BY <1>2, <1>3 DEF Begins

(* A project below another has its path, and its name, as a beginning.     *)
LEMMA BelowBegins ==
  ASSUME NEW T \in Trees, NEW p \in Projects, NEW d \in Documents, Ancestry(T, d), IsBelow(d, p)
  PROVE  /\ T[p] # None /\ Len(T[p].path) + 1 \in 1..Len(d.path)
         /\ d.path[Len(T[p].path) + 1] = p
         /\ Begins(T[p].path, d.path) /\ Begins(T[p].name, d.name)
<1>1. PICK i \in 1..Len(d.path) : d.path[i] = p
  BY DEF IsBelow
<1>2. /\ T[p] # None /\ Len(T[p].path) = i - 1
      /\ Begins(T[p].path, d.path) /\ Begins(T[p].name, d.name)
  BY <1>1 DEF Ancestry
<1>3. Len(T[p].path) + 1 = i
  BY <1>1, <1>2
<1> QED
  BY <1>1, <1>2, <1>3

(* A subtree that has moved, with all that is below it.                    *)
Moved(T, U, p, new) ==
  /\ U[p] = new
  /\ \A x \in Projects \ {p} :
       IF T[x] # None /\ IsBelow(T[x], p)
       THEN U[x] # None /\ Regrown(U[x], T[x], T[p], new)
       ELSE U[x] = T[x]

LEMMA TreeMoves ==
  ASSUME NEW T \in Trees, NEW U \in Trees, Tree(T), NEW p \in Projects, T[p] # None,
         NEW new \in NDocs, Ancestry(T, new), ~IsBelow(new, p), Moved(T, U, p, new)
  PROVE  Tree(U)
<1> DEFINE k == Len(T[p].path)
           m == Len(new.path)
<1>1. new \in Documents /\ Len(new.path) \in Nat /\ Len(new.name) \in Nat
      /\ new.path \in Seq(Projects)
  BY NDocFields, DocFields
<1>2. T[p] \in Documents /\ Len(T[p].path) \in Nat /\ Len(T[p].name) \in Nat
      /\ Ancestry(T, T[p])
  BY TreeFields DEF Tree
<1>3. Len(T[p].name) = k + 1 /\ Len(new.name) = m + 1
  BY <1>2 DEF Ancestry
(* What is not below p stays where it is, and so does all that is above it. *)
<1>4. ASSUME NEW d \in Documents, Ancestry(T, d), ~IsBelow(d, p)
      PROVE  Ancestry(U, d)
  <2>1. ASSUME NEW i \in 1..Len(d.path)
        PROVE  U[d.path[i]] = T[d.path[i]]
    <3>1. d.path[i] \in Projects /\ d.path[i] # p
      BY <1>4, DocFields, ElementsOf DEF IsBelow
    <3>2. ~IsBelow(T[d.path[i]], p)
      BY <1>4, AboveAncestor
    <3> QED
      BY <3>1, <3>2 DEF Moved
  <2> QED
    BY <1>4, <2>1, AncestryKept
<1>5. Ancestry(U, new)
  BY <1>1, <1>4
(* What is below p.                                                        *)
<1>6. ASSUME NEW x \in Projects, x # p, T[x] # None, IsBelow(T[x], p)
      PROVE  Ancestry(U, U[x])
  <2> DEFINE d == T[x]
             e == U[x]
  <2>1. /\ d \in Documents /\ d.path \in Seq(Projects) /\ Ancestry(T, d)
        /\ Len(d.path) \in Nat /\ Len(d.name) \in Nat
    BY <1>6, TreeFields DEF Tree
  <2>2. e # None /\ Regrown(e, d, T[p], new)
    BY <1>6 DEF Moved
  <2>3. Len(e.path) \in Nat /\ Len(e.name) \in Nat
    BY <2>2, TreeFields
  <2>4. k + 1 \in 1..Len(d.path) /\ d.path[k + 1] = p /\ Begins(T[p].path, d.path)
        /\ Begins(T[p].name, d.name)
    BY <1>6, <2>1, BelowBegins
  <2>5. Len(d.name) = Len(d.path) + 1
        /\ d.parent = IF Len(d.path) = 0 THEN None ELSE d.path[Len(d.path)]
    BY <2>1 DEF Ancestry
  <2>6. /\ Grafted(e.path, new.path, d.path, k) /\ Grafted(e.name, new.name, d.name, k + 1)
        /\ e.parent = d.parent
    BY <1>3, <2>2 DEF Regrown
  <2> HIDE DEF d, e, k, m
  <2>7. k \in Nat /\ m \in Nat /\ Len(d.path) \in Nat
    BY <1>1, <1>2, <2>1 DEF k, m
  <2>8. /\ Len(e.path) = m + Len(d.path) - k
        /\ \A j \in 1..Len(e.path) : e.path[j] = IF j <= m THEN new.path[j] ELSE d.path[j - m + k]
        /\ Len(e.name) = (m + 1) + Len(d.name) - (k + 1)
    BY <1>3, <2>6 DEF Grafted, m
  <2>9. m + 1 \in 1..Len(e.path) /\ e.path[m + 1] = p
    <3>1. m + 1 \in 1..Len(e.path) /\ ~(m + 1 <= m) /\ m + 1 - m + k = k + 1
      BY <2>4, <2>7, <2>8
    <3>2. e.path[m + 1] = d.path[m + 1 - m + k]
      BY <2>7, <2>8, <3>1
    <3> QED
      BY <2>4, <3>1, <3>2
  <2>10. Len(e.name) = Len(e.path) + 1
    <3>1. /\ Len(e.name) = (m + 1) + Len(d.name) - (k + 1) /\ Len(d.name) = Len(d.path) + 1
          /\ Len(e.path) = m + Len(d.path) - k
      BY <2>5, <2>8
    <3>2. \A a, b, n \in Nat : (a + 1) + (n + 1) - (b + 1) = (a + n - b) + 1
      OBVIOUS
    <3>3. (m + 1) + (Len(d.path) + 1) - (k + 1) = (m + Len(d.path) - k) + 1
      BY <2>7, <3>2, Zenon
    <3> QED
      BY <3>1, <3>3, Zenon
  <2>11. e.parent = IF Len(e.path) = 0 THEN None ELSE e.path[Len(e.path)]
    <3>1. /\ Len(e.path) \in 1..Len(e.path) /\ ~(Len(e.path) <= m) /\ Len(e.path) # 0
          /\ Len(e.path) - m + k = Len(d.path) /\ Len(d.path) # 0
      BY <2>4, <2>7, <2>8
    <3>2. e.path[Len(e.path)] = d.path[Len(d.path)]
      BY <2>8, <3>1
    <3> QED
      BY <2>5, <2>6, <3>1, <3>2
  <2>12. Begins(new.path, e.path) /\ Begins(new.name, e.name)
    <3>1. k <= Len(d.path) /\ k + 1 <= Len(d.name) /\ k + 1 \in Nat
      BY <2>4, <2>5, <2>7
    <3>2. Begins(new.path, e.path)
      BY <1>1, <2>3, <2>6, <2>7, <3>1, GraftOnto
    <3>3. Begins(new.name, e.name)
      BY <1>1, <2>1, <2>3, <2>6, <2>7, <3>1, GraftOnto DEF d
    <3> QED
      BY <3>2, <3>3
  <2>13. ASSUME NEW j \in 1..Len(e.path)
         PROVE  /\ U[e.path[j]] # None
                /\ Len(U[e.path[j]].path) = j - 1
                /\ Begins(U[e.path[j]].path, e.path)
                /\ Begins(U[e.path[j]].name, e.name)
    <3>1. CASE j <= m
      <4> DEFINE a == new.path[j]
      <4>1. j \in 1..Len(new.path) /\ e.path[j] = a
        <5>1. e.path[j] = a
          BY <2>8, <3>1
        <5>2. j \in 1..Len(new.path)
          BY <2>3, <2>7, <3>1 DEF m
        <5> QED
          BY <5>1, <5>2
      <4>2. /\ a \in Projects /\ U[a] # None /\ Len(U[a].path) = j - 1
            /\ Begins(U[a].path, new.path) /\ Begins(U[a].name, new.name)
        BY <1>1, <1>5, <4>1, ElementsOf DEF Ancestry
      <4> HIDE DEF a
      <4>3. Len(U[a].path) \in Nat /\ Len(U[a].name) \in Nat
        BY <4>2, TreeFields
      <4>4. Begins(U[a].path, e.path)
        BY <1>1, <2>3, <2>12, <4>2, <4>3, BeginsAgain
      <4>5. Begins(U[a].name, e.name)
        BY <1>1, <2>3, <2>12, <4>2, <4>3, BeginsAgain
      <4> QED
        BY <4>1, <4>2, <4>4, <4>5
    <3>2. CASE j = m + 1
      <4>1. U[p] = new /\ new # None /\ Len(new.path) = j - 1
        BY <2>7, <3>2, NDocFields DEF Moved, m
      <4> QED
        BY <2>9, <2>12, <3>2, <4>1
    <3>3. CASE j > m + 1
      <4> DEFINE i == j - m + k
                 a == d.path[i]
      <4>1. i \in 1..Len(d.path) /\ i > k + 1 /\ ~(j <= m)
        <5>1. Len(e.path) = m + Len(d.path) - k
          BY <2>8
        <5> QED
          BY <2>7, <3>3, <5>1
      <4>2. e.path[j] = a
        BY <2>8, <4>1
      <4>3. /\ a \in Projects /\ T[a] # None /\ Len(T[a].path) = i - 1
            /\ Begins(T[a].path, d.path) /\ Begins(T[a].name, d.name)
        BY <2>1, <4>1, ElementsOf DEF Ancestry
      <4> HIDE DEF a, i
      <4>4. i \in Nat /\ j = i + m - k /\ j \in Nat
        BY <2>7, <4>1 DEF i
      <4>5. /\ Len(T[a].path) \in Nat /\ Len(T[a].name) \in Nat /\ Ancestry(T, T[a])
            /\ T[a] \in Documents
        BY <4>3, TreeFields DEF Tree
      <4>6. a # p
        BY <2>7, <4>1, <4>3, <4>4 DEF k
      <4>7. IsBelow(T[a], p)
        <5>1. k + 1 \in 1..Len(T[a].path)
          BY <2>7, <4>1, <4>3, <4>4
        <5>2. T[a].path[k + 1] = p
          BY <2>4, <4>3, <5>1 DEF Begins
        <5> QED
          BY <5>1, <5>2 DEF IsBelow
      <4>8. U[a] # None /\ Regrown(U[a], T[a], T[p], new)
        BY <4>3, <4>6, <4>7 DEF Moved
      <4>9. Len(U[a].path) \in Nat /\ Len(U[a].name) \in Nat
        BY <4>3, <4>8, TreeFields
      <4>10. Grafted(U[a].path, new.path, T[a].path, k)
             /\ Grafted(U[a].name, new.name, T[a].name, k + 1)
        BY <1>3, <4>8 DEF Regrown, k
      <4>11. Len(U[a].path) = j - 1
        <5>1. Len(U[a].path) = m + Len(T[a].path) - k
          BY <4>10 DEF Grafted, m
        <5> QED
          BY <2>7, <4>3, <4>4, <5>1
      <4>12. k <= Len(T[a].path) /\ k + 1 <= Len(T[a].name) /\ k + 1 \in Nat
        <5>1. Len(T[a].name) = Len(T[a].path) + 1
          BY <4>5 DEF Ancestry
        <5> QED
          BY <2>7, <4>1, <4>3, <4>4, <5>1
      <4>13. Begins(U[a].path, e.path)
        <5>1. /\ k \in Nat /\ Len(T[a].path) \in Nat /\ Len(d.path) \in Nat
              /\ Len(U[a].path) \in Nat /\ Len(e.path) \in Nat /\ Len(new.path) \in Nat
          BY <1>1, <2>3, <2>7, <4>5, <4>9
        <5>2. /\ k <= Len(T[a].path) /\ Begins(T[a].path, d.path)
              /\ Grafted(U[a].path, new.path, T[a].path, k) /\ Grafted(e.path, new.path, d.path, k)
          BY <2>6, <4>3, <4>10, <4>12
        <5> QED
          BY <5>1, <5>2, GraftBegins
      <4>14. Begins(U[a].name, e.name)
        <5>1. /\ k + 1 \in Nat /\ Len(T[a].name) \in Nat /\ Len(d.name) \in Nat
              /\ Len(U[a].name) \in Nat /\ Len(e.name) \in Nat /\ Len(new.name) \in Nat
          BY <1>1, <2>1, <2>3, <4>5, <4>9, <4>12
        <5>2. /\ k + 1 <= Len(T[a].name) /\ Begins(T[a].name, d.name)
              /\ Grafted(U[a].name, new.name, T[a].name, k + 1)
              /\ Grafted(e.name, new.name, d.name, k + 1)
          BY <2>6, <4>3, <4>10, <4>12
        <5> QED
          BY <5>1, <5>2, GraftBegins
      <4> QED
        BY <4>2, <4>8, <4>11, <4>13, <4>14
    <3> QED
      BY <2>7, <3>1, <3>2, <3>3
  <2>14. Ancestry(U, e)
    BY <2>10, <2>11, <2>13 DEF Ancestry
  <2> QED
    BY <2>14 DEF e
<1>7. ASSUME NEW x \in Projects, U[x] # None
      PROVE  Ancestry(U, U[x])
  <2>1. CASE x = p
    BY <1>5, <2>1 DEF Moved
  <2>2. CASE x # p /\ T[x] # None /\ IsBelow(T[x], p)
    BY <1>6, <2>2
  <2>3. CASE x # p /\ ~(T[x] # None /\ IsBelow(T[x], p))
    <3>1. U[x] = T[x]
      BY <2>3 DEF Moved
    <3>2. T[x] \in Documents /\ Ancestry(T, T[x]) /\ ~IsBelow(T[x], p)
      BY <1>7, <2>3, <3>1, TreeFields DEF Tree
    <3> QED
      BY <1>4, <3>1, <3>2
  <2> QED
    BY <2>1, <2>2, <2>3
<1> QED
  BY <1>7 DEF Tree

LEMMA TreeShrinks ==
  ASSUME NEW T \in Trees, Tree(T), NEW p \in Projects, NEW U,
         \A x \in Projects :
           U[x] = IF x = p \/ (T[x] # None /\ IsBelow(T[x], p)) THEN None ELSE T[x]
  PROVE  Tree(U)
<1>1. ASSUME NEW x \in Projects, U[x] # None
      PROVE  Ancestry(U, U[x])
  <2>1. U[x] = T[x] /\ ~IsBelow(T[x], p)
    BY <1>1
  <2>2. T[x] \in Documents /\ Ancestry(T, T[x])
    BY <1>1, <2>1, TreeFields DEF Tree
  <2>3. ASSUME NEW i \in 1..Len(T[x].path)
        PROVE  U[T[x].path[i]] = T[T[x].path[i]]
    <3>1. T[x].path[i] \in Projects /\ T[x].path[i] # p
      BY <2>1, <2>2, DocFields, ElementsOf DEF IsBelow
    <3>2. ~IsBelow(T[T[x].path[i]], p)
      BY <2>1, <2>2, AboveAncestor
    <3> QED
      BY <3>1, <3>2
  <2> QED
    BY <2>1, <2>2, <2>3, AncestryKept
<1> QED
  BY <1>1 DEF Tree

(* In a tree the three records of every project's place agree.             *)
LEMMA TreeIsPlaced ==
  ASSUME project \in Trees, Tree(project)
  PROVE  \A p \in Existing : IsPlaced(p)
<1> SUFFICES ASSUME NEW p \in Projects, project[p] # None PROVE IsPlaced(p)
  BY DEF Existing
<1> DEFINE d == project[p]
<1>1. /\ d \in Documents /\ d.path \in Seq(Projects) /\ d.name \in Seq(Segments)
      /\ Len(d.path) \in Nat /\ Len(d.name) \in Nat /\ Ancestry(project, d) /\ d.name # <<>>
  BY TreeFields, NDocFields DEF Tree
<1>2. /\ Len(d.name) = Len(d.path) + 1
      /\ d.parent = IF Len(d.path) = 0 THEN None ELSE d.path[Len(d.path)]
  BY <1>1 DEF Ancestry
<1>3. CASE Len(d.path) = 0
  <2>1. d.path = <<>> /\ d.parent = None /\ Len(d.name) = 1
    BY <1>1, <1>2, <1>3, EmptySeq
  <2> QED
    BY <2>1 DEF IsPlaced
<1>4. CASE Len(d.path) # 0
  <2> DEFINE q == d.path[Len(d.path)]
             a == project[q]
  <2>1. Len(d.path) \in 1..Len(d.path)
    BY <1>1, <1>4
  <2>2. /\ q \in Projects /\ q # None /\ d.parent = q /\ a # None
        /\ Len(a.path) = Len(d.path) - 1 /\ Begins(a.path, d.path) /\ Begins(a.name, d.name)
    BY <1>1, <1>2, <1>4, <2>1, ElementsOf, NoneIsNothing DEF Ancestry
  <2>3. /\ a.path \in Seq(Projects) /\ a.name \in Seq(Segments) /\ Len(a.path) \in Nat
        /\ Len(a.name) \in Nat /\ Len(a.name) = Len(a.path) + 1
    BY <2>2, TreeFields DEF Tree, Ancestry
  <2>4. d.path[Len(a.path) + 1] = q /\ Len(d.path) = Len(a.path) + 1
    BY <1>1, <2>2
  <2> HIDE DEF d, q, a
  <2>5. d.path = Append(a.path, q)
    <3> DEFINE t == Append(a.path, q)
    <3>1. /\ t \in Seq(Projects) /\ Len(t) = Len(a.path) + 1 /\ Begins(a.path, t)
          /\ t[Len(a.path) + 1] = q
      BY <2>2, <2>3, AppendElements
    <3> HIDE DEF t
    <3>2. ASSUME NEW j \in 1..Len(d.path)
          PROVE  d.path[j] = t[j]
      <4>1. CASE j = Len(a.path) + 1
        BY <2>4, <3>1, <4>1
      <4>2. CASE j # Len(a.path) + 1
        <5>1. j \in 1..Len(a.path)
          BY <2>3, <2>4, <4>2
        <5> QED
          BY <2>2, <3>1, <5>1 DEF Begins
      <4> QED
        BY <4>1, <4>2
    <3>3. Begins(d.path, t) /\ Len(d.path) = Len(t)
      BY <1>1, <2>4, <3>1, <3>2 DEF Begins
    <3>4. d.path = t
      BY <1>1, <3>1, <3>3, SameElements
    <3> QED
      BY <3>4 DEF t
  <2>6. Front(d.name) = a.name
    <3> DEFINE f == Front(d.name)
    <3>1. f \in Seq(Segments) /\ Len(f) = Len(d.name) - 1 /\ Begins(f, d.name)
      BY <1>1, FrontElements
    <3> HIDE DEF f
    <3>2. Len(f) = Len(a.name)
      BY <1>1, <1>2, <2>3, <2>4, <3>1
    <3>3. Begins(f, a.name)
      BY <2>2, <2>3, <3>1, <3>2 DEF Begins
    <3>4. f = a.name
      BY <2>3, <3>1, <3>2, <3>3, SameElements
    <3> QED
      BY <3>4 DEF f
  <2>7. q \in Existing
    BY <2>2 DEF Existing, a
  <2> QED
    BY <2>2, <2>5, <2>6, <2>7 DEF IsPlaced, d, a
<1> QED
  BY <1>3, <1>4

(***************************************************************************)
(* Names.  No two projects have one name; while a subtree moves, no name   *)
(* that is written to it is taken.                                         *)
(***************************************************************************)
UniqueNames(T) ==
  \A p, q \in Projects : T[p] # None /\ T[q] # None /\ T[p].name = T[q].name => p = q

NameIsFree(T, p, name) == \A q \in Projects \ {p} : T[q] # None => T[q].name # name

Bounded(T) == \A p \in Projects : T[p] # None => Len(T[p].name) <= MaxDepth

LEMMA UniqueWrite ==
  ASSUME NEW T \in Trees, UniqueNames(T), NEW p \in Projects, NEW d \in NDocs,
         NEW U, U = [T EXCEPT ![p] = d],
         NameIsFree(T, p, d.name)
  PROVE  UniqueNames(U)
<1>1. \A x \in Projects : U[x] = IF x = p THEN d ELSE T[x]
  BY DEF Trees
<1> QED
  BY <1>1 DEF UniqueNames, NameIsFree

LEMMA BoundedWrite ==
  ASSUME NEW T \in Trees, Bounded(T), NEW p \in Projects, NEW d, Len(d.name) <= MaxDepth,
         NEW U, U = [T EXCEPT ![p] = d]
  PROVE  Bounded(U)
<1>1. \A x \in Projects : U[x] = IF x = p THEN d ELSE T[x]
  BY DEF Trees
<1> QED
  BY <1>1 DEF Bounded

LEMMA NotTaken ==
  ASSUME NEW p, NEW name, ~Taken(p, name)
  PROVE  NameIsFree(project, p, name)
  BY DEF Taken, Named, Existing, NameIsFree

(* Two documents that are grafted to the same one are the same.            *)
LEMMA GraftInjective ==
  ASSUME NEW S, NEW s \in Seq(S), NEW t \in Seq(S), NEW b, NEW g, NEW new, NEW k \in Nat,
         Len(b) = k, Len(new) \in Nat, Len(g) \in Nat, k <= Len(s), k <= Len(t),
         Begins(b, s), Begins(b, t), Grafted(g, new, s, k), Grafted(g, new, t, k)
  PROVE  s = t
<1>1. Len(s) \in Nat /\ Len(t) \in Nat
  BY ElementsOf
<1>2. Len(g) = Len(new) + Len(s) - k /\ Len(g) = Len(new) + Len(t) - k
  BY DEF Grafted
<1>3. Len(s) = Len(t)
  BY <1>1, <1>2
<1>4. ASSUME NEW j \in 1..Len(s)
      PROVE  s[j] = t[j]
  <2>1. CASE j <= k
    <3>1. j \in 1..Len(b)
      BY <2>1
    <3> QED
      BY <3>1 DEF Begins
  <2>2. CASE ~(j <= k)
    <3> DEFINE i == j - k + Len(new)
    <3>1. i \in 1..Len(g) /\ ~(i <= Len(new)) /\ i - Len(new) + k = j
      BY <1>1, <1>2, <2>2
    <3> HIDE DEF i
    <3>2. g[i] = s[i - Len(new) + k] /\ g[i] = t[i - Len(new) + k]
      BY <3>1 DEF Grafted
    <3> QED
      BY <3>1, <3>2
  <2> QED
    BY <2>1, <2>2
<1>5. Begins(s, t)
  BY <1>1, <1>3, <1>4 DEF Begins
<1> QED
  BY <1>3, <1>5, SameElements

(***************************************************************************)
(* A request that has written its project and not yet all that is below:   *)
(* T is the tree as it was before, projects is what is there.              *)
(***************************************************************************)
Halfway(r, T, projects) ==
  /\ T \in Trees /\ Tree(T) /\ UniqueNames(T)
  /\ T[r.moved] = r.read /\ projects[r.moved] = r.new
  /\ Ancestry(T, r.new) /\ ~IsBelow(r.new, r.moved)
  /\ NameIsFree(T, r.moved, r.new.name)
  /\ r.kind = "rename" => r.new.path = r.read.path
  /\ Len(r.new.name) <= MaxDepth

Before(r, projects) ==
  [x \in Projects |-> IF x = r.moved THEN r.read
                      ELSE IF x \in DOMAIN r.below THEN r.below[x] ELSE projects[x]]

BelowIn(T, p) == {x \in Projects \ {p} : T[x] # None /\ IsBelow(T[x], p)}

FitsRead(r, to) ==
  \A x \in DOMAIN r.below : DepthOf(r.below[x]) - Len(r.read.path) + to <= MaxDepth

Descends(r, left, T, projects) ==
  /\ Halfway(r, T, projects)
  /\ T = Before(r, projects)
  /\ DOMAIN r.below = BelowIn(T, r.moved)
  /\ FitsRead(r, Len(r.new.path))
  /\ \A x \in DOMAIN r.below :
       IF x \in left THEN projects[x] = r.below[x]
       ELSE projects[x] # None /\ Regrown(projects[x], r.below[x], r.read, r.new)

(* What a project below was, and what it was below.                        *)
LEMMA BelowFacts ==
  ASSUME NEW r, NEW left, NEW T, NEW projects, Descends(r, left, T, projects),
         r.moved \in Projects,
         r.read \in NDocs, r.new \in NDocs, NEW q \in DOMAIN r.below
  PROVE  /\ q \in Projects /\ q # r.moved
         /\ T[q] = r.below[q] /\ T[q] # None /\ T[q] \in NDocs /\ T[q] \in Documents
         /\ IsBelow(T[q], r.moved) /\ Ancestry(T, T[q])
         /\ Begins(r.read.path, T[q].path) /\ Begins(r.read.name, T[q].name)
         /\ Len(T[q].path) \in Nat /\ Len(T[q].name) = Len(T[q].path) + 1
         /\ Len(r.read.path) \in Nat /\ Len(r.read.name) = Len(r.read.path) + 1
         /\ Len(r.read.path) + 1 <= Len(T[q].path)
         /\ Len(r.new.path) \in Nat /\ Len(r.new.name) = Len(r.new.path) + 1
         /\ T[q].path \in Seq(Projects) /\ T[q].name \in Seq(Segments)
<1>1. /\ Halfway(r, T, projects) /\ T = Before(r, projects)
      /\ DOMAIN r.below = BelowIn(T, r.moved)
  BY DEF Descends
<1>2. /\ T \in Trees /\ Tree(T) /\ T[r.moved] = r.read /\ Ancestry(T, r.new)
  BY <1>1 DEF Halfway
<1>3. q \in Projects /\ q # r.moved /\ T[q] # None /\ IsBelow(T[q], r.moved)
  BY <1>1 DEF BelowIn
<1>4. T[q] = r.below[q]
  BY <1>1, <1>3 DEF Before
<1>5. /\ T[q] \in NDocs /\ T[q] \in Documents /\ Ancestry(T, T[q]) /\ Len(T[q].path) \in Nat
      /\ T[q].path \in Seq(Projects) /\ T[q].name \in Seq(Segments)
  BY <1>2, <1>3, TreeFields DEF Tree
<1>6. /\ Len(T[r.moved].path) + 1 \in 1..Len(T[q].path)
      /\ Begins(T[r.moved].path, T[q].path) /\ Begins(T[r.moved].name, T[q].name)
  BY <1>2, <1>3, <1>5, BelowBegins
<1>7. /\ r.read # None /\ Len(r.read.path) \in Nat /\ Len(r.new.path) \in Nat
  BY NDocFields, DocFields
<1>8. /\ Len(r.read.name) = Len(r.read.path) + 1
      /\ Len(r.new.name) = Len(r.new.path) + 1
      /\ Len(T[q].name) = Len(T[q].path) + 1
  BY <1>2, <1>5, <1>7 DEF Tree, Ancestry
<1>9. Len(r.read.path) + 1 <= Len(T[q].path)
  BY <1>2, <1>5, <1>6
<1> QED
  BY <1>2, <1>3, <1>4, <1>5, <1>6, <1>7, <1>8, <1>9

(* The name of a project below grows from its old one.                     *)
LEMMA NameGrafted ==
  ASSUME NEW r, NEW left, NEW T, NEW projects, Descends(r, left, T, projects),
         r.moved \in Projects,
         r.read \in NDocs, r.new \in NDocs, NEW q \in DOMAIN r.below, NEW name,
         name = NameBelow(r, r.below[q])
  PROVE  /\ name \in Seq(Segments) /\ Len(name) \in Nat
         /\ Grafted(name, r.new.name, T[q].name, Len(r.read.name))
         /\ Len(name) = Len(r.new.path) + Len(T[q].name) - Len(r.read.path)
         /\ Begins(r.new.name, name)
<1> DEFINE s == T[q].name
           n == r.new.name
           k == Len(r.read.name)
<1>1. /\ T[q] = r.below[q] /\ s \in Seq(Segments) /\ Len(T[q].path) \in Nat
      /\ Len(s) = Len(T[q].path) + 1 /\ Len(r.read.path) \in Nat
      /\ k = Len(r.read.path) + 1 /\ Len(r.read.path) + 1 <= Len(T[q].path)
      /\ Len(r.new.path) \in Nat /\ Len(n) = Len(r.new.path) + 1
  BY BelowFacts
<1>2. n \in Seq(Segments)
  BY NDocFields, DocFields
<1>3. name = n \o SubSeq(s, k + 1, Len(s))
  BY <1>1 DEF NameBelow
<1> HIDE DEF s, n, k
<1>4. k \in Nat /\ k <= Len(s)
  <2>1. /\ Len(r.read.path) \in Nat /\ Len(T[q].path) \in Nat
        /\ k = Len(r.read.path) + 1 /\ Len(s) = Len(T[q].path) + 1
        /\ Len(r.read.path) + 1 <= Len(T[q].path)
    BY <1>1
  <2> QED
    BY <2>1
<1>5. /\ name \in Seq(Segments) /\ Begins(n, name) /\ Len(name) = Len(n) + Len(s) - k
      /\ \A j \in 1..Len(name) : name[j] = IF j <= Len(n) THEN n[j] ELSE s[j - Len(n) + k]
  <2>1. s \in Seq(Segments)
    BY <1>1
  <2>2. name \in Seq(Segments) /\ Begins(n, name) /\ Grafted(name, n, s, k)
    BY <1>2, <1>3, <1>4, <2>1, GraftElements
  <2> QED
    BY <2>2 DEF Grafted
<1>6. Grafted(name, n, s, k)
  BY <1>5 DEF Grafted
<1>7. Len(name) = Len(r.new.path) + Len(s) - Len(r.read.path)
  <2>1. \A a, b, l \in Nat : (a + 1) + (l + 1) - (b + 1) = a + (l + 1) - b
    OBVIOUS
  <2>2. (Len(r.new.path) + 1) + (Len(T[q].path) + 1) - (Len(r.read.path) + 1)
          = Len(r.new.path) + (Len(T[q].path) + 1) - Len(r.read.path)
    BY <1>1, <2>1, Zenon
  <2>3. /\ Len(name) = Len(n) + Len(s) - k /\ Len(n) = Len(r.new.path) + 1
        /\ Len(s) = Len(T[q].path) + 1 /\ k = Len(r.read.path) + 1
    BY <1>1, <1>5
  <2> QED
    BY <2>2, <2>3, Zenon
<1>8. Len(name) \in Nat
  BY <1>5, ElementsOf
<1> QED
  BY <1>5, <1>6, <1>7, <1>8 DEF n, s, k

LEMMA NoCollision ==
  ASSUME NEW r, NEW left, NEW T, NEW projects \in Trees, Descends(r, left, T, projects),
         r.moved \in Projects,
         r.read \in NDocs, r.new \in NDocs, NEW q \in DOMAIN r.below, q \in left,
         NEW z \in Projects \ {q}, projects[z] # None,
         projects[z].name = NameBelow(r, r.below[q])
  PROVE  FALSE
<1> DEFINE name == projects[z].name
           m == Len(r.new.path)
           k == Len(r.read.path)
           old == T[q].name
<1>1. /\ T \in Trees /\ Tree(T) /\ UniqueNames(T)
      /\ T[r.moved] = r.read /\ projects[r.moved] = r.new
      /\ \A x \in Projects \ {r.moved} : T[x] # None => T[x].name # r.new.name
  BY DEF Descends, Halfway, NameIsFree
<1>2. /\ q \in Projects /\ T[q] # None /\ Begins(r.read.name, old) /\ old \in Seq(Segments)
      /\ Len(T[q].path) \in Nat /\ Len(old) = Len(T[q].path) + 1
      /\ k \in Nat /\ m \in Nat /\ Len(r.read.name) = k + 1 /\ Len(r.new.name) = m + 1
      /\ k + 1 <= Len(T[q].path)
  BY BelowFacts
<1>3. /\ name \in Seq(Segments) /\ Len(name) \in Nat
      /\ Grafted(name, r.new.name, old, Len(r.read.name))
      /\ Len(name) = m + Len(old) - k
      /\ Begins(r.new.name, name)
  BY NameGrafted
<1>4. r.new.name \in Seq(Segments) /\ r.read.name \in Seq(Segments)
  BY NDocFields, DocFields
<1> HIDE DEF name, m, k, old
<1>5. Len(old) \in Nat /\ m + 2 <= Len(name)
  BY <1>2, <1>3
<1>6. CASE z = r.moved
  BY <1>1, <1>2, <1>3, <1>5, <1>6 DEF name
<1>7. CASE z # r.moved /\ z \in DOMAIN r.below /\ z \notin left
  <2>1. Regrown(projects[z], T[z], r.read, r.new)
    <3>1. T[z] = r.below[z]
      BY <1>7, BelowFacts
    <3>2. Regrown(projects[z], r.below[z], r.read, r.new)
      BY <1>7 DEF Descends
    <3> QED
      BY <3>1, <3>2
  <2>2. Grafted(name, r.new.name, T[z].name, Len(r.read.name))
    BY <2>1 DEF Regrown, name
  <2>3. /\ T[z] # None /\ T[z].name \in Seq(Segments) /\ Begins(r.read.name, T[z].name)
        /\ Len(T[z].path) \in Nat /\ Len(T[z].name) = Len(T[z].path) + 1
        /\ k + 1 <= Len(T[z].path)
    BY <1>7, BelowFacts DEF k
  <2>4. /\ k + 1 \in Nat /\ k + 1 <= Len(T[z].name) /\ k + 1 <= Len(old)
    BY <1>2, <2>3
  <2>5. old = T[z].name
    <3>1. Len(r.new.name) \in Nat
      BY <1>2
    <3> DEFINE s == T[z].name
               b == r.read.name
               g == r.new.name
               kk == k + 1
    <3>2. /\ s \in Seq(Segments) /\ kk \in Nat /\ Len(b) = kk /\ Len(g) \in Nat
          /\ kk <= Len(old) /\ kk <= Len(s) /\ Begins(b, old) /\ Begins(b, s)
          /\ Grafted(name, g, old, kk) /\ Grafted(name, g, s, kk)
      BY <1>2, <1>3, <2>2, <2>3, <2>4, <3>1
    <3> HIDE DEF s, b, g, kk
    <3>3. old = s
      BY <1>2, <1>3, <3>2, GraftInjective
    <3> QED
      BY <3>3 DEF s
  <2> QED
    BY <1>1, <1>2, <2>3, <2>5 DEF UniqueNames, old
<1>8. CASE z # r.moved /\ (z \in DOMAIN r.below => z \in left)
  <2>1. projects[z] = T[z]
    BY <1>8 DEF Descends, Before
  <2> DEFINE a == T[z].path[m + 1]
  <2>2. /\ T[z] # None /\ T[z].name = name /\ Ancestry(T, T[z]) /\ T[z].path \in Seq(Projects)
        /\ Len(T[z].path) \in Nat /\ Len(name) = Len(T[z].path) + 1
    BY <1>1, <2>1, TreeFields DEF Tree, Ancestry, name
  <2>3. m + 1 \in 1..Len(T[z].path) /\ (m + 1) - 1 = m
    BY <1>2, <1>5, <2>2
  <2>4. /\ a \in Projects /\ T[a] # None /\ Len(T[a].path) = m /\ Begins(T[a].name, name)
    <3>1. a \in Projects
      BY <2>2, <2>3, ElementsOf
    <3>2. T[a] # None /\ Len(T[a].path) = (m + 1) - 1 /\ Begins(T[a].name, T[z].name)
      <4> DEFINE i == m + 1
      <4>1. i \in 1..Len(T[z].path)
        BY <2>3
      <4> HIDE DEF i
      <4>2. T[T[z].path[i]] # None /\ Len(T[T[z].path[i]].path) = i - 1
            /\ Begins(T[T[z].path[i]].name, T[z].name)
        BY <2>2, <4>1, AncestorAt
      <4> QED
        BY <4>2 DEF i
    <3> QED
      BY <2>2, <2>3, <3>1, <3>2
  <2> HIDE DEF a
  <2>5. T[a].name \in Seq(Segments) /\ Len(T[a].name) = m + 1
    BY <1>1, <2>4, TreeFields DEF Tree, Ancestry
  <2>6. T[a].name = r.new.name
    <3>1. Len(T[a].name) = Len(r.new.name)
      BY <1>2, <2>5
    <3>2. Begins(T[a].name, r.new.name)
      BY <1>2, <1>3, <2>4, <2>5 DEF Begins
    <3> QED
      BY <1>4, <2>5, <3>1, <3>2, SameElements
  <2>7. a = r.moved /\ r.read.name = r.new.name /\ k = m
    BY <1>1, <2>4, <2>6 DEF k
  <2>8. Len(name) = Len(old)
    BY <1>2, <1>3, <1>5, <2>7
  <2>9. ASSUME NEW j \in 1..Len(name)
        PROVE  name[j] = old[j]
    <3>1. name[j] = IF j <= m + 1 THEN r.new.name[j] ELSE old[j - (m + 1) + (k + 1)]
      BY <1>2, <1>3 DEF Grafted
    <3>2. CASE j <= m + 1
      <4>1. j \in 1..Len(r.read.name)
        BY <1>2, <2>7, <3>2
      <4> QED
        BY <1>2, <2>7, <3>1, <3>2, <4>1 DEF Begins
    <3>3. CASE ~(j <= m + 1)
      <4>1. j - (m + 1) + (k + 1) = j
        BY <1>2, <2>7
      <4> QED
        BY <3>1, <3>3, <4>1
    <3> QED
      BY <3>2, <3>3
  <2>10. name = old
    <3>1. Begins(name, old)
      BY <1>5, <2>8, <2>9 DEF Begins
    <3> QED
      BY <1>2, <1>3, <2>8, <3>1, SameElements
  <2> QED
    BY <1>1, <1>2, <2>2, <2>10 DEF UniqueNames, old
<1> QED
  BY <1>6, <1>7, <1>8

(***************************************************************************)
(* What a request that is handled knows of the projects.  A lookup is at a *)
(* place that is there; a move holds the subtree as it was read, except    *)
(* that the lookup may have made projects below, when it ends there; while *)
(* a subtree is written there is the tree that was and the tree that comes.*)
(***************************************************************************)
Holds(r, P) == P[r.id] = r.read /\ \A x \in DOMAIN r.below : P[x] = r.below[x]

FitsLookup(r, P) ==
  /\ r.pc \in {"find", "save"} => Len(r.target) <= MaxDepth
  /\ r.pc = "save" => PlaceIn(r.under, P)

FitsMove(r, P) ==
  /\ r.kind = "move" /\ r.pc \in {"find", "save", "move"} =>
       /\ Holds(r, P) /\ FitsRead(r, Len(r.target)) /\ Len(r.target) < MaxDepth
       /\ \/ DOMAIN r.below = BelowIn(P, r.id)
          \/ r.pc = "save" /\ r.id \in Range(r.under.path)
  /\ r.pc = "move" =>
       PlaceIn(r.under, P) /\ r.under.name = r.target /\ r.id \notin Range(r.under.path)

FitsRename(r, P) ==
  r.pc = "rename" =>
    /\ P[r.id] = r.read
    /\ r.new.path = r.read.path /\ r.new.parent = r.read.parent
    /\ Len(r.new.name) = Len(r.read.name) /\ Begins(Front(r.read.name), r.new.name)

FitsWrite(r, P) ==
  /\ r.pc = "children" => Halfway(r, [P EXCEPT ![r.id] = r.read], P)
  /\ r.pc = "descend" => Descends(r, r.left, Before(r, P), P)

FitsDelete(r, P) == r.kind = "delete" => r.left = {r.id} \cup BelowIn(P, r.id)

Fits(r, P) ==
  FitsLookup(r, P) /\ FitsMove(r, P) /\ FitsRename(r, P) /\ FitsWrite(r, P) /\ FitsDelete(r, P)

Good ==
  /\ \A c \in Calls : Fits(call[c], project)
  /\ (\A c \in Calls : ~Tearing(c)) => Tree(project)
  /\ UniqueNames(project)
  /\ Bounded(project)

NoMerges == \A c \in Calls : "merge" \notin Serves[c]

SInv ==
  /\ TInv
  /\ Beside
  /\ ~torn => Good

(* Nothing is below itself.                                                *)
LEMMA NotBelowItself ==
  ASSUME NEW T \in Trees, Tree(T), NEW p \in Projects, T[p] # None
  PROVE  ~IsBelow(T[p], p)
<1> SUFFICES ASSUME IsBelow(T[p], p) PROVE FALSE
  OBVIOUS
<1>1. T[p] \in Documents /\ Ancestry(T, T[p]) /\ Len(T[p].path) \in Nat
  BY TreeFields DEF Tree
<1>2. Len(T[p].path) + 1 \in 1..Len(T[p].path)
  BY <1>1, BelowBegins
<1> QED
  BY <1>1, <1>2

LEMMA BelowIs ==
  ASSUME TInv, NEW p \in Projects, project[p] # None => ~IsBelow(project[p], p)
  PROVE  Below(p) = BelowIn(project, p)
<1>1. project \in Trees
  BY DEF TInv, Trees
<1>2. ASSUME NEW x \in Projects, project[x] # None
      PROVE  p \in Range(project[x].path) <=> IsBelow(project[x], p)
  <2>1. project[x].path \in Seq(Projects)
    BY <1>1, <1>2, TreeFields
  <2> QED
    BY <2>1, InRange DEF IsBelow
<1> QED
  BY <1>2 DEF Below, Existing, BelowIn

LEMMA FitsNothing ==
  ASSUME NEW P
  PROVE  Fits(NoCall, P)
<1>1. NoCall.pc = "idle" /\ NoCall.kind = None
  BY NoCallOK
<1>2. NoCall.kind # "move" /\ NoCall.kind # "delete"
  BY <1>1, NoneIsNothing DEF RequestKinds
<1> QED
  BY <1>1, <1>2 DEF Fits, FitsLookup, FitsMove, FitsRename, FitsWrite, FitsDelete

(* Creates and attaches go on when other projects are made.                *)
LEMMA FitsExtended ==
  ASSUME NEW r, CallOK(r), r.kind \in {"create", "attach"}, NEW P, NEW U, Fits(r, P),
         \A x \in Projects : P[x] # None => U[x] = P[x]
  PROVE  Fits(r, U)
<1>1. r.pc \notin {"move", "rename", "children", "descend"}
  BY DEF CallOK
<1>2. r.kind # "move" /\ r.kind # "delete"
  OBVIOUS
<1>3. PlaceIn(r.under, P) => PlaceIn(r.under, U)
  BY DEF PlaceIn
<1>4. FitsLookup(r, U)
  BY <1>3 DEF Fits, FitsLookup
<1> QED
  BY <1>1, <1>2, <1>4 DEF Fits, FitsMove, FitsRename, FitsWrite, FitsDelete

(* While a request is handled, or begins, the others are not in a subtree. *)
LEMMA OthersFit ==
  ASSUME TInv, Beside, Good, MovesAlone, NEW c \in Calls, call[c] # NoCall, NEW U,
         call[c].kind \in {"create", "attach"} =>
           \A x \in Projects : project[x] # None => U[x] = project[x]
  PROVE  \A d \in Calls \ {c} : Fits(call[d], U) /\ ~Tearing(d)
<1> SUFFICES ASSUME NEW d \in Calls \ {c} PROVE Fits(call[d], U) /\ ~Tearing(d)
  OBVIOUS
<1>1. CASE call[d] = NoCall
  BY <1>1, FitsNothing, NoCallOK DEF Tearing
<1>2. CASE call[d] # NoCall
  <2>1. call[c].kind \in {"create", "attach"} /\ call[d].kind \in {"create", "attach"}
    BY <1>2, RunsAlone
  <2>2. CallOK(call[d]) /\ Fits(call[d], project)
    BY DEF TInv, Good
  <2>3. Fits(call[d], U)
    BY <2>1, <2>2, FitsExtended
  <2>4. ~Tearing(d)
    BY <2>1, <2>2 DEF CallOK, Tearing
  <2> QED
    BY <2>3, <2>4
<1> QED
  BY <1>1, <1>2

(* What a request is to leave behind.                                      *)
Leaves(n, U) ==
  /\ Fits(n, U)
  /\ n.pc \notin {"children", "descend"} => Tree(U)
  /\ UniqueNames(U) /\ Bounded(U)

LEMMA GStep ==
  ASSUME TInv, Beside, Good, MovesAlone, NEW c \in Calls, call[c] # NoCall, Continues(c),
         call[c].kind \in {"create", "attach"} =>
           \A x \in Projects : project[x] # None => project'[x] = project[x],
         Leaves(call'[c], project')
  PROVE  Good'
<1>1. \A d \in Calls \ {c} : call'[d] = call[d]
  BY DEF Continues
<1>2. \A d \in Calls \ {c} : Fits(call[d], project')
  BY OthersFit
<1>3. \A d \in Calls : Fits(call'[d], project')
  BY <1>1, <1>2 DEF Leaves
<1>4. (\A d \in Calls : ~Tearing(d)') => Tree(project')
  BY DEF Tearing, Leaves
<1>5. UniqueNames(project') /\ Bounded(project')
  BY DEF Leaves
<1> QED
  BY <1>3, <1>4, <1>5 DEF Good

(* A request that is not in a subtree finds the projects a tree.           *)
LEMMA FindsATree ==
  ASSUME TInv, Beside, Good, MovesAlone, NEW c \in Calls, call[c] # NoCall, ~Tearing(c)
  PROVE  Tree(project) /\ UniqueNames(project) /\ Bounded(project) /\ project \in Trees
<1>1. \A d \in Calls \ {c} : ~Tearing(d)
  BY OthersFit
<1> QED
  BY <1>1 DEF Good, TInv, Trees

(* What is asked fits the projects as they are.                            *)
LEMMA BegunFits ==
  ASSUME TInv, Tree(project), Bounded(project), NEW n \in CallRecords, CallOK(n), Begun(n),
         n.kind # "merge"
  PROVE  Fits(n, project) /\ n.pc \notin {"children", "descend"}
<1>1. project \in Trees /\ MaxDepth \in Nat
  BY ProjectsAssumption DEF TInv, Trees
<1>2. CASE /\ n.kind \in {"create", "attach"} /\ n.pc = "find"
           /\ Named(n.target) # {} \/ Len(n.target) <= MaxDepth
  <2>1. Len(n.target) <= MaxDepth
    BY <1>2 DEF Named, Existing, Bounded
  <2> QED
    BY <1>2, <2>1 DEF Fits, FitsLookup, FitsMove, FitsRename, FitsWrite, FitsDelete
<1>3. CASE n.kind = "attach" /\ n.pc = "attach"
  BY <1>3 DEF Fits, FitsLookup, FitsMove, FitsRename, FitsWrite, FitsDelete
<1>4. CASE /\ n.kind = "move" /\ n.pc = "find" /\ n.target \in {<<>>} \cup Names
           /\ n.id \in Existing /\ n.read = project[n.id] /\ n.below = Read(Below(n.id))
           /\ FitsAt({n.id} \cup Below(n.id), Len(project[n.id].path), Len(n.target))
  <2>1. n.id \in Projects /\ project[n.id] # None /\ ~IsBelow(project[n.id], n.id)
    BY <1>1, <1>4, NotBelowItself DEF Existing
  <2>2. Below(n.id) = BelowIn(project, n.id)
    BY <2>1, BelowIs
  <2>3. /\ DOMAIN n.below = Below(n.id)
        /\ \A x \in DOMAIN n.below : n.below[x] = project[x]
    BY <1>4, BelowExists, ReadOK
  <2>4. Holds(n, project)
    BY <1>4, <2>3 DEF Holds
  <2>5. FitsRead(n, Len(n.target))
    BY <1>4, <2>3 DEF FitsRead, FitsAt
  <2>6. Len(n.target) < MaxDepth
    <3>1. DepthOf(project[n.id]) - Len(project[n.id].path) + Len(n.target) <= MaxDepth
      BY <1>4 DEF FitsAt
    <3>2. Len(project[n.id].path) \in Nat /\ Len(n.target) \in Nat
      BY <1>1, <2>1, TreeFields, ElementsOf DEF CallRecords
    <3> QED
      BY <1>1, <3>1, <3>2 DEF DepthOf
  <2>7. Len(n.target) <= MaxDepth
    BY <1>1, <2>6, ElementsOf DEF CallRecords
  <2> QED
    BY <1>4, <2>2, <2>3, <2>4, <2>5, <2>6, <2>7
    DEF Fits, FitsLookup, FitsMove, FitsRename, FitsWrite, FitsDelete
<1>5. CASE /\ n.kind = "rename" /\ n.pc = "rename"
           /\ n.id \in Existing /\ n.read = project[n.id] /\ n.new.parent = n.read.parent
           /\ n.new.path = n.read.path
           /\ \E base \in Segments : n.new.name = Append(Front(n.read.name), base)
  <2>1. PICK base \in Segments : n.new.name = Append(Front(n.read.name), base)
    BY <1>5
  <2>2. n.read.name \in Seq(Segments) /\ n.read.name # <<>> /\ Len(n.read.name) \in Nat
    BY <1>1, <1>5, TreeFields, NDocFields DEF Existing
  <2> DEFINE f == Front(n.read.name)
  <2>3. f \in Seq(Segments) /\ Len(f) = Len(n.read.name) - 1
    BY <2>2, FrontElements
  <2> HIDE DEF f
  <2>4. Len(Append(f, base)) = Len(f) + 1 /\ Begins(f, Append(f, base))
    BY <2>3, AppendElements
  <2>5. Len(n.new.name) = Len(n.read.name) /\ Begins(f, n.new.name)
    BY <2>1, <2>2, <2>3, <2>4 DEF f
  <2> QED
    BY <1>5, <2>5 DEF Fits, FitsLookup, FitsMove, FitsRename, FitsWrite, FitsDelete, f
<1>6. CASE /\ n.kind = "delete" /\ n.pc = "disassociate_tasks" /\ n.id \in Existing
           /\ n.left = {n.id} \cup Below(n.id)
  <2>1. n.id \in Projects /\ ~IsBelow(project[n.id], n.id)
    BY <1>1, <1>6, NotBelowItself DEF Existing
  <2>2. Below(n.id) = BelowIn(project, n.id)
    BY <2>1, BelowIs
  <2> QED
    BY <1>6, <2>2 DEF Fits, FitsLookup, FitsMove, FitsRename, FitsWrite, FitsDelete
<1> QED
  BY <1>2, <1>3, <1>4, <1>5, <1>6 DEF Begun

LEMMA GAsk ==
  ASSUME TInv, Beside, Good, MovesAlone, NoMerges, NEW c \in Calls, Ask(c)
  PROVE  Good' /\ torn' = torn
<1>1. PICK n \in CallRecords : CallOK(n) /\ Goto(c, n) /\ Asked(c, n.kind) /\ Begun(n)
  BY AskBegins
<1>2. UNCHANGED <<project, entity, torn>>
  BY AskBegins
<1>3. call'[c] = n /\ \A d \in Calls \ {c} : call'[d] = call[d]
  BY <1>1 DEF Goto, TInv
<1>4. n.kind # "merge"
  BY <1>1 DEF Asked, NoMerges
<1>5. \A d \in Calls : ~Tearing(d)
  <2> SUFFICES ASSUME NEW d \in Calls, Tearing(d) PROVE FALSE
    OBVIOUS
  <2>1. call[d] # NoCall
    BY NoCallOK DEF Tearing
  <2>2. CallOK(call[d]) /\ call[d].kind \in Serves[d]
    BY <2>1 DEF TInv, Beside
  <2>3. call[d].kind \notin {"create", "attach"}
    BY <2>2 DEF Tearing, CallOK
  <2>4. call[d].kind \in Overlapping
    BY <1>1, <2>1 DEF Asked
  <2> QED
    BY <2>2, <2>3, <2>4 DEF MovesAlone
<1>6. Tree(project) /\ Bounded(project)
  BY <1>5 DEF Good
<1>7. Fits(n, project)
  BY <1>1, <1>4, <1>6, BegunFits
<1>8. \A d \in Calls : Fits(call'[d], project')
  BY <1>2, <1>3, <1>7 DEF Good
<1> QED
  BY <1>2, <1>6, <1>8 DEF Good

(* A lookup that has found its place, or goes on from there.               *)
LEMMA ReachedFits ==
  ASSUME NEW r \in CallRecords, CallOK(r), r.pc \in {"find", "save"}, NEW P \in Trees,
         NEW place \in Documents, PlaceIn(place, P), NEW k \in Nat, k <= Len(r.target),
         place.name = SubSeq(r.target, 1, k), Len(r.target) <= MaxDepth,
         r.kind = "move" =>
           /\ Holds(r, P) /\ FitsRead(r, Len(r.target)) /\ Len(r.target) < MaxDepth
           /\ DOMAIN r.below = BelowIn(P, r.id) \/ r.id \in Range(place.path)
  PROVE  Fits(Reached(r, place), P) /\ Reached(r, place).pc \notin {"children", "descend"}
<1> DEFINE n == Reached(r, place)
<1>1. /\ n \in CallRecords /\ CallOK(n)
      /\ \/ n = Located(r, place) /\ place.name = r.target
         \/ /\ n.pc = "save" /\ n.under = place /\ n.kind = r.kind /\ n.id = r.id
            /\ n.moved = r.moved /\ n.read = r.read /\ n.below = r.below
            /\ n.target = r.target
  BY ReachedOK
<1>2. LET m == Located(r, place) IN
      \/ m = NoCall
      \/ r.kind = "attach" /\ m.pc = "attach" /\ m.kind = "attach"
      \/ /\ r.kind = "move" /\ m.pc = "move" /\ m.kind = "move" /\ m.under = place
         /\ m.id = r.id /\ m.read = r.read /\ m.below = r.below
         /\ m.target = r.target /\ r.id \notin Range(place.path)
  BY LocatedOK
<1> HIDE DEF n
<1>3. CASE n = NoCall
  BY <1>3, FitsNothing, NoCallOK DEF n
<1>4. CASE n.pc = "attach" /\ n.kind = "attach"
  BY <1>4 DEF n, Fits, FitsLookup, FitsMove, FitsRename, FitsWrite, FitsDelete
<1>5. CASE /\ r.kind = "move" /\ n.pc = "move" /\ n.kind = "move" /\ n.under = place
           /\ n.id = r.id /\ n.read = r.read /\ n.below = r.below
           /\ n.target = r.target /\ r.id \notin Range(place.path) /\ place.name = r.target
  <2>1. Holds(n, P) /\ FitsRead(n, Len(n.target)) /\ Len(n.target) < MaxDepth
    BY <1>5 DEF Holds, FitsRead
  <2>2. DOMAIN n.below = BelowIn(P, n.id)
    BY <1>5
  <2>3. FitsMove(n, P)
    BY <1>5, <2>1, <2>2 DEF FitsMove
  <2> QED
    BY <1>5, <2>3 DEF n, Fits, FitsLookup, FitsRename, FitsWrite, FitsDelete
<1>6. CASE /\ n.pc = "save" /\ n.under = place /\ n.kind = r.kind /\ n.id = r.id
           /\ n.read = r.read /\ n.below = r.below /\ n.target = r.target
  <2>1. FitsLookup(n, P)
    BY <1>6 DEF FitsLookup
  <2>2. CASE r.kind = "move"
    <3>1. Holds(n, P) /\ FitsRead(n, Len(n.target)) /\ Len(n.target) < MaxDepth
      BY <1>6, <2>2 DEF Holds, FitsRead
    <3>2. DOMAIN n.below = BelowIn(P, n.id) \/ n.id \in Range(n.under.path)
      BY <1>6, <2>2
    <3>3. FitsMove(n, P)
      BY <1>6, <3>1, <3>2 DEF FitsMove
    <3> QED
      BY <1>6, <2>1, <2>2, <3>3 DEF n, Fits, FitsRename, FitsWrite, FitsDelete
  <2>3. CASE r.kind # "move"
    <3>1. n.kind # "delete"
      BY <1>6 DEF CallOK
    <3> QED
      BY <1>6, <2>1, <2>3, <3>1 DEF n, Fits, FitsMove, FitsRename, FitsWrite, FitsDelete
  <2> QED
    BY <2>2, <2>3
<1> QED
  BY <1>1, <1>2, <1>3, <1>4, <1>5, <1>6 DEF n

LEMMA GFind ==
  ASSUME TInv, Beside, Good, MovesAlone, NEW c \in Calls, Find(c)
  PROVE  Good' /\ torn' = torn
<1> DEFINE r == call[c]
<1>1. r \in CallRecords /\ CallOK(r) /\ r.pc = "find" /\ UNCHANGED <<project, entity, torn>>
  BY Finds
<1>2. r # NoCall /\ ~Tearing(c) /\ Fits(r, project)
  BY <1>1, NoCallOK DEF Tearing, Good
<1>3. Tree(project) /\ UniqueNames(project) /\ Bounded(project) /\ project \in Trees
  BY <1>2, FindsATree
<1>4. Continues(c)
  BY HandlerContinues DEF HandleRequest
<1>5. Len(r.target) <= MaxDepth
  BY <1>1, <1>2 DEF Fits, FitsLookup
<1>6. r.kind = "move" =>
        /\ Holds(r, project) /\ FitsRead(r, Len(r.target)) /\ Len(r.target) < MaxDepth
        /\ DOMAIN r.below = BelowIn(project, r.id)
  BY <1>1, <1>2 DEF Fits, FitsMove
<1> SUFFICES Fits(call'[c], project)
  BY <1>1, <1>2, <1>3, <1>4, GStep DEF Leaves
<1>7. CASE Goto(c, [r EXCEPT !.depth = @ - 1])
  <2> DEFINE n == [r EXCEPT !.depth = @ - 1]
  <2>1. /\ n.pc = "find" /\ n.kind = r.kind /\ n.id = r.id /\ n.target = r.target
        /\ n.read = r.read /\ n.below = r.below
    BY <1>1 DEF CallRecords
  <2>2. call'[c] = n
    BY <1>7 DEF Goto, TInv
  <2> HIDE DEF n
  <2>3. n.kind # "delete"
    BY <1>1, <2>1 DEF CallOK
  <2>4. FitsMove(n, project)
    BY <1>6, <2>1 DEF FitsMove, Holds, FitsRead
  <2> QED
    BY <1>5, <2>1, <2>2, <2>3, <2>4 DEF Fits, FitsLookup, FitsRename, FitsWrite, FitsDelete
<1>8. ASSUME NEW place \in Documents, NEW k \in Nat, PlaceIn(place, project),
             k <= Len(r.target), place.name = SubSeq(r.target, 1, k),
             Goto(c, Reached(r, place))
      PROVE  Fits(call'[c], project)
  <2>1. call'[c] = Reached(r, place)
    BY <1>8 DEF Goto, TInv
  <2>2. Fits(Reached(r, place), project)
    BY <1>1, <1>3, <1>5, <1>6, <1>8, ReachedFits
  <2> QED
    BY <2>1, <2>2
<1> QED
  BY <1>7, <1>8, Finds
LEMMA GAttach ==
  ASSUME TInv, Beside, Good, MovesAlone, NEW c \in Calls, Attach(c) \/ Disassociate(c)
  PROVE  Good' /\ torn' = torn
<1> DEFINE r == call[c]
<1>1. r \in CallRecords /\ CallOK(r)
      /\ r.pc \in {"attach", "disassociate_tasks", "disassociate_models"}
      /\ project' = project /\ torn' = torn
  BY DEF TInv, Attach, Disassociate
<1>2. r # NoCall /\ ~Tearing(c) /\ Fits(r, project)
  BY <1>1, NoCallOK DEF Tearing, Good
<1>3. Tree(project) /\ UniqueNames(project) /\ Bounded(project)
  BY <1>2, FindsATree
<1>4. Continues(c)
  BY HandlerContinues DEF HandleRequest
<1> SUFFICES Fits(call'[c], project)
  BY <1>1, <1>2, <1>3, <1>4, GStep DEF Leaves
<1>5. CASE Attach(c)
  <2>1. call'[c] = NoCall
    BY <1>5 DEF Attach, Ends, TInv
  <2> QED
    BY <2>1, FitsNothing
<1>6. CASE Disassociate(c)
  <2> DEFINE n == [r EXCEPT !.pc = IF @ = "disassociate_tasks" THEN "disassociate_models"
                                   ELSE "delete"]
  <2>1. /\ n.pc \in {"disassociate_models", "delete"}
        /\ n.kind = r.kind /\ n.id = r.id /\ n.left = r.left
    BY <1>1 DEF CallRecords
  <2>2. call'[c] = n /\ r.kind = "delete"
    BY <1>1, <1>6 DEF Disassociate, Goto, TInv, CallOK
  <2> HIDE DEF n
  <2>3. FitsDelete(n, project)
    BY <1>2, <2>1, <2>2 DEF Fits, FitsDelete
  <2> QED
    BY <2>1, <2>2, <2>3 DEF Fits, FitsLookup, FitsMove, FitsRename, FitsWrite
<1> QED
  BY <1>5, <1>6

(* What a move holds is still so when a project is made on its way.        *)
LEMMA StillHeld ==
  ASSUME NEW r \in CallRecords, r.read # None, NEW T \in Trees, NEW p \in Projects, T[p] = None,
         NEW doc \in NDocs, NEW U, U = [T EXCEPT ![p] = doc], Holds(r, T),
         DOMAIN r.below = BelowIn(T, r.id) \/ r.id \in Range(doc.path)
  PROVE  /\ Holds(r, U)
         /\ DOMAIN r.below = BelowIn(U, r.id) \/ r.id \in Range(doc.path)
<1>1. \A x \in Projects : U[x] = IF x = p THEN doc ELSE T[x]
  BY DEF Trees
<1>2. /\ DOMAIN r.below \subseteq Projects
      /\ \A x \in DOMAIN r.below : r.below[x] \in NDocs /\ r.below[x] # None
  BY ReadsOK, NDocFields DEF CallRecords
<1>3. \A x : x # p => U[x] = T[x]
  BY DEF Trees
<1>4. T[p] # r.read
  OBVIOUS
<1>5. Holds(r, U)
  BY <1>2, <1>3, <1>4 DEF Holds
<1>6. CASE r.id \in Range(doc.path)
  BY <1>5, <1>6
<1>7. CASE r.id \notin Range(doc.path)
  <2>1. ~IsBelow(doc, r.id)
    <3>1. doc.path \in Seq(Projects)
      BY NDocFields, DocFields
    <3> QED
      BY <1>7, <3>1, InRange DEF IsBelow
  <2>2. BelowIn(U, r.id) = BelowIn(T, r.id)
    BY <1>1, <2>1 DEF BelowIn
  <2> QED
    BY <1>5, <1>7, <2>2
<1> QED
  BY <1>6, <1>7

LEMMA GSave ==
  ASSUME TInv, Beside, Good, MovesAlone, NEW c \in Calls, SaveNew(c)
  PROVE  Good' /\ torn' = torn
<1> DEFINE r == call[c]
           doc == DocAt(r.under, r.target[Len(r.under.name) + 1])
           k == Len(r.under.name) + 1
<1>1. r \in CallRecords /\ CallOK(r) /\ r.pc = "save" /\ torn' = torn
  BY DEF TInv, SaveNew
<1>2. r # NoCall /\ ~Tearing(c) /\ Fits(r, project)
  BY <1>1, NoCallOK DEF Tearing, Good
<1>3. Tree(project) /\ UniqueNames(project) /\ Bounded(project) /\ project \in Trees
  BY <1>2, FindsATree
<1>4. Continues(c)
  BY HandlerContinues DEF HandleRequest
<1>5. /\ doc \in NDocs /\ doc \in Documents /\ doc # None /\ doc.path = r.under.path
      /\ r.target[k] \in Segments /\ k \in Nat /\ k <= Len(r.target)
      /\ doc.name = SubSeq(r.target, 1, k)
  BY <1>1, SavedDoc, NDocFields
<1>6. Len(r.target) <= MaxDepth /\ PlaceIn(r.under, project)
  BY <1>1, <1>2 DEF Fits, FitsLookup
<1>7. Ancestry(project, doc)
  BY <1>3, <1>5, <1>6, PlaceAncestry
<1>8. Len(doc.name) <= MaxDepth
  <2>1. r.target \in Seq(Segments) /\ Len(r.target) \in Nat /\ MaxDepth \in Nat
    BY <1>1, ElementsOf, ProjectsAssumption DEF CallRecords
  <2> HIDE DEF doc, k
  <2>2. Len(doc.name) = k
    BY <1>5, <2>1, PrefixProperties
  <2> QED
    BY <1>5, <1>6, <2>1, <2>2
<1>9. CASE Ends(c) /\ UNCHANGED project
  <2>1. call'[c] = NoCall
    BY <1>9 DEF Ends, TInv
  <2>2. Leaves(call'[c], project')
    BY <1>3, <1>9, <2>1, FitsNothing DEF Leaves
  <2> QED
    BY <1>1, <1>2, <1>4, <1>9, <2>2, GStep
<1>10. ASSUME NEW p \in Projects, Fresh(p), project' = [project EXCEPT ![p] = doc],
              Goto(c, Reached(r, Under(p, doc))), ~Taken(None, doc.name)
       PROVE  Good'
  <2> HIDE DEF doc, k
  <2>1. project[p] = None
    BY <1>10 DEF Fresh
  <2>2. \A x \in Projects : project[x] # None => project'[x] = project[x]
    BY <1>3, <1>10, <2>1 DEF Trees
  <2>3. project'[p] = doc /\ project' \in Trees
    BY <1>3, <1>5, <1>10 DEF Trees
  <2>4. Tree(project')
    BY <1>3, <1>5, <1>7, <1>10, <2>1, TreeGrows
  <2>5. NameIsFree(project, p, doc.name)
    BY <1>10, NotTaken, NoneIsNothing DEF NameIsFree
  <2>6. UniqueNames(project') /\ Bounded(project')
    <3>1. UniqueNames(project')
      BY <1>3, <1>5, <1>10, <2>5, UniqueWrite
    <3>2. Bounded(project')
      BY <1>3, <1>8, <1>10, BoundedWrite
    <3> QED
      BY <3>1, <3>2
  <2> DEFINE place == Under(p, doc)
  <2>7. place \in Documents /\ place.name = doc.name /\ place.path = Append(doc.path, p)
        /\ PlaceIn(place, project')
    BY <1>5, <2>3, UnderOK DEF PlaceIn
  <2>8. r.kind = "move" =>
           /\ Holds(r, project') /\ FitsRead(r, Len(r.target)) /\ Len(r.target) < MaxDepth
           /\ DOMAIN r.below = BelowIn(project', r.id) \/ r.id \in Range(place.path)
    <3> SUFFICES ASSUME r.kind = "move"
                 PROVE /\ Holds(r, project') /\ FitsRead(r, Len(r.target))
                       /\ Len(r.target) < MaxDepth
                       /\ DOMAIN r.below = BelowIn(project', r.id) \/ r.id \in Range(place.path)
      OBVIOUS
    <3>1. /\ Holds(r, project) /\ FitsRead(r, Len(r.target)) /\ Len(r.target) < MaxDepth
          /\ DOMAIN r.below = BelowIn(project, r.id) \/ r.id \in Range(doc.path)
      BY <1>1, <1>2, <1>5 DEF Fits, FitsMove
    <3>2. r.read # None
      BY <1>1 DEF CallOK
    <3>3. /\ Holds(r, project')
          /\ DOMAIN r.below = BelowIn(project', r.id) \/ r.id \in Range(doc.path)
      BY <1>1, <1>3, <1>5, <1>10, <2>1, <3>1, <3>2, StillHeld
    <3>4. r.id \in Range(doc.path) => r.id \in Range(place.path)
      <4>1. doc.path \in Seq(Projects)
        BY <1>5, DocFields
      <4>2. /\ place.path \in Seq(Projects) /\ Len(place.path) = Len(doc.path) + 1
            /\ Begins(doc.path, place.path) /\ Len(doc.path) \in Nat
        BY <2>7, <4>1, AppendElements, ElementsOf
      <4> HIDE DEF place
      <4>3. \A i \in 1..Len(doc.path) :
              i \in 1..Len(place.path) /\ place.path[i] = doc.path[i]
        <5>1. \A i \in 1..Len(doc.path) : place.path[i] = doc.path[i]
          BY <4>2 DEF Begins
        <5>2. Len(doc.path) \in Nat /\ Len(place.path) = Len(doc.path) + 1
          BY <4>2
        <5>3. \A i \in 1..Len(doc.path) : i \in 1..Len(place.path)
          BY <5>2
        <5> QED
          BY <5>1, <5>3, Zenon
      <4>4. ASSUME r.id \in Range(doc.path)
            PROVE  r.id \in Range(place.path)
        <5>1. PICK i \in 1..Len(doc.path) : doc.path[i] = r.id
          BY <4>1, <4>4, InRange
        <5>2. i \in 1..Len(place.path) /\ place.path[i] = r.id
          BY <4>3, <5>1
        <5> QED
          BY <4>2, <5>2, InRange
      <4> QED
        BY <4>4
    <3> QED
      BY <3>1, <3>3, <3>4
  <2>9. call'[c] = Reached(r, place)
    BY <1>10 DEF Goto, TInv
  <2> HIDE DEF place
  <2>10. Fits(Reached(r, place), project')
    BY <1>1, <1>5, <1>6, <2>3, <2>7, <2>8, ReachedFits
  <2>11. Leaves(call'[c], project')
    BY <2>4, <2>6, <2>9, <2>10 DEF Leaves
  <2> QED
    BY <1>2, <1>4, <2>2, <2>11, GStep
<1> QED
  BY <1>1, <1>9, <1>10 DEF SaveNew

(***************************************************************************)
(* Writing to a subtree.                                                   *)
(***************************************************************************)
LEMMA BeforeIs ==
  ASSUME NEW r, NEW T \in Trees, NEW U, T[r.moved] = r.read,
         \A x \in DOMAIN r.below : r.below[x] = T[x],
         \A x \in Projects \ {r.moved} : x \notin DOMAIN r.below => U[x] = T[x]
  PROVE  Before(r, U) = T
<1>1. \A x \in Projects :
        T[x] = IF x = r.moved THEN r.read ELSE IF x \in DOMAIN r.below THEN r.below[x] ELSE U[x]
  OBVIOUS
<1>2. T = [x \in Projects |-> T[x]]
  BY DEF Trees
<1> QED
  BY <1>1, <1>2 DEF Before

(* When all is written, the tree that comes is there.                      *)
LEMMA Arrives ==
  ASSUME NEW r, NEW T, NEW U \in Trees, Descends(r, {}, T, U),
         r.moved \in Projects, r.read \in NDocs, r.new \in NDocs
  PROVE  Tree(U)
<1>1. /\ T \in Trees /\ Tree(T) /\ T[r.moved] = r.read /\ U[r.moved] = r.new
      /\ Ancestry(T, r.new) /\ ~IsBelow(r.new, r.moved)
  BY DEF Descends, Halfway
<1>2. /\ T = Before(r, U) /\ DOMAIN r.below = BelowIn(T, r.moved)
      /\ \A x \in DOMAIN r.below : U[x] # None /\ Regrown(U[x], r.below[x], r.read, r.new)
  BY DEF Descends
<1>3. \A x \in Projects \ {r.moved} :
        T[x] = IF x \in DOMAIN r.below THEN r.below[x] ELSE U[x]
  BY <1>2 DEF Before
<1>4. \A x \in Projects \ {r.moved} :
        x \in DOMAIN r.below <=> T[x] # None /\ IsBelow(T[x], r.moved)
  BY <1>2 DEF BelowIn
<1>5. \A x \in Projects \ {r.moved} :
        IF T[x] # None /\ IsBelow(T[x], r.moved)
        THEN U[x] # None /\ Regrown(U[x], T[x], r.read, r.new)
        ELSE U[x] = T[x]
  BY <1>2, <1>3, <1>4
<1>6. Moved(T, U, r.moved, r.new)
  BY <1>1, <1>5 DEF Moved
<1>7. T[r.moved] # None
  BY <1>1, NDocFields
<1> QED
  BY <1>1, <1>6, <1>7, TreeMoves

LEMMA DescendsSame ==
  ASSUME NEW r, NEW n, n.moved = r.moved, n.read = r.read, n.new = r.new, n.below = r.below,
         n.kind = r.kind, NEW left, NEW T, NEW U, Descends(r, left, T, U)
  PROVE  Descends(n, left, T, U)
<1>1. Before(n, U) = Before(r, U)
  BY DEF Before
<1>2. Halfway(n, T, U)
  BY DEF Descends, Halfway
<1>3. FitsRead(n, Len(n.new.path))
  BY DEF Descends, FitsRead
<1> QED
  BY <1>1, <1>2, <1>3 DEF Descends

LEMMA DescendingFits ==
  ASSUME NEW r \in CallRecords, CallOK(r), r.kind \in {"move", "rename"},
         r.moved \in Projects, r.read \in NDocs, r.new \in NDocs,
         NEW left, left \subseteq DOMAIN r.below, NEW T, NEW U \in Trees,
         Descends(r, left, T, U)
  PROVE  /\ Fits(Descending(r, left), U)
         /\ Descending(r, left).pc \notin {"children", "descend"} => Tree(U)
<1> DEFINE n == [r EXCEPT !.pc = "descend", !.left = left]
<1>1. CASE left = {}
  <2>1. Descending(r, left) = NoCall
    BY <1>1 DEF Descending
  <2>2. Tree(U)
    BY <1>1, Arrives
  <2> QED
    BY <2>1, <2>2, FitsNothing
<1>2. CASE left # {}
  <2>1. Descending(r, left) = n
    BY <1>2 DEF Descending
  <2>2. /\ n.pc = "descend" /\ n.left = left /\ n.moved = r.moved /\ n.read = r.read
        /\ n.new = r.new /\ n.below = r.below /\ n.kind = r.kind
    BY DEF CallRecords
  <2> HIDE DEF n
  <2>3. Descends(n, n.left, T, U)
    BY <2>2, DescendsSame
  <2>4. T = Before(n, U)
    BY <2>3 DEF Descends
  <2>5. FitsWrite(n, U)
    BY <2>2, <2>3, <2>4 DEF FitsWrite
  <2>6. n.kind # "delete"
    BY <2>2
  <2> QED
    BY <2>1, <2>2, <2>5, <2>6 DEF Fits, FitsLookup, FitsMove, FitsRename, FitsDelete
<1> QED
  BY <1>1, <1>2

(* What begins with the beginning that is replaced by itself is the same.  *)
LEMMA GraftSame ==
  ASSUME NEW S, NEW s \in Seq(S), NEW b \in Seq(S), Begins(b, s)
  PROVE  Grafted(s, b, s, Len(b))
<1>1. Len(s) \in Nat /\ Len(b) \in Nat
  BY ElementsOf
<1>2. Len(s) = Len(b) + Len(s) - Len(b)
  BY <1>1
<1>3. ASSUME NEW j \in 1..Len(s)
      PROVE  s[j] = IF j <= Len(b) THEN b[j] ELSE s[j - Len(b) + Len(b)]
  <2>1. CASE j <= Len(b)
    BY <1>1, <2>1 DEF Begins
  <2>2. CASE ~(j <= Len(b))
    <3>1. j - Len(b) + Len(b) = j
      BY <1>1
    <3> QED
      BY <2>2, <3>1
  <2> QED
    BY <2>1, <2>2
<1> QED
  BY <1>2, <1>3 DEF Grafted

LEMMA GMove ==
  ASSUME TInv, Beside, Good, MovesAlone, NEW c \in Calls, MoveProject(c)
  PROVE  Good' /\ torn' = torn
<1> DEFINE r == call[c]
           p == r.id
           new == DocAt(r.under, Last(r.read.name))
           m == [r EXCEPT !.new = new]
<1>1. /\ r \in CallRecords /\ CallOK(r) /\ r.pc = "move" /\ r.kind = "move" /\ torn' = torn
      /\ p \in Projects /\ r.moved = p /\ r.read \in NDocs /\ r.read # None
      /\ Reposition(c, r, DOMAIN r.below)
  BY DEF TInv, MoveProject, CallOK, CallRecords
<1>2. r # NoCall /\ ~Tearing(c) /\ Fits(r, project)
  BY <1>1, NoCallOK DEF Tearing, Good
<1>3. Tree(project) /\ UniqueNames(project) /\ Bounded(project) /\ project \in Trees
  BY <1>2, FindsATree
<1>4. Continues(c)
  BY HandlerContinues DEF HandleRequest
<1>5. /\ Holds(r, project) /\ FitsRead(r, Len(r.target)) /\ Len(r.target) < MaxDepth
      /\ DOMAIN r.below = BelowIn(project, p)
      /\ PlaceIn(r.under, project) /\ r.under.name = r.target /\ p \notin Range(r.under.path)
  BY <1>1, <1>2 DEF Fits, FitsMove
<1>6. /\ r.under \in Documents /\ Last(r.read.name) \in Segments
      /\ new \in NDocs /\ new.name = Append(r.under.name, Last(r.read.name))
      /\ new.path = r.under.path
  BY <1>1, NewOK DEF CallRecords
<1>7. Ancestry(project, new) /\ Len(r.under.name) = Len(r.under.path)
  BY <1>3, <1>5, <1>6, PlaceAncestry
<1>8. ~IsBelow(new, p)
  <2>1. r.under.path \in Seq(Projects)
    BY <1>6, DocFields
  <2> HIDE DEF new, p
  <2> QED
    BY <1>5, <1>6, <2>1, InRange DEF IsBelow
<1>9. Len(new.name) <= MaxDepth /\ Len(new.path) = Len(r.target)
  <2>1. r.under.name \in Seq(Segments) /\ Len(r.under.name) \in Nat /\ MaxDepth \in Nat
    BY <1>6, DocFields, ProjectsAssumption
  <2> HIDE DEF new
  <2>2. Len(new.name) = Len(r.under.name) + 1
    BY <1>6, <2>1, AppendElements
  <2> QED
    BY <1>5, <1>6, <1>7, <2>1, <2>2
<1> HIDE DEF new, p
<1>10. CASE Ends(c) /\ UNCHANGED project
  <2>1. call'[c] = NoCall
    BY <1>10 DEF Ends, TInv
  <2>2. Leaves(call'[c], project')
    BY <1>3, <1>10, <2>1, FitsNothing DEF Leaves
  <2> QED
    BY <1>1, <1>2, <1>4, <1>10, <2>2, GStep
<1>11. CASE /\ ~Taken(p, new.name)
            /\ project' = [project EXCEPT ![p] = new]
            /\ Goto(c, Descending(m, DOMAIN r.below))
  <2>1. project[p] = r.read
    BY <1>5 DEF Holds, p
  <2>2. project' = [project EXCEPT ![p] = new]
    BY <1>1, <1>11, <2>1
  <2>3. project' \in Trees /\ project'[p] = new
    BY <1>1, <1>3, <1>6, <2>2 DEF Trees
  <2>4. NameIsFree(project, p, new.name)
    BY <1>11, NotTaken
  <2>5. UniqueNames(project')
    BY <1>1, <1>3, <1>6, <2>2, <2>4, UniqueWrite
  <2>6. Bounded(project')
    BY <1>1, <1>3, <1>9, <2>2, BoundedWrite
  <2>7. /\ m \in CallRecords /\ m.pc = "move" /\ m.kind = "move" /\ m.id = p /\ m.moved = p
        /\ m.read = r.read /\ m.new = new /\ m.below = r.below /\ m.depth = r.depth
        /\ m.target = r.target
    BY <1>1, <1>6 DEF CallRecords, p
  <2> HIDE DEF m
  <2>8. CallOK(m)
    BY <1>1, <2>7, NoneIsNothing DEF CallOK, RequestKinds
  <2>9. Halfway(m, project, project')
    BY <1>3, <1>7, <1>8, <1>9, <2>1, <2>3, <2>4, <2>7 DEF Halfway
  <2>10. \A x \in DOMAIN r.below : x # p /\ project'[x] = r.below[x] /\ project[x] = r.below[x]
    <3>1. \A x \in DOMAIN r.below : x # p /\ x \in Projects
      BY <1>5 DEF BelowIn
    <3>2. \A x \in Projects : x # p => project'[x] = project[x]
      BY <1>3, <2>2 DEF Trees
    <3> QED
      BY <1>5, <3>1, <3>2 DEF Holds
  <2>11. Before(m, project') = project
    <3>1. \A x \in Projects \ {p} : project'[x] = project[x]
      BY <1>3, <2>2 DEF Trees
    <3> QED
      BY <1>3, <2>1, <2>7, <2>10, <3>1, BeforeIs
  <2>12. FitsRead(m, Len(new.path))
    BY <1>5, <1>9, <2>7 DEF FitsRead
  <2>13. Descends(m, DOMAIN r.below, project, project')
    BY <1>5, <2>7, <2>9, <2>10, <2>11, <2>12 DEF Descends
  <2>14. LET n == Descending(m, DOMAIN r.below) IN
         Fits(n, project') /\ (n.pc \notin {"children", "descend"} => Tree(project'))
    BY <1>1, <1>6, <2>3, <2>7, <2>8, <2>13, DescendingFits
  <2>15. call'[c] = Descending(m, DOMAIN r.below)
    BY <1>11 DEF Goto, TInv
  <2>16. Leaves(call'[c], project')
    BY <2>5, <2>6, <2>14, <2>15 DEF Leaves
  <2> QED
    BY <1>1, <1>2, <1>4, <2>16, GStep
<1> QED
  BY <1>1, <1>10, <1>11 DEF Reposition, new

LEMMA GRename ==
  ASSUME TInv, Beside, Good, MovesAlone, NEW c \in Calls, RenameProject(c)
  PROVE  Good' /\ torn' = torn
<1> DEFINE r == call[c]
           p == r.id
           new == r.new
           m == [r EXCEPT !.pc = "children"]
<1>1. /\ r \in CallRecords /\ CallOK(r) /\ r.pc = "rename" /\ r.kind = "rename" /\ torn' = torn
      /\ p \in Projects /\ r.moved = p /\ r.read \in NDocs /\ r.read # None /\ new \in NDocs
      /\ new \in Documents /\ r.read \in Documents /\ r.read.name # <<>>
  BY NDocFields DEF TInv, RenameProject, CallOK, CallRecords
<1>2. r # NoCall /\ ~Tearing(c) /\ Fits(r, project)
  BY <1>1, NoCallOK DEF Tearing, Good
<1>3. Tree(project) /\ UniqueNames(project) /\ Bounded(project) /\ project \in Trees
  BY <1>2, FindsATree
<1>4. Continues(c)
  BY HandlerContinues DEF HandleRequest
<1>5. /\ project[p] = r.read
      /\ new.path = r.read.path /\ new.parent = r.read.parent
      /\ Len(new.name) = Len(r.read.name) /\ Begins(Front(r.read.name), new.name)
  BY <1>1, <1>2 DEF Fits, FitsRename
<1>6. Ancestry(project, r.read) /\ ~IsBelow(r.read, p) /\ Len(r.read.name) <= MaxDepth
  BY <1>1, <1>3, <1>5, NotBelowItself DEF Tree, Bounded
<1> HIDE DEF new, p
<1>7. ~IsBelow(new, p)
  BY <1>5, <1>6 DEF IsBelow
<1>8. Ancestry(project, new)
  <2> DEFINE f == Front(r.read.name)
             d == r.read
  <2>1. /\ f \in Seq(Segments) /\ Len(f) = Len(d.name) - 1 /\ Begins(f, d.name)
        /\ Len(d.name) \in Nat /\ Len(f) \in Nat /\ Len(d.path) \in Nat
        /\ d.path \in Seq(Projects)
    BY <1>1, DocFields, FrontElements, ElementsOf
  <2>2. Len(new.name) \in Nat
    BY <1>1, DocFields
  <2>3. Begins(f, new.name)
    BY <1>5
  <2>4. Len(d.name) = Len(d.path) + 1 /\ Ancestry(project, d)
    BY <1>6 DEF Ancestry
  <2> HIDE DEF f
  <2>5. ASSUME NEW i \in 1..Len(new.path)
        PROVE  /\ project[new.path[i]] # None
               /\ Len(project[new.path[i]].path) = i - 1
               /\ Begins(project[new.path[i]].path, new.path)
               /\ Begins(project[new.path[i]].name, new.name)
    <3> DEFINE q == d.path[i]
               a == project[q]
    <3>1. i \in 1..Len(d.path) /\ new.path[i] = q /\ q \in Projects
      BY <1>5, <2>1, ElementsOf
    <3>2. /\ a # None /\ Len(a.path) = i - 1
          /\ Begins(a.path, d.path) /\ Begins(a.name, d.name)
      BY <2>4, <3>1, AncestorAt
    <3>3. Len(a.name) \in Nat /\ Len(a.path) \in Nat /\ Len(a.name) = Len(a.path) + 1
      BY <1>3, <3>1, <3>2, TreeFields DEF Tree, Ancestry
    <3> HIDE DEF a, q, d
    <3>4. Len(a.name) <= Len(f)
      BY <2>1, <2>4, <3>1, <3>2, <3>3
    <3>5. Begins(a.name, f)
      <4>1. \A j \in 1..Len(a.name) : j \in 1..Len(f) /\ j \in 1..Len(d.name)
        BY <2>1, <3>3, <3>4
      <4>2. \A j \in 1..Len(a.name) : a.name[j] = d.name[j]
        BY <3>2 DEF Begins
      <4>3. \A j \in 1..Len(f) : f[j] = d.name[j]
        BY <2>1 DEF Begins
      <4> QED
        BY <3>4, <4>1, <4>2, <4>3 DEF Begins
    <3>6. Begins(a.name, new.name)
      BY <2>1, <2>2, <2>3, <3>3, <3>5, BeginsAgain
    <3> QED
      BY <1>5, <3>1, <3>2, <3>6 DEF a, d
  <2>6. Len(new.name) = Len(new.path) + 1
        /\ new.parent = IF Len(new.path) = 0 THEN None ELSE new.path[Len(new.path)]
    BY <1>5, <2>4 DEF Ancestry
  <2> QED
    BY <2>5, <2>6 DEF Ancestry
<1>9. CASE Ends(c) /\ UNCHANGED project
  <2>1. call'[c] = NoCall
    BY <1>9 DEF Ends, TInv
  <2>2. Leaves(call'[c], project')
    BY <1>3, <1>9, <2>1, FitsNothing DEF Leaves
  <2> QED
    BY <1>1, <1>2, <1>4, <1>9, <2>2, GStep
<1>10. CASE /\ ~Taken(p, new.name)
            /\ project' = [project EXCEPT ![p] =
                 IF @ = None THEN None ELSE [@ EXCEPT !.name = new.name]]
            /\ Goto(c, m)
  <2>1. [r.read EXCEPT !.name = new.name] = new
    <3> DEFINE w == [r.read EXCEPT !.name = new.name]
    <3>1. /\ w \in Documents /\ w.name = new.name /\ w.parent = new.parent
          /\ w.path = new.path
      BY <1>1, <1>5 DEF Documents
    <3> QED
      BY <1>1, <3>1 DEF Documents
  <2>2. project' = [project EXCEPT ![p] = new]
    BY <1>1, <1>5, <1>10, <2>1
  <2>3. project' \in Trees /\ project'[p] = new
    BY <1>1, <1>3, <2>2 DEF Trees
  <2>4. NameIsFree(project, p, new.name)
    BY <1>10, NotTaken
  <2>5. UniqueNames(project')
    BY <1>1, <1>3, <2>2, <2>4, UniqueWrite
  <2>6. Bounded(project')
    BY <1>1, <1>3, <1>5, <1>6, <2>2, BoundedWrite
  <2>7. /\ m.pc = "children" /\ m.kind = "rename" /\ m.id = p /\ m.moved = p
        /\ m.read = r.read /\ m.new = new
    BY <1>1 DEF CallRecords, p, new
  <2> HIDE DEF m
  <2>8. Halfway(m, project, project')
    BY <1>3, <1>5, <1>6, <1>7, <1>8, <2>3, <2>4, <2>7 DEF Halfway
  <2>9. [project' EXCEPT ![p] = r.read] = project
    BY <1>3, <1>5, <2>2 DEF Trees
  <2>10. FitsWrite(m, project')
    BY <2>7, <2>8, <2>9 DEF FitsWrite
  <2>11. Fits(m, project')
    BY <2>7, <2>10 DEF Fits, FitsLookup, FitsMove, FitsRename, FitsDelete
  <2>12. call'[c] = m
    BY <1>10 DEF Goto, TInv
  <2>13. Leaves(call'[c], project')
    BY <2>5, <2>6, <2>7, <2>11, <2>12 DEF Leaves
  <2> QED
    BY <1>1, <1>2, <1>4, <2>13, GStep
<1> QED
  BY <1>9, <1>10 DEF RenameProject, new, p

LEMMA GChildren ==
  ASSUME TInv, Beside, Good, MovesAlone, NEW c \in Calls, ReadChildren(c)
  PROVE  Good' /\ torn' = torn
<1> DEFINE r == call[c]
           p == r.id
           T == [project EXCEPT ![p] = r.read]
           m == [r EXCEPT !.below = Read(Below(p))]
<1>1. /\ r \in CallRecords /\ CallOK(r) /\ r.pc = "children" /\ r.kind = "rename"
      /\ p \in Projects /\ r.moved = p /\ r.read \in NDocs /\ r.new \in NDocs
      /\ torn' = torn /\ project' = project /\ project \in Trees
      /\ Goto(c, Descending(m, Below(p)))
  BY DEF TInv, ReadChildren, CallOK, CallRecords, Trees
<1>2. r # NoCall /\ Fits(r, project)
  BY <1>1, NoCallOK DEF Good
<1>3. UniqueNames(project) /\ Bounded(project)
  BY DEF Good
<1>4. Continues(c)
  BY HandlerContinues DEF HandleRequest
<1>5. Halfway(r, T, project)
  BY <1>1, <1>2 DEF Fits, FitsWrite
<1> HIDE DEF T, p
<1>6. /\ T \in Trees /\ Tree(T) /\ T[p] = r.read /\ project[p] = r.new
      /\ ~IsBelow(r.new, p) /\ r.new.path = r.read.path
      /\ \A x \in Projects : x # p => T[x] = project[x]
  BY <1>1, <1>5 DEF Halfway, T, Trees
<1>7. Below(p) = BelowIn(project, p)
  BY <1>1, <1>6, BelowIs
<1>8. BelowIn(T, p) = BelowIn(project, p)
  BY <1>6 DEF BelowIn
<1>9. /\ Read(Below(p)) \in Reads /\ DOMAIN Read(Below(p)) = Below(p)
      /\ \A x \in Below(p) : Read(Below(p))[x] = project[x]
  BY BelowExists, ReadOK
<1>10. /\ m \in CallRecords /\ m.pc = "children" /\ m.kind = "rename" /\ m.id = p
       /\ m.moved = p /\ m.read = r.read /\ m.new = r.new /\ m.below = Read(Below(p))
       /\ m.depth = r.depth /\ m.target = r.target
  BY <1>1, <1>9 DEF CallRecords, p
<1> HIDE DEF m
<1>11. CallOK(m)
  BY <1>1, <1>10, NoneIsNothing DEF CallOK, RequestKinds
<1>12. Halfway(m, T, project)
  BY <1>1, <1>5, <1>10 DEF Halfway
<1>13. \A x \in DOMAIN m.below :
         x \in Projects /\ x # p /\ T[x] # None /\ m.below[x] = T[x] /\ m.below[x] = project[x]
  BY <1>6, <1>7, <1>9, <1>10 DEF BelowIn
<1>14. Before(m, project) = T
  BY <1>6, <1>10, <1>13, BeforeIs
<1>15. FitsRead(m, Len(m.new.path))
  <2> SUFFICES ASSUME NEW x \in DOMAIN m.below
               PROVE  DepthOf(m.below[x]) - Len(m.read.path) + Len(m.new.path) <= MaxDepth
    BY DEF FitsRead
  <2>1. /\ x \in Projects /\ T[x] # None /\ m.below[x] = T[x] /\ m.below[x] = project[x]
        /\ project[x] # None
    BY <1>13
  <2>2. Len(T[x].name) = Len(T[x].path) + 1 /\ Len(T[x].path) \in Nat
    BY <1>6, <2>1, TreeFields DEF Tree, Ancestry
  <2>3. Len(m.below[x].name) <= MaxDepth
    BY <1>3, <2>1 DEF Bounded
  <2>4. Len(m.read.path) = Len(m.new.path) /\ Len(m.new.path) \in Nat /\ MaxDepth \in Nat
    BY <1>1, <1>6, <1>10, NDocFields, DocFields, ProjectsAssumption
  <2> QED
    BY <2>1, <2>2, <2>3, <2>4 DEF DepthOf
<1>16. Descends(m, Below(p), T, project)
  BY <1>7, <1>8, <1>9, <1>10, <1>12, <1>13, <1>14, <1>15 DEF Descends
<1>17. LET n == Descending(m, Below(p)) IN
       Fits(n, project) /\ (n.pc \notin {"children", "descend"} => Tree(project))
  BY <1>1, <1>9, <1>10, <1>11, <1>16, DescendingFits
<1>18. call'[c] = Descending(m, Below(p))
  BY <1>1 DEF Goto, TInv
<1>19. Leaves(call'[c], project')
  BY <1>1, <1>3, <1>17, <1>18 DEF Leaves
<1> QED
  BY <1>1, <1>2, <1>4, <1>19, GStep

(* The next project below gets its name, which no other has.               *)
LEMMA Rewrites ==
  ASSUME TInv, NEW r \in CallRecords, NEW left, NEW T, Descends(r, left, T, project),
         r.kind \in {"move", "rename"}, r.moved \in Projects, r.read \in NDocs, r.new \in NDocs,
         NEW q \in DOMAIN r.below, q \in left
  PROVE  /\ q \in Projects /\ q # r.moved
         /\ ~Taken(q, NameBelow(r, r.below[q]))
         /\ Rewritten(r, q) \in NDocs /\ Rewritten(r, q) # None
         /\ Rewritten(r, q).name = NameBelow(r, r.below[q])
         /\ Len(Rewritten(r, q).name) <= MaxDepth
         /\ Regrown(Rewritten(r, q), r.below[q], r.read, r.new)
<1> DEFINE name == NameBelow(r, r.below[q])
           w == Rewritten(r, q)
           old == T[q]
<1>1. /\ q \in Projects /\ q # r.moved /\ T[q] = r.below[q] /\ T[q] # None /\ T[q] \in NDocs
      /\ Begins(r.read.path, T[q].path)
      /\ Len(T[q].path) \in Nat /\ Len(T[q].name) = Len(T[q].path) + 1
      /\ Len(r.read.path) \in Nat /\ Len(r.read.name) = Len(r.read.path) + 1
      /\ Len(r.read.path) + 1 <= Len(T[q].path) /\ Len(r.new.path) \in Nat
      /\ T[q].path \in Seq(Projects)
  BY BelowFacts
<1>2. project \in Trees /\ MaxDepth \in Nat
  BY ProjectsAssumption DEF TInv, Trees
<1>3. project[q] = old
  BY <1>1 DEF Descends
<1>4. Grafted(name, r.new.name, old.name, Len(r.read.name))
      /\ Len(name) = Len(r.new.path) + Len(old.name) - Len(r.read.path)
  BY NameGrafted
<1>5. ~Taken(q, name)
  <2> SUFFICES ASSUME Taken(q, name) PROVE FALSE
    OBVIOUS
  <2>1. PICK z \in Projects \ {q} : project[z] # None /\ project[z].name = name
    BY DEF Taken, Named, Existing
  <2> QED
    BY <1>2, <2>1, NoCollision
<1>6. /\ w \in NDocs /\ w.name = name /\ w.parent = old.parent
      /\ w.path = IF r.kind = "rename" THEN old.path ELSE PathBelow(r, r.below[q])
  <2>1. r.below[q] \in NDocs /\ project[q] # None
    BY <1>1, <1>3
  <2>2. /\ Rewritten(r, q) \in NDocs
        /\ Rewritten(r, q).name = NameBelow(r, r.below[q])
        /\ Rewritten(r, q).parent = project[q].parent
        /\ Rewritten(r, q).path = IF r.kind = "rename" THEN project[q].path
                                  ELSE PathBelow(r, r.below[q])
    BY <1>1, <2>1, RewrittenOK
  <2> QED
    BY <1>3, <2>2
<1>7. Len(name) <= MaxDepth
  <2>1. DepthOf(r.below[q]) - Len(r.read.path) + Len(r.new.path) <= MaxDepth
    BY DEF Descends, FitsRead
  <2>2. (Len(old.path) + 1) - Len(r.read.path) + Len(r.new.path) <= MaxDepth
    BY <1>1, <2>1 DEF DepthOf
  <2>3. \A a, b, d, n \in Nat : (a + 1) - b + n <= d => n + (a + 1) - b <= d
    OBVIOUS
  <2>4. Len(r.new.path) + (Len(old.path) + 1) - Len(r.read.path) <= MaxDepth
    BY <1>1, <1>2, <2>2, <2>3
  <2>5. Len(name) = Len(r.new.path) + (Len(old.path) + 1) - Len(r.read.path)
    BY <1>1, <1>4
  <2> QED
    BY <2>4, <2>5
<1>8. r.read \in Documents /\ r.new \in Documents
  BY NDocFields
<1>9. r.read.path \in Seq(Projects) /\ r.new.path \in Seq(Projects)
  BY <1>8, DocFields
<1>10. Grafted(w.path, r.new.path, old.path, Len(r.read.path))
  <2>1. CASE r.kind = "rename"
    <3>1. r.new.path = r.read.path /\ w.path = old.path
      BY <1>6, <2>1 DEF Descends, Halfway
    <3>2. Grafted(old.path, r.read.path, old.path, Len(r.read.path))
      BY <1>1, <1>9, GraftSame
    <3> QED
      BY <3>1, <3>2
  <2>2. CASE r.kind = "move"
    <3>1. w.path = r.new.path \o SubSeq(old.path, Len(r.read.path) + 1, Len(old.path))
      BY <1>1, <1>6, <2>2 DEF PathBelow
    <3>2. Len(r.read.path) <= Len(old.path)
      BY <1>1
    <3> HIDE DEF w, old
    <3>3. old.path \in Seq(Projects)
      BY <1>1 DEF old
    <3> QED
      BY <1>1, <1>9, <3>1, <3>2, <3>3, GraftElements
  <2> QED
    BY <2>1, <2>2
<1>11. Regrown(w, r.below[q], r.read, r.new)
  BY <1>1, <1>4, <1>6, <1>10 DEF Regrown
<1> QED
  BY <1>1, <1>5, <1>6, <1>7, <1>11, NDocFields

LEMMA GUpdate ==
  ASSUME TInv, Beside, Good, MovesAlone, NoMerges, NEW c \in Calls, UpdateBelow(c)
  PROVE  Good' /\ torn' = torn
<1> DEFINE r == call[c]
           p == r.moved
           T == Before(r, project)
<1>1. r \in CallRecords /\ CallOK(r) /\ r.pc = "descend" /\ project \in Trees
  BY DEF TInv, UpdateBelow, Trees
<1>2. r # NoCall /\ Fits(r, project)
  BY <1>1, NoCallOK DEF Good
<1>3. r.kind \in {"move", "rename"}
  <2>1. r.kind \in {"move", "rename", "merge"} /\ r.kind # "merge"
    BY <1>1, <1>2 DEF CallOK, Beside, NoMerges
  <2> QED
    BY <2>1
<1>4. /\ p \in Projects /\ r.read \in NDocs /\ r.new \in NDocs /\ r.left \subseteq DOMAIN r.below
  BY <1>1 DEF CallOK, CallRecords
<1>5. Descends(r, r.left, T, project)
  BY <1>1, <1>2 DEF Fits, FitsWrite
<1>6. UniqueNames(project) /\ Bounded(project)
  BY DEF Good
<1>7. Continues(c)
  BY HandlerContinues DEF HandleRequest
<1> HIDE DEF T, p
<1>8. PICK q \in r.left :
        IF Taken(q, NameBelow(r, r.below[q]))
        THEN Ends(c) /\ torn' = TRUE /\ UNCHANGED project
        ELSE /\ project' = [project EXCEPT ![q] = Rewritten(r, q)]
             /\ Goto(c, Descending(r, r.left \ {q}))
             /\ UNCHANGED torn
  BY DEF UpdateBelow
<1> DEFINE w == Rewritten(r, q)
           left == r.left \ {q}
<1>9. /\ q \in Projects /\ q # p /\ q \in DOMAIN r.below
      /\ ~Taken(q, NameBelow(r, r.below[q])) /\ w \in NDocs /\ w # None
      /\ w.name = NameBelow(r, r.below[q]) /\ Len(w.name) <= MaxDepth
      /\ Regrown(w, r.below[q], r.read, r.new)
  BY <1>1, <1>3, <1>4, <1>5, Rewrites DEF p
<1>10. /\ project' = [project EXCEPT ![q] = w] /\ torn' = torn
       /\ Goto(c, Descending(r, left))
  BY <1>8, <1>9
<1> HIDE DEF w
<1>11. project' \in Trees /\ \A x \in Projects : project'[x] = IF x = q THEN w ELSE project[x]
  BY <1>1, <1>9, <1>10 DEF Trees
<1>12. UniqueNames(project')
  <2>1. NameIsFree(project, q, w.name)
    BY <1>9, NotTaken
  <2> QED
    BY <1>1, <1>6, <1>9, <1>10, <2>1, UniqueWrite
<1>13. Bounded(project')
  BY <1>1, <1>6, <1>9, <1>10, BoundedWrite
<1>14. /\ Halfway(r, T, project) /\ T = Before(r, project) /\ DOMAIN r.below = BelowIn(T, p)
       /\ FitsRead(r, Len(r.new.path))
       /\ \A x \in DOMAIN r.below :
            IF x \in r.left THEN project[x] = r.below[x]
            ELSE project[x] # None /\ Regrown(project[x], r.below[x], r.read, r.new)
  BY <1>5 DEF Descends, p
<1>15. Halfway(r, T, project')
  BY <1>4, <1>9, <1>11, <1>14 DEF Halfway, p
<1>16. Before(r, project') = T
  <2>1. \A x \in Projects : x \notin DOMAIN r.below => project'[x] = project[x]
    BY <1>9, <1>11
  <2> QED
    BY <1>14, <2>1 DEF Before
<1>17. \A x \in DOMAIN r.below : x \in Projects
  BY <1>14 DEF BelowIn
<1>18. \A x \in DOMAIN r.below :
         IF x \in left THEN project'[x] = r.below[x]
         ELSE project'[x] # None /\ Regrown(project'[x], r.below[x], r.read, r.new)
  BY <1>9, <1>11, <1>14, <1>17
<1> HIDE DEF left
<1>19. Descends(r, left, T, project')
  BY <1>14, <1>15, <1>16, <1>18 DEF Descends, p
<1>20. LET n == Descending(r, left) IN
       Fits(n, project') /\ (n.pc \notin {"children", "descend"} => Tree(project'))
  <2>1. left \subseteq DOMAIN r.below
    BY <1>4 DEF left
  <2> QED
    BY <1>1, <1>3, <1>4, <1>11, <1>19, <2>1, DescendingFits DEF p
<1>21. call'[c] = Descending(r, left)
  BY <1>10 DEF Goto, TInv
<1>22. Leaves(call'[c], project')
  BY <1>12, <1>13, <1>20, <1>21 DEF Leaves
<1> QED
  BY <1>2, <1>3, <1>7, <1>10, <1>22, GStep

LEMMA GDelete ==
  ASSUME TInv, Beside, Good, MovesAlone, NEW c \in Calls, DeleteProjects(c)
  PROVE  Good' /\ torn' = torn
<1> DEFINE r == call[c]
           p == r.id
<1>1. /\ r \in CallRecords /\ CallOK(r) /\ r.pc = "delete" /\ r.kind = "delete"
      /\ p \in Projects /\ torn' = torn
  BY DEF TInv, DeleteProjects, CallOK
<1>2. r # NoCall /\ ~Tearing(c) /\ Fits(r, project)
  BY <1>1, NoCallOK DEF Tearing, Good
<1>3. Tree(project) /\ UniqueNames(project) /\ Bounded(project) /\ project \in Trees
  BY <1>2, FindsATree
<1>4. Continues(c)
  BY HandlerContinues DEF HandleRequest
<1>5. r.left = {p} \cup BelowIn(project, p)
  BY <1>1, <1>2 DEF Fits, FitsDelete
<1> HIDE DEF p
<1>6. \A x \in Projects :
        project'[x] = IF x = p \/ (project[x] # None /\ IsBelow(project[x], p))
                      THEN None ELSE project[x]
  BY <1>1, <1>5 DEF DeleteProjects, BelowIn
<1>7. Tree(project')
  BY <1>1, <1>3, <1>6, TreeShrinks
<1>8. \A x \in Projects : project'[x] # None => project[x] # None /\ project'[x] = project[x]
  BY <1>6
<1>9. UniqueNames(project') /\ Bounded(project')
  BY <1>3, <1>8 DEF UniqueNames, Bounded
<1>10. call'[c] = NoCall
  BY DEF DeleteProjects, Ends, TInv
<1>11. Leaves(call'[c], project')
  BY <1>7, <1>9, <1>10, FitsNothing DEF Leaves
<1> QED
  BY <1>1, <1>2, <1>4, <1>11, GStep

(* What a step does to a tree that is not torn.                            *)
LEMMA GNext ==
  ASSUME TInv, Beside, Good, MovesAlone, NoMerges, NEW c \in Calls, Ask(c) \/ HandleRequest(c)
  PROVE  Good' /\ torn' = torn
<1>1. CASE Ask(c)
  BY <1>1, GAsk
<1>2. CASE HandleRequest(c)
  <2>1. call[c].kind # "merge"
    <3>1. call[c] # NoCall
      BY <1>2, HandlerContinues
    <3> QED
      BY <3>1 DEF Beside, NoMerges
  <2>2. CallOK(call[c])
    BY DEF TInv
  <2>3. ~MergeEntities(c) /\ ~ReadDirect(c) /\ ~MergeChild(c) /\ ~DropSource(c)
    BY <2>1, <2>2 DEF CallOK, MergeEntities, ReadDirect, MergeChild, DropSource
  <2> QED
    BY <1>2, <2>3, GFind, GSave, GAttach, GMove, GUpdate, GRename, GChildren, GDelete
    DEF HandleRequest
<1> QED
  BY <1>1, <1>2

LEMMA GKill ==
  ASSUME TInv, Good, Kill, ~torn'
  PROVE  Good'
<1>1. /\ \A c \in Calls : call'[c] = NoCall /\ ~Tearing(c)
      /\ project' = project
  BY DEF Kill
<1>2. Tree(project) /\ UniqueNames(project) /\ Bounded(project)
  BY <1>1 DEF Good
<1>3. \A c \in Calls : Fits(call'[c], project')
  BY <1>1, FitsNothing
<1> QED
  BY <1>1, <1>2, <1>3 DEF Good

LEMMA TornStays ==
  ASSUME TInv, torn, Next
  PROVE  torn'
<1>1. torn = TRUE
  BY DEF TInv
<1>2. ASSUME NEW c \in Calls, Ask(c) PROVE torn' = TRUE
  BY <1>1, <1>2, AskBegins
<1>3. ASSUME NEW c \in Calls, HandleRequest(c) PROVE torn' = TRUE
  BY <1>1, <1>3 DEF HandleRequest, Find, SaveNew, Attach, MoveProject, UpdateBelow,
     RenameProject, ReadChildren, MergeEntities, ReadDirect, MergeChild, DropSource,
     Disassociate, DeleteProjects
<1>4. CASE Kill
  BY <1>1, <1>4 DEF Kill
<1> QED
  BY <1>2, <1>3, <1>4 DEF Next

LEMMA NextSInv ==
  ASSUME SInv, MovesAlone, NoMerges, [Next]_vars
  PROVE  SInv' /\ (torn' # torn => Kill)
<1>1. TInv /\ Beside /\ TInv' /\ Beside' /\ torn \in BOOLEAN
  BY NextTInv, NextBeside DEF SInv, TInv
<1>2. CASE UNCHANGED vars
  <2>1. UNCHANGED <<project, call, torn>>
    BY <1>2 DEF vars
  <2>2. Good => Good'
    BY <2>1 DEF Good, Tearing
  <2> QED
    BY <1>1, <2>1, <2>2 DEF SInv
<1>3. CASE Next /\ torn
  <2>1. torn' /\ torn' \in BOOLEAN
    BY <1>1, <1>3, TornStays DEF TInv
  <2> QED
    BY <1>1, <1>3, <2>1 DEF SInv
<1>4. CASE Next /\ ~torn
  <2>1. Good
    BY <1>4 DEF SInv
  <2>2. CASE Kill
    BY <1>1, <2>1, <2>2, GKill DEF SInv
  <2>3. ASSUME NEW c \in Calls, Ask(c) \/ HandleRequest(c)
        PROVE  SInv' /\ (torn' # torn => Kill)
    <3>1. Good' /\ torn' = torn
      BY <1>1, <2>1, <2>3, GNext
    <3> QED
      BY <1>1, <3>1 DEF SInv
  <2> QED
    BY <1>4, <2>2, <2>3 DEF Next
<1> QED
  BY <1>2, <1>3, <1>4

LEMMA InitSInv == Init => SInv
<1> SUFFICES ASSUME Init PROVE SInv
  OBVIOUS
<1>1. TInv /\ Beside
  BY InitTInv, InitBeside
<1>2. \A c \in Calls : Fits(call[c], project)
  BY FitsNothing DEF Init
<1>3. Tree(project) /\ UniqueNames(project) /\ Bounded(project)
  BY DEF Init, Tree, UniqueNames, Bounded
<1> QED
  BY <1>1, <1>2, <1>3 DEF SInv, Good

LEMMA AlwaysSInv == MovesAlone /\ NoMerges => (Spec => []SInv)
<1> SUFFICES ASSUME MovesAlone, NoMerges PROVE Spec => []SInv
  OBVIOUS
<1>1. Init => SInv
  BY InitSInv
<1>2. SInv /\ [Next]_vars => SInv'
  BY NextSInv
<1> QED
  BY <1>1, <1>2, PTL DEF Spec

(* The projects are a tree whenever nobody writes to a subtree, for any    *)
(* number of threads, projects and names: creates and attaches race with   *)
(* each other, moves, renames and deletes run alone, and any request may   *)
(* fail or be killed between its steps.                                    *)
THEOREM MovesKeepTheTree == MovesAlone /\ NoMerges => (Spec => []ProjectsAreATree)
<1> SUFFICES ASSUME MovesAlone, NoMerges PROVE Spec => []ProjectsAreATree
  OBVIOUS
<1>1. SInv => ProjectsAreATree
  BY TreeIsPlaced DEF SInv, Good, TInv, Trees, ProjectsAreATree
<1>2. Spec => []SInv
  BY AlwaysSInv
<1> QED
  BY <1>1, <1>2, PTL

(* What is measured before a subtree is moved is what is written after: no *)
(* name in a tree that no kill has torn is longer than max_depth.          *)
THEOREM MovesKeepTheDepth == MovesAlone /\ NoMerges => (Spec => [](~torn => DepthIsBounded))
<1> SUFFICES ASSUME MovesAlone, NoMerges PROVE Spec => [](~torn => DepthIsBounded)
  OBVIOUS
<1>1. SInv => (~torn => DepthIsBounded)
  BY DEF SInv, Good, Bounded, DepthIsBounded, Existing
<1>2. Spec => []SInv
  BY AlwaysSInv
<1> QED
  BY <1>1, <1>2, PTL

(* While the names below a moved or renamed project are written, none that *)
(* is to be written is taken: a subtree is torn by a kill and never by the *)
(* names in it (_update_subproject_names).                                 *)
THEOREM WritesEndTheSubtree == MovesAlone /\ NoMerges => (Spec => []NamesBelowAreFree)
<1> SUFFICES ASSUME MovesAlone, NoMerges PROVE Spec => []NamesBelowAreFree
  OBVIOUS
<1>1. SInv => NamesBelowAreFree
  <2> SUFFICES ASSUME TInv, Beside, Good, NEW c \in Calls, call[c].pc = "descend",
                      NEW q \in call[c].left
               PROVE  ~Taken(q, NameBelow(call[c], call[c].below[q]))
    BY DEF SInv, NamesBelowAreFree
  <2> DEFINE r == call[c]
             T == Before(r, project)
  <2>1. r \in CallRecords /\ CallOK(r) /\ r # NoCall /\ Fits(r, project)
    BY NoCallOK DEF TInv, Good
  <2>2. r.kind \in {"move", "rename", "merge"} /\ r.kind # "merge"
    BY <2>1 DEF CallOK, Beside, NoMerges
  <2>3. /\ r.moved \in Projects /\ r.read \in NDocs /\ r.new \in NDocs
        /\ q \in DOMAIN r.below
    BY <2>1 DEF CallOK, CallRecords
  <2>4. Descends(r, r.left, T, project)
    BY <2>1 DEF Fits, FitsWrite
  <2> HIDE DEF T
  <2> QED
    BY <2>1, <2>2, <2>3, <2>4, Rewrites
<1>2. Spec => []SInv
  BY AlwaysSInv
<1> QED
  BY <1>1, <1>2, PTL

===============================================================================
