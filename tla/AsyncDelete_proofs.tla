-------------------------- MODULE AsyncDelete_proofs --------------------------
(***************************************************************************)
(* Proofs about the deletion loop and the requests that schedule URLs, for *)
(* any number of URLs, storages and threads.                               *)
(***************************************************************************)
EXTENDS AsyncDelete, TLAPS

(* What the storage said it deleted is gone, and a thread that found a     *)
(* document finds none later only because the file was deleted.            *)
AnswersHold == \A i \in loop.deleted : i.url \notin files
CallsOK ==
  \A c \in Calls :
    /\ call[c].pc # "idle" => call[c].url \in Urls
    /\ call[c].pc = "update" => call[c].id \in Ids
    /\ call[c].pc \in {"find", "update"} /\ call[c].url \in files => doc[call[c].url] # None

AInv == TypeOK /\ AnswersHold /\ CallsOK /\ NothingForgotten /\ GivenUpForAReason

LEMMA InitInv == Init => AInv
  <1> SUFFICES ASSUME Init PROVE AInv
    OBVIOUS
  <1>1. NewPass \in LoopStates
    BY DEF NewPass, LoopStates, LoopSteps
  <1>2. NoCall \in CallStates
    BY DEF NoCall, CallStates
  <1>3. TypeOK
    BY <1>1, <1>2 DEF Init, TypeOK
  <1>4. AnswersHold /\ NothingForgotten /\ GivenUpForAReason
    BY DEF Init, AnswersHold, NewPass, NothingForgotten, GivenUpForAReason
  <1>5. CallsOK
    BY DEF Init, CallsOK, NoCall
  <1> QED
    BY <1>3, <1>4, <1>5 DEF AInv

(* Counting leaves the loop in one of its states.                          *)
LEMMA CountingOK ==
  ASSUME NEW r \in LoopStates, NEW items \in SUBSET Items, NEW next \in LoopSteps
  PROVE  /\ Counting(r, items, next) \in LoopStates
         /\ Counting(r, items, next).deleted = r.deleted
         /\ Counting(r, items, next).pc \in {next, "count"}
  <1>1. CASE items = {}
    BY <1>1 DEF Counting, LoopStates, LoopSteps
  <1>2. CASE items # {}
    BY <1>2 DEF Counting, LoopStates, LoopSteps
  <1> QED
    BY <1>1, <1>2

(* The parts of a cut are subsets of what is cut.                          *)
LEMMA CutOK ==
  ASSUME NEW s, NEW n, NEW part \in Cut(s, n)
  PROVE  part \subseteq s
  BY DEF Cut

LEMMA NamedItem ==
  ASSUME NEW u \in Urls, NEW items, Named(u, items)
  PROVE  \E i \in items : i.url = u
  <1>1. [url |-> u, id |-> doc[u].id] \in items
    BY DEF Named
  <1> QED
    BY <1>1

LEMMA NewDocumentOK ==
  ASSUME NEW i \in Ids
  PROVE  /\ NewDocument(i) \in Documents /\ NewDocument(i) # None
         /\ NewDocument(i).status = "created" /\ NewDocument(i).retry_count = 0
  BY NoneIsNoDocument DEF NewDocument, Documents

(* What the loop writes of a document.                                     *)
LEMMA DocumentUpdates ==
  ASSUME NEW d \in Documents
  PROVE  /\ [d EXCEPT !.status = "failed", !.failed_at = "recent"] \in Documents
         /\ [d EXCEPT !.retry_count = @ + 1, !.failed_at = "recent"] \in Documents
         /\ [d EXCEPT !.status = "failed"] \in Documents
         /\ [d EXCEPT !.failed_at = "old"] \in Documents
  <1>1. d.retry_count + 1 \in Nat
    BY DEF Documents
  <1> QED
    BY <1>1 DEF Documents

(* Documents keep their type under the updates of many of them.            *)
LEMMA MarkFailedOK ==
  ASSUME TypeOK, NEW items, MarkFailed(items)
  PROVE  doc' \in [Urls -> Documents \cup {None}]
  <1> SUFFICES ASSUME NEW u \in Urls PROVE doc'[u] \in Documents \cup {None}
    BY DEF MarkFailed
  <1>1. CASE Named(u, items)
    <2>1. doc[u] \in Documents
      BY <1>1 DEF TypeOK, Named
    <2> QED
      BY <1>1, <2>1 DEF MarkFailed, Documents
  <1>2. CASE ~Named(u, items)
    BY <1>2 DEF MarkFailed, TypeOK
  <1> QED
    BY <1>1, <1>2

(* Every variable keeps its type: the loop's steps first.                  *)
LEMMA LoopTypes ==
  ASSUME TypeOK, LoopStep
  PROVE  TypeOK'
  <1> USE DEF TypeOK
  <1>0. NewPass \in LoopStates
    BY DEF NewPass, LoopStates, LoopSteps
  <1>1. CASE PickStorage
    <2>1. PICK u \in Urls : loop' = [NewPass EXCEPT !.pc = "list", !.storage = StorageOf[u]]
      BY <1>1 DEF PickStorage
    <2>2. StorageOf[u] \in Storages
      BY AsyncDeleteAssumption
    <2>3. loop' \in LoopStates
      BY <1>0, <2>1, <2>2 DEF LoopStates, LoopSteps
    <2> QED
      BY <1>1, <2>3 DEF PickStorage
  <1>2. CASE ListUrls
    <2> DEFINE found == {u \in Urls : Eligible(u) /\ StorageOf[u] = loop.storage}
    <2>1. PICK batch \in Cut(found, BatchSize) :
            loop' = [loop EXCEPT !.pc = "base", !.storage = None,
                       !.todo = {[url |-> u, id |-> doc[u].id] : u \in batch}]
      BY <1>2 DEF ListUrls
    <2>2. batch \subseteq found
      BY CutOK
    <2>3. \A u \in batch : u \in Urls /\ doc[u] \in Documents
      BY <2>2 DEF Eligible
    <2>4. {[url |-> u, id |-> doc[u].id] : u \in batch} \subseteq Items
      BY <2>3 DEF Items, Documents
    <2>5. loop' \in LoopStates
      BY <2>1, <2>4 DEF LoopStates, LoopSteps
    <2> QED
      BY <1>2, <2>5 DEF ListUrls
  <1>3. CASE RefuseBase
    <2>1. loop' \in LoopStates
      BY <1>3 DEF RefuseBase, GroupOf, LoopStates
    <2> QED
      BY <1>3, <2>1, MarkFailedOK DEF RefuseBase
  <1>4. CASE OpenBase
    <2>1. PICK base \in Bases :
            LET rest == [loop EXCEPT !.todo = @ \ GroupOf(base)] IN
              \/ loop' = [rest EXCEPT !.pc = "chunk", !.group = GroupOf(base),
                            !.rest = GroupOf(base)]
              \/ loop' = Counting(rest, GroupOf(base), "base")
      BY <1>4 DEF OpenBase
    <2> DEFINE rest == [loop EXCEPT !.todo = @ \ GroupOf(base)]
    <2>2. GroupOf(base) \in SUBSET Items
      BY DEF GroupOf, LoopStates
    <2>3. rest \in LoopStates
      BY DEF LoopStates
    <2>4. [rest EXCEPT !.pc = "chunk", !.group = GroupOf(base), !.rest = GroupOf(base)]
            \in LoopStates
      BY <2>2, <2>3 DEF LoopStates, LoopSteps
    <2>5. Counting(rest, GroupOf(base), "base") \in LoopStates
      BY <2>2, <2>3, CountingOK DEF LoopSteps
    <2> QED
      BY <1>4, <2>1, <2>4, <2>5 DEF OpenBase
  <1>5. CASE EndPass
    BY <1>0, <1>5 DEF EndPass
  <1>6. CASE NextChunk
    <2>1. PICK chunk \in Cut(loop.rest, ChunkSize) :
            LET pathless == {i \in chunk : i.url \in Pathless} IN
            /\ MarkFailed(pathless)
            /\ loop' = [loop EXCEPT !.rest = @ \ chunk, !.asked = chunk \ pathless,
                          !.pc = IF chunk = pathless THEN "chunk" ELSE "delete"]
      BY <1>6 DEF NextChunk
    <2>2. chunk \subseteq loop.rest
      BY CutOK
    <2>3. doc' \in [Urls -> Documents \cup {None}]
      BY <2>1, MarkFailedOK
    <2>4. loop' \in LoopStates
      BY <2>1, <2>2 DEF LoopStates, LoopSteps
    <2> QED
      BY <1>6, <2>3, <2>4 DEF NextChunk
  <1>7. CASE EndGroup
    BY <1>7 DEF EndGroup, LoopStates, LoopSteps
  <1>8. CASE DeleteRaises
    <2>1. [loop EXCEPT !.asked = {}] \in LoopStates
      BY DEF LoopStates
    <2>2. loop.group \in SUBSET Items
      BY DEF LoopStates
    <2>3. loop' \in LoopStates
      BY <1>8, <2>1, <2>2, CountingOK DEF DeleteRaises, LoopSteps
    <2> QED
      BY <1>8, <2>3 DEF DeleteRaises, RemoveFiles
  <1>9. CASE DeleteAnswers
    <2>1. PICK deleted \in SUBSET loop.asked, errors \in SUBSET loop.asked :
            loop' = [loop EXCEPT !.pc = "errors", !.asked = {}, !.deleted = deleted,
                       !.errors = errors, !.missing = loop.asked \ (deleted \cup errors)]
      BY <1>9 DEF DeleteAnswers
    <2>2. loop.asked \in SUBSET Items
      BY DEF LoopStates
    <2>3. loop' \in LoopStates
      BY <2>1, <2>2 DEF LoopStates, LoopSteps
    <2> QED
      BY <1>9, <2>3 DEF DeleteAnswers, RemoveFiles
  <1>10. CASE CountFailure
    <2>1. ASSUME NEW u \in Urls PROVE doc'[u] \in Documents \cup {None}
      <3>1. CASE Named(u, loop.counting)
        <4>1. doc[u] \in Documents
          BY <3>1 DEF Named
        <4>2. doc'[u] = [doc[u] EXCEPT !.retry_count = doc[u].retry_count + 1,
                                        !.failed_at = "recent"]
          BY <1>10, <3>1 DEF CountFailure
        <4>3. doc[u].retry_count + 1 \in Nat
          BY <4>1 DEF Documents
        <4> QED
          BY <4>1, <4>2, <4>3 DEF Documents
      <3>2. CASE ~Named(u, loop.counting)
        BY <1>10, <3>2 DEF CountFailure
      <3> QED
        BY <3>1, <3>2
    <2>2. doc' \in [Urls -> Documents \cup {None}]
      BY <1>10, <2>1 DEF CountFailure
    <2>3. loop' \in LoopStates
      BY <1>10 DEF CountFailure, LoopStates, LoopSteps
    <2> QED
      BY <1>10, <2>2, <2>3 DEF CountFailure
  <1>11. CASE GiveUp
    <2>1. ASSUME NEW u \in Urls PROVE doc'[u] \in Documents \cup {None}
      <3>1. CASE Named(u, loop.counting) /\ IsExhausted(doc[u])
        <4>1. doc[u] \in Documents
          BY <3>1 DEF Named
        <4> QED
          BY <1>11, <3>1, <4>1 DEF GiveUp, Documents
      <3>2. CASE ~(Named(u, loop.counting) /\ IsExhausted(doc[u]))
        BY <1>11, <3>2 DEF GiveUp
      <3> QED
        BY <3>1, <3>2
    <2>2. doc' \in [Urls -> Documents \cup {None}]
      BY <1>11, <2>1 DEF GiveUp
    <2>3. loop' \in LoopStates
      BY <1>11 DEF GiveUp, LoopStates, LoopSteps
    <2> QED
      BY <1>11, <2>2, <2>3 DEF GiveUp
  <1>12. CASE ForgetDeleted
    <2>1. [loop EXCEPT !.deleted = {}, !.missing = {}] \in LoopStates
      BY DEF LoopStates
    <2>2. loop.missing \in SUBSET Items
      BY DEF LoopStates
    <2>3. loop' \in LoopStates
      BY <1>12, <2>1, <2>2, CountingOK DEF ForgetDeleted, LoopSteps
    <2>4. doc' \in [Urls -> Documents \cup {None}]
      BY <1>12 DEF ForgetDeleted
    <2> QED
      BY <1>12, <2>3, <2>4 DEF ForgetDeleted
  <1>13. CASE CountErrors
    <2>1. PICK reason \in SUBSET loop.errors :
            loop' = Counting([loop EXCEPT !.errors = @ \ reason], reason, "errors")
      BY <1>13 DEF CountErrors
    <2>2. [loop EXCEPT !.errors = @ \ reason] \in LoopStates /\ reason \in SUBSET Items
      BY DEF LoopStates
    <2>3. loop' \in LoopStates
      BY <2>1, <2>2, CountingOK DEF LoopSteps
    <2> QED
      BY <1>13, <2>3 DEF CountErrors
  <1> QED
    BY <1>1, <1>2, <1>3, <1>4, <1>5, <1>6, <1>7, <1>8, <1>9, <1>10, <1>11, <1>12, <1>13
       DEF LoopStep

LEMMA CallTypes ==
  ASSUME AInv, NEW c \in Calls, CallStep(c)
  PROVE  TypeOK'
  <1> USE DEF AInv, TypeOK
  <1>0. NoCall \in CallStates
    BY DEF NoCall, CallStates
  <1>1. CASE \E u \in Urls : Schedule(c, u)
    <2>1. PICK u \in Urls : call' = [call EXCEPT ![c] = [NoCall EXCEPT !.pc = "save", !.url = u]]
      BY <1>1 DEF Schedule
    <2>2. [NoCall EXCEPT !.pc = "save", !.url = u] \in CallStates
      BY DEF NoCall, CallStates
    <2> QED
      BY <1>1, <2>1, <2>2 DEF Schedule
  <1>2. CASE SaveUrl(c)
    <2>1. call[c].url \in Urls
      BY <1>2 DEF SaveUrl, CallsOK
    <2>2. CASE doc[call[c].url] = None
      <3>1. (CHOOSE i \in Ids \ UsedIds(call[c].url) : TRUE) \in Ids
        BY <1>2, <2>2 DEF SaveUrl
      <3>2. doc' \in [Urls -> Documents \cup {None}]
        BY <1>2, <2>2, <3>1, NewDocumentOK DEF SaveUrl
      <3> QED
        BY <1>0, <1>2, <2>1, <2>2, <3>2 DEF SaveUrl, Scheduled
    <2>3. CASE doc[call[c].url] # None
      <3>1. call' \in [Calls -> CallStates]
        BY <1>2, <2>3 DEF SaveUrl, CallStates
      <3> QED
        BY <1>2, <2>3, <3>1 DEF SaveUrl
    <2> QED
      BY <2>2, <2>3
  <1>3. CASE FindExisting(c)
    <2>1. call[c].url \in Urls
      BY <1>3 DEF FindExisting, CallsOK
    <2>2. CASE doc[call[c].url] = None
      BY <1>0, <1>3, <2>1, <2>2 DEF FindExisting, Scheduled
    <2>3. CASE doc[call[c].url] # None
      <3>1. doc[call[c].url].id \in Ids
        BY <2>1, <2>3 DEF Documents
      <3>2. [call[c] EXCEPT !.pc = "update", !.id = doc[call[c].url].id] \in CallStates
        BY <3>1 DEF CallStates
      <3>3. call' = [call EXCEPT ![c] =
                       [call[c] EXCEPT !.pc = "update", !.id = doc[call[c].url].id]]
        BY <1>3, <2>3 DEF FindExisting
      <3>4. call' \in [Calls -> CallStates]
        BY <3>2, <3>3
      <3> QED
        BY <1>3, <2>3, <3>4 DEF FindExisting
    <2> QED
      BY <2>2, <2>3
  <1>4. CASE UpdateExisting(c)
    <2>1. call[c].url \in Urls /\ call[c].id \in Ids
      BY <1>4 DEF UpdateExisting, CallsOK
    <2>2. doc' \in [Urls -> Documents \cup {None}]
      BY <1>4, <2>1, NewDocumentOK DEF UpdateExisting
    <2> QED
      BY <1>0, <1>4, <2>1, <2>2 DEF UpdateExisting, Scheduled
  <1> QED
    BY <1>1, <1>2, <1>3, <1>4 DEF CallStep

LEMMA TypeStep == AInv /\ [Next]_vars => TypeOK'
  <1> SUFFICES ASSUME AInv, [Next]_vars PROVE TypeOK'
    OBVIOUS
  <1>1. CASE RetryTimeout
    <2>1. PICK u \in Urls : doc[u] # None /\ doc' = [doc EXCEPT ![u].failed_at = "old"]
      BY <1>1 DEF RetryTimeout
    <2>2. doc[u] \in Documents
      BY <2>1 DEF AInv, TypeOK
    <2>3. doc' \in [Urls -> Documents \cup {None}]
      BY <2>1, <2>2 DEF AInv, TypeOK, Documents
    <2> QED
      BY <1>1, <2>3 DEF RetryTimeout, AInv, TypeOK
  <1>2. CASE Kill
    <2>1. NewPass \in LoopStates
      BY DEF NewPass, LoopStates, LoopSteps
    <2> QED
      BY <1>2, <2>1 DEF Kill, AInv, TypeOK
  <1>3. CASE UNCHANGED vars
    BY <1>3 DEF vars, AInv, TypeOK
  <1> QED
    BY <1>1, <1>2, <1>3, LoopTypes, CallTypes DEF Next, AInv

(* The loop forgets only what the storage said is deleted.                 *)
LEMMA AnswersStep == AInv /\ [Next]_vars => AnswersHold'
  <1> SUFFICES ASSUME AInv, [Next]_vars PROVE AnswersHold'
    OBVIOUS
  <1> USE DEF AInv, TypeOK, AnswersHold
  <1>0. NewPass.deleted = {}
    BY DEF NewPass
  <1>1. CASE loop'.deleted = loop.deleted /\ files' \subseteq files
    BY <1>1
  <1>2. CASE loop'.deleted = {}
    BY <1>2
  <1>3. CASE OpenBase
    <2>1. PICK base \in Bases :
            LET rest == [loop EXCEPT !.todo = @ \ GroupOf(base)] IN
              \/ loop' = [rest EXCEPT !.pc = "chunk", !.group = GroupOf(base),
                            !.rest = GroupOf(base)]
              \/ loop' = Counting(rest, GroupOf(base), "base")
      BY <1>3 DEF OpenBase
    <2> DEFINE rest == [loop EXCEPT !.todo = @ \ GroupOf(base)]
    <2>2. rest \in LoopStates /\ GroupOf(base) \in SUBSET Items /\ rest.deleted = loop.deleted
      BY DEF GroupOf, LoopStates
    <2>3. Counting(rest, GroupOf(base), "base").deleted = loop.deleted
      BY <2>2, CountingOK DEF LoopSteps
    <2>4. [rest EXCEPT !.pc = "chunk", !.group = GroupOf(base), !.rest = GroupOf(base)].deleted
            = loop.deleted
      BY <2>2 DEF LoopStates
    <2> QED
      BY <1>1, <1>3, <2>1, <2>3, <2>4 DEF OpenBase
  <1>4. CASE DeleteRaises
    <2>1. [loop EXCEPT !.asked = {}] \in LoopStates
      BY DEF LoopStates
    <2>2. [loop EXCEPT !.asked = {}].deleted = loop.deleted /\ loop.group \in SUBSET Items
      BY DEF LoopStates
    <2>3. loop'.deleted = loop.deleted
      BY <1>4, <2>1, <2>2, CountingOK DEF DeleteRaises, LoopSteps
    <2> QED
      BY <1>1, <1>4, <2>3 DEF DeleteRaises, RemoveFiles
  <1>5. CASE DeleteAnswers
    <2>1. PICK deleted \in SUBSET {i \in loop.asked : i.url \notin files'} :
            loop'.deleted = deleted
      BY <1>5 DEF DeleteAnswers, LoopStates
    <2> QED
      BY <2>1
  <1>6. CASE ForgetDeleted
    <2>1. [loop EXCEPT !.deleted = {}, !.missing = {}] \in LoopStates
      BY DEF LoopStates
    <2>2. /\ [loop EXCEPT !.deleted = {}, !.missing = {}].deleted = {}
          /\ loop.missing \in SUBSET Items
      BY DEF LoopStates
    <2>3. loop'.deleted = {}
      BY <1>6, <2>1, <2>2, CountingOK DEF ForgetDeleted, LoopSteps
    <2> QED
      BY <1>2, <2>3
  <1>7. CASE ListUrls \/ RefuseBase \/ NextChunk \/ EndGroup \/ CountFailure \/ GiveUp
    <2>1. loop'.deleted = loop.deleted
      BY <1>7 DEF ListUrls, RefuseBase, NextChunk, EndGroup, CountFailure, GiveUp, LoopStates
    <2> QED
      BY <1>1, <1>7, <2>1
         DEF ListUrls, RefuseBase, NextChunk, EndGroup, CountFailure, GiveUp
  <1>8. CASE PickStorage \/ EndPass \/ Kill
    BY <1>0, <1>2, <1>8 DEF PickStorage, EndPass, Kill, NewPass
  <1>9. CASE RetryTimeout \/ (\E c \in Calls : CallStep(c)) \/ UNCHANGED vars
    BY <1>1, <1>9 DEF RetryTimeout, CallStep, Schedule, SaveUrl, FindExisting, UpdateExisting, vars
  <1>10. CASE CountErrors
    <2>1. PICK reason \in SUBSET loop.errors :
            loop' = Counting([loop EXCEPT !.errors = @ \ reason], reason, "errors")
      BY <1>10 DEF CountErrors
    <2>2. /\ [loop EXCEPT !.errors = @ \ reason] \in LoopStates /\ reason \in SUBSET Items
          /\ [loop EXCEPT !.errors = @ \ reason].deleted = loop.deleted
      BY DEF LoopStates
    <2>3. loop'.deleted = loop.deleted
      BY <2>1, <2>2, CountingOK DEF LoopSteps
    <2> QED
      BY <1>1, <1>10, <2>3 DEF CountErrors
  <1> QED
    BY <1>3, <1>4, <1>5, <1>6, <1>7, <1>8, <1>9, <1>10 DEF Next, LoopStep

(* No file comes back, and a document is removed only when its file is.    *)
LEMMA DocumentsKept ==
  ASSUME AInv, [Next]_vars, NEW u \in Urls, u \in files'
  PROVE  u \in files /\ (doc[u] # None => doc'[u] # None)
  <1> USE DEF AInv, TypeOK
  <1>0. \A d \in Documents : d # None
    BY NoneIsNoDocument
  <1>1. u \in files
    BY DEF Next, LoopStep, PickStorage, ListUrls, RefuseBase, OpenBase, EndPass, NextChunk,
           EndGroup, DeleteRaises, DeleteAnswers, RemoveFiles, CountErrors, CountFailure, GiveUp,
           ForgetDeleted, RetryTimeout, Kill, CallStep, Schedule, SaveUrl, FindExisting,
           UpdateExisting, vars
  <1>2. ASSUME doc[u] # None PROVE doc'[u] # None
    <2>1. doc[u] \in Documents
      BY <1>2
    <2>2. CASE ForgetDeleted
      <3>1. ~Named(u, Done)
        <4> SUFFICES ASSUME Named(u, Done) PROVE FALSE
          OBVIOUS
        <4>1. PICK i \in loop.deleted : i.url = u
          BY NamedItem DEF Done
        <4> QED
          BY <1>1, <4>1 DEF AnswersHold
      <3> QED
        BY <1>2, <2>2, <3>1 DEF ForgetDeleted
    <2>3. CASE \E c \in Calls : SaveUrl(c)
      <3>1. PICK c \in Calls : SaveUrl(c)
        BY <2>3
      <3>2. CASE doc[call[c].url] = None
        BY <1>2, <3>1, <3>2 DEF SaveUrl
      <3>3. CASE doc[call[c].url] # None
        BY <1>2, <3>1, <3>3 DEF SaveUrl
      <3> QED
        BY <3>2, <3>3
    <2>4. CASE \E c \in Calls : UpdateExisting(c)
      <3>1. PICK c \in Calls : UpdateExisting(c)
        BY <2>4
      <3>2. call[c].id \in Ids
        BY <3>1 DEF UpdateExisting, CallsOK
      <3> QED
        BY <1>2, <3>1, <3>2, NewDocumentOK DEF UpdateExisting
    <2>5. CASE RefuseBase \/ NextChunk \/ CountFailure \/ GiveUp \/ RetryTimeout
      <3>1. \/ doc'[u] = doc[u]
            \/ doc'[u] = [doc[u] EXCEPT !.status = "failed", !.failed_at = "recent"]
            \/ doc'[u] = [doc[u] EXCEPT !.retry_count = @ + 1, !.failed_at = "recent"]
            \/ doc'[u] = [doc[u] EXCEPT !.status = "failed"]
            \/ doc'[u] = [doc[u] EXCEPT !.failed_at = "old"]
        BY <2>5 DEF RefuseBase, NextChunk, MarkFailed, CountFailure, GiveUp, RetryTimeout
      <3>2. doc'[u] \in Documents
        BY <2>1, <3>1, DocumentUpdates
      <3> QED
        BY <1>0, <3>2
    <2>6. CASE doc' = doc
      BY <1>2, <2>6
    <2> QED
      BY <2>2, <2>3, <2>4, <2>5, <2>6
         DEF Next, LoopStep, PickStorage, ListUrls, OpenBase, EndPass, EndGroup, DeleteRaises,
             DeleteAnswers, CountErrors, Kill, CallStep, Schedule, FindExisting, vars
  <1> QED
    BY <1>1, <1>2

LEMMA ScheduleIdle ==
  ASSUME NEW c \in Calls, NEW u \in Urls, Schedule(c, u)
  PROVE  call[c].pc = "idle"
  <1>1. call[c] = NoCall
    BY DEF Schedule
  <1> QED
    BY <1>1 DEF NoCall

LEMMA CallsStep == AInv /\ [Next]_vars => CallsOK'
  <1> SUFFICES ASSUME AInv, [Next]_vars, NEW c \in Calls
               PROVE  /\ call'[c].pc # "idle" => call'[c].url \in Urls
                      /\ call'[c].pc = "update" => call'[c].id \in Ids
                      /\ call'[c].pc \in {"find", "update"} /\ call'[c].url \in files' =>
                           doc'[call'[c].url] # None
    BY DEF CallsOK
  <1> USE DEF AInv, TypeOK
  <1>1. CASE call'[c] = call[c]
    <2>1. ASSUME call[c].pc \in {"find", "update"}, call[c].url \in files'
          PROVE  doc'[call[c].url] # None
      <3>1. call[c].url \in Urls
        BY <2>1 DEF CallsOK
      <3> QED
        BY <2>1, <3>1, DocumentsKept DEF CallsOK
    <2> QED
      BY <1>1, <2>1 DEF CallsOK
  <1>2. CASE call'[c] = NoCall
    BY <1>2 DEF NoCall
  <1>3. CASE \E u \in Urls : Schedule(c, u)
    BY <1>3 DEF Schedule, NoCall
  <1>4. CASE SaveUrl(c) /\ doc[call[c].url] # None
    <2>1. /\ call'[c] = [call[c] EXCEPT !.pc = "find"]
          /\ doc' = doc
      BY <1>4 DEF SaveUrl
    <2>2. call[c].url \in Urls /\ call[c] \in CallStates
      BY <1>4 DEF SaveUrl, CallsOK
    <2> QED
      BY <1>4, <2>1, <2>2 DEF CallStates
  <1>5. CASE FindExisting(c) /\ doc[call[c].url] # None
    <2>1. /\ call'[c] = [call[c] EXCEPT !.pc = "update", !.id = doc[call[c].url].id]
          /\ doc' = doc
      BY <1>5 DEF FindExisting
    <2>2. call[c].url \in Urls /\ call[c] \in CallStates
      BY <1>5 DEF FindExisting, CallsOK
    <2>3. doc[call[c].url].id \in Ids
      BY <1>5, <2>2 DEF Documents
    <2> QED
      BY <1>5, <2>1, <2>2, <2>3 DEF CallStates
  <1>6. CASE \E d \in Calls : CallStep(d)
    <2>1. PICK d \in Calls : CallStep(d)
      BY <1>6
    <2>2. CASE d # c
      BY <1>1, <2>1, <2>2
         DEF CallStep, Schedule, SaveUrl, FindExisting, UpdateExisting, Scheduled
    <2>3. CASE d = c
      <3>1. \/ \E u \in Urls : Schedule(c, u)
            \/ SaveUrl(c) \/ FindExisting(c) \/ UpdateExisting(c)
        BY <2>1, <2>3 DEF CallStep
      <3>2. CASE SaveUrl(c) /\ doc[call[c].url] = None
        BY <1>2, <3>2 DEF SaveUrl, Scheduled
      <3>3. CASE FindExisting(c) /\ doc[call[c].url] = None
        BY <1>2, <3>3 DEF FindExisting, Scheduled
      <3>4. CASE UpdateExisting(c)
        BY <1>2, <3>4 DEF UpdateExisting, Scheduled
      <3> QED
        BY <1>3, <1>4, <1>5, <3>1, <3>2, <3>3, <3>4
    <2> QED
      BY <2>2, <2>3
  <1> QED
    BY <1>1, <1>6
       DEF Next, LoopStep, PickStorage, ListUrls, RefuseBase, OpenBase, EndPass, NextChunk,
           EndGroup, DeleteRaises, DeleteAnswers, CountErrors, CountFailure, GiveUp,
           ForgetDeleted,
           RetryTimeout, Kill, vars

(* A thread tells its request that the URL is scheduled only when it has a *)
(* document or its file is gone.                                           *)
LEMMA ForgottenStep == AInv /\ [Next]_vars => NothingForgotten'
  <1> SUFFICES ASSUME AInv, [Next]_vars, NEW u \in scheduled', u \in files'
               PROVE  doc'[u] # None
    BY DEF NothingForgotten
  <1> USE DEF AInv, TypeOK
  <1>1. CASE u \in scheduled
    BY <1>1, DocumentsKept DEF NothingForgotten
  <1>2. CASE \E c \in Calls : call[c].url = u /\ Scheduled(c) /\ CallStep(c)
    <2>1. PICK c \in Calls : call[c].url = u /\ Scheduled(c) /\ CallStep(c)
      BY <1>2
    <2>2. call[c].pc # "idle"
      BY <2>1 DEF Scheduled, CallStep, Schedule, SaveUrl, FindExisting, UpdateExisting, NoCall
    <2>3. u \in Urls
      BY <2>1, <2>2 DEF CallsOK
    <2>4. u \in files
      BY <2>3, DocumentsKept
    <2>5. CASE doc[u] # None
      BY <2>3, <2>5, DocumentsKept
    <2>6. CASE doc[u] = None
      <3>1. call[c].pc \notin {"find", "update"}
        BY <2>1, <2>4, <2>6 DEF CallsOK
      <3>2. SaveUrl(c)
        <4>1. ~FindExisting(c) /\ ~UpdateExisting(c)
          BY <3>1 DEF FindExisting, UpdateExisting
        <4>2. ~\E v \in Urls : Schedule(c, v)
          BY <2>2, ScheduleIdle
        <4> QED
          BY <2>1, <4>1, <4>2 DEF CallStep
      <3>3. (CHOOSE i \in Ids \ UsedIds(u) : TRUE) \in Ids
        BY <2>1, <2>6, <3>2 DEF SaveUrl
      <3> QED
        BY <2>1, <2>3, <2>6, <3>2, <3>3, NewDocumentOK DEF SaveUrl
    <2> QED
      BY <2>5, <2>6
  <1>3. u \in scheduled \/ \E c \in Calls : call[c].url = u /\ Scheduled(c) /\ CallStep(c)
    BY DEF Next, LoopStep, PickStorage, ListUrls, RefuseBase, OpenBase, EndPass, NextChunk,
           EndGroup, DeleteRaises, DeleteAnswers, CountErrors, CountFailure, GiveUp,
           ForgetDeleted,
           RetryTimeout, Kill, CallStep, Schedule, SaveUrl, FindExisting, UpdateExisting,
           Scheduled, vars
  <1> QED
    BY <1>1, <1>2, <1>3

(* What the requests write of a document is a new one.                     *)
LEMMA CallWrites ==
  ASSUME AInv, NEW c \in Calls, CallStep(c), NEW u \in Urls
  PROVE  doc'[u] = doc[u] \/ \E i \in Ids : doc'[u] = NewDocument(i)
  <1> USE DEF AInv, TypeOK
  <1>1. CASE SaveUrl(c)
    BY <1>1 DEF SaveUrl
  <1>2. CASE UpdateExisting(c)
    <2>1. call[c].id \in Ids
      BY <1>2 DEF UpdateExisting, CallsOK
    <2> QED
      BY <1>2, <2>1 DEF UpdateExisting
  <1> QED
    BY <1>1, <1>2 DEF CallStep, Schedule, FindExisting

LEMMA RetryWrites ==
  ASSUME TypeOK, RetryTimeout, NEW u \in Urls
  PROVE  doc'[u] = doc[u] \/ (doc[u] # None /\ doc'[u] = [doc[u] EXCEPT !.failed_at = "old"])
  <1>1. PICK v \in Urls : /\ doc[v] # None
                           /\ doc' = [doc EXCEPT ![v] = [@ EXCEPT !.failed_at = "old"]]
    BY DEF RetryTimeout
  <1>2. CASE u = v
    <2>1. doc'[u] = [doc[u] EXCEPT !.failed_at = "old"]
      BY <1>1, <1>2 DEF TypeOK
    <2> QED
      BY <1>1, <1>2, <2>1
  <1>3. CASE u # v
    <2>1. doc'[u] = doc[u]
      BY <1>1, <1>3 DEF TypeOK
    <2> QED
      BY <2>1
  <1> QED
    BY <1>2, <1>3

LEMMA ReasonStep == AInv /\ [Next]_vars => GivenUpForAReason'
  <1> SUFFICES ASSUME AInv, [Next]_vars, NEW u \in Urls, doc'[u] # None,
                      doc'[u].status = "failed"
               PROVE  doc'[u].retry_count >= max_retries \/ BaseOf[u] = None \/ u \in Pathless
    BY DEF GivenUpForAReason
  <1> USE DEF AInv, TypeOK
  <1>1. CASE doc'[u] = doc[u]
    BY <1>1 DEF GivenUpForAReason
  <1>2. ASSUME NEW items, MarkFailed(items),
               \A i \in items : BaseOf[i.url] = None \/ i.url \in Pathless
        PROVE  BaseOf[u] = None \/ u \in Pathless \/ doc'[u] = doc[u]
    <2>1. CASE Named(u, items)
      BY <1>2, <2>1, NamedItem
    <2>2. CASE ~Named(u, items)
      BY <1>2, <2>2 DEF MarkFailed
    <2> QED
      BY <2>1, <2>2
  <1>3. CASE RefuseBase
    BY <1>1, <1>2, <1>3 DEF RefuseBase, GroupOf
  <1>4. CASE NextChunk
    BY <1>1, <1>2, <1>4 DEF NextChunk
  <1>5. CASE CountFailure /\ Named(u, loop.counting)
    <2>1. doc[u] \in Documents
      BY <1>5 DEF Named
    <2>2. doc'[u] = [doc[u] EXCEPT !.retry_count = @ + 1, !.failed_at = "recent"]
      BY <1>5 DEF CountFailure
    <2>3. doc'[u].status = doc[u].status /\ doc'[u].retry_count = doc[u].retry_count + 1
      BY <2>1, <2>2 DEF Documents
    <2>4. doc[u] # None /\ doc[u].retry_count \in Nat /\ max_retries \in Nat
      BY <1>5, <2>1, AsyncDeleteAssumption DEF Named, Documents
    <2> QED
      BY <2>3, <2>4 DEF GivenUpForAReason
  <1>6. CASE GiveUp /\ Named(u, loop.counting) /\ IsExhausted(doc[u])
    <2>1. doc[u] \in Documents
      BY <1>6 DEF Named
    <2>2. doc'[u].retry_count = doc[u].retry_count
      BY <1>6, <2>1 DEF GiveUp, Documents
    <2> QED
      BY <1>6, <2>2 DEF IsExhausted
  <1>7. CASE RetryTimeout
    <2>1. doc'[u] = doc[u] \/ (doc[u] # None /\ doc'[u] = [doc[u] EXCEPT !.failed_at = "old"])
      BY <1>7, RetryWrites
    <2>2. ASSUME doc[u] # None, doc'[u] = [doc[u] EXCEPT !.failed_at = "old"]
          PROVE  doc'[u].status = doc[u].status /\ doc'[u].retry_count = doc[u].retry_count
      <3>1. doc[u] \in Documents
        BY <2>2
      <3> QED
        BY <2>2, <3>1 DEF Documents
    <2> QED
      BY <1>1, <2>1, <2>2 DEF GivenUpForAReason
  <1>8. CASE \E c \in Calls : CallStep(c)
    <2>1. PICK c \in Calls : CallStep(c)
      BY <1>8
    <2>2. doc'[u] = doc[u] \/ \E i \in Ids : doc'[u] = NewDocument(i)
      BY <2>1, CallWrites
    <2> QED
      BY <1>1, <2>2, NewDocumentOK
  <1>9. CASE ForgetDeleted
    BY <1>1, <1>9 DEF ForgetDeleted
  <1>10. doc'[u] = doc[u] \/ RefuseBase \/ NextChunk \/ ForgetDeleted \/ RetryTimeout
         \/ (\E c \in Calls : CallStep(c))
         \/ (CountFailure /\ Named(u, loop.counting))
         \/ (GiveUp /\ Named(u, loop.counting) /\ IsExhausted(doc[u]))
    BY DEF Next, LoopStep, PickStorage, ListUrls, OpenBase, EndPass, EndGroup, DeleteRaises,
           DeleteAnswers, CountErrors, CountFailure, GiveUp, Kill, vars
  <1> QED
    BY <1>1, <1>3, <1>4, <1>5, <1>6, <1>7, <1>8, <1>9, <1>10

LEMMA InvHolds == Spec => []AInv
  <1>1. AInv /\ [Next]_vars => AInv'
    BY TypeStep, AnswersStep, CallsStep, ForgottenStep, ReasonStep DEF AInv
  <1> QED
    BY <1>1, InitInv, PTL DEF Spec

(* The loop and the requests keep the documents, and what they remember of *)
(* them, well formed: a document that is inserted or scheduled again has   *)
(* its defaults.                                                           *)
THEOREM TypeCorrect == Spec => []TypeOK
  <1>1. AInv => TypeOK
    BY DEF AInv
  <1> QED
    BY <1>1, InvHolds, PTL

(* However requests that schedule a URL interleave with the loop, and      *)
(* whatever the storages answer, a URL said to be scheduled keeps its      *)
(* document as long as its file is there.                                  *)
THEOREM ScheduledStaysScheduled == Spec => []NothingForgotten
  <1>1. AInv => NothingForgotten
    BY DEF AInv
  <1> QED
    BY <1>1, InvHolds, PTL

(* Nor is a URL reported failed before it failed max_retries times since   *)
(* it was last scheduled, unless no client can delete it.                  *)
THEOREM FailedForAReason == Spec => []GivenUpForAReason
  <1>1. AInv => GivenUpForAReason
    BY DEF AInv
  <1> QED
    BY <1>1, InvHolds, PTL

(* A step but a kill leaves no URL with all its retries used up and not    *)
(* reported.                                                               *)
LEMMA ReportedStep ==
  ASSUME AInv, [Next]_vars, ~Kill, NEW u \in Urls, ~Stuck(u)
  PROVE  ~Stuck(u)'
  <1> USE DEF AInv, TypeOK
  <1>0. max_retries \in Nat \ {0}
    BY AsyncDeleteAssumption
  <1>1. CASE CountFailure
    <2>1. loop'.pc = "give_up" /\ loop'.counting = loop.counting /\ loop.pc = "count"
      BY <1>1 DEF CountFailure, LoopStates
    <2>2. CASE Named(u, loop.counting)
      <3>1. doc[u] \in Documents
        BY <2>2 DEF Named
      <3>2. doc'[u] = [doc[u] EXCEPT !.retry_count = @ + 1, !.failed_at = "recent"]
        BY <1>1, <2>2 DEF CountFailure
      <3>3. doc'[u].id = doc[u].id
        BY <3>1, <3>2 DEF Documents
      <3>4. doc'[u] # None
        BY <3>1, <3>2, DocumentUpdates, NoneIsNoDocument
      <3>5. Named(u, loop.counting)'
        BY <2>1, <2>2, <3>3, <3>4 DEF Named
      <3> QED
        BY <2>1, <3>5 DEF Stuck
    <2>3. CASE ~Named(u, loop.counting)
      BY <1>1, <2>1, <2>3 DEF CountFailure, Stuck, Exhausted
    <2> QED
      BY <2>2, <2>3
  <1>2. CASE GiveUp
    <2>1. loop.pc = "give_up"
      BY <1>2 DEF GiveUp
    <2>2. CASE Named(u, loop.counting) /\ IsExhausted(doc[u])
      <3>1. doc[u] \in Documents
        BY <2>2 DEF Named
      <3>2. doc'[u].status = "failed"
        BY <1>2, <2>2, <3>1 DEF GiveUp, Documents
      <3> QED
        BY <3>2 DEF Stuck
    <2>3. CASE ~(Named(u, loop.counting) /\ IsExhausted(doc[u]))
      <3>1. doc'[u] = doc[u]
        BY <1>2, <2>3 DEF GiveUp
      <3> QED
        BY <2>3, <3>1 DEF Stuck, Exhausted, IsExhausted
    <2> QED
      BY <2>2, <2>3
  <1>3. CASE \E c \in Calls : CallStep(c)
    <2>1. loop' = loop
      BY <1>3 DEF CallStep, Schedule, SaveUrl, FindExisting, UpdateExisting
    <2>2. doc'[u] = doc[u] \/ \E i \in Ids : doc'[u] = NewDocument(i)
      BY <1>3, CallWrites
    <2>3. CASE doc'[u] = doc[u]
      BY <2>1, <2>3 DEF Stuck, Exhausted, Named
    <2>4. CASE \E i \in Ids : doc'[u] = NewDocument(i)
      <3>1. ~(doc'[u].retry_count >= max_retries)
        BY <1>0, <2>4, NewDocumentOK
      <3> QED
        BY <3>1 DEF Stuck, Exhausted
    <2> QED
      BY <2>2, <2>3, <2>4
  <1>4. ASSUME loop.pc # "give_up",
               \/ doc'[u] = doc[u] \/ doc'[u] = None \/ doc'[u].status = "failed"
               \/ doc[u] # None /\ doc'[u] = [doc[u] EXCEPT !.failed_at = "old"]
        PROVE  ~Stuck(u)'
    <2>1. CASE doc[u] # None /\ doc'[u] = [doc[u] EXCEPT !.failed_at = "old"]
      <3>1. doc[u] \in Documents
        BY <2>1
      <3>2. doc'[u].status = doc[u].status /\ doc'[u].retry_count = doc[u].retry_count
        BY <2>1, <3>1 DEF Documents
      <3> QED
        BY <1>4, <2>1, <3>2 DEF Stuck, Exhausted
    <2> QED
      BY <1>4, <2>1 DEF Stuck, Exhausted
  <1>5. CASE RefuseBase \/ NextChunk
    <2>1. \E items : MarkFailed(items)
      BY <1>5 DEF RefuseBase, NextChunk
    <2>2. doc'[u] = doc[u] \/ doc'[u].status = "failed"
      <3>1. PICK items : MarkFailed(items)
        BY <2>1
      <3>2. CASE Named(u, items)
        <4>1. doc[u] \in Documents
          BY <3>2 DEF Named
        <4> QED
          BY <3>1, <3>2, <4>1 DEF MarkFailed, Documents
      <3>3. CASE ~Named(u, items)
        BY <3>1, <3>3 DEF MarkFailed
      <3> QED
        BY <3>2, <3>3
    <2> QED
      BY <1>4, <1>5, <2>2 DEF RefuseBase, NextChunk
  <1>6. CASE RetryTimeout
    <2>1. doc'[u] = doc[u] \/ (doc[u] # None /\ doc'[u] = [doc[u] EXCEPT !.failed_at = "old"])
      BY <1>6, RetryWrites
    <2> QED
      BY <1>4, <1>6, <2>1 DEF RetryTimeout
  <1>7. CASE ForgetDeleted
    BY <1>4, <1>7 DEF ForgetDeleted
  <1>8. CASE PickStorage \/ ListUrls \/ OpenBase \/ EndPass \/ EndGroup \/ DeleteRaises
             \/ DeleteAnswers \/ CountErrors
    BY <1>4, <1>8
       DEF PickStorage, ListUrls, OpenBase, EndPass, EndGroup, DeleteRaises, DeleteAnswers,
           CountErrors
  <1>9. CASE UNCHANGED vars
    BY <1>9 DEF vars, Stuck, Exhausted, Named
  <1> QED
    BY <1>1, <1>2, <1>3, <1>5, <1>6, <1>7, <1>8, <1>9 DEF Next, LoopStep

(* Every URL that used up its retries is reported, but for a kill between  *)
(* the two updates of mark_retry_failed.                                   *)
THEOREM ExhaustedAreReported == Spec => ExhaustedIsReported
  <1>1. AInv /\ [Next]_vars =>
          [\A u \in Urls : ~Stuck(u) /\ Stuck(u)' => Kill]_vars
    BY ReportedStep
  <1> QED
    BY <1>1, InvHolds, PTL DEF Spec, ExhaustedIsReported
===============================================================================
