------------------------------- MODULE Projects -------------------------------
(***************************************************************************)
(* The tree of projects (bll/project/sub_projects.py, project_bll.py,      *)
(* project_cleanup.py).  A project's document has its full name, its       *)
(* parent and its path, the ids of the projects above it: three records of *)
(* one place in the tree, which requests read and write one document after *)
(* the other, without a transaction.  Entities are the tasks and models.   *)
(***************************************************************************)
EXTENDS Naturals, Sequences, FiniteSets, SequencesExt

CONSTANTS
  Projects,     \* the ids of projects
  Segments,     \* what a name is made of, between the slashes
  Entities,     \* tasks and models
  Models,       \* those that are models
  Archived,     \* those with the system tag "archived"
  MaxDepth,     \* services.projects.sub_projects.max_depth
  Calls,        \* the server's request threads
  Serves,       \* Serves[c]: the requests that thread c handles
  Overlapping,  \* the requests that may overlap with each other
  Faults,       \* what may go wrong, a subset of {"kill"}
  None

RequestKinds == {"create", "attach", "move", "rename", "merge", "delete"}

ASSUME ProjectsAssumption ==
  /\ Archived \subseteq Entities /\ Models \subseteq Entities
  /\ MaxDepth \in Nat
  /\ Serves \in [Calls -> SUBSET RequestKinds]
  /\ Overlapping \subseteq RequestKinds
  /\ Faults \subseteq {"kill"}
  /\ None \notin Projects \cup Entities \cup RequestKinds

Documents == [name : Seq(Segments), parent : Projects \cup {None}, path : Seq(Projects)]
ASSUME NoneIsNoDocument == None \notin Documents

VARIABLES
  project,    \* project[p]: the document of p, or None
  entity,     \* entity[e]: the project of e, or None
  call,       \* call[c]: the local state of the request that c handles
  torn        \* history: a request was cut short among the documents of a subtree

vars == <<project, entity, call, torn>>

(* A place for projects: the one they are in, its name, and their path.    *)
Root == [parent |-> None, name |-> <<>>, path |-> <<>>]
Under(p, doc) == [parent |-> p, name |-> doc.name, path |-> Append(doc.path, p)]
DocAt(place, base) == [place EXCEPT !.name = Append(@, base)]

Existing == {p \in Projects : project[p] # None}
Named(name) == {p \in Existing : project[p].name = name}
Taken(p, name) == Named(name) \ {p} # {}
Below(p) == {q \in Existing : p \in Range(project[q].path)}
Read_All(ids) == [q \in Projects |-> project[q]]
Read(ids) == [q \in ids |-> project[q]]

(***************************************************************************)
(* A request's local state: what it is about, the name it looks up and how *)
(* far, the place it found, and for a subtree that gets other names: its   *)
(* project, as it was read and as it becomes, the projects below as they   *)
(* were read, those still to be written, and the subprojects to come.      *)
(***************************************************************************)
Steps ==
  {"idle", "find", "save", "attach", "move", "rename", "children", "descend",
   "merge_tasks", "merge_models", "direct", "merge",
   "disassociate_tasks", "disassociate_models", "delete"}

NoCall ==
  [pc |-> "idle", kind |-> None, id |-> None, target |-> <<>>, depth |-> 0, under |-> Root,
   moved |-> None, read |-> None, new |-> None, below |-> <<>>, left |-> {}, todo |-> <<>>]

Init ==
  /\ project = [p \in Projects |-> None]
  /\ entity = [e \in Entities |-> None]
  /\ call = [c \in Calls |-> NoCall]
  /\ torn = FALSE

Ends(c) == call' = [call EXCEPT ![c] = NoCall]
Goto(c, r) == call' = [call EXCEPT ![c] = r]

Asked(c, kind) ==
  /\ call[c] = NoCall
  /\ kind \in Serves[c]
  /\ \A d \in Calls : call[d] # NoCall => {kind, call[d].kind} \subseteq Overlapping

(***************************************************************************)
(* _ensure_project, and find_or_create and create which begin with it: the *)
(* projects on the way to a name are looked up from the last to the first, *)
(* and those that are missing are saved from the first to the last.        *)
(***************************************************************************)
Ensure(r, name) == [r EXCEPT !.pc = "find", !.target = name, !.depth = Len(name)]
Request(kind) == [NoCall EXCEPT !.kind = kind]

Create(c, name) ==
  /\ Asked(c, "create")
  /\ Len(name) <= MaxDepth
  /\ Goto(c, Ensure(Request("create"), name))
  /\ UNCHANGED <<project, entity, torn>>

(* move_under_project of an entity, to a project of a name, which is found *)
(* or created ...                                                          *)
AttachByName(c, e, name) ==
  /\ Asked(c, "attach")
  /\ Named(name) # {} \/ Len(name) <= MaxDepth
  /\ Goto(c, Ensure([Request("attach") EXCEPT !.id = e], name))
  /\ UNCHANGED <<project, entity, torn>>

(* ... or to one of an id, or to none.                                     *)
AttachById(c, e, p) ==
  /\ Asked(c, "attach")
  /\ p \in Existing \cup {None}
  /\ Goto(c, [Request("attach") EXCEPT !.pc = "attach", !.id = e, !.under.parent = p])
  /\ UNCHANGED <<project, entity, torn>>

(***************************************************************************)
(* move_project and merge_project first see that nothing gets too deep.    *)
(***************************************************************************)
DepthOf(doc) == Len(doc.path) + 1
FitsAt_OffByOne(ids, from, to) == \A q \in ids : Len(project[q].path) - from + to <= MaxDepth
FitsAt(ids, from, to) == \A q \in ids : DepthOf(project[q]) - from + to <= MaxDepth

Move(c, p, location) ==
  /\ Asked(c, "move")
  /\ p \in Existing
  /\ FitsAt({p} \cup Below(p), Len(project[p].path), Len(location))
  /\ Goto(c, Ensure([Request("move") EXCEPT !.id = p, !.moved = p, !.read = project[p],
                                            !.below = Read(Below(p))], location))
  /\ UNCHANGED <<project, entity, torn>>

(* What is done with the place that was found or made.                     *)
Located(r, place) ==
  CASE r.kind = "create" -> NoCall
    [] r.kind = "attach" -> [r EXCEPT !.pc = "attach", !.under = place]
    [] r.kind = "move" ->
         IF place.parent = r.read.parent \/ r.id \in Range(place.path) THEN NoCall
         ELSE [r EXCEPT !.pc = "move", !.under = place]
Reached(r, place) ==
  IF place.name = r.target THEN Located(r, place)
  ELSE [r EXCEPT !.pc = "save", !.under = place]

Find(c) ==
  LET r == call[c]  found == Named(SubSeq(r.target, 1, r.depth)) IN
  /\ r.pc = "find"
  /\ \/ /\ r.depth = 0
        /\ Goto(c, Reached(r, Root))
     \/ \E p \in found : Goto(c, Reached(r, Under(p, project[p])))
     \/ /\ r.depth > 0 /\ found = {}
        /\ Goto(c, [r EXCEPT !.depth = @ - 1])
  /\ UNCHANGED <<project, entity, torn>>

(* Ids are fresh: nothing remembers the new one.                           *)
Remembers(r, p) ==
  \/ p \in {r.id, r.under.parent} \/ p \in Range(r.under.path)
  \/ p \in DOMAIN r.below \/ p \in DOMAIN r.todo
Fresh(p) ==
  /\ project[p] = None
  /\ \A q \in Existing : p # project[q].parent /\ p \notin Range(project[q].path)
  /\ \A e \in Entities : entity[e] # p
  /\ \A c \in Calls : ~Remembers(call[c], p)

(* _save_under_parent of a new project.  Names are unique, and the save    *)
(* fails too when no id is left, a bound of the model.                     *)
SaveNew(c) ==
  LET r == call[c]  doc == DocAt(r.under, r.target[Len(r.under.name) + 1]) IN
  /\ r.pc = "save"
  /\ IF Taken(None, doc.name) \/ ~\E p \in Projects : Fresh(p)
     THEN Ends(c) /\ UNCHANGED project
     ELSE \E p \in Projects :
            /\ Fresh(p)
            /\ project' = [project EXCEPT ![p] = doc]
            /\ Goto(c, Reached(r, Under(p, doc)))
  /\ UNCHANGED <<entity, torn>>

Attach(c) ==
  /\ call[c].pc = "attach"
  /\ entity' = [entity EXCEPT ![call[c].id] = call[c].under.parent]
  /\ Ends(c)
  /\ UNCHANGED <<project, torn>>

(***************************************************************************)
(* _reposition_project_with_children: the project is saved at its new      *)
(* place, with the last part of its name, by an upsert that would bring    *)
(* back one that is gone, then the names and the paths of the projects     *)
(* below are written as they follow from what was read.  A name that is    *)
(* taken ends the request where it is.                                     *)
(***************************************************************************)
Descending(r, left) ==
  CASE left # {} -> [r EXCEPT !.pc = "descend", !.left = left]
    [] left = {} /\ r.kind = "merge" -> [r EXCEPT !.pc = "merge", !.left = {}]
    [] left = {} /\ r.kind # "merge" -> NoCall

Reposition(c, r, left) ==
  LET new == DocAt(r.under, Last(r.read.name)) IN
  IF Taken(r.moved, new.name) THEN Ends(c) /\ UNCHANGED project
  ELSE /\ project' = [project EXCEPT ![r.moved] = new]
       /\ Goto(c, Descending([r EXCEPT !.new = new], left))

MoveProject(c) ==
  LET r == call[c] IN
  /\ r.pc = "move"
  /\ Reposition(c, r, DOMAIN r.below)
  /\ UNCHANGED <<entity, torn>>

(* _update_subproject_names, with update_path unless it is for a rename.   *)
NameBelow_Direct(r, old) == Append(r.new.name, Last(old.name))
NameBelow(r, old) == r.new.name \o SubSeq(old.name, Len(r.read.name) + 1, Len(old.name))
PathBelow(r, old) == r.new.path \o SubSeq(old.path, Len(r.read.path) + 1, Len(old.path))

Rewritten(r, q) ==
  LET doc == project[q]  old == r.below[q] IN
  IF doc = None THEN None
  ELSE [doc EXCEPT !.name = NameBelow(r, old),
                   !.path = IF r.kind = "rename" THEN doc.path ELSE PathBelow(r, old)]

UpdateBelow(c) ==
  LET r == call[c] IN
  /\ r.pc = "descend"
  /\ \E q \in r.left :
       IF Taken(q, NameBelow(r, r.below[q]))
       THEN Ends(c) /\ torn' = TRUE /\ UNCHANGED project
       ELSE /\ project' = [project EXCEPT ![q] = Rewritten(r, q)]
            /\ Goto(c, Descending(r, r.left \ {q}))
            /\ UNCHANGED torn
  /\ UNCHANGED entity

(***************************************************************************)
(* ProjectBLL.update with a name, at the same location.                    *)
(***************************************************************************)
Rename(c, p, base) ==
  /\ Asked(c, "rename")
  /\ p \in Existing
  /\ Goto(c, [Request("rename") EXCEPT !.pc = "rename", !.id = p, !.moved = p,
                 !.read = project[p], !.new = [project[p] EXCEPT !.name = Append(Front(@), base)]])
  /\ UNCHANGED <<project, entity, torn>>

RenameProject(c) ==
  LET r == call[c] IN
  /\ r.pc = "rename"
  /\ IF Taken(r.id, r.new.name) THEN Ends(c) /\ UNCHANGED project
     ELSE /\ project' = [project EXCEPT ![r.id] =
               IF @ = None THEN None ELSE [@ EXCEPT !.name = r.new.name]]
          /\ Goto(c, [r EXCEPT !.pc = "children"])
  /\ UNCHANGED <<entity, torn>>

ReadChildren(c) ==
  LET r == call[c] IN
  /\ r.pc = "children"
  /\ Goto(c, Descending([r EXCEPT !.below = Read(Below(r.id))], Below(r.id)))
  /\ UNCHANGED <<project, entity, torn>>

(***************************************************************************)
(* The entities of a project are updated type by type, the tasks first.    *)
(***************************************************************************)
OfTurn(r) ==
  IF r.pc \in {"merge_tasks", "disassociate_tasks"} THEN Entities \ Models ELSE Models

(***************************************************************************)
(* merge_project, into another project or to the top: the entities that    *)
(* are not archived, the subprojects one after the other, and the source   *)
(* is deleted.                                                             *)
(***************************************************************************)
Merge(c, source, destination) ==
  LET place == IF destination = None THEN Root ELSE Under(destination, project[destination]) IN
  /\ Asked(c, "merge")
  /\ source \in Existing /\ destination \in (Existing \cup {None}) \ {source}
  /\ destination # None =>
       /\ source \notin Range(project[destination].path)
       /\ FitsAt(Below(source), DepthOf(project[source]), DepthOf(project[destination]))
  /\ Goto(c, [Request("merge") EXCEPT !.pc = "merge_tasks", !.id = source,
                                      !.under = place, !.below = Read(Below(source))])
  /\ UNCHANGED <<project, entity, torn>>

MergeEntities(c) ==
  LET r == call[c] IN
  /\ r.pc \in {"merge_tasks", "merge_models"}
  /\ entity' = [e \in Entities |->
       IF entity[e] = r.id /\ e \in OfTurn(r) \ Archived THEN r.under.parent ELSE entity[e]]
  /\ Goto(c, [r EXCEPT !.pc = IF @ = "merge_tasks" THEN "merge_models" ELSE "direct"])
  /\ UNCHANGED <<project, torn>>

ReadDirect(c) ==
  LET r == call[c] IN
  /\ r.pc = "direct"
  /\ Goto(c, [r EXCEPT !.pc = "merge",
                       !.todo = Read({q \in Existing : project[q].parent = r.id})])
  /\ UNCHANGED <<project, entity, torn>>

MergeChild(c) ==
  LET r == call[c] IN
  /\ r.pc = "merge"
  /\ \E q \in DOMAIN r.todo :
       Reposition(c, [r EXCEPT !.moved = q, !.read = r.todo[q],
                               !.todo = [d \in DOMAIN @ \ {q} |-> @[d]]],
                  {d \in DOMAIN r.below : r.below[d].parent = q})
  /\ UNCHANGED <<entity, torn>>

DropSource(c) ==
  /\ call[c].pc = "merge" /\ DOMAIN call[c].todo = {}
  /\ project' = [project EXCEPT ![call[c].id] = None]
  /\ Ends(c)
  /\ UNCHANGED <<entity, torn>>

(***************************************************************************)
(* delete_project, of the projects and without their contents: with force, *)
(* or when there are only archived entities in them.                       *)
(***************************************************************************)
Delete(c, p, forced) ==
  LET ids == {p} \cup Below(p) IN
  /\ Asked(c, "delete")
  /\ p \in Existing
  /\ forced \/ \A e \in Entities : entity[e] \in ids => e \in Archived
  /\ Goto(c, [Request("delete") EXCEPT !.pc = "disassociate_tasks", !.id = p, !.left = ids])
  /\ UNCHANGED <<project, entity, torn>>

Disassociated_Top(c) == {e \in OfTurn(call[c]) : entity[e] = call[c].id}
Disassociated(c) == {e \in OfTurn(call[c]) : entity[e] \in call[c].left}

Disassociate(c) ==
  /\ call[c].pc \in {"disassociate_tasks", "disassociate_models"}
  /\ entity' = [e \in Entities |-> IF e \in Disassociated(c) THEN None ELSE entity[e]]
  /\ Goto(c, [call[c] EXCEPT !.pc =
               IF @ = "disassociate_tasks" THEN "disassociate_models" ELSE "delete"])
  /\ UNCHANGED <<project, torn>>

DeleteProjects(c) ==
  /\ call[c].pc = "delete"
  /\ project' = [p \in Projects |-> IF p \in call[c].left THEN None ELSE project[p]]
  /\ Ends(c)
  /\ UNCHANGED <<entity, torn>>

(***************************************************************************)
(* The server is killed, with all its requests.                            *)
(***************************************************************************)
Tearing(c) == call[c].pc \in {"children", "descend"}

Kill ==
  /\ "kill" \in Faults
  /\ \E c \in Calls : call[c] # NoCall
  /\ torn' = (torn \/ \E c \in Calls : Tearing(c))
  /\ call' = [c \in Calls |-> NoCall]
  /\ UNCHANGED <<project, entity>>

(* The names that are asked for, those that are too deep among them.       *)
Names == UNION {[1..n -> Segments] : n \in 1..MaxDepth + 1}

HandleRequest(c) ==
  \/ Find(c) \/ SaveNew(c) \/ Attach(c)
  \/ MoveProject(c) \/ UpdateBelow(c) \/ RenameProject(c) \/ ReadChildren(c)
  \/ MergeEntities(c) \/ ReadDirect(c) \/ MergeChild(c) \/ DropSource(c)
  \/ Disassociate(c) \/ DeleteProjects(c)

Ask(c) ==
  \/ \E name \in Names : Create(c, name)
  \/ \E e \in Entities, name \in Names : AttachByName(c, e, name)
  \/ \E e \in Entities, p \in Projects \cup {None} : AttachById(c, e, p)
  \/ \E p \in Projects, location \in {<<>>} \cup Names : Move(c, p, location)
  \/ \E p \in Projects, base \in Segments : Rename(c, p, base)
  \/ \E p \in Projects, q \in Projects \cup {None} : Merge(c, p, q)
  \/ \E p \in Projects, forced \in BOOLEAN : Delete(c, p, forced)

Next == (\E c \in Calls : Ask(c) \/ HandleRequest(c)) \/ Kill

Spec == Init /\ [][Next]_vars

DocsOf(ids) == [ids -> Documents]

(* The types of the state, read by every handler.                          *)
TypeOK ==
  /\ project \in [Projects -> Documents \cup {None}]
  /\ entity \in [Entities -> Projects \cup {None}]
  /\ torn \in BOOLEAN
  /\ \A c \in Calls :
       LET r == call[c] IN
       /\ r.pc \in Steps /\ r.kind \in RequestKinds \cup {None}
       /\ r.id \in Projects \cup Entities \cup {None} /\ r.moved \in Projects \cup {None}
       /\ r.target \in Seq(Segments) /\ r.depth \in 0..Len(r.target)
       /\ r.under \in Documents /\ {r.read, r.new} \subseteq Documents \cup {None}
       /\ r.left \subseteq Projects /\ DOMAIN r.below \subseteq Projects
       /\ DOMAIN r.todo \subseteq Projects
       /\ r.below \in DocsOf(DOMAIN r.below) /\ r.todo \in DocsOf(DOMAIN r.todo)

(* The three records of a project's place agree: its parent exists, its    *)
(* path is the parent's and the parent, its name is the parent's and a     *)
(* part of its own.                                                        *)
IsPlaced(p) ==
  LET doc == project[p] IN
  IF doc.parent = None THEN doc.path = <<>> /\ Len(doc.name) = 1
  ELSE /\ doc.parent \in Existing
       /\ doc.path = Append(project[doc.parent].path, doc.parent)
       /\ Front(doc.name) = project[doc.parent].name

(* The projects are a tree whenever nobody is writing to a subtree or was  *)
(* cut short in it: after creates that race for the same parents, after a  *)
(* request that fails or is killed half way, after any moves, renames and  *)
(* deletes, and after merges of trees that are at most three deep: a merge *)
(* passes on only the children of each subproject, see NothingIsLeftBelow. *)
ProjectsAreATree == (~torn /\ \A c \in Calls : ~Tearing(c)) => \A p \in Existing : IsPlaced(p)

(* What a move or a rename has begun to write below a project it can end:  *)
(* no name that is still to be written is taken, whichever part of the     *)
(* subtree has its new name already, because the one above them was not    *)
(* taken (_update_subproject_names saves them one by one).                 *)
NamesBelowAreFree ==
  ~torn => \A c \in Calls : call[c].pc = "descend" =>
    \A q \in call[c].left : ~Taken(q, NameBelow(call[c], call[c].below[q]))

(* No entity is in a project that is gone, whatever a merge or a delete    *)
(* did before it failed.                                                   *)
EntitiesAreHeld == \A e \in Entities \ Archived : entity[e] \in Existing \cup {None}

(* A subtree is never moved or merged to where it is too deep: what is     *)
(* measured before is what is written after.                               *)
DepthIsBounded == \A p \in Existing : Len(project[p].name) <= MaxDepth

(* After a merge no project is left below the one that was removed: it     *)
(* moves all its subprojects.                                              *)
NothingIsLeftBelow ==
  (\A c \in Calls : call[c] = NoCall) =>
    \A p \in Existing : Range(project[p].path) \subseteq Existing
===============================================================================
