------------------------------- MODULE Explorer -------------------------------
(***************************************************************************)
(* The sidebar of a project (FileTree.tsx, useFileTree.ts) and what        *)
(* ProjectPage.tsx does around it: the tree as last fetched, the dialogs   *)
(* that create, move and delete, and the tabs and opened folders that      *)
(* follow.  Every change is one request, then a fetch of the whole tree,   *)
(* and only then its effect on the page; a create or move dialog can be    *)
(* dismissed while its request is under way.  Others change the project    *)
(* meanwhile.  A request is one step at the server: how two of them mingle *)
(* there is FileTree's.                                                    *)
(***************************************************************************)
EXTENDS Trees, OpenFiles

CONSTANTS
  Op,          \* changes made in this page
  StartRows,   \* rows at first
  AskedPath,   \* paths that are asked for
  NoOp,        \* null
  MaxClicks,   \* on files and directories
  MaxTroubles  \* changes made by others, and requests whose answer is lost

Kind == {"create", "move", "delete"}

ASSUME ExplorerAssumption ==
  /\ IsFiniteSet(StartRows) /\ StartRows \subseteq Row /\ Tidy(StartRows)
  /\ AskedPath \subseteq Path
  /\ IsFiniteSet(Op) /\ NoOp \notin Op /\ {MaxClicks, MaxTroubles} \subseteq Nat

VARIABLES
  rows, nextId,      \* at the server
  version,           \* how many changes rows has seen
  tree, treeLoading, \* useFileTree: the tree as nested nodes, << >> for none
  fetches,           \* GETs of the tree under way
  op,                \* the changes
  dialog,            \* of each kind: the change it is open for
  opened, expanded,  \* the tabs; the folders drawn open
  left,              \* of each bound
  shown,             \* history: the version the tree was read at; 0 for no tree
  latest,            \* history: of the GETs answered, the one asked last
  crossed,           \* history: an answer came after that of a GET asked later
  strayed            \* history: files whose label the page had no cause to keep right

explorerVars == <<rows, nextId, version, tree, treeLoading, fetches, op, dialog, opened, expanded,
                  left, shown, latest, crossed, strayed>>
serverVars == <<rows, nextId, version>>
fetchVars == <<tree, treeLoading, fetches, shown, latest, crossed>>
pageVars == <<dialog, opened, expanded>>

NewOp == [at |-> "new", kind |-> "create", id |-> 0, from |-> << >>, path |-> << >>,
          isDir |-> FALSE, removed |-> {}, under |-> {}, swept |-> {}, version |-> 0]
Get(by, n) == [by |-> by, n |-> n, read |-> FALSE, rows |-> {}, version |-> 0]
Known == ToSet(flattenTree(tree))
PendingMove(id) == {o \in Op : op[o].kind = "move" /\ op[o].id = id
                                /\ op[o].at \in {"sent", "applied", "refreshing"}}

ExplorerInit ==
  /\ rows = StartRows /\ nextId = 1 + Max({0} \cup Ids(StartRows)) /\ version = 1
  /\ tree = << >> /\ treeLoading = TRUE /\ fetches = {Get(NoOp, 1)}
  /\ op = [o \in Op |-> NewOp] /\ dialog = [k \in Kind |-> NoOp]
  /\ opened = NoneOpen /\ expanded = {}
  /\ left = [clicks |-> MaxClicks, troubles |-> MaxTroubles]
  /\ shown = 0 /\ latest = 0 /\ crossed = FALSE /\ strayed = {}

Spend(what) == left[what] > 0 /\ left' = [left EXCEPT ![what] = @ - 1]
-----------------------------------------------------------------------------
(* What the server does of a request; {} when it refuses.                   *)
Created(path, isDir) ==
  LET missing == Ancestors(path) \ Paths(rows)
      made == {[id |-> nextId + Len(p), path |-> p, isDir |-> TRUE] : p \in missing}
  IN IF path \in Paths(rows) \/ \E p \in Ancestors(path) : \E x \in At(rows, p) : ~x.isDir THEN {}
     ELSE {rows \cup made \cup {[id |-> nextId, path |-> path, isDir |-> isDir]}}

(* A move takes a directory's descendants along, and makes the parents of    *)
(* the new place that are missing; to where the row is already, it changes   *)
(* nothing.                                                                  *)
Moved(id, path) ==
  IF id \notin Ids(rows) THEN {}
  ELSE LET row == RowOf(rows, id)
           moving == {x \in rows : x = row \/ isDescendantOf(x.path, row.path)}
           others == rows \ moving
           made == {[id |-> nextId + Len(p), path |-> p, isDir |-> TRUE] :
                      p \in Ancestors(path) \ Paths(others)}
           moved == {[x EXCEPT !.path = replacePathPrefix(@, row.path, path)] : x \in moving}
       IN IF \/ isDescendantOf(path, row.path)
             \/ Paths(moved) \cap Paths(others) # {}
             \/ \E p \in Ancestors(path) : \E x \in At(others, p) : ~x.isDir
          THEN {} ELSE {others \cup moved \cup made}

Swept(id) ==
  IF id \notin Ids(rows) THEN {}
  ELSE LET row == RowOf(rows, id) IN
       Ids({x \in rows : x = row \/ isDescendantOf(x.path, row.path)})
Removed(id) == IF Swept(id) = {} THEN {} ELSE {{x \in rows : x.id \notin Swept(id)}}

Outcome(k, id, path, isDir) ==
  CASE k = "create" -> Created(path, isDir)
    [] k = "move" -> Moved(id, path)
    [] k = "delete" -> Removed(id)

Becomes(new) ==
  /\ rows' = new /\ version' = version + 1
  /\ nextId' = 1 + Max({nextId} \cup Ids(new))

(* Files whose path a step has changed.                                     *)
Displaced == {x.id : x \in {x \in rows : \E y \in rows' : y.id = x.id /\ y.path # x.path}}
-----------------------------------------------------------------------------
(* A dialog is opened by a button: of a row of the tree, which is not drawn  *)
(* while loading, or the one above the tree, which always is.  It covers     *)
(* both.                                                                    *)
OpenDialog(o) ==
  /\ op[o].at = "new" /\ \A k \in Kind : dialog[k] = NoOp
  /\ \/ op' = [op EXCEPT ![o].at = "form"] /\ dialog' = [dialog EXCEPT !["create"] = o]
     \/ /\ ~treeLoading
        /\ \E n \in Known, k \in {"move", "delete"} :
             /\ op' = [op EXCEPT ![o].at = "form", ![o].kind = k, ![o].id = n.id, ![o].from = n.path]
             /\ dialog' = [dialog EXCEPT ![k] = o]
  /\ UNCHANGED <<serverVars, fetchVars, opened, expanded, left, strayed>>

(* Escape, the backdrop and Cancel; a delete dialog that is busy stays.     *)
Dismiss(o) ==
  /\ dialog[op[o].kind] = o /\ (op[o].kind = "delete" => op[o].at = "form")
  /\ dialog' = [dialog EXCEPT ![op[o].kind] = NoOp]
  /\ op' = IF op[o].at = "form" THEN [op EXCEPT ![o].at = "dropped"] ELSE op
  /\ UNCHANGED <<serverVars, fetchVars, opened, expanded, left, strayed>>

(* A deletion notes first which tabs it will close.  Beside that is kept     *)
(* what the page knew to be in the directory then.                           *)
DoomedAlone(id) == {id}

Doomed(id) == subtreeIds(tree, id)

Under(id) == {n.id : n \in {n \in Known : \E d \in Known :
                                d.id = id /\ (n = d \/ isDescendantOf(n.path, d.path))}}

Submit(o) ==
  /\ op[o].at = "form" /\ dialog[op[o].kind] = o
  /\ \/ /\ op[o].kind = "create"
        /\ \E p \in AskedPath, d \in BOOLEAN :
             op' = [op EXCEPT ![o].at = "sent", ![o].path = p, ![o].isDir = d]
     \/ /\ op[o].kind = "move"
        /\ \E p \in AskedPath \ {op[o].from} : op' = [op EXCEPT ![o].at = "sent", ![o].path = p]
     \/ /\ op[o].kind = "delete"
        /\ op' = [op EXCEPT ![o].at = "sent", ![o].removed = Doomed(op[o].id),
                                ![o].under = Under(op[o].id)]
  /\ UNCHANGED <<serverVars, fetchVars, pageVars, left, strayed>>

(* Labels are kept by the moves of files one makes oneself, one at a time.   *)
Applied(o) ==
  LET me == op[o]
      outcome == Outcome(me.kind, me.id, me.path, me.isDir)
  IN /\ me.at = "sent"
     /\ IF outcome = {}
        THEN op' = [op EXCEPT ![o].at = "refused"] /\ UNCHANGED <<serverVars, strayed>>
        ELSE /\ \E new \in outcome : Becomes(new)
             /\ op' = [op EXCEPT ![o].at = "applied", ![o].version = version',
                                 ![o].swept = IF me.kind = "delete" THEN Swept(me.id) ELSE {},
                                 ![o].id = IF me.kind = "create" THEN nextId ELSE me.id]
             /\ strayed' = strayed \cup (Displaced \ {me.id})
                             \cup {id \in {me.id} : me.kind = "move" /\ PendingMove(id) # {o}}
     /\ UNCHANGED <<fetchVars, pageVars, left>>

(* refresh()                                                                *)
Refreshes(by) ==
  LET asked == 1 + Cardinality({o \in Op : op[o].at \in {"refreshing", "done"}}) IN
  treeLoading' = TRUE /\ fetches' = fetches \cup {Get(by, asked + 1)}

ForgetsToRefresh(o) ==
  /\ op' = [op EXCEPT ![o].at = "done"] /\ dialog' = [dialog EXCEPT ![op[o].kind] = NoOp]
  /\ UNCHANGED <<fetchVars, opened, expanded>>

AwaitsTheTree(o) ==
  /\ op' = [op EXCEPT ![o].at = "refreshing"]
  /\ Refreshes(o)
  /\ UNCHANGED <<tree, shown, latest, crossed, pageVars>>

RequestAnswered(o) ==
  /\ op[o].at = "applied"
  /\ AwaitsTheTree(o)
  /\ UNCHANGED <<serverVars, left, strayed>>

(* Refused, or the answer is lost: the dialog says so if it is still there,  *)
(* and lets one try again; nothing is fetched.                              *)
FormAgain(o) == [op EXCEPT ![o].at = IF dialog[op[o].kind] = o THEN "form" ELSE "dropped"]

RequestRefused(o) ==
  /\ op[o].at = "refused" /\ op' = FormAgain(o)
  /\ UNCHANGED <<serverVars, fetchVars, pageVars, left, strayed>>

Lost(o) ==
  /\ op[o].at \in {"sent", "applied"} /\ Spend("troubles") /\ op' = FormAgain(o)
  /\ strayed' = IF op[o].kind = "move" THEN strayed \cup {op[o].id} ELSE strayed
  /\ UNCHANGED <<serverVars, fetchVars, pageVars>>
-----------------------------------------------------------------------------
(* The tree is read, and the answer arrives; a failure leaves no tree, and   *)
(* the change that asked goes on all the same.                               *)
ReadTree ==
  /\ \E g \in fetches :
       /\ ~g.read
       /\ fetches' = (fetches \ {g})
                       \cup {[g EXCEPT !.read = TRUE, !.rows = rows, !.version = version]}
  /\ UNCHANGED <<serverVars, tree, treeLoading, shown, latest, crossed, op, pageVars, left,
                 strayed>>

closeFiles(tabs, ids) == FoldSet(LAMBDA id, t : closeFile(t, id), tabs, ids)

Finishes(o) ==
  LET me == op[o] IN
  /\ op' = [op EXCEPT ![o].at = "done"]
  /\ dialog' = [dialog EXCEPT ![me.kind] = NoOp]
  /\ expanded' = IF me.kind = "delete" THEN expanded
                 ELSE expanded \cup ancestorPaths(me.path)
                        \cup (IF me.kind = "create" /\ me.isDir THEN {me.path} ELSE {})
  /\ opened' = CASE me.kind = "create" -> opened
                 [] me.kind = "move" -> renameTab(opened, me.id, me.path)
                 [] me.kind = "delete" -> closeFiles(opened, me.removed)

TreeArrives ==
  \E g \in fetches :
    /\ g.read
    /\ \/ tree' = buildTree(g.rows) /\ shown' = g.version /\ UNCHANGED left
       \/ tree' = << >> /\ shown' = 0 /\ Spend("troubles")
    /\ crossed' = (crossed \/ g.n < latest) /\ latest' = Max({latest, g.n})
    /\ treeLoading' = FALSE /\ fetches' = fetches \ {g}
    /\ IF g.by = NoOp THEN UNCHANGED <<op, pageVars>> ELSE Finishes(g.by)
    /\ UNCHANGED <<serverVars, strayed>>
-----------------------------------------------------------------------------
(* A file of the tree is opened there or from the palette, which needs no    *)
(* drawn tree.                                                              *)
Select(n) ==
  /\ ~n.isDir /\ Spend("clicks")
  /\ opened' = openFile(opened, n.id, n.path)
  /\ expanded' \in {expanded, expanded \cup ancestorPaths(n.path)}
  /\ op' = [o \in Op |-> [op[o] EXCEPT !.swept = @ \ {n.id}]]
  /\ strayed' = IF /\ \E x \in rows : x.id = n.id /\ x.path # n.path
                   /\ \A o \in PendingMove(n.id) : op[o].at = "sent"
                THEN strayed \cup {n.id} ELSE strayed
  /\ UNCHANGED <<serverVars, fetchVars, dialog>>

Close(id) ==
  /\ opened' = closeFile(opened, id)
  /\ UNCHANGED <<serverVars, fetchVars, op, dialog, expanded, left, strayed>>

toggle(n) ==
  /\ n.isDir /\ ~treeLoading /\ Spend("clicks")
  /\ expanded' = IF n.path \in expanded THEN expanded \ {n.path} ELSE expanded \cup {n.path}
  /\ UNCHANGED <<serverVars, fetchVars, op, dialog, opened, strayed>>

(* Others change the project.                                               *)
Foreign ==
  /\ Spend("troubles")
  /\ \E k \in Kind, x \in rows, p \in AskedPath :
       \E new \in Outcome(k, x.id, p, FALSE) \ {rows} : Becomes(new)
  /\ strayed' = strayed \cup Displaced
  /\ UNCHANGED <<fetchVars, op, pageVars>>

ExplorerNext ==
  \/ \E o \in Op : OpenDialog(o) \/ Dismiss(o) \/ Submit(o) \/ Applied(o) \/ RequestAnswered(o)
                     \/ RequestRefused(o) \/ Lost(o)
  \/ ReadTree \/ TreeArrives \/ Foreign
  \/ \E n \in Known : Select(n) \/ toggle(n)
  \/ \E id \in OpenIds(opened) : Close(id)

ExplorerSpec == ExplorerInit /\ [][ExplorerNext]_explorerVars
-----------------------------------------------------------------------------
ExplorerTypeOK ==
  /\ nextId \in Nat /\ {treeLoading, crossed} \subseteq BOOLEAN /\ shown \in 0..version
  /\ Tidy(rows) /\ OpenIds(opened) \subseteq 1..nextId
  /\ dialog \in [Kind -> Op \cup {NoOp}]

(* A change that has gone through, dialog closed, is in the tree whenever    *)
(* there is one: mutations refetch and wait for it.  Only an answer that was *)
(* read earlier and came later takes it off the screen again.               *)
YourChangesShow ==
  ~crossed /\ shown # 0 => \A o \in Op : op[o].at = "done" => shown >= op[o].version

(* Once a deletion has gone through, no tab is left on a file it took, save  *)
(* one that was not in the directory when the deletion was confirmed, as far *)
(* as the page knew, or one that was opened again since from an old tree.    *)
DeletedTabsClose ==
  \A o \in Op : op[o].kind = "delete" /\ op[o].at = "done" =>
                  OpenIds(opened) \cap op[o].swept \cap op[o].under = {}

(* A tab bears the path its file has, save while a move of it is under way,  *)
(* and save for what the page is not told or does not heed: moves others     *)
(* make, moves of the directory the file is in, a move whose answer was      *)
(* lost, two moves of the file at once, and an old tree it was opened from.  *)
LabelsFollowFiles ==
  \A id \in OpenIds(opened) \cap Ids(rows) :
    id \notin strayed /\ PendingMove(id) = {} => PathOf(opened, id) = RowOf(rows, id).path

(* "The row keeps its id across a move, so an open tab follows its file"     *)
(* (ProjectPage.tsx:227): with no move by others and none under way, a tab   *)
(* bears its file's path.                                                   *)
TabsFollowTheirFiles ==
  left.troubles = MaxTroubles /\ fetches = {} /\ ~crossed
    /\ (\A o \in Op : op[o].at \in {"new", "form", "done"}) =>
    \A id \in OpenIds(opened) \cap Ids(rows) : PathOf(opened, id) = RowOf(rows, id).path
=============================================================================
