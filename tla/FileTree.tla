------------------------------ MODULE FileTree ------------------------------
(***************************************************************************)
(* The files of one project (modules/files): rows that each carry a whole  *)
(* path, and the requests that create, move and delete them, several at a  *)
(* time.  Every request is a transaction at Postgres' READ COMMITTED: a    *)
(* statement sees what is committed when it starts and what its own        *)
(* transaction wrote, a row or path another transaction has written is     *)
(* waited for, and @@unique([projectId, path]) is checked as rows are      *)
(* written.                                                                *)
(*                                                                         *)
(* A path is the sequence of its names.  Beside the rows there are one     *)
(* file's room and log, because a deletion has to end the first and empty  *)
(* the second.                                                             *)
(***************************************************************************)
EXTENDS Paths

CONSTANTS
  Req,         \* requests, one operation each
  Start,       \* the rows there are at first: a closed tree
  Sock,        \* sockets on the first file of Start
  MAX_DEPTH    \* of a path that is asked for

ASSUME FileTreeAssumption ==
  /\ IsFiniteSet(Start) /\ Start \subseteq Row /\ Ids(Start) = 1..Cardinality(Start)
  /\ Closed(Start) /\ MAX_DEPTH \in Nat
  /\ \A x, y \in Start : x.id = y.id \/ x.path = y.path => x = y
  /\ \E x \in Start : ~x.isDir

VARIABLES
  rows,      \* the table, as committed
  req,       \* the requests
  nextId,    \* the next id of a row
  sock,      \* sockets on the file: out, joining (authorized), in, closing
  writing,   \* whether the last editor's updates are on their way (pendingWrites)
  doc,       \* whether the update log or the snapshots have something of the file
  met,       \* history: requests that were under way while another one was
  late,      \* history: sockets that joined a room whose sockets were being closed, and
             \* those that joined them there
  astray     \* history: the log was emptied before the last editor had written

filesVars == <<rows, req, nextId, sock, writing, doc, met, late, astray>>

File == (CHOOSE x \in Start : ~x.isDir).id
AskedPath == UNION {[1..n -> Name] : n \in 1..MAX_DEPTH}

(* What a transaction has written: rows put, and ids whose old row is gone.  *)
New == [op |-> "none", at |-> "new", id |-> 0, path |-> << >>, isDir |-> FALSE,
        old |-> << >>, todo |-> {}, doomed |-> {}, targets |-> {}, put |-> {}, del |-> {}]
Open(q) == req[q].at \notin {"new", "closing", "purging", "done", "refused"}
View(q) == {x \in rows : x.id \notin req[q].del} \cup req[q].put
HeldIds(q) == req[q].del \cup Ids(req[q].put)
HeldPaths(q) == Paths(req[q].put) \cup Paths({x \in rows : x.id \in req[q].del})
WaitsFor(q, ids, paths, o) ==
  o # q /\ Open(o) /\ (ids \cap HeldIds(o) # {} \/ paths \cap HeldPaths(o) # {})

FilesInit ==
  /\ rows = Start /\ req = [q \in Req |-> New]
  /\ nextId = 1 + Cardinality(Start)
  /\ sock = [s \in Sock |-> "out"] /\ writing = FALSE /\ doc = FALSE
  /\ met = {} /\ late = {} /\ astray = FALSE
-----------------------------------------------------------------------------
Becomes(q, x) == req' = [req EXCEPT ![q] = x]
Roomside == <<sock, writing, doc, late, astray>>
TableOnly == <<rows, met, Roomside>>

Begins(q, x) ==
  /\ req[q].at = "new" /\ Becomes(q, x)
  /\ LET others == {o \in Req \ {q} : Open(o)} IN
     met' = IF others = {} THEN met ELSE met \cup {q} \cup others
  /\ UNCHANGED <<rows, nextId, Roomside>>

(* An error rolls the transaction back.                                      *)
Refuses(q) ==
  /\ Becomes(q, [req[q] EXCEPT !.at = "refused", !.put = {}, !.del = {}, !.todo = {},
                                !.doomed = {}, !.targets = {}])
  /\ UNCHANGED <<nextId, TableOnly>>

(* A write waits for the transactions that hold what it writes, and then     *)
(* finds the path taken or the row gone, or succeeds.                        *)
Writes(q, ids, paths) == \A o \in Req : ~WaitsFor(q, ids, paths, o)

Inserts(q, p, isDir, x) ==
  /\ Writes(q, {}, {p})
  /\ IF p \in Paths(View(q)) THEN Refuses(q)
     ELSE /\ Becomes(q, [x EXCEPT !.put = @ \cup {[id |-> nextId, path |-> p, isDir |-> isDir]}])
          /\ nextId' = nextId + 1
          /\ UNCHANGED TableOnly
-----------------------------------------------------------------------------
(* createFile. *)
BeginCreate(q) ==
  \E p \in AskedPath, isDir \in BOOLEAN :
    Begins(q, [New EXCEPT !.op = "create", !.at = "existing", !.path = p, !.isDir = isDir])

FindExisting(q) ==
  /\ req[q].op = "create" /\ req[q].at = "existing"
  /\ IF req[q].path \in Paths(View(q)) THEN Refuses(q)
     ELSE /\ Becomes(q, [req[q] EXCEPT !.at = "ancestors", !.todo = Ancestors(req[q].path)])
          /\ UNCHANGED <<nextId, TableOnly>>

(* The ancestors, shallowest first: found, or created, or a file.            *)
Shallowest(S) == {p \in S : \A o \in S : Len(p) <= Len(o)}

FindAncestor(q) ==
  /\ req[q].op = "create" /\ req[q].at = "ancestors"
  /\ \E p \in Shallowest(req[q].todo) :
       LET found == At(View(q), p) IN
       IF \E d \in found : ~d.isDir THEN Refuses(q)
       ELSE /\ Becomes(q, IF found = {} THEN [req[q] EXCEPT !.at = "mkdir"]
                          ELSE [req[q] EXCEPT !.todo = @ \ {p}])
            /\ UNCHANGED <<nextId, TableOnly>>

(* The directories a create or a move has found missing.                     *)
AfterReading(missing, targets) ==
  IF missing # {} THEN "mkdir" ELSE IF targets # {} THEN "updates" ELSE "commit"

MakeDirectory(q) ==
  /\ req[q].at = "mkdir"
  /\ \E p \in Shallowest(req[q].todo) :
       LET rest == req[q].todo \ {p} IN
       Inserts(q, p, TRUE, [req[q] EXCEPT !.todo = rest,
                              !.at = IF req[q].op = "create" THEN "ancestors"
                                     ELSE AfterReading(rest, req[q].targets)])

InsertFile(q) ==
  /\ req[q].op = "create" /\ req[q].at = "ancestors" /\ req[q].todo = {}
  /\ Inserts(q, req[q].path, req[q].isDir, [req[q] EXCEPT !.at = "commit"])
-----------------------------------------------------------------------------
(* moveFile. *)
BeginMove(q) ==
  \E x \in rows, p \in AskedPath :
    Begins(q, [New EXCEPT !.op = "move", !.at = "find", !.id = x.id, !.path = p])

IntoItselfExactly(x, p) == x.isDir /\ p = x.path
IntoItself(x, p) == x.isDir /\ isDescendantOf(p, x.path)

FindMoved(q) ==
  /\ req[q].op = "move" /\ req[q].at = "find"
  /\ LET found == {x \in View(q) : x.id = req[q].id} IN
     IF \A x \in found : IntoItself(x, req[q].path) THEN Refuses(q)
     ELSE /\ \E x \in found :
               Becomes(q, [req[q] EXCEPT !.old = x.path, !.isDir = x.isDir,
                             !.at = IF x.path = req[q].path THEN "commit" ELSE "all"])
          /\ UNCHANGED <<nextId, TableOnly>>

(* All rows are read again: what moves, what is in the way, what is missing. *)
(* A file moves as it was found; of a directory what is still there moves.   *)
FollowsDirectly(p, dir) == isDescendantOf(p, dir) /\ Len(p) = Len(dir) + 1
Follows(p, dir) == isDescendantOf(p, dir)

Moving(q) ==
  IF ~req[q].isDir THEN {[id |-> req[q].id, path |-> req[q].old, isDir |-> FALSE]}
  ELSE {x \in View(q) : x.id = req[q].id \/ Follows(x.path, req[q].old)}
Target(q, x) ==
  IF x.id = req[q].id THEN req[q].path ELSE replacePathPrefix(x.path, req[q].old, req[q].path)
Occupied(q) == Paths({x \in View(q) : x.id \notin Ids(Moving(q))})

ReadAll(q) ==
  /\ req[q].op = "move" /\ req[q].at = "all"
  /\ LET targets == {[x EXCEPT !.path = Target(q, x)] : x \in Moving(q)}
         missing == Ancestors(req[q].path) \ Paths(View(q)) IN
     IF \/ Paths(targets) \cap Occupied(q) # {}
        \/ \E x \in View(q) : x.path \in Ancestors(req[q].path) /\ ~x.isDir
     THEN Refuses(q)
     ELSE /\ Becomes(q, [req[q] EXCEPT !.todo = missing, !.targets = targets,
                           !.at = AfterReading(missing, targets)])
          /\ UNCHANGED <<nextId, TableOnly>>

(* The targets, one update each, whatever the row has become.                *)
UpdateOne(q) ==
  /\ req[q].op = "move" /\ req[q].at = "updates"
  /\ \E t \in {x \in req[q].targets : x.id \notin req[q].del} :
       /\ Writes(q, {t.id}, {t.path})
       /\ IF t.id \notin Ids(rows) \/ t.path \in Paths({x \in View(q) : x.id # t.id})
          THEN Refuses(q)
          ELSE /\ Becomes(q, [req[q] EXCEPT !.put = @ \cup {t}, !.del = @ \cup {t.id},
                    !.at = IF Ids(req[q].targets) \subseteq req[q].del \cup {t.id}
                           THEN "commit" ELSE @])
               /\ UNCHANGED <<nextId, TableOnly>>
-----------------------------------------------------------------------------
(* deleteFile. *)
BeginDelete(q) ==
  \E x \in rows : Begins(q, [New EXCEPT !.op = "delete", !.at = "find", !.id = x.id])

FindDeleted(q) ==
  /\ req[q].op = "delete" /\ req[q].at = "find"
  /\ LET found == {x \in View(q) : x.id = req[q].id} IN
     IF found = {} THEN Refuses(q)
     ELSE /\ \E x \in found :
               Becomes(q, [req[q] EXCEPT !.old = x.path, !.isDir = x.isDir,
                             !.doomed = {x.id}, !.at = IF x.isDir THEN "all" ELSE "delete"])
          /\ UNCHANGED <<nextId, TableOnly>>

ReadDoomed(q) ==
  /\ req[q].op = "delete" /\ req[q].at = "all"
  /\ Becomes(q, [req[q] EXCEPT !.at = "delete",
       !.doomed = Ids({x \in View(q) : x.id = req[q].id \/ Follows(x.path, req[q].old)})])
  /\ UNCHANGED <<nextId, TableOnly>>

(* deleteMany takes the ones there still are, wherever they are by now; a    *)
(* single delete wants its row.                                              *)
DeleteRows(q) ==
  /\ req[q].op = "delete" /\ req[q].at = "delete"
  /\ Writes(q, req[q].doomed, {})
  /\ IF ~req[q].isDir /\ req[q].id \notin Ids(rows) THEN Refuses(q)
     ELSE /\ Becomes(q, [req[q] EXCEPT !.del = req[q].doomed \cap Ids(rows), !.at = "commit"])
          /\ UNCHANGED <<nextId, TableOnly>>
-----------------------------------------------------------------------------
Commit(q) ==
  /\ req[q].at = "commit"
  /\ rows' = View(q)
  /\ Becomes(q, [req[q] EXCEPT !.at = IF req[q].op = "delete" THEN "closing" ELSE "done",
                               !.put = {}, !.del = {}, !.old = << >>, !.targets = {}])
  /\ UNCHANGED <<nextId, met, Roomside>>

(* Postgres ends a deadlock by aborting one of the two.                      *)
Wanted(q) ==
  CASE req[q].at = "mkdir" -> {<<{}, {p}>> : p \in Shallowest(req[q].todo)}
    [] req[q].at = "ancestors" /\ req[q].todo = {} -> {<<{}, {req[q].path}>>}
    [] req[q].at = "updates" -> {<<{t.id}, {t.path}>> : t \in {x \in req[q].targets : x.id \notin req[q].del}}
    [] req[q].at = "delete" -> {<<req[q].doomed, {}>>}
    [] OTHER -> {}
Waits(q, o) == \E w \in Wanted(q) : WaitsFor(q, w[1], w[2], o)

Deadlock(q) ==
  /\ \E o \in Req : Waits(q, o) /\ Waits(o, q)
  /\ Refuses(q)
-----------------------------------------------------------------------------
(* The editors of the file.  The room stands as long as somebody is in it or *)
(* on the way out; the next one waits for what the last one out writes.      *)
RoomOpen == \E s \in Sock : sock[s] \in {"in", "closing"}
NoRequest == <<rows, req, nextId, met>>

LetIn(s) ==
  /\ sock[s] = "out" /\ File \in Ids(rows)
  /\ sock' = [sock EXCEPT ![s] = "joining"]
  /\ UNCHANGED <<NoRequest, writing, doc, late, astray>>

(* joinRoom: only the first one looks for the row, and loads or seeds.       *)
NoRow == File \notin Ids(rows)

Joins(s) ==
  /\ sock[s] = "joining" /\ (RoomOpen \/ ~writing)
  /\ IF ~RoomOpen /\ NoRow
     THEN sock' = [sock EXCEPT ![s] = "out"] /\ UNCHANGED doc
     ELSE sock' = [sock EXCEPT ![s] = "in"] /\ doc' = TRUE
  /\ late' = IF \E o \in Sock : sock[o] = "closing" \/ o \in late THEN late \cup {s} ELSE late
  /\ UNCHANGED <<NoRequest, writing, astray>>

(* The close event: the last one out takes the room away and writes.         *)
Leaves(s) ==
  /\ sock[s] \in {"in", "closing"}
  /\ sock' = [sock EXCEPT ![s] = "out"] /\ late' = late \ {s}
  /\ writing' = (writing \/ \A o \in Sock \ {s} : sock[o] \notin {"in", "closing"})
  /\ UNCHANGED <<NoRequest, doc, astray>>

Written ==
  /\ writing /\ writing' = FALSE /\ doc' = TRUE
  /\ UNCHANGED <<NoRequest, sock, late, astray>>

(* The buffer's timer, while the room is open.                               *)
Flushed ==
  /\ RoomOpen /\ doc' = TRUE
  /\ UNCHANGED <<NoRequest, sock, writing, late, astray>>

(* closeFileRooms of what was deleted ...                                    *)
ClosesDirectoryOnly(q) == req[q].id = File
Closes(q) == File \in req[q].doomed

CloseRooms(q) ==
  /\ req[q].at = "closing"
  /\ sock' = [s \in Sock |-> IF Closes(q) /\ sock[s] = "in" THEN "closing" ELSE sock[s]]
  /\ Becomes(q, [req[q] EXCEPT !.at = "purging"])
  /\ UNCHANGED <<rows, nextId, met, writing, doc, late, astray>>

(* ... and then deleteDoc, which waits for no editor.                        *)
PurgeLog(q) ==
  /\ req[q].at = "purging" /\ Becomes(q, [req[q] EXCEPT !.at = "done"])
  /\ doc' = (doc /\ File \notin req[q].doomed)
  /\ astray' = (astray \/ (File \in req[q].doomed /\ (RoomOpen \/ writing)))
  /\ UNCHANGED <<rows, nextId, met, sock, writing, late>>
-----------------------------------------------------------------------------
RequestStep(q) ==
  \/ FindExisting(q) \/ FindAncestor(q) \/ MakeDirectory(q) \/ InsertFile(q)
  \/ FindMoved(q) \/ ReadAll(q) \/ UpdateOne(q)
  \/ FindDeleted(q) \/ ReadDoomed(q) \/ DeleteRows(q)
  \/ Commit(q) \/ Deadlock(q) \/ CloseRooms(q) \/ PurgeLog(q)

FilesNext ==
  \/ \E q \in Req : BeginCreate(q) \/ BeginMove(q) \/ BeginDelete(q) \/ RequestStep(q)
  \/ \E s \in Sock : LetIn(s) \/ Joins(s) \/ Leaves(s)
  \/ Written \/ Flushed

(* Statements are answered.                                                  *)
FilesSpec ==
  /\ FilesInit /\ [][FilesNext]_filesVars
  /\ \A q \in Req : WF_filesVars(RequestStep(q))
-----------------------------------------------------------------------------
Operation == {"none", "create", "move", "delete"}
Stage == {"new", "existing", "ancestors", "mkdir", "find", "all", "updates", "delete",
          "commit", "closing", "purging", "done", "refused"}
Request == [op : Operation, at : Stage, id : Nat, path : Seq(Name), isDir : BOOLEAN,
            old : Seq(Name), todo : SUBSET Path, doomed : SUBSET Nat,
            targets : SUBSET Row, put : SUBSET Row, del : SUBSET Nat]

(* The table keeps its primary key and its unique index, whatever            *)
(* transactions commit.                                                      *)
FilesTypeOK ==
  /\ rows \subseteq Row /\ nextId \in Nat \ {0}
  /\ \A x, y \in rows : x.id = y.id \/ x.path = y.path => x = y
  /\ \A x \in rows : x.id < nextId
  /\ req \in [Req -> Request]
  /\ sock \in [Sock -> {"out", "joining", "in", "closing"}]
  /\ {writing, doc, astray} \subseteq BOOLEAN /\ late \subseteq Sock /\ met \subseteq Req

(* A request that meets no other one orphans no row: whoever is without a    *)
(* parent directory when it has committed was so before, left there by       *)
(* requests that overlapped.                                                 *)
Orphan(S, x) == \E p \in Ancestors(x.path) : \A d \in At(S, p) : ~d.isDir

OrphansComeFromRaces ==
  [][\A q \in Req : Commit(q) /\ q \notin met =>
       \A x \in rows' : Orphan(rows', x) => \E y \in rows : y.id = x.id /\ Orphan(rows, y)]_filesVars

(* A move that meets no other request carries the whole subtree, and leaves  *)
(* everything else where it was: no row but the moved one loses its parent.  *)
ParentOf(S, x) == {d.id : d \in {y \in S : y.isDir /\ isDescendantOf(x.path, y.path)
                                         /\ Len(y.path) = Len(x.path) - 1}}
SubtreesMoveWhole ==
  [][\A q \in Req : Commit(q) /\ req[q].op = "move" /\ q \notin met =>
       \A x \in rows, y \in rows' :
         x.id = y.id /\ x.id # req[q].id => ParentOf(rows, x) \subseteq ParentOf(rows', y)]_filesVars

(* A deletion that is over has left nobody in the room of a deleted file,    *)
(* but those who came while its last editors were on their way out, or who   *)
(* found such a one there.                                                   *)
DeletedFilesAreLeft ==
  \A q \in Req : req[q].op = "delete" /\ req[q].at \in {"purging", "done"} /\ File \in req[q].doomed
    => \A s \in Sock : sock[s] = "in" => s \in late

(* A deleted file's text comes back, in rows nobody can read, only from an   *)
(* editor who was in its room, or whose last updates were being written, as  *)
(* the log was emptied.                                                      *)
LeftoversAreLastWords ==
  (\E q \in Req : req[q].op = "delete" /\ req[q].at = "done" /\ File \in req[q].doomed) /\ doc
    => astray

(* Both: a deletion is over for those who edit the file, and for its log, as *)
(* far as those who arrive meanwhile let it.                                 *)
DeletionsAreComplete == DeletedFilesAreLeft /\ LeftoversAreLastWords

(* Every request is answered.                                                *)
RequestsAreAnswered ==
  \A q \in Req : (req[q].op # "none") ~> (req[q].at \in {"done", "refused"})
=============================================================================
