----------------------- MODULE FilesAndRoomsProofs -----------------------
(***************************************************************************)
(* Proofs about the files of a project and about the rooms their documents *)
(* are edited in, for any number of requests, rows, sockets, rooms and     *)
(* edits.                                                                  *)
(*                                                                         *)
(* Files (FileTree): the table keeps its keys; a request that meets no     *)
(* other one orphans no row, and a move that meets none takes its subtree  *)
(* along; a deletion empties the room and the log.                         *)
(*                                                                         *)
(* Rooms (RoomRegistry): there is one room per document, a room that opens *)
(* has every edit of the rooms before it, and the doc-bus handler is the   *)
(* room's.                                                                 *)
(***************************************************************************)
EXTENDS FileTree, RoomRegistry, TreeProofs

(* What a transaction would commit is a table still: its keys are unique,    *)
(* and what it puts is new or takes the place of what it deletes.            *)
Tables ==
  \A q \in Req :
    /\ Unique(View(q))
    /\ \A n \in req[q].del : n < nextId
    /\ \A x \in req[q].put : x.id < nextId /\ (x.id \in Ids(rows) => x.id \in req[q].del)

(* Nobody holds what another one holds.                                      *)
Locks ==
  \A q, o \in Req : q # o =>
    /\ HeldIds(q) \cap HeldIds(o) = {}
    /\ Paths(req[q].put) \cap HeldPaths(o) = {}

(* Where a request can be, and what it has by then.                          *)
Staged(q) ==
  LET r == req[q] IN
  /\ ~Open(q) \/ r.at \in {"existing", "find", "all", "delete"} =>
       r.put = {} /\ r.del = {} /\ r.targets = {}
  /\ Open(q) =>
       \/ /\ r.op = "create" /\ r.at \in {"existing", "ancestors", "mkdir", "commit"}
          /\ r.path \in Path /\ r.del = {} /\ r.targets = {}
       \/ /\ r.op = "move" /\ r.at \in {"find", "all", "mkdir", "updates", "commit"}
          /\ r.path \in Path /\ r.id # 0 /\ r.del \subseteq Ids(r.targets)
          /\ r.at = "all" => ~(r.isDir /\ isDescendantOf(r.path, r.old))
       \/ /\ r.op = "delete" /\ r.at \in {"find", "all", "delete", "commit"} /\ r.put = {}
  /\ r.at \in {"closing", "purging"} => r.op = "delete"
Stages == \A q \in Req : Staged(q)

(* Requests that are under way and have met no other.                        *)
Alone(q) == Open(q) /\ q \notin met
MetOrAlone == \A q \in Req : Alone(q) => \A o \in Req \ {q} : ~Open(o)

HasDir(S, p) == \E d \in S : d.path = p /\ d.isDir

(* What these have found out is still so, for the table is as they found it: *)
(* a create has the directories above what it puts ...                       *)
Creates(q) ==
  LET r == req[q] IN
  r.op = "create" /\ r.at \in {"ancestors", "mkdir", "commit"} =>
    /\ r.todo \subseteq Ancestors(r.path) /\ (r.at = "commit" => r.todo = {})
    /\ \A p \in Ancestors(r.path) \ r.todo : HasDir(rows \cup r.put, p)
    /\ \A x \in r.put : \A p \in Ancestors(x.path) : HasDir(rows \cup r.put, p)

(* ... a move or a deletion has its row ...                                  *)
Found(q) ==
  LET r == req[q] IN
  r.at \in {"all", "mkdir", "updates"} /\ r.op \in {"move", "delete"} =>
    \E y \in rows : y.id = r.id /\ y.path = r.old /\ y.isDir = r.isDir

(* ... a move takes all that is below it, and keeps what it takes under it,  *)
(* below directories that stay ...                                           *)
Moves(q, y, t) ==
  LET r == req[q] IN
  /\ t.id = y.id /\ t.isDir = y.isDir
  /\ \/ y.id = r.id /\ y.path = r.old /\ y.isDir = r.isDir /\ t.path = r.path
     \/ /\ y.id # r.id /\ r.isDir /\ isDescendantOf(y.path, r.old)
        /\ t.path = replacePathPrefix(y.path, r.old, r.path)
Staying(q) == {d \in rows : d.id \notin Ids(req[q].targets)}
Plan(q) ==
  LET r == req[q] IN
  /\ r.todo \subseteq Ancestors(r.path)
  /\ \A t \in r.targets : \E y \in rows : Moves(q, y, t)
  /\ \E t \in r.targets : t.id = r.id
  /\ r.isDir => \A y \in rows : isDescendantOf(y.path, r.old) => y.id \in Ids(r.targets)
  /\ \A p \in Ancestors(r.path) \ r.todo : HasDir(Staying(q) \cup (r.put \ r.targets), p)
  /\ \A x \in r.put : x \in r.targets \/ (x.path \in Ancestors(r.path) /\ x.isDir)
  /\ \A t \in r.targets : t.id \in r.del => t \in r.put
MovesTheTree(q) ==
  LET r == req[q] IN
  /\ r.op = "move" /\ r.at \in {"mkdir", "updates"} => Plan(q)
  /\ r.op = "move" /\ r.at = "updates" => r.todo = {}
  /\ r.op = "move" /\ r.at = "commit" =>
       \/ r.put = {} /\ r.del = {}
       \/ Plan(q) /\ r.todo = {} /\ Ids(r.targets) \subseteq r.del

(* ... and a deletion takes all that is below what it takes.                 *)
DeletesTheTree(q) ==
  LET r == req[q] IN
  r.op = "delete" /\ r.at \in {"delete", "commit"} =>
    /\ \A d, y \in rows : d.isDir /\ d.id \in r.doomed /\ isDescendantOf(y.path, d.path)
         => y.id \in r.doomed
    /\ r.at = "commit" => r.del = r.doomed \cap Ids(rows)

Knows(q) == Creates(q) /\ Found(q) /\ MovesTheTree(q) /\ DeletesTheTree(q)
Undisturbed == \A q \in Req : Alone(q) => Knows(q)

(* What is deleted does not come back.                                       *)
Gone ==
  \A q \in Req : LET r == req[q] IN
    /\ \A n \in r.doomed : n < nextId
    /\ r.op = "delete" /\ r.at \in {"commit", "closing", "purging", "done"} =>
         \A n \in r.doomed :
           /\ n \in Ids(rows) => r.at = "commit" /\ n \in r.del
           /\ \A o \in Req : n \notin Ids(req[o].put)

(* After a deletion that met nobody in the room, it is quiet there.          *)
Quiet ==
  \A q \in Req : req[q].op = "delete" /\ req[q].at = "done" /\ File \in req[q].doomed /\ ~astray
    => ~doc /\ ~writing /\ ~RoomOpen

FilesInv ==
  /\ FilesTypeOK /\ Tables /\ Locks /\ Stages /\ MetOrAlone /\ Undisturbed
  /\ Gone /\ DeletedFilesAreLeft /\ Quiet

-----------------------------------------------------------------------------
LEMMA FilesInitInv == FilesInit => FilesInv
<1> SUFFICES ASSUME FilesInit PROVE FilesInv
  OBVIOUS
<1>1. Cardinality(Start) \in Nat
  BY FileTreeAssumption, FS_CardinalityType
<1>2. \A x \in Start : x.id \in 1..Cardinality(Start)
  BY FileTreeAssumption DEF Ids
<1>3. \A q \in Req : req[q] = New
  BY DEF FilesInit
<1>4. New \in Request
  BY DEF New, Request, Operation, Stage
<1>5. FilesTypeOK
  <2>1. /\ rows \subseteq Row /\ nextId \in Nat \ {0} /\ \A x \in rows : x.id < nextId
        /\ \A x, y \in rows : x.id = y.id \/ x.path = y.path => x = y
    BY <1>1, <1>2, FileTreeAssumption DEF FilesInit
  <2>2. req \in [Req -> Request]
    BY <1>4 DEF FilesInit
  <2>3. /\ sock \in [Sock -> {"out", "joining", "in", "closing"}]
        /\ {writing, doc, astray} \subseteq BOOLEAN /\ late \subseteq Sock /\ met \subseteq Req
    BY DEF FilesInit
  <2> QED
    BY <2>1, <2>2, <2>3 DEF FilesTypeOK
<1>6. \A q \in Req : ~Open(q) /\ View(q) = rows
  BY <1>3 DEF Open, New, View
<1>7. Tables
  BY <1>3, <1>5, <1>6 DEF Tables, Unique, New, FilesTypeOK
<1>8. Locks
  BY <1>3 DEF Locks, HeldIds, HeldPaths, New, Ids, Paths
<1>9. Stages
  BY <1>3, <1>6 DEF Stages, Staged, New
<1>10. MetOrAlone /\ Undisturbed
  BY <1>6 DEF MetOrAlone, Undisturbed, Alone
<1>11. Gone /\ DeletedFilesAreLeft /\ Quiet
  BY <1>3 DEF Gone, DeletedFilesAreLeft, Quiet, New
<1> QED
  BY <1>5, <1>7, <1>8, <1>9, <1>10, <1>11 DEF FilesInv

(* Nothing that is not under way holds anything, so what a write need not   *)
(* wait for is free.                                                        *)
LEMMA Free ==
  ASSUME FilesInv, NEW q \in Req, NEW ids, NEW paths, Writes(q, ids, paths), NEW o \in Req \ {q}
  PROVE  ids \cap HeldIds(o) = {} /\ paths \cap HeldPaths(o) = {}
<1>1. CASE Open(o)
  BY <1>1 DEF Writes, WaitsFor
<1>2. CASE ~Open(o)
  <2>1. req[o].put = {} /\ req[o].del = {}
    BY <1>2 DEF FilesInv, Stages, Staged
  <2> QED
    BY <2>1 DEF HeldIds, HeldPaths, Ids, Paths
<1> QED
  BY <1>1, <1>2

(* What a request's record becomes is its own business.                     *)
LEMMA OthersUntouched ==
  ASSUME FilesTypeOK, NEW q \in Req, NEW x \in Request, Becomes(q, x)
  PROVE  req' \in [Req -> Request] /\ req'[q] = x /\ \A o \in Req \ {q} : req'[o] = req[o]
BY DEF Becomes, FilesTypeOK

LEMMA SameTables ==
  ASSUME FilesInv, NEW q \in Req, NEW x \in Request, Becomes(q, x), UNCHANGED <<rows, nextId>>,
         \/ x.put = req[q].put /\ x.del = req[q].del
         \/ x.put = {} /\ x.del = {}
  PROVE  Tables' /\ Locks'
<1>1. req'[q] = x /\ \A o \in Req \ {q} : req'[o] = req[o]
  BY OthersUntouched DEF FilesInv
<1>2. \A o \in Req \ {q} : View(o)' = View(o) /\ HeldIds(o)' = HeldIds(o) /\ HeldPaths(o)' = HeldPaths(o)
  BY <1>1 DEF View, HeldIds, HeldPaths
<1>3. CASE x.put = req[q].put /\ x.del = req[q].del
  <2>1. View(q)' = View(q) /\ HeldIds(q)' = HeldIds(q) /\ HeldPaths(q)' = HeldPaths(q)
    BY <1>1, <1>3 DEF View, HeldIds, HeldPaths
  <2>2. \A o \in Req : /\ View(o)' = View(o) /\ HeldIds(o)' = HeldIds(o) /\ HeldPaths(o)' = HeldPaths(o)
                       /\ req'[o].put = req[o].put /\ req'[o].del = req[o].del
    BY <1>1, <1>2, <1>3, <2>1
  <2> QED
    BY <2>2 DEF FilesInv, Tables, Locks
<1>4. CASE x.put = {} /\ x.del = {}
  <2>1. View(q)' = rows /\ HeldIds(q)' = {} /\ HeldPaths(q)' = {}
    BY <1>1, <1>4 DEF View, HeldIds, HeldPaths, Ids, Paths
  <2>2. Unique(rows)
    BY DEF FilesInv, FilesTypeOK, Unique
  <2>3. Tables'
    BY <1>1, <1>2, <1>4, <2>1, <2>2 DEF FilesInv, Tables
  <2>4. Paths({}) = {}
    BY DEF Paths
  <2>5. Locks'
    BY <1>1, <1>2, <1>4, <2>1, <2>4 DEF FilesInv, Locks
  <2> QED
    BY <2>3, <2>5
<1> QED
  BY <1>3, <1>4

(* A row that is put in, new or in the place of an old one.                 *)
LEMMA PutTables ==
  ASSUME FilesInv, NEW q \in Req, NEW x \in Request, Becomes(q, x), rows' = rows,
         NEW y \in Row, NEW D, x.put = req[q].put \cup {y}, x.del = req[q].del \cup D,
         \A z \in View(q) : z.id # y.id => z.path # y.path,
         \A o \in Req \ {q} : y.path \notin HeldPaths(o),
         \/ D = {} /\ y.id = nextId /\ nextId' = nextId + 1
         \/ /\ D = {y.id} /\ y.id \in Ids(rows) /\ y.id \notin req[q].del /\ nextId' = nextId
            /\ \A o \in Req \ {q} : y.id \notin HeldIds(o)
  PROVE  Tables' /\ Locks'
<1>1. req'[q] = x /\ \A o \in Req \ {q} : req'[o] = req[o]
  BY OthersUntouched DEF FilesInv
<1>2. \A o \in Req \ {q} : View(o)' = View(o) /\ HeldIds(o)' = HeldIds(o) /\ HeldPaths(o)' = HeldPaths(o)
  BY <1>1 DEF View, HeldIds, HeldPaths
<1>3. nextId \in Nat /\ nextId' >= nextId /\ y.id < nextId' /\ \A z \in rows : z.id < nextId /\ z.id \in Nat
  <2>1. nextId \in Nat /\ \A z \in rows : z.id < nextId /\ z.id \in Nat
    BY DEF FilesInv, FilesTypeOK, Row
  <2> QED
    BY <2>1 DEF Ids
<1>4. /\ \A o \in Req : \A n \in req[o].del : n < nextId /\ n \in Nat
      /\ \A o \in Req : \A z \in req[o].put : z.id < nextId /\ z.id \in Nat /\ (z.id \in Ids(rows) => z.id \in req[o].del)
  <2>1. \A o \in Req : req[o].del \subseteq Nat /\ req[o].put \subseteq Row
    BY DEF FilesInv, FilesTypeOK, Request
  <2> QED
    BY <2>1 DEF FilesInv, Tables, Row
<1>5. \A z \in req[q].put : z.id # y.id
  BY <1>3, <1>4
<1>6. View(q)' = {z \in View(q) : z.id # y.id} \cup {y}
  <2>1. CASE D = {} /\ y.id = nextId
    <3>1. \A z \in View(q) : z.id # y.id
      BY <1>3, <1>5, <2>1 DEF View
    <3> QED
      BY <1>1, <2>1, <3>1 DEF View
  <2>2. CASE D = {y.id}
    BY <1>1, <1>5, <2>2 DEF View
  <2> QED
    BY <2>1, <2>2
<1>7. \A o \in Req : Unique(View(o)')
  <2>1. Unique(View(q)')
    BY <1>6 DEF FilesInv, Tables, Unique
  <2> QED
    BY <1>2, <2>1 DEF FilesInv, Tables
<1>8. \A o \in Req : /\ \A n \in req'[o].del : n < nextId'
                     /\ \A z \in req'[o].put : z.id < nextId' /\ (z.id \in Ids(rows) => z.id \in req'[o].del)
  <2>1. ASSUME NEW o \in Req \ {q}
        PROVE  /\ \A n \in req'[o].del : n < nextId'
               /\ \A z \in req'[o].put : z.id < nextId' /\ (z.id \in Ids(rows) => z.id \in req'[o].del)
    BY <1>1, <1>3, <1>4
  <2>2. /\ \A n \in req'[q].del : n < nextId'
        /\ \A z \in req'[q].put : z.id < nextId'
    BY <1>1, <1>3, <1>4
  <2>3. ASSUME NEW z \in req'[q].put, z.id \in Ids(rows)
        PROVE  z.id \in req'[q].del
    <3>1. CASE z \in req[q].put
      BY <1>1, <1>4, <2>3, <3>1
    <3>2. CASE z = y
      BY <1>1, <1>3, <2>3, <3>2 DEF Ids
    <3> QED
      BY <1>1, <3>1, <3>2
  <2> QED
    BY <2>1, <2>2, <2>3
<1>9. Tables'
  BY <1>7, <1>8 DEF Tables, Unique
<1>10. HeldIds(q)' = HeldIds(q) \cup {y.id}
  BY <1>1 DEF HeldIds, Ids
<1>11. \A o \in Req \ {q} : y.id \notin HeldIds(o)
  BY <1>3, <1>4 DEF HeldIds, Ids
<1>12. HeldPaths(q)' = HeldPaths(q) \cup {y.path} \cup Paths({z \in rows : z.id \in D})
  BY <1>1 DEF HeldPaths, Paths
<1>13. ASSUME NEW o \in Req \ {q}, NEW w \in rows, w.id \in D
       PROVE  w.path \notin Paths(req[o].put)
  <2>1. w.id = y.id /\ w.id \notin HeldIds(o)
    BY <1>11, <1>13
  <2>2. w \in View(o)
    BY <2>1 DEF View, HeldIds
  <2>3. ASSUME NEW u \in req[o].put, u.path = w.path PROVE FALSE
    <3>1. u \in View(o)
      BY DEF View
    <3>2. u = w
      BY <2>2, <2>3, <3>1 DEF FilesInv, Tables, Unique
    <3> QED
      BY <2>1, <3>2 DEF HeldIds, Ids
  <2> QED
    BY <2>3 DEF Paths
<1>14. ASSUME NEW o \in Req \ {q}
       PROVE  /\ HeldIds(q)' \cap HeldIds(o)' = {}
              /\ Paths(req'[q].put) \cap HeldPaths(o)' = {} /\ Paths(req'[o].put) \cap HeldPaths(q)' = {}
  <2>1. HeldIds(q) \cap HeldIds(o) = {} /\ Paths(req[q].put) \cap HeldPaths(o) = {}
        /\ Paths(req[o].put) \cap HeldPaths(q) = {}
    BY DEF FilesInv, Locks
  <2>2. Paths(req'[q].put) = Paths(req[q].put) \cup {y.path}
    BY <1>1 DEF Paths
  <2>3. Paths(req[o].put) \subseteq HeldPaths(o)
    BY DEF HeldPaths
  <2>4. Paths(req[o].put) \cap Paths({z \in rows : z.id \in D}) = {}
    BY <1>13 DEF Paths
  <2> QED
    BY <1>1, <1>2, <1>10, <1>11, <1>12, <2>1, <2>2, <2>3, <2>4
<1>15. ASSUME NEW o \in Req \ {q}, NEW p \in Req \ {q}, o # p
       PROVE  HeldIds(o)' \cap HeldIds(p)' = {} /\ Paths(req'[o].put) \cap HeldPaths(p)' = {}
  BY <1>1, <1>2, <1>15 DEF FilesInv, Locks
<1>16. Locks'
  BY <1>14, <1>15 DEF Locks
<1> QED
  BY <1>9, <1>16

(* The step of a request that leaves the table alone and goes on.           *)
LEMMA OneStep ==
  ASSUME FilesInv, NEW q \in Req, Open(q), NEW x \in Request, Becomes(q, x), UNCHANGED TableOnly,
         nextId' \in Nat \ {0}, nextId' >= nextId,
         x.op = req[q].op, x.at \notin {"new", "closing", "purging", "done"},
         Tables', Locks', Staged(q)', Alone(q)' => Knows(q)',
         \A n \in x.doomed : n < nextId,
         \A n \in Ids(x.put) : \/ n \in Ids(req[q].put) \/ n = nextId
                               \/ n \in Ids(rows) /\ \A o \in Req : n \notin req[o].del,
         x.op = "delete" /\ x.at = "commit" =>
           \A n \in x.doomed : (n \in Ids(rows) => n \in x.del) /\ \A o \in Req : n \notin Ids(req[o].put)
  PROVE  FilesInv'
<1>1. req'[q] = x /\ (\A o \in Req \ {q} : req'[o] = req[o]) /\ req' \in [Req -> Request]
  BY OthersUntouched DEF FilesInv
<1>2. UNCHANGED <<rows, met, sock, writing, doc, late, astray>>
  BY DEF TableOnly, Roomside
<1>3. FilesTypeOK'
  <2>1. nextId \in Nat /\ \A y \in rows : y.id < nextId /\ y.id \in Nat
    BY DEF FilesInv, FilesTypeOK, Row
  <2>2. \A y \in rows : y.id < nextId'
    BY <2>1
  <2> QED
    BY <1>1, <1>2, <2>2 DEF FilesInv, FilesTypeOK
<1>4. \A o \in Req \ {q} : (Open(o)' <=> Open(o)) /\ (Alone(o)' <=> Alone(o))
  BY <1>1, <1>2 DEF Open, Alone
<1>5. Alone(q)' => Alone(q)
  BY <1>2 DEF Alone
<1>6. Stages'
  <2>1. \A o \in Req \ {q} : Staged(o)'
    BY <1>1, <1>4 DEF FilesInv, Stages, Staged
  <2> QED
    BY <2>1 DEF Stages
<1>7. MetOrAlone'
  <2>1. ASSUME NEW o \in Req, Alone(o)', NEW p \in Req \ {o}
        PROVE  ~Open(p)'
    <3>1. CASE o = q
      BY <1>4, <1>5, <2>1, <3>1 DEF FilesInv, MetOrAlone
    <3>2. CASE o # q
      <4>1. Alone(o)
        BY <1>4, <2>1, <3>2
      <4> QED
        BY <4>1, <3>2 DEF FilesInv, MetOrAlone
    <3> QED
      BY <3>1, <3>2
  <2> QED
    BY <2>1 DEF MetOrAlone
<1>8. Undisturbed'
  <2>1. ASSUME NEW o \in Req \ {q}, Alone(o)'
        PROVE  Knows(o)'
    BY <1>4, <2>1 DEF FilesInv, MetOrAlone
  <2> QED
    BY <2>1 DEF Undisturbed
<1>9. Gone'
  <2>1. ASSUME NEW o \in Req, NEW n \in req'[o].doomed
        PROVE  n < nextId
    BY <1>1, <2>1 DEF FilesInv, Gone
  <2>2. ASSUME NEW o \in Req, NEW n \in req'[o].doomed, req'[o].op = "delete",
               req'[o].at \in {"commit", "closing", "purging", "done"}
        PROVE  /\ n \in Ids(rows) => req'[o].at = "commit" /\ n \in req'[o].del
               /\ \A p \in Req : n \notin Ids(req'[p].put)
    <3>1. CASE o = q
      <4>1. x.op = "delete" /\ x.at = "commit" /\ n \in x.doomed
        BY <1>1, <2>2, <3>1
      <4>2. x.put = {}
        BY <1>1, <4>1 DEF Staged, Open
      <4>3. Ids({}) = {}
        BY DEF Ids
      <4> QED
        BY <1>1, <3>1, <4>1, <4>2, <4>3
    <3>2. CASE o # q
      <4>1. /\ n \in Ids(rows) => req[o].at = "commit" /\ n \in req[o].del
            /\ \A p \in Req : n \notin Ids(req[p].put)
        BY <1>1, <2>2, <3>2 DEF FilesInv, Gone
      <4>2. n # nextId
        <5>1. n < nextId /\ nextId \in Nat
          BY <1>1, <2>1 DEF FilesInv, FilesTypeOK
        <5> QED
          BY <5>1
      <4>3. n \notin Ids(x.put)
        BY <4>1, <4>2
      <4> QED
        BY <1>1, <3>2, <4>1, <4>3
    <3> QED
      BY <3>1, <3>2
  <2>3. ASSUME NEW o \in Req, NEW n \in req'[o].doomed
        PROVE  n < nextId'
    <3>1. n \in Nat /\ nextId \in Nat
      BY <1>1 DEF FilesInv, FilesTypeOK, Request
    <3> QED
      BY <2>1, <3>1
  <2> QED
    BY <1>2, <2>2, <2>3 DEF Gone
<1>10. DeletedFilesAreLeft'
  <2>1. \A o \in Req : req'[o].at \in {"purging", "done"} => req'[o] = req[o]
    BY <1>1
  <2> QED
    BY <1>2, <2>1 DEF FilesInv, DeletedFilesAreLeft
<1>11. Quiet'
  <2>1. \A o \in Req : req'[o].at = "done" => req'[o] = req[o]
    BY <1>1
  <2>2. RoomOpen' <=> RoomOpen
    BY <1>2 DEF RoomOpen
  <2> QED
    BY <1>2, <2>1, <2>2 DEF FilesInv, Quiet
<1> QED
  BY <1>3, <1>6, <1>7, <1>8, <1>9, <1>10, <1>11 DEF FilesInv

(* Reading the table, or giving up.                                         *)
LEMMA ReadStep ==
  ASSUME FilesInv, NEW q \in Req, Open(q), NEW x \in Request, Becomes(q, x), UNCHANGED <<nextId, TableOnly>>,
         x.op = req[q].op, x.at \notin {"new", "closing", "purging", "done"},
         \/ x.put = req[q].put /\ x.del = req[q].del
         \/ x.put = {} /\ x.del = {},
         Staged(q)', Alone(q)' => Knows(q)',
         \A n \in x.doomed : n < nextId,
         x.op = "delete" => x.at # "commit"
  PROVE  FilesInv'
<1>1. UNCHANGED <<rows, nextId>>
  BY DEF TableOnly
<1>2. Tables' /\ Locks'
  BY <1>1, SameTables
<1>3. nextId' \in Nat \ {0} /\ nextId' >= nextId
  BY DEF FilesInv, FilesTypeOK
<1>4. \A n \in Ids(x.put) : n \in Ids(req[q].put)
  BY DEF Ids
<1> QED
  BY <1>2, <1>3, <1>4, OneStep

LEMMA RefuseStep ==
  ASSUME FilesInv, NEW q \in Req, Open(q), Refuses(q)
  PROVE  FilesInv'
<1> DEFINE x == [req[q] EXCEPT !.at = "refused", !.put = {}, !.del = {}, !.todo = {},
                               !.doomed = {}, !.targets = {}]
<1>1. req[q] \in Request
  BY DEF FilesInv, FilesTypeOK
<1>2. /\ x \in Request /\ x.at = "refused" /\ x.put = {} /\ x.del = {} /\ x.doomed = {}
      /\ x.targets = {} /\ x.op = req[q].op
  BY <1>1 DEF Request, Stage
<1>3. Becomes(q, x) /\ UNCHANGED <<nextId, TableOnly>>
  BY DEF Refuses
<1> HIDE DEF x
<1>4. req'[q] = x
  BY <1>2, <1>3, OthersUntouched DEF FilesInv
<1>5. ~Open(q)'
  BY <1>2, <1>4 DEF Open
<1>6. Staged(q)' /\ ~Alone(q)'
  BY <1>2, <1>4, <1>5 DEF Staged, Alone
<1> QED
  BY <1>2, <1>3, <1>6, ReadStep
-----------------------------------------------------------------------------
(* The actions of requests, one by one.                                     *)
LEMMA BeginStep ==
  ASSUME FilesInv, NEW q \in Req, NEW x \in Request, Begins(q, x),
         x.put = {}, x.del = {}, x.targets = {}, x.doomed = {},
         \/ x.op = "create" /\ x.at = "existing" /\ x.path \in Path
         \/ x.op = "move" /\ x.at = "find" /\ x.path \in Path /\ x.id # 0
         \/ x.op = "delete" /\ x.at = "find"
  PROVE  FilesInv'
<1>1. req'[q] = x /\ (\A o \in Req \ {q} : req'[o] = req[o]) /\ req' \in [Req -> Request]
  BY OthersUntouched DEF FilesInv, Begins
<1>2. /\ req[q].at = "new"
      /\ UNCHANGED <<rows, nextId, sock, writing, doc, late, astray>>
  BY DEF Begins, Roomside
<1>3. met \subseteq met' /\ met' \subseteq Req
  BY DEF Begins, FilesInv, FilesTypeOK
<1>4. \A o \in Req \ {q} : Open(o) => {q, o} \subseteq met'
  BY DEF Begins
<1>5. Tables' /\ Locks'
  BY <1>2, SameTables DEF Begins
<1>6. FilesTypeOK'
  BY <1>1, <1>2, <1>3 DEF FilesInv, FilesTypeOK
<1>7. \A o \in Req \ {q} : (Open(o)' <=> Open(o)) /\ (Alone(o)' => Alone(o))
  BY <1>1, <1>3 DEF Open, Alone
<1>8. Stages'
  <2>1. \A o \in Req \ {q} : Staged(o)'
    BY <1>1, <1>7 DEF FilesInv, Stages, Staged
  <2>2. Staged(q)'
    BY <1>1 DEF Staged, Open
  <2> QED
    BY <2>1, <2>2 DEF Stages
<1>9. \A o \in Req \ {q} : ~Alone(o)'
  BY <1>1, <1>4 DEF Alone, Open
<1>10. MetOrAlone'
  <2>1. Alone(q)' => \A o \in Req \ {q} : ~Open(o)'
    BY <1>4, <1>7 DEF Alone
  <2> QED
    BY <1>9, <2>1 DEF MetOrAlone
<1>11. Undisturbed'
  <2>1. Knows(q)'
    BY <1>1 DEF Knows, Creates, Found, MovesTheTree, DeletesTheTree
  <2> QED
    BY <1>9, <2>1 DEF Undisturbed
<1>12. Gone'
  <2>1. req'[q].doomed = {} /\ req'[q].at \notin {"commit", "closing", "purging", "done"}
    BY <1>1
  <2>2. \A o \in Req : req'[o].put = req[o].put \/ req'[o].put = {}
    BY <1>1
  <2>3. Ids({}) = {}
    BY DEF Ids
  <2> QED
    BY <1>1, <1>2, <2>1, <2>2, <2>3 DEF FilesInv, Gone
<1>13. DeletedFilesAreLeft'
  <2>1. \A o \in Req : req'[o].at \in {"purging", "done"} => req'[o] = req[o]
    BY <1>1
  <2> QED
    BY <1>2, <2>1 DEF FilesInv, DeletedFilesAreLeft
<1>14. Quiet'
  <2>1. \A o \in Req : req'[o].at = "done" => req'[o] = req[o]
    BY <1>1
  <2>2. RoomOpen' <=> RoomOpen
    BY <1>2 DEF RoomOpen
  <2> QED
    BY <1>2, <2>1, <2>2 DEF FilesInv, Quiet
<1> QED
  BY <1>5, <1>6, <1>8, <1>10, <1>11, <1>12, <1>13, <1>14 DEF FilesInv

LEMMA Begun ==
  ASSUME FilesInv, NEW q \in Req, BeginCreate(q) \/ BeginMove(q) \/ BeginDelete(q)
  PROVE  FilesInv'
<1>1. ASSUME NEW p \in AskedPath
      PROVE  p \in Path /\ p \in Seq(Name)
  <2>1. PICK n \in 1..MAX_DEPTH : p \in [1..n -> Name]
    BY DEF AskedPath
  <2>2. n \in Nat /\ n > 0
    BY FileTreeAssumption
  <2>3. p \in Seq(Name) /\ Len(p) = n
    BY <2>1, <2>2
  <2>4. p # << >>
    BY <2>2, <2>3
  <2> QED
    BY <2>3, <2>4 DEF Path
<1>2. New \in Request
  BY DEF New, Request, Operation, Stage
<1>3. CASE BeginCreate(q)
  <2>1. PICK p \in AskedPath, isDir \in BOOLEAN :
          Begins(q, [New EXCEPT !.op = "create", !.at = "existing", !.path = p, !.isDir = isDir])
    BY <1>3 DEF BeginCreate
  <2> DEFINE x == [New EXCEPT !.op = "create", !.at = "existing", !.path = p, !.isDir = isDir]
  <2>2. x \in Request
    BY <1>1, <1>2 DEF Request, Operation, Stage
  <2>3. /\ x.put = {} /\ x.del = {} /\ x.targets = {} /\ x.doomed = {}
        /\ x.op = "create" /\ x.at = "existing" /\ x.path = p
    BY DEF New
  <2> HIDE DEF x
  <2> QED
    BY <1>1, <2>1, <2>2, <2>3, BeginStep DEF x
<1>4. CASE BeginMove(q)
  <2>1. PICK y \in rows, p \in AskedPath :
          Begins(q, [New EXCEPT !.op = "move", !.at = "find", !.id = y.id, !.path = p])
    BY <1>4 DEF BeginMove
  <2> DEFINE x == [New EXCEPT !.op = "move", !.at = "find", !.id = y.id, !.path = p]
  <2>2. y.id \in Nat /\ y.id # 0
    BY DEF FilesInv, FilesTypeOK, Row
  <2>3. x \in Request
    BY <1>1, <1>2, <2>2 DEF Request, Operation, Stage
  <2>4. /\ x.put = {} /\ x.del = {} /\ x.targets = {} /\ x.doomed = {}
        /\ x.op = "move" /\ x.at = "find" /\ x.path = p /\ x.id = y.id
    BY DEF New
  <2> HIDE DEF x
  <2> QED
    BY <1>1, <2>1, <2>2, <2>3, <2>4, BeginStep DEF x
<1>5. CASE BeginDelete(q)
  <2>1. PICK y \in rows : Begins(q, [New EXCEPT !.op = "delete", !.at = "find", !.id = y.id])
    BY <1>5 DEF BeginDelete
  <2> DEFINE x == [New EXCEPT !.op = "delete", !.at = "find", !.id = y.id]
  <2>2. y.id \in Nat
    BY DEF FilesInv, FilesTypeOK, Row
  <2>3. x \in Request
    BY <1>2, <2>2 DEF Request, Operation, Stage
  <2>4. /\ x.put = {} /\ x.del = {} /\ x.targets = {} /\ x.doomed = {}
        /\ x.op = "delete" /\ x.at = "find"
    BY DEF New
  <2> HIDE DEF x
  <2> QED
    BY <2>1, <2>3, <2>4, BeginStep DEF x
<1> QED
  BY <1>3, <1>4, <1>5

LEMMA FindExistingStep ==
  ASSUME FilesInv, NEW q \in Req, FindExisting(q)
  PROVE  FilesInv'
<1>1. Open(q) /\ req[q] \in Request /\ req[q].op = "create" /\ req[q].at = "existing"
  BY DEF FindExisting, Open, FilesInv, FilesTypeOK
<1>2. CASE Refuses(q)
  BY <1>1, <1>2, RefuseStep
<1>3. CASE ~Refuses(q)
  <2> DEFINE x == [req[q] EXCEPT !.at = "ancestors", !.todo = Ancestors(req[q].path)]
  <2>1. Becomes(q, x) /\ UNCHANGED <<nextId, TableOnly>>
    BY <1>3 DEF FindExisting
  <2>2. /\ req[q].put = {} /\ req[q].del = {} /\ req[q].targets = {} /\ req[q].path \in Path
    BY <1>1 DEF FilesInv, Stages, Staged
  <2>3. Ancestors(req[q].path) \subseteq Path
    BY <2>2, AncestorsAre DEF Path
  <2>4. x \in Request
    BY <1>1, <2>3 DEF Request, Stage
  <2>5. /\ x.op = "create" /\ x.at = "ancestors" /\ x.put = {} /\ x.del = {} /\ x.targets = {}
        /\ x.path = req[q].path /\ x.todo = Ancestors(req[q].path) /\ x.doomed = req[q].doomed
    BY <1>1, <2>2 DEF Request
  <2> HIDE DEF x
  <2>6. req'[q] = x
    BY <2>1, <2>4, OthersUntouched DEF FilesInv
  <2>7. Staged(q)' /\ Knows(q)'
    BY <2>2, <2>5, <2>6 DEF Staged, Open, Knows, Creates, Found, MovesTheTree, DeletesTheTree
  <2>8. \A n \in x.doomed : n < nextId
    BY <2>5 DEF FilesInv, Gone
  <2> QED
    BY <1>1, <2>1, <2>2, <2>4, <2>5, <2>7, <2>8, ReadStep
<1> QED
  BY <1>2, <1>3

LEMMA FindAncestorStep ==
  ASSUME FilesInv, NEW q \in Req, FindAncestor(q)
  PROVE  FilesInv'
<1>1. Open(q) /\ req[q] \in Request /\ req[q].op = "create" /\ req[q].at = "ancestors"
  BY DEF FindAncestor, Open, FilesInv, FilesTypeOK
<1>2. req[q].del = {} /\ req[q].targets = {} /\ req[q].path \in Path
  BY <1>1 DEF FilesInv, Stages, Staged
<1>3. PICK p \in Shallowest(req[q].todo) :
        LET found == At(View(q), p) IN
        IF \E d \in found : ~d.isDir THEN Refuses(q)
        ELSE /\ Becomes(q, IF found = {} THEN [req[q] EXCEPT !.at = "mkdir"]
                           ELSE [req[q] EXCEPT !.todo = @ \ {p}])
             /\ UNCHANGED <<nextId, TableOnly>>
  BY DEF FindAncestor
<1>4. CASE Refuses(q)
  BY <1>1, <1>4, RefuseStep
<1>5. CASE ~Refuses(q) /\ At(View(q), p) = {}
  <2> DEFINE x == [req[q] EXCEPT !.at = "mkdir"]
  <2>1. Becomes(q, x) /\ UNCHANGED <<nextId, TableOnly>>
    BY <1>3, <1>5
  <2>2. x \in Request
    BY <1>1 DEF Request, Stage
  <2>3. /\ x.op = "create" /\ x.at = "mkdir" /\ x.put = req[q].put /\ x.del = {} /\ x.targets = {}
        /\ x.path = req[q].path /\ x.todo = req[q].todo /\ x.doomed = req[q].doomed
    BY <1>1, <1>2 DEF Request
  <2> HIDE DEF x
  <2>4. req'[q] = x /\ rows' = rows /\ met' = met
    BY <2>1, <2>2, OthersUntouched DEF FilesInv, TableOnly
  <2>5. Staged(q)'
    BY <1>2, <2>3, <2>4 DEF Staged, Open
  <2>6. ASSUME Alone(q)' PROVE Knows(q)'
    <3>1. Creates(q)
      BY <1>1, <2>4, <2>6 DEF FilesInv, Undisturbed, Knows, Alone
    <3>2. Creates(q)'
      BY <1>1, <2>3, <2>4, <3>1 DEF Creates
    <3> QED
      BY <2>3, <2>4, <3>2 DEF Knows, Found, MovesTheTree, DeletesTheTree
  <2>7. \A n \in x.doomed : n < nextId
    BY <2>3 DEF FilesInv, Gone
  <2> QED
    BY <1>1, <1>2, <2>1, <2>2, <2>3, <2>5, <2>6, <2>7, ReadStep
<1>6. CASE ~Refuses(q) /\ At(View(q), p) # {}
  <2> DEFINE x == [req[q] EXCEPT !.todo = @ \ {p}]
  <2>1. /\ Becomes(q, x) /\ UNCHANGED <<nextId, TableOnly>>
        /\ \E d \in View(q) : d.path = p /\ d.isDir
    BY <1>3, <1>6 DEF At
  <2>2. x \in Request
    BY <1>1 DEF Request
  <2>3. /\ x.op = "create" /\ x.at = "ancestors" /\ x.put = req[q].put /\ x.del = {} /\ x.targets = {}
        /\ x.path = req[q].path /\ x.todo = req[q].todo \ {p} /\ x.doomed = req[q].doomed
    BY <1>1, <1>2 DEF Request
  <2> HIDE DEF x
  <2>4. req'[q] = x /\ rows' = rows /\ met' = met
    BY <2>1, <2>2, OthersUntouched DEF FilesInv, TableOnly
  <2>5. Staged(q)'
    BY <1>2, <2>3, <2>4 DEF Staged, Open
  <2>6. ASSUME Alone(q)' PROVE Knows(q)'
    <3>1. Creates(q)
      BY <1>1, <2>4, <2>6 DEF FilesInv, Undisturbed, Knows, Alone
    <3>2. HasDir(rows \cup req[q].put, p)
      BY <2>1 DEF HasDir, View
    <3>3. Creates(q)'
      BY <1>1, <2>3, <2>4, <3>1, <3>2 DEF Creates
    <3> QED
      BY <2>3, <2>4, <3>3 DEF Knows, Found, MovesTheTree, DeletesTheTree
  <2>7. \A n \in x.doomed : n < nextId
    BY <2>3 DEF FilesInv, Gone
  <2> QED
    BY <1>1, <1>2, <2>1, <2>2, <2>3, <2>5, <2>6, <2>7, ReadStep
<1> QED
  BY <1>4, <1>5, <1>6

(* A new row of request q: x is q's record but for where it goes next.      *)
NewRow(p, isDir) == [id |-> nextId, path |-> p, isDir |-> isDir]
LEMMA InsertStep ==
  ASSUME FilesInv, NEW q \in Req, Open(q), req[q].op # "delete",
         NEW p \in Path, NEW isDir \in BOOLEAN, NEW z \in Request, Becomes(q, z),
         nextId' = nextId + 1, UNCHANGED TableOnly, Writes(q, {}, {p}), p \notin Paths(View(q)),
         z.put = req[q].put \cup {NewRow(p, isDir)}, z.del = req[q].del, z.op = req[q].op,
         z.doomed = req[q].doomed, z.at \notin {"new", "closing", "purging", "done"},
         Staged(q)', Alone(q)' => Knows(q)'
  PROVE  FilesInv'
<1> DEFINE y == NewRow(p, isDir)
<1>1. y \in Row /\ y.id = nextId /\ y.path = p
  <2>1. nextId \in Nat /\ nextId # 0
    BY DEF FilesInv, FilesTypeOK
  <2> QED
    BY <2>1 DEF NewRow, Row
<1> HIDE DEF y
<1>2. rows' = rows
  BY DEF TableOnly
<1>3. \A v \in View(q) : v.id # y.id => v.path # y.path
  BY <1>1 DEF Paths
<1>4. \A o \in Req \ {q} : y.path \notin HeldPaths(o)
  <2> TAKE o \in Req \ {q}
  <2>1. {p} \cap HeldPaths(o) = {}
    BY Free
  <2> QED
    BY <1>1, <2>1
<1>5. Tables' /\ Locks'
  <2>1. z.put = req[q].put \cup {y} /\ z.del = req[q].del \cup {}
    BY DEF y
  <2> QED
    BY <1>1, <1>2, <1>3, <1>4, <2>1, PutTables
<1>6. nextId' \in Nat \ {0} /\ nextId' >= nextId
  BY DEF FilesInv, FilesTypeOK
<1>7. \A n \in Ids(z.put) : n \in Ids(req[q].put) \/ n = nextId
  BY <1>1 DEF Ids, y
<1>8. \A n \in z.doomed : n < nextId
  BY DEF FilesInv, Gone
<1> QED
  BY <1>5, <1>6, <1>7, <1>8, OneStep

LEMMA MakeDirectoryStep ==
  ASSUME FilesInv, NEW q \in Req, MakeDirectory(q)
  PROVE  FilesInv'
<1>1. Open(q) /\ req[q] \in Request /\ req[q].at = "mkdir"
  BY DEF MakeDirectory, Open, FilesInv, FilesTypeOK
<1>2. /\ req[q].op \in {"create", "move"} /\ req[q].path \in Path
      /\ req[q].op = "create" => req[q].del = {} /\ req[q].targets = {}
      /\ req[q].op = "move" => req[q].id # 0 /\ req[q].del \subseteq Ids(req[q].targets)
  BY <1>1 DEF FilesInv, Stages, Staged
<1>3. PICK p \in Shallowest(req[q].todo) :
        LET rest == req[q].todo \ {p} IN
        Inserts(q, p, TRUE, [req[q] EXCEPT !.todo = rest,
                               !.at = IF req[q].op = "create" THEN "ancestors"
                                      ELSE AfterReading(rest, req[q].targets)])
  BY DEF MakeDirectory
<1>4. p \in req[q].todo /\ p \in Path /\ \A o \in req[q].todo : Len(p) <= Len(o)
  BY <1>1 DEF Shallowest, Request
<1> DEFINE next == IF req[q].op = "create" THEN "ancestors"
                   ELSE AfterReading(req[q].todo \ {p}, req[q].targets)
           x == [req[q] EXCEPT !.todo = req[q].todo \ {p}, !.at = next]
           y == NewRow(p, TRUE)
           z == [x EXCEPT !.put = @ \cup {y}]
<1>5. Inserts(q, p, TRUE, x)
  BY <1>3
<1>6. CASE Refuses(q)
  BY <1>1, <1>6, RefuseStep
<1>7. CASE ~Refuses(q)
  <2>1. /\ Becomes(q, z) /\ nextId' = nextId + 1 /\ UNCHANGED TableOnly
        /\ Writes(q, {}, {p}) /\ p \notin Paths(View(q))
    BY <1>5, <1>7 DEF Inserts, NewRow
  <2>2. next \in {"ancestors", "mkdir", "updates", "commit"}
    BY DEF AfterReading
  <2>3. y \in Row /\ y.id = nextId /\ y.path = p /\ y.isDir
    <3>1. nextId \in Nat /\ nextId # 0
      BY DEF FilesInv, FilesTypeOK
    <3> QED
      BY <1>4, <3>1 DEF NewRow, Row
  <2> HIDE DEF y, next
  <2>4. /\ z.put = req[q].put \cup {y} /\ z.del = req[q].del /\ z.targets = req[q].targets
        /\ z.op = req[q].op /\ z.at = next /\ z.path = req[q].path /\ z.old = req[q].old
        /\ z.id = req[q].id /\ z.isDir = req[q].isDir
        /\ z.todo = req[q].todo \ {p} /\ z.doomed = req[q].doomed
    BY <1>1 DEF Request
  <2>5. z \in Request
    <3>1. req[q].put \cup {y} \in SUBSET Row /\ req[q].todo \ {p} \in SUBSET Path
      BY <1>1, <2>3 DEF Request
    <3> QED
      BY <1>1, <2>2, <3>1 DEF Request, Stage
  <2> HIDE DEF z
  <2>6. req'[q] = z /\ rows' = rows /\ met' = met
    BY <2>1, <2>5, OthersUntouched DEF FilesInv, TableOnly
  <2>7. req[q].op = "create" => next = "ancestors"
    BY DEF next
  <2>8. req[q].op = "move" => next = AfterReading(req[q].todo \ {p}, req[q].targets)
    BY DEF next
  <2>9. Staged(q)'
    <3>1. req[q].op = "move" => next \in {"mkdir", "updates", "commit"}
      BY <2>8 DEF AfterReading
    <3> QED
      BY <1>2, <2>4, <2>6, <2>7, <3>1 DEF Staged, Open
  <2>10. ASSUME Alone(q)', req[q].op = "create"
         PROVE  Knows(q)'
    <3>1. Creates(q)
      BY <1>1, <2>6, <2>10 DEF FilesInv, Undisturbed, Knows, Alone
    <3>2. /\ req[q].todo \subseteq Ancestors(req[q].path)
          /\ \A a \in Ancestors(req[q].path) \ req[q].todo : HasDir(rows \cup req[q].put, a)
          /\ \A v \in req[q].put : \A a \in Ancestors(v.path) : HasDir(rows \cup req[q].put, a)
      BY <1>1, <2>10, <3>1 DEF Creates
    <3>3. HasDir(rows \cup z.put, p)
      BY <2>3, <2>4 DEF HasDir
    <3>4. \A a : HasDir(rows \cup req[q].put, a) => HasDir(rows \cup z.put, a)
      BY <2>4 DEF HasDir
    <3>5. ASSUME NEW a \in Ancestors(p)
          PROVE  HasDir(rows \cup z.put, a)
      <4>1. p \in Seq(Name) /\ req[q].path \in Seq(Name) /\ isDescendantOf(req[q].path, p)
        BY <1>2, <1>4, <3>2, AncestorsAre DEF Path
      <4>2. a \in Path /\ a \in Seq(Name) /\ isDescendantOf(p, a)
        BY <4>1, AncestorsAre DEF Path
      <4>3. isDescendantOf(req[q].path, a) /\ Len(a) < Len(p) /\ Len(a) \in Nat /\ Len(p) \in Nat
        BY <4>1, <4>2, BelowBelow, Below
      <4>4. a \in Ancestors(req[q].path)
        BY <4>1, <4>2, <4>3, AncestorsAre
      <4>5. a \notin req[q].todo
        BY <1>4, <4>3
      <4> QED
        BY <3>2, <3>4, <4>4, <4>5
    <3>6. \A v \in z.put : \A a \in Ancestors(v.path) : HasDir(rows \cup z.put, a)
      BY <2>3, <2>4, <3>2, <3>4, <3>5
    <3>7. Creates(q)'
      BY <2>4, <2>6, <2>7, <2>10, <3>2, <3>3, <3>4, <3>6 DEF Creates
    <3> QED
      BY <2>4, <2>6, <2>10, <3>7 DEF Knows, Found, MovesTheTree, DeletesTheTree
  <2>11. ASSUME Alone(q)', req[q].op = "move"
         PROVE  Knows(q)'
    <3>1. Plan(q) /\ Found(q)
      BY <1>1, <2>6, <2>11 DEF FilesInv, Undisturbed, Knows, Alone, MovesTheTree
    <3>2. y \notin req[q].targets
      <4>1. \A t \in req[q].targets : \E v \in rows : t.id = v.id
        BY <3>1 DEF Plan, Moves
      <4>2. \A v \in rows : v.id < nextId /\ v.id \in Nat
        BY DEF FilesInv, FilesTypeOK, Row
      <4>3. nextId \in Nat
        BY DEF FilesInv, FilesTypeOK
      <4> QED
        BY <2>3, <4>1, <4>2, <4>3
    <3>3. Staying(q)' = Staying(q) /\ \A v, t : Moves(q, v, t)' <=> Moves(q, v, t)
      BY <2>4, <2>6 DEF Staying, Moves
    <3>4. \A a \in Ancestors(z.path) \ z.todo : HasDir(Staying(q) \cup (z.put \ z.targets), a)
      <4> TAKE a \in Ancestors(z.path) \ z.todo
      <4>1. CASE a = p
        BY <2>3, <2>4, <3>2, <4>1 DEF HasDir
      <4>2. CASE a # p
        <5>1. HasDir(Staying(q) \cup (req[q].put \ req[q].targets), a)
          BY <2>4, <3>1, <4>2 DEF Plan
        <5> QED
          BY <2>4, <5>1 DEF HasDir
      <4> QED
        BY <4>1, <4>2
    <3>5. \A v \in z.put : v \in z.targets \/ (v.path \in Ancestors(z.path) /\ v.isDir)
      BY <1>4, <2>3, <2>4, <3>1 DEF Plan
    <3>6. Plan(q)'
      <4>1. z.todo \subseteq Ancestors(z.path)
        BY <2>4, <3>1 DEF Plan
      <4>2. /\ \A t \in z.targets : \E v \in rows : Moves(q, v, t)
            /\ \E t \in z.targets : t.id = z.id
            /\ z.isDir => \A v \in rows : isDescendantOf(v.path, z.old) => v.id \in Ids(z.targets)
            /\ \A t \in z.targets : t.id \in z.del => t \in z.put
        BY <2>4, <3>1 DEF Plan
      <4> QED
        BY <2>6, <3>3, <3>4, <3>5, <4>1, <4>2 DEF Plan
    <3>7. z.targets # {}
      BY <2>4, <3>1 DEF Plan
    <3>8. /\ next # "commit"
          /\ next = "updates" => z.todo = {}
      BY <2>4, <2>8, <2>11, <3>7 DEF AfterReading
    <3>9. MovesTheTree(q)'
      BY <2>4, <2>6, <3>6, <3>8 DEF MovesTheTree
    <3>10. Found(q)'
      BY <1>1, <2>4, <2>6, <2>11, <3>1 DEF Found
    <3> QED
      BY <2>4, <2>6, <2>11, <3>9, <3>10 DEF Knows, Creates, DeletesTheTree
  <2>12. Alone(q)' => Knows(q)'
    BY <1>2, <2>10, <2>11
  <2> QED
    BY <1>1, <1>2, <1>4, <2>1, <2>2, <2>4, <2>5, <2>9, <2>12, InsertStep DEF y
<1> QED
  BY <1>6, <1>7

LEMMA InsertFileStep ==
  ASSUME FilesInv, NEW q \in Req, InsertFile(q)
  PROVE  FilesInv'
<1>1. /\ Open(q) /\ req[q] \in Request /\ req[q].op = "create" /\ req[q].at = "ancestors"
      /\ req[q].todo = {}
  BY DEF InsertFile, Open, FilesInv, FilesTypeOK
<1>2. req[q].del = {} /\ req[q].targets = {} /\ req[q].path \in Path
  BY <1>1 DEF FilesInv, Stages, Staged
<1> DEFINE p == req[q].path
           y == NewRow(p, req[q].isDir)
           x == [req[q] EXCEPT !.at = "commit"]
           z == [x EXCEPT !.put = @ \cup {y}]
<1>3. Inserts(q, p, req[q].isDir, x)
  BY DEF InsertFile
<1>4. CASE Refuses(q)
  BY <1>1, <1>4, RefuseStep
<1>5. CASE ~Refuses(q)
  <2>1. /\ Becomes(q, z) /\ nextId' = nextId + 1 /\ UNCHANGED TableOnly
        /\ Writes(q, {}, {p}) /\ p \notin Paths(View(q))
    BY <1>3, <1>5 DEF Inserts, NewRow
  <2>2. y \in Row /\ y.path = p
    <3>1. nextId \in Nat /\ nextId # 0
      BY DEF FilesInv, FilesTypeOK
    <3> QED
      BY <1>1, <1>2, <3>1 DEF NewRow, Row, Request
  <2> HIDE DEF y
  <2>3. /\ z.put = req[q].put \cup {y} /\ z.del = {} /\ z.targets = {}
        /\ z.op = "create" /\ z.at = "commit" /\ z.path = p /\ z.todo = {}
        /\ z.doomed = req[q].doomed
    BY <1>1, <1>2 DEF Request
  <2>4. z \in Request
    BY <1>1, <2>2 DEF Request, Stage
  <2> HIDE DEF z
  <2>5. req'[q] = z /\ rows' = rows /\ met' = met
    BY <2>1, <2>4, OthersUntouched DEF FilesInv, TableOnly
  <2>6. Staged(q)'
    BY <1>2, <2>3, <2>5 DEF Staged, Open
  <2>7. ASSUME Alone(q)'
        PROVE  Knows(q)'
    <3>1. Creates(q)
      BY <1>1, <2>5, <2>7 DEF FilesInv, Undisturbed, Knows, Alone
    <3>2. /\ \A a \in Ancestors(p) : HasDir(rows \cup req[q].put, a)
          /\ \A v \in req[q].put : \A a \in Ancestors(v.path) : HasDir(rows \cup req[q].put, a)
      BY <1>1, <3>1 DEF Creates
    <3>3. \A a : HasDir(rows \cup req[q].put, a) => HasDir(rows \cup z.put, a)
      BY <2>3 DEF HasDir
    <3>4. /\ \A a \in Ancestors(p) : HasDir(rows \cup z.put, a)
          /\ \A v \in z.put : \A a \in Ancestors(v.path) : HasDir(rows \cup z.put, a)
      BY <2>2, <2>3, <3>2, <3>3
    <3>5. Creates(q)'
      BY <2>3, <2>5, <3>4 DEF Creates
    <3> QED
      BY <2>3, <2>5, <3>5 DEF Knows, Found, MovesTheTree, DeletesTheTree
  <2>8. req[q].isDir \in BOOLEAN
    BY <1>1 DEF Request
  <2> QED
    BY <1>1, <1>2, <2>1, <2>3, <2>4, <2>6, <2>7, <2>8, InsertStep DEF y
<1> QED
  BY <1>4, <1>5

LEMMA FindMovedStep ==
  ASSUME FilesInv, NEW q \in Req, FindMoved(q)
  PROVE  FilesInv'
<1>1. Open(q) /\ req[q] \in Request /\ req[q].op = "move" /\ req[q].at = "find"
  BY DEF FindMoved, Open, FilesInv, FilesTypeOK
<1>2. /\ req[q].put = {} /\ req[q].del = {} /\ req[q].targets = {} /\ req[q].path \in Path
      /\ req[q].id # 0
  BY <1>1 DEF FilesInv, Stages, Staged
<1>3. CASE Refuses(q)
  BY <1>1, <1>3, RefuseStep
<1>4. CASE ~Refuses(q)
  <2>1. View(q) = rows
    BY <1>2 DEF View
  <2>2. PICK y \in rows :
          /\ y.id = req[q].id
          /\ Becomes(q, [req[q] EXCEPT !.old = y.path, !.isDir = y.isDir,
                           !.at = IF y.path = req[q].path THEN "commit" ELSE "all"])
    BY <1>4, <2>1 DEF FindMoved
  <2>3. ~IntoItself(y, req[q].path) /\ UNCHANGED <<nextId, TableOnly>>
    <3>1. /\ ~\A v \in {u \in rows : u.id = req[q].id} : IntoItself(v, req[q].path)
          /\ UNCHANGED <<nextId, TableOnly>>
      BY <1>4, <2>1 DEF FindMoved
    <3>2. \A v \in rows : v.id = req[q].id => v = y
      BY <2>2 DEF FilesInv, FilesTypeOK
    <3> QED
      BY <3>1, <3>2
  <2> DEFINE at == IF y.path = req[q].path THEN "commit" ELSE "all"
             x == [req[q] EXCEPT !.old = y.path, !.isDir = y.isDir, !.at = at]
  <2>4. Becomes(q, x) /\ at \in {"commit", "all"}
    BY <2>2
  <2> HIDE DEF at
  <2>5. y.path \in Seq(Name) /\ y.isDir \in BOOLEAN
    BY DEF FilesInv, FilesTypeOK, Row, Path
  <2>6. x \in Request
    BY <1>1, <2>4, <2>5 DEF Request, Stage
  <2>7. /\ x.op = "move" /\ x.at = at /\ x.put = {} /\ x.del = {} /\ x.targets = {}
        /\ x.path = req[q].path /\ x.old = y.path /\ x.isDir = y.isDir /\ x.id = y.id
        /\ x.doomed = req[q].doomed
    BY <1>1, <1>2, <2>2 DEF Request
  <2> HIDE DEF x
  <2>8. req'[q] = x /\ rows' = rows
    BY <2>3, <2>4, <2>6, OthersUntouched DEF FilesInv, TableOnly
  <2>9. Staged(q)'
    BY <1>2, <2>2, <2>3, <2>4, <2>7, <2>8 DEF Staged, Open, IntoItself
  <2>10. Knows(q)'
    <3>1. Found(q)'
      BY <2>7, <2>8 DEF Found
    <3> QED
      BY <2>4, <2>7, <2>8, <3>1 DEF Knows, Creates, MovesTheTree, DeletesTheTree
  <2>11. \A n \in x.doomed : n < nextId
    BY <2>7 DEF FilesInv, Gone
  <2> QED
    BY <1>1, <1>2, <2>3, <2>4, <2>6, <2>7, <2>9, <2>10, <2>11, ReadStep
<1> QED
  BY <1>3, <1>4

(* What a move that has read all takes, and where to, is as planned.        *)
LEMMA Planned ==
  ASSUME FilesInv, NEW q \in Req, Alone(q), req[q].op = "move", req[q].at = "all",
         NEW x \in Request, req'[q] = x, rows' = rows,
         x.targets = {[y EXCEPT !.path = Target(q, y)] : y \in Moving(q)},
         x.todo = Ancestors(req[q].path) \ Paths(rows),
         \A y \in rows : y.path \in Ancestors(req[q].path) => y.isDir,
         x.path = req[q].path, x.old = req[q].old, x.id = req[q].id, x.isDir = req[q].isDir,
         x.put = {}, x.del = {}
  PROVE  Plan(q)'
<1>1. /\ req[q].put = {} /\ req[q].del = {} /\ req[q].path \in Path
      /\ ~(req[q].isDir /\ isDescendantOf(req[q].path, req[q].old))
  BY DEF FilesInv, Stages, Staged, Alone
<1>2. View(q) = rows
  BY <1>1 DEF View
<1>3. PICK f \in rows : f.id = req[q].id /\ f.path = req[q].old /\ f.isDir = req[q].isDir
  BY DEF FilesInv, Undisturbed, Knows, Found
<1>4. /\ \A y, z \in rows : y.id = z.id \/ y.path = z.path => y = z
      /\ \A y \in rows : y.id \in Nat /\ y.path \in Path /\ y.isDir \in BOOLEAN
      /\ \A y \in rows : DOMAIN y = {"id", "path", "isDir"} /\ y \in Row
  BY DEF FilesInv, FilesTypeOK, Row
<1>5. req[q].path \in Seq(Name) /\ req[q].old \in Seq(Name) /\ req[q].id \in Nat
  BY DEF FilesInv, FilesTypeOK, Request
<1>6. ASSUME NEW y \in Moving(q)
      PROVE  /\ y \in Row /\ \E z \in rows : Moves(q, z, [y EXCEPT !.path = Target(q, y)])
             /\ \E z \in rows : z.id = y.id /\ (z = f \/ (req[q].isDir /\ isDescendantOf(z.path, req[q].old)))
  <2> DEFINE t == [y EXCEPT !.path = Target(q, y)]
  <2>1. CASE ~req[q].isDir
    <3>1. y = [id |-> req[q].id, path |-> req[q].old, isDir |-> FALSE]
      BY <2>1 DEF Moving
    <3>2. y.id = f.id /\ y.path = f.path /\ y.isDir = f.isDir /\ y \in Row
      BY <1>3, <1>4, <2>1, <3>1 DEF Row
    <3>3. t.id = f.id /\ t.isDir = f.isDir /\ t.path = req[q].path
      BY <1>3, <3>1, <3>2 DEF Target
    <3>4. Moves(q, f, t)
      BY <1>3, <3>3 DEF Moves
    <3>5. \E z \in rows : Moves(q, z, t)
      BY <3>4
    <3>6. \E z \in rows : z.id = y.id /\ (z = f \/ (req[q].isDir /\ isDescendantOf(z.path, req[q].old)))
      BY <3>2
    <3> QED
      BY <3>2, <3>5, <3>6
  <2>2. CASE req[q].isDir
    <3>1. y \in rows /\ (y.id = req[q].id \/ isDescendantOf(y.path, req[q].old))
      BY <1>2, <2>2 DEF Moving, Follows
    <3>2. y \in Row /\ t.id = y.id /\ t.isDir = y.isDir /\ t.path = Target(q, y)
      BY <1>4, <3>1 DEF Row
    <3>3. CASE y.id = req[q].id
      <4>1. y = f
        BY <1>3, <1>4, <3>1, <3>3
      <4>2. Moves(q, y, t)
        BY <1>3, <3>2, <3>3, <4>1 DEF Moves, Target
      <4>3. \E z \in rows : Moves(q, z, t)
        BY <3>1, <4>2
      <4>4. \E z \in rows : z.id = y.id /\ (z = f \/ (req[q].isDir /\ isDescendantOf(z.path, req[q].old)))
        BY <4>1
      <4> QED
        BY <3>2, <4>3, <4>4
    <3>4. CASE y.id # req[q].id
      <4>1. Moves(q, y, t)
        BY <2>2, <3>1, <3>2, <3>4 DEF Moves, Target
      <4> QED
        BY <2>2, <3>1, <3>2, <3>4, <4>1
    <3> QED
      BY <3>3, <3>4
  <2> QED
    BY <2>1, <2>2 DEF FilesInv, FilesTypeOK, Request
<1>7. \A y, t : Moves(q, y, t)' <=> Moves(q, y, t)
  BY DEF Moves
<1>8. \A t \in x.targets : \E y \in rows : Moves(q, y, t)
  BY <1>6
<1>9. \A y \in rows : y = f \/ (req[q].isDir /\ isDescendantOf(y.path, req[q].old)) => y.id \in Ids(x.targets)
  <2> SUFFICES ASSUME NEW y \in rows,
                      y = f \/ (req[q].isDir /\ isDescendantOf(y.path, req[q].old))
               PROVE  \E t \in x.targets : t.id = y.id
    BY DEF Ids
  <2>1. CASE req[q].isDir
    <3>1. y \in Moving(q)
      BY <1>2, <1>3, <2>1 DEF Moving, Follows
    <3>2. [y EXCEPT !.path = Target(q, y)].id = y.id
      BY <1>4 DEF Row
    <3> QED
      BY <3>1, <3>2
  <2>2. CASE ~req[q].isDir
    <3>1. [id |-> req[q].id, path |-> req[q].old, isDir |-> FALSE] \in Moving(q)
      BY <2>2 DEF Moving
    <3> DEFINE z == [id |-> req[q].id, path |-> req[q].old, isDir |-> FALSE]
    <3>2. [z EXCEPT !.path = Target(q, z)].id = req[q].id
      OBVIOUS
    <3> HIDE DEF z
    <3>3. y = f
      BY <2>2
    <3> QED
      BY <1>3, <3>1, <3>2, <3>3 DEF z
  <2> QED
    BY <2>1, <2>2 DEF FilesInv, FilesTypeOK, Request
<1>10. \E t \in x.targets : t.id = req[q].id
  BY <1>3, <1>9 DEF Ids
<1>11. ASSUME NEW p \in Ancestors(req[q].path) \ x.todo
       PROVE  \E d \in rows : d.path = p /\ d.isDir /\ d.id \notin Ids(x.targets)
  <2>1. PICK d \in rows : d.path = p /\ d.isDir
    BY <1>11 DEF Paths
  <2>2. p \in Path /\ p \in Seq(Name) /\ isDescendantOf(req[q].path, p)
    BY <1>5, AncestorsAre DEF Path
  <2>3. ASSUME d.id \in Ids(x.targets) PROVE FALSE
    <3>1. PICK y \in Moving(q) : [y EXCEPT !.path = Target(q, y)].id = d.id
      BY <2>3 DEF Ids
    <3>2. y.id = d.id
      BY <1>6, <3>1 DEF Row
    <3>3. PICK z \in rows : z.id = y.id /\ (z = f \/ (req[q].isDir /\ isDescendantOf(z.path, req[q].old)))
      BY <1>6
    <3>4. z = d
      BY <1>4, <3>2, <3>3
    <3>5. CASE d = f
      <4>1. req[q].isDir /\ isDescendantOf(req[q].path, req[q].old)
        BY <1>3, <2>1, <2>2, <3>5
      <4> QED
        BY <1>1, <4>1
    <3>6. CASE d # f
      <4>1. req[q].isDir /\ isDescendantOf(p, req[q].old)
        BY <2>1, <3>3, <3>4, <3>6
      <4>2. isDescendantOf(req[q].path, req[q].old)
        BY <1>5, <2>2, <4>1, BelowBelow
      <4> QED
        BY <1>1, <4>1, <4>2
    <3> QED
      BY <3>5, <3>6
  <2> QED
    BY <2>1, <2>3
<1>12. \A p \in Ancestors(req[q].path) \ x.todo :
         HasDir({d \in rows : d.id \notin Ids(x.targets)} \cup (x.put \ x.targets), p)
  BY <1>11 DEF HasDir
<1>13. x.todo \subseteq Ancestors(req[q].path)
  OBVIOUS
<1>14. req[q].isDir => \A y \in rows : isDescendantOf(y.path, req[q].old) => y.id \in Ids(x.targets)
  BY <1>9
<1> QED
  BY <1>7, <1>8, <1>10, <1>12, <1>13, <1>14 DEF Plan, Staying

LEMMA ReadAllStep ==
  ASSUME FilesInv, NEW q \in Req, ReadAll(q)
  PROVE  FilesInv'
<1>1. Open(q) /\ req[q] \in Request /\ req[q].op = "move" /\ req[q].at = "all"
  BY DEF ReadAll, Open, FilesInv, FilesTypeOK
<1>2. /\ req[q].put = {} /\ req[q].del = {} /\ req[q].targets = {} /\ req[q].path \in Path
      /\ req[q].id # 0
  BY <1>1 DEF FilesInv, Stages, Staged
<1>3. CASE Refuses(q)
  BY <1>1, <1>3, RefuseStep
<1>4. CASE ~Refuses(q)
  <2> DEFINE targets == {[y EXCEPT !.path = Target(q, y)] : y \in Moving(q)}
             missing == Ancestors(req[q].path) \ Paths(rows)
             at == AfterReading(missing, targets)
             x == [req[q] EXCEPT !.todo = missing, !.targets = targets, !.at = at]
  <2>1. View(q) = rows
    BY <1>2 DEF View
  <2>2. /\ Becomes(q, x) /\ UNCHANGED <<nextId, TableOnly>>
        /\ \A y \in rows : y.path \in Ancestors(req[q].path) => y.isDir
    BY <1>4, <2>1 DEF ReadAll
  <2>3. targets \subseteq Row
    <3> SUFFICES ASSUME NEW y \in Moving(q)
                 PROVE  [y EXCEPT !.path = Target(q, y)] \in Row
      OBVIOUS
    <3>1. CASE ~req[q].isDir
      <4>1. y = [id |-> req[q].id, path |-> req[q].old, isDir |-> FALSE]
        BY <3>1 DEF Moving
      <4>2. Target(q, y) = req[q].path /\ req[q].id \in Nat \ {0}
        BY <1>1, <1>2, <4>1 DEF Target, Request
      <4> QED
        BY <1>2, <4>1, <4>2 DEF Row
    <3>2. CASE req[q].isDir
      <4>1. y \in Row /\ (y.id = req[q].id \/ isDescendantOf(y.path, req[q].old))
        BY <2>1, <3>2 DEF Moving, Follows, FilesInv, FilesTypeOK
      <4>2. y.path \in Seq(Name) /\ req[q].old \in Seq(Name)
        BY <1>1, <4>1 DEF Row, Path, Request
      <4>3. Target(q, y) \in Path
        <5>1. isDescendantOf(y.path, req[q].old) =>
                replacePathPrefix(y.path, req[q].old, req[q].path) \in Path
          BY <1>2, <4>2, Replaced
        <5> QED
          BY <1>2, <4>1, <5>1 DEF Target
      <4> QED
        BY <4>1, <4>3 DEF Row
    <3> QED
      BY <1>1, <3>1, <3>2 DEF Request
  <2>4. at \in {"mkdir", "updates", "commit"}
        /\ (at = "commit" => targets = {}) /\ (at # "mkdir" => missing = {})
    BY DEF AfterReading
  <2>5. missing \subseteq Path
    BY <1>2, AncestorsAre DEF Path
  <2> HIDE DEF targets, missing, at
  <2>6. x \in Request
    BY <1>1, <2>3, <2>4, <2>5 DEF Request, Stage
  <2>7. /\ x.op = "move" /\ x.at = at /\ x.put = {} /\ x.del = {} /\ x.targets = targets
        /\ x.path = req[q].path /\ x.old = req[q].old /\ x.isDir = req[q].isDir /\ x.id = req[q].id
        /\ x.todo = missing /\ x.doomed = req[q].doomed
    BY <1>1, <1>2 DEF Request
  <2> HIDE DEF x
  <2>8. req'[q] = x /\ rows' = rows /\ met' = met
    BY <2>2, <2>6, OthersUntouched DEF FilesInv, TableOnly
  <2>9. Staged(q)'
    BY <1>2, <2>4, <2>7, <2>8 DEF Staged, Open
  <2>10. ASSUME Alone(q)' PROVE Knows(q)'
    <3>1. Alone(q)
      BY <1>1, <2>8, <2>10 DEF Alone
    <3>2. Plan(q)'
      BY <1>1, <2>2, <2>6, <2>7, <2>8, <3>1, Planned DEF targets, missing
    <3>3. Found(q)'
      <4>1. Found(q)
        BY <3>1 DEF FilesInv, Undisturbed, Knows
      <4> QED
        BY <1>1, <2>7, <2>8, <4>1 DEF Found
    <3>4. MovesTheTree(q)'
      BY <2>4, <2>7, <2>8, <3>2 DEF MovesTheTree
    <3> QED
      BY <2>7, <2>8, <3>3, <3>4 DEF Knows, Creates, DeletesTheTree
  <2>11. \A n \in x.doomed : n < nextId
    BY <2>7 DEF FilesInv, Gone
  <2>12. x.at \notin {"new", "closing", "purging", "done"}
    BY <2>4, <2>7
  <2> QED
    BY <1>1, <1>2, <2>2, <2>6, <2>7, <2>9, <2>10, <2>11, <2>12, ReadStep
<1> QED
  BY <1>3, <1>4

LEMMA UpdateOneStep ==
  ASSUME FilesInv, NEW q \in Req, UpdateOne(q)
  PROVE  FilesInv'
<1>1. Open(q) /\ req[q] \in Request /\ req[q].op = "move" /\ req[q].at = "updates"
  BY DEF UpdateOne, Open, FilesInv, FilesTypeOK
<1>2. req[q].path \in Path /\ req[q].id # 0 /\ req[q].del \subseteq Ids(req[q].targets)
  BY <1>1 DEF FilesInv, Stages, Staged
<1>3. PICK t \in {x \in req[q].targets : x.id \notin req[q].del} :
       /\ Writes(q, {t.id}, {t.path})
       /\ IF t.id \notin Ids(rows) \/ t.path \in Paths({x \in View(q) : x.id # t.id})
          THEN Refuses(q)
          ELSE /\ Becomes(q, [req[q] EXCEPT !.put = @ \cup {t}, !.del = @ \cup {t.id},
                    !.at = IF Ids(req[q].targets) \subseteq req[q].del \cup {t.id}
                           THEN "commit" ELSE @])
               /\ UNCHANGED <<nextId, TableOnly>>
  BY DEF UpdateOne
<1>4. CASE Refuses(q)
  BY <1>1, <1>4, RefuseStep
<1>5. CASE ~Refuses(q)
  <2> DEFINE at == IF Ids(req[q].targets) \subseteq req[q].del \cup {t.id} THEN "commit" ELSE "updates"
             x == [req[q] EXCEPT !.put = req[q].put \cup {t}, !.del = req[q].del \cup {t.id}, !.at = at]
  <2>1. /\ Becomes(q, x) /\ UNCHANGED <<nextId, TableOnly>>
        /\ t.id \in Ids(rows) /\ t.path \notin Paths({z \in View(q) : z.id # t.id})
    BY <1>1, <1>3, <1>5
  <2>2. t \in Row /\ t \in req[q].targets /\ t.id \notin req[q].del
    BY <1>1 DEF Request
  <2>3. /\ at \in {"updates", "commit"}
        /\ at = "commit" => Ids(req[q].targets) \subseteq req[q].del \cup {t.id}
    OBVIOUS
  <2> HIDE DEF at
  <2>4. x \in Request
    <3>1. req[q].put \cup {t} \in SUBSET Row /\ req[q].del \cup {t.id} \in SUBSET Nat
      BY <1>1, <2>2 DEF Request, Row
    <3> QED
      BY <1>1, <2>3, <3>1 DEF Request, Stage
  <2>5. /\ x.op = "move" /\ x.at = at /\ x.put = req[q].put \cup {t} /\ x.del = req[q].del \cup {t.id}
        /\ x.targets = req[q].targets
        /\ x.path = req[q].path /\ x.old = req[q].old /\ x.isDir = req[q].isDir /\ x.id = req[q].id
        /\ x.todo = req[q].todo /\ x.doomed = req[q].doomed
    BY <1>1 DEF Request
  <2> HIDE DEF x
  <2>6. req'[q] = x /\ rows' = rows /\ met' = met
    BY <2>1, <2>4, OthersUntouched DEF FilesInv, TableOnly
  <2>7. \A o \in Req \ {q} : t.path \notin HeldPaths(o) /\ t.id \notin HeldIds(o)
    <3> TAKE o \in Req \ {q}
    <3>1. {t.id} \cap HeldIds(o) = {} /\ {t.path} \cap HeldPaths(o) = {}
      BY <1>3, Free
    <3> QED
      BY <3>1
  <2>8. Tables' /\ Locks'
    <3>1. \A z \in View(q) : z.id # t.id => z.path # t.path
      BY <2>1 DEF Paths
    <3>2. nextId' = nextId /\ Becomes(q, x)
      BY <2>1
    <3>3. x.put = req[q].put \cup {t} /\ x.del = req[q].del \cup {t.id}
      BY <2>5
    <3>4. t \in Row /\ t.id \in Ids(rows) /\ t.id \notin req[q].del
      BY <2>1, <2>2
    <3>5. \A o \in Req \ {q} : t.path \notin HeldPaths(o)
      BY <2>7
    <3>6. \A o \in Req \ {q} : t.id \notin HeldIds(o)
      BY <2>7
    <3>7. rows' = rows
      BY <2>6
    <3>8. SUFFICES ASSUME NEW D, D = {t.id} PROVE Tables' /\ Locks'
      OBVIOUS
    <3>9. x.del = req[q].del \cup D
      BY <3>3, <3>8
    <3>10. \/ D = {} /\ t.id = nextId /\ nextId' = nextId + 1
           \/ /\ D = {t.id} /\ t.id \in Ids(rows) /\ t.id \notin req[q].del /\ nextId' = nextId
              /\ \A o \in Req \ {q} : t.id \notin HeldIds(o)
      BY <3>2, <3>4, <3>6, <3>8
    <3> QED
      BY <2>4, <3>1, <3>2, <3>3, <3>4, <3>5, <3>7, <3>9, <3>10, PutTables
  <2>9. Staged(q)'
    <3>1. x.del \subseteq Ids(x.targets)
      BY <1>2, <2>2, <2>5 DEF Ids
    <3> QED
      BY <1>2, <2>3, <2>5, <2>6, <3>1 DEF Staged, Open
  <2>10. ASSUME Alone(q)' PROVE Knows(q)'
    <3>1. Plan(q) /\ req[q].todo = {} /\ Found(q)
      BY <1>1, <2>6, <2>10 DEF FilesInv, Undisturbed, Knows, Alone, MovesTheTree
    <3>2. \A y, z \in rows : y.id = z.id \/ y.path = z.path => y = z
      BY DEF FilesInv, FilesTypeOK
    <3>3. ASSUME NEW u \in req[q].targets, u.id = t.id
          PROVE  u = t
      <4>1. PICK y \in rows : Moves(q, y, t)
        BY <2>2, <3>1 DEF Plan
      <4>2. PICK z \in rows : Moves(q, z, u)
        BY <3>1 DEF Plan
      <4>3. y = z
        BY <3>2, <3>3, <4>1, <4>2 DEF Moves
      <4>4. u.path = t.path /\ u.isDir = t.isDir
        BY <4>1, <4>2, <4>3 DEF Moves
      <4>5. u \in Row
        BY <1>1 DEF Request
      <4> QED
        BY <2>2, <3>3, <4>4, <4>5 DEF Row
    <3>4. Staying(q)' = Staying(q) /\ \A v, u : Moves(q, v, u)' <=> Moves(q, v, u)
      BY <2>5, <2>6 DEF Staying, Moves
    <3>5. \A u \in x.targets : u.id \in x.del => u \in x.put
      BY <2>5, <3>1, <3>3 DEF Plan
    <3>6. x.put \ x.targets = req[q].put \ req[q].targets
      BY <2>2, <2>5
    <3>7. Plan(q)'
      <4>1. /\ x.todo \subseteq Ancestors(x.path)
            /\ \A u \in x.targets : \E y \in rows : Moves(q, y, u)
            /\ \E u \in x.targets : u.id = x.id
            /\ x.isDir => \A y \in rows : isDescendantOf(y.path, x.old) => y.id \in Ids(x.targets)
            /\ \A p \in Ancestors(x.path) \ x.todo : HasDir(Staying(q) \cup (x.put \ x.targets), p)
        BY <2>5, <3>1, <3>6 DEF Plan
      <4>2. \A y \in x.put : y \in x.targets \/ (y.path \in Ancestors(x.path) /\ y.isDir)
        BY <2>2, <2>5, <3>1 DEF Plan
      <4> QED
        BY <2>6, <3>4, <3>5, <4>1, <4>2 DEF Plan
    <3>8. MovesTheTree(q)'
      BY <2>3, <2>5, <2>6, <3>1, <3>7 DEF MovesTheTree
    <3>9. Found(q)'
      BY <1>1, <2>5, <2>6, <3>1 DEF Found
    <3> QED
      BY <2>5, <2>6, <3>8, <3>9 DEF Knows, Creates, DeletesTheTree
  <2>11. \A n \in x.doomed : n < nextId
    BY <2>5 DEF FilesInv, Gone
  <2>12. \A n \in Ids(x.put) : \/ n \in Ids(req[q].put)
                               \/ n \in Ids(rows) /\ \A o \in Req : n \notin req[o].del
    <3>1. Ids(x.put) = Ids(req[q].put) \cup {t.id}
      BY <2>5 DEF Ids
    <3>2. \A o \in Req : t.id \notin req[o].del
      BY <2>2, <2>7 DEF HeldIds
    <3> QED
      BY <2>1, <3>1, <3>2
  <2>13. nextId' \in Nat \ {0} /\ nextId' >= nextId
    BY <2>1 DEF FilesInv, FilesTypeOK
  <2>14. x.at \notin {"new", "closing", "purging", "done"}
    BY <2>3, <2>5
  <2> QED
    BY <1>1, <2>1, <2>4, <2>5, <2>8, <2>9, <2>10, <2>11, <2>12, <2>13, <2>14, OneStep
<1> QED
  BY <1>4, <1>5

LEMMA FindDeletedStep ==
  ASSUME FilesInv, NEW q \in Req, FindDeleted(q)
  PROVE  FilesInv'
<1>1. Open(q) /\ req[q] \in Request /\ req[q].op = "delete" /\ req[q].at = "find"
  BY DEF FindDeleted, Open, FilesInv, FilesTypeOK
<1>2. req[q].put = {} /\ req[q].del = {} /\ req[q].targets = {}
  BY <1>1 DEF FilesInv, Stages, Staged
<1>3. CASE Refuses(q)
  BY <1>1, <1>3, RefuseStep
<1>4. CASE ~Refuses(q)
  <2>1. View(q) = rows
    BY <1>2 DEF View
  <2>2. PICK y \in rows :
          /\ y.id = req[q].id
          /\ Becomes(q, [req[q] EXCEPT !.old = y.path, !.isDir = y.isDir,
                           !.doomed = {y.id}, !.at = IF y.isDir THEN "all" ELSE "delete"])
    BY <1>4, <2>1 DEF FindDeleted
  <2>3. UNCHANGED <<nextId, TableOnly>>
    BY <1>4 DEF FindDeleted
  <2> DEFINE at == IF y.isDir THEN "all" ELSE "delete"
             x == [req[q] EXCEPT !.old = y.path, !.isDir = y.isDir, !.doomed = {y.id}, !.at = at]
  <2>4. /\ Becomes(q, x) /\ at \in {"delete", "all"}
        /\ at = "delete" => ~y.isDir
    BY <2>2
  <2> HIDE DEF at
  <2>5. y.path \in Seq(Name) /\ y.isDir \in BOOLEAN /\ y.id \in Nat
    BY DEF FilesInv, FilesTypeOK, Row, Path
  <2>6. x \in Request
    BY <1>1, <2>4, <2>5 DEF Request, Stage
  <2>7. /\ x.op = "delete" /\ x.at = at /\ x.put = {} /\ x.del = {} /\ x.targets = {}
        /\ x.old = y.path /\ x.isDir = y.isDir /\ x.id = y.id /\ x.doomed = {y.id}
    BY <1>1, <1>2, <2>2 DEF Request
  <2> HIDE DEF x
  <2>8. req'[q] = x /\ rows' = rows
    BY <2>3, <2>4, <2>6, OthersUntouched DEF FilesInv, TableOnly
  <2>9. Staged(q)'
    BY <2>4, <2>7, <2>8 DEF Staged, Open
  <2>10. Knows(q)'
    <3>1. Found(q)'
      BY <2>7, <2>8 DEF Found
    <3>2. \A d \in rows : d.id = y.id => d = y
      BY DEF FilesInv, FilesTypeOK
    <3>3. DeletesTheTree(q)'
      BY <2>4, <2>7, <2>8, <3>2 DEF DeletesTheTree
    <3> QED
      BY <2>7, <2>8, <3>1, <3>3 DEF Knows, Creates, MovesTheTree
  <2>11. \A n \in x.doomed : n < nextId
    BY <2>7 DEF FilesInv, FilesTypeOK
  <2> QED
    BY <1>1, <1>2, <2>3, <2>4, <2>6, <2>7, <2>9, <2>10, <2>11, ReadStep
<1> QED
  BY <1>3, <1>4

LEMMA ReadDoomedStep ==
  ASSUME FilesInv, NEW q \in Req, ReadDoomed(q)
  PROVE  FilesInv'
<1>1. Open(q) /\ req[q] \in Request /\ req[q].op = "delete" /\ req[q].at = "all"
  BY DEF ReadDoomed, Open, FilesInv, FilesTypeOK
<1>2. req[q].put = {} /\ req[q].del = {} /\ req[q].targets = {}
  BY <1>1 DEF FilesInv, Stages, Staged
<1>3. View(q) = rows
  BY <1>2 DEF View
<1> DEFINE doomed == Ids({y \in rows : y.id = req[q].id \/ isDescendantOf(y.path, req[q].old)})
           x == [req[q] EXCEPT !.at = "delete", !.doomed = doomed]
<1>4. Becomes(q, x) /\ UNCHANGED <<nextId, TableOnly>>
  BY <1>3 DEF ReadDoomed, Follows
<1>5. /\ doomed \subseteq Nat /\ \A n \in doomed : n < nextId
      /\ \A y \in rows : y.id \in doomed <=> y.id = req[q].id \/ isDescendantOf(y.path, req[q].old)
  BY DEF Ids, FilesInv, FilesTypeOK, Row
<1> HIDE DEF doomed
<1>6. x \in Request
  BY <1>1, <1>5 DEF Request, Stage
<1>7. /\ x.op = "delete" /\ x.at = "delete" /\ x.put = {} /\ x.del = {} /\ x.targets = {}
      /\ x.doomed = doomed
  BY <1>1, <1>2 DEF Request
<1> HIDE DEF x
<1>8. req'[q] = x /\ rows' = rows /\ met' = met
  BY <1>4, <1>6, OthersUntouched DEF FilesInv, TableOnly
<1>9. Staged(q)'
  BY <1>7, <1>8 DEF Staged, Open
<1>10. ASSUME Alone(q)' PROVE Knows(q)'
  <2>1. PICK f \in rows : f.id = req[q].id /\ f.path = req[q].old
    BY <1>1, <1>8, <1>10 DEF FilesInv, Undisturbed, Knows, Alone, Found
  <2>2. ASSUME NEW d \in rows, d.id \in doomed, NEW y \in rows, isDescendantOf(y.path, d.path)
        PROVE  y.id \in doomed
    <3>1. y.path \in Seq(Name) /\ d.path \in Seq(Name) /\ req[q].old \in Seq(Name)
      BY <1>1 DEF FilesInv, FilesTypeOK, Row, Path, Request
    <3>2. CASE d.id = req[q].id
      <4>1. d = f
        BY <2>1, <3>2 DEF FilesInv, FilesTypeOK
      <4> QED
        BY <1>5, <2>1, <2>2, <4>1
    <3>3. CASE isDescendantOf(d.path, req[q].old)
      BY <1>5, <2>2, <3>1, <3>3, BelowBelow
    <3> QED
      BY <1>5, <2>2, <3>2, <3>3
  <2>3. DeletesTheTree(q)'
    BY <1>7, <1>8, <2>2 DEF DeletesTheTree
  <2> QED
    BY <1>7, <1>8, <2>3 DEF Knows, Creates, Found, MovesTheTree
<1>11. \A n \in x.doomed : n < nextId
  BY <1>5, <1>7
<1> QED
  BY <1>1, <1>2, <1>4, <1>6, <1>7, <1>9, <1>10, <1>11, ReadStep

LEMMA DeleteRowsStep ==
  ASSUME FilesInv, NEW q \in Req, DeleteRows(q)
  PROVE  FilesInv'
<1>1. Open(q) /\ req[q] \in Request /\ req[q].op = "delete" /\ req[q].at = "delete"
  BY DEF DeleteRows, Open, FilesInv, FilesTypeOK
<1>2. req[q].put = {} /\ req[q].del = {} /\ req[q].targets = {}
  BY <1>1 DEF FilesInv, Stages, Staged
<1>3. CASE Refuses(q)
  BY <1>1, <1>3, RefuseStep
<1>4. CASE ~Refuses(q)
  <2> DEFINE x == [req[q] EXCEPT !.del = req[q].doomed \cap Ids(rows), !.at = "commit"]
  <2>1. Becomes(q, x) /\ UNCHANGED <<nextId, TableOnly>> /\ Writes(q, req[q].doomed, {})
    BY <1>4 DEF DeleteRows
  <2>2. x \in Request
    BY <1>1 DEF Request, Stage
  <2>3. /\ x.op = "delete" /\ x.at = "commit" /\ x.put = {} /\ x.targets = {}
        /\ x.del = req[q].doomed \cap Ids(rows) /\ x.doomed = req[q].doomed
    BY <1>1, <1>2 DEF Request
  <2> HIDE DEF x
  <2>4. /\ req'[q] = x /\ rows' = rows /\ met' = met /\ nextId' = nextId
        /\ \A o \in Req \ {q} : req'[o] = req[o]
    BY <2>1, <2>2, OthersUntouched DEF FilesInv, TableOnly
  <2>5. \A o \in Req \ {q} : req[q].doomed \cap HeldIds(o) = {}
    BY <2>1, Free
  <2>6. \A o \in Req \ {q} : View(o)' = View(o) /\ HeldIds(o)' = HeldIds(o) /\ HeldPaths(o)' = HeldPaths(o)
    BY <2>4 DEF View, HeldIds, HeldPaths
  <2>7. View(q)' \subseteq rows
    BY <2>3, <2>4 DEF View
  <2>8. Ids({}) = {} /\ Paths({}) = {}
    BY DEF Ids, Paths
  <2>9. Tables'
    <3>1. Unique(View(q)')
      BY <2>7 DEF FilesInv, FilesTypeOK, Unique
    <3>2. \A n \in x.del : n < nextId
      BY <2>3 DEF FilesInv, Gone
    <3>3. \A o \in Req \ {q} :
            /\ Unique(View(o)')
            /\ \A n \in req'[o].del : n < nextId
            /\ \A z \in req'[o].put : z.id < nextId /\ (z.id \in Ids(rows) => z.id \in req'[o].del)
      BY <2>4, <2>6 DEF FilesInv, Tables
    <3> QED
      BY <2>3, <2>4, <3>1, <3>2, <3>3 DEF Tables, Unique
  <2>10. Locks'
    <3>1. HeldIds(q)' = x.del
      BY <2>3, <2>4, <2>8 DEF HeldIds
    <3>2. HeldPaths(q)' = Paths({z \in rows : z.id \in x.del})
      BY <2>3, <2>4, <2>8 DEF HeldPaths
    <3>3. ASSUME NEW o \in Req \ {q}, NEW w \in rows, w.id \in x.del
          PROVE  w.path \notin Paths(req[o].put)
      <4>1. w.id \notin HeldIds(o)
        BY <2>3, <2>5, <3>3
      <4>2. w \in View(o)
        BY <4>1 DEF View, HeldIds
      <4>3. ASSUME NEW u \in req[o].put, u.path = w.path PROVE FALSE
        <5>1. u \in View(o)
          BY DEF View
        <5>2. u = w
          BY <4>2, <4>3, <5>1 DEF FilesInv, Tables, Unique
        <5> QED
          BY <4>1, <5>2 DEF HeldIds, Ids
      <4> QED
        BY <4>3 DEF Paths
    <3>4. ASSUME NEW o \in Req \ {q}
          PROVE  /\ HeldIds(q)' \cap HeldIds(o)' = {}
                 /\ Paths(req'[q].put) \cap HeldPaths(o)' = {}
                 /\ Paths(req'[o].put) \cap HeldPaths(q)' = {}
      <4>1. Paths(req[o].put) \cap Paths({z \in rows : z.id \in x.del}) = {}
        BY <3>3 DEF Paths
      <4> QED
        BY <2>3, <2>4, <2>5, <2>6, <2>8, <3>1, <3>2, <4>1
    <3>5. ASSUME NEW o \in Req \ {q}, NEW p \in Req \ {q}, o # p
          PROVE  HeldIds(o)' \cap HeldIds(p)' = {} /\ Paths(req'[o].put) \cap HeldPaths(p)' = {}
      BY <2>4, <2>6, <3>5 DEF FilesInv, Locks
    <3> QED
      BY <3>4, <3>5 DEF Locks
  <2>11. Staged(q)'
    BY <2>3, <2>4 DEF Staged, Open
  <2>12. ASSUME Alone(q)' PROVE Knows(q)'
    <3>1. DeletesTheTree(q)
      BY <1>1, <2>4, <2>12 DEF FilesInv, Undisturbed, Knows, Alone
    <3>2. DeletesTheTree(q)'
      BY <1>1, <2>3, <2>4, <3>1 DEF DeletesTheTree
    <3> QED
      BY <2>3, <2>4, <3>2 DEF Knows, Creates, Found, MovesTheTree
  <2>13. \A n \in x.doomed : n < nextId
    BY <2>3 DEF FilesInv, Gone
  <2>14. \A n \in x.doomed : (n \in Ids(rows) => n \in x.del) /\ \A o \in Req : n \notin Ids(req[o].put)
    <3> TAKE n \in x.doomed
    <3>1. \A o \in Req \ {q} : n \notin Ids(req[o].put)
      BY <2>3, <2>5 DEF HeldIds
    <3> QED
      BY <1>2, <2>3, <2>8, <3>1
  <2>15. nextId' \in Nat \ {0} /\ nextId' >= nextId
    BY <2>1 DEF FilesInv, FilesTypeOK
  <2>16. \A n \in Ids(x.put) : FALSE
    BY <2>3, <2>8
  <2> QED
    BY <1>1, <2>1, <2>2, <2>3, <2>9, <2>10, <2>11, <2>12, <2>13, <2>14, <2>15, <2>16, OneStep
<1> QED
  BY <1>3, <1>4

LEMMA DeadlockStep ==
  ASSUME FilesInv, NEW q \in Req, Deadlock(q)
  PROVE  FilesInv'
<1>1. Open(q)
  BY DEF Deadlock, Waits, WaitsFor
<1> QED
  BY <1>1, RefuseStep DEF Deadlock

(* A commit makes the table what the transaction has seen, which leaves what *)
(* the others have written as it was.                                        *)
LEMMA CommitStep ==
  ASSUME FilesInv, NEW q \in Req, Commit(q)
  PROVE  FilesInv'
<1> DEFINE x == [req[q] EXCEPT !.at = IF req[q].op = "delete" THEN "closing" ELSE "done",
                               !.put = {}, !.del = {}, !.old = << >>, !.targets = {}]
<1>1. Open(q) /\ req[q] \in Request /\ req[q].at = "commit"
  BY DEF Commit, Open, FilesInv, FilesTypeOK
<1>2. /\ x \in Request /\ x.put = {} /\ x.del = {} /\ x.targets = {} /\ x.op = req[q].op
      /\ x.at = (IF req[q].op = "delete" THEN "closing" ELSE "done") /\ x.doomed = req[q].doomed
  <2>1. << >> \in Seq(Name)
    OBVIOUS
  <2> QED
    BY <1>1, <2>1 DEF Request, Stage
<1>3. Becomes(q, x) /\ UNCHANGED <<nextId, met, sock, writing, doc, late, astray>>
  BY DEF Commit, Roomside
<1> HIDE DEF x
<1>4. req'[q] = x /\ (\A o \in Req \ {q} : req'[o] = req[o]) /\ req' \in [Req -> Request]
  BY <1>2, <1>3, OthersUntouched DEF FilesInv
<1>5. rows' = View(q)
  BY DEF Commit
<1>6. Unique(rows') /\ rows' \subseteq Row /\ \A y \in rows' : y.id < nextId
  BY <1>1, <1>5 DEF FilesInv, Tables, FilesTypeOK, Request, View
<1>7. FilesTypeOK'
  BY <1>3, <1>4, <1>6 DEF FilesInv, FilesTypeOK, Unique
<1>8. Ids({}) = {} /\ Paths({}) = {}
  BY DEF Ids, Paths
<1>9. ASSUME NEW o \in Req \ {q}
      PROVE  /\ HeldIds(q) \cap HeldIds(o) = {}
             /\ Paths(req[q].put) \cap HeldPaths(o) = {} /\ Paths(req[o].put) \cap HeldPaths(q) = {}
  BY DEF FilesInv, Locks
<1>10. ASSUME NEW o \in Req \ {q}, NEW y \in rows', y.id \in HeldIds(o)
       PROVE  y \in rows
  <2>1. y \notin req[q].put
    BY <1>9, <1>10 DEF HeldIds, Ids
  <2> QED
    BY <1>5, <2>1 DEF View
<1>11. Tables'
  <2>1. View(q)' = rows'
    BY <1>2, <1>4 DEF View
  <2>2. ASSUME NEW o \in Req \ {q}
        PROVE  Unique(View(o)')
    <3>1. View(o)' = {y \in rows' : y.id \notin req[o].del} \cup req[o].put
      BY <1>4 DEF View
    <3>2. ASSUME NEW y \in rows', NEW z \in req[o].put, y.id \notin req[o].del,
                 y.id = z.id \/ y.path = z.path
          PROVE  y = z
      <4>1. z.id \in HeldIds(o) /\ z.path \in HeldPaths(o) /\ z \in View(o)
        BY DEF HeldIds, HeldPaths, Ids, Paths, View
      <4>2. CASE y \in req[q].put
        BY <1>9, <3>2, <4>1, <4>2 DEF HeldIds, Ids, Paths
      <4>3. CASE y \in rows
        <5>1. y \in View(o)
          BY <3>2, <4>3 DEF View
        <5> QED
          BY <3>2, <4>1, <5>1 DEF FilesInv, Tables, Unique
      <4> QED
        BY <1>5, <4>2, <4>3 DEF View
    <3>3. \A y, z \in req[o].put : y.id = z.id \/ y.path = z.path => y = z
      BY DEF FilesInv, Tables, Unique, View
    <3> QED
      BY <1>6, <3>1, <3>2, <3>3 DEF Unique
  <2>3. ASSUME NEW o \in Req \ {q}, NEW z \in req[o].put, z.id \in Ids(rows')
        PROVE  z.id \in req[o].del
    <3>1. PICK y \in rows' : y.id = z.id
      BY <2>3 DEF Ids
    <3>2. z.id \in HeldIds(o)
      BY DEF HeldIds, Ids
    <3>3. z.id \in Ids(rows)
      BY <1>10, <3>1, <3>2 DEF Ids
    <3> QED
      BY <3>3 DEF FilesInv, Tables
  <2>4. \A o \in Req \ {q} : /\ \A n \in req'[o].del : n < nextId
                             /\ \A z \in req'[o].put : z.id < nextId /\ (z.id \in Ids(rows') => z.id \in req'[o].del)
    BY <1>4, <2>3 DEF FilesInv, Tables
  <2> QED
    BY <1>2, <1>3, <1>4, <1>6, <2>1, <2>2, <2>4 DEF Tables, Unique
<1>12. Locks'
  <2>1. HeldIds(q)' = {} /\ HeldPaths(q)' = {}
    <3>1. {y \in rows' : y.id \in {}} = {}
      OBVIOUS
    <3> QED
      BY <1>2, <1>4, <1>8, <3>1 DEF HeldIds, HeldPaths
  <2>2. ASSUME NEW o \in Req \ {q}
        PROVE  HeldIds(o)' = HeldIds(o) /\ HeldPaths(o)' \subseteq HeldPaths(o)
    <3>1. \A y \in rows' : y.id \in req[o].del => y \in rows
      BY <1>10 DEF HeldIds
    <3> QED
      BY <1>4, <3>1 DEF HeldIds, HeldPaths, Paths
  <2>3. ASSUME NEW o \in Req \ {q}, NEW p \in Req \ {q}, o # p
        PROVE  HeldIds(o)' \cap HeldIds(p)' = {} /\ Paths(req'[o].put) \cap HeldPaths(p)' = {}
    BY <1>4, <2>2, <2>3 DEF FilesInv, Locks
  <2> QED
    BY <1>2, <1>4, <1>8, <2>1, <2>3 DEF Locks
<1>13. Stages'
  <2>1. Staged(q)'
    BY <1>2, <1>4 DEF Staged, Open
  <2>2. \A o \in Req \ {q} : Staged(o)'
    BY <1>4 DEF FilesInv, Stages, Staged, Open
  <2> QED
    BY <2>1, <2>2 DEF Stages
<1>14. \A o \in Req : ~Alone(o)'
  <2>1. ~Open(q)'
    BY <1>2, <1>4 DEF Open
  <2>2. \A o \in Req \ {q} : Alone(o)' => Alone(o)
    BY <1>3, <1>4 DEF Alone, Open
  <2> QED
    BY <1>1, <2>1, <2>2 DEF FilesInv, MetOrAlone, Alone
<1>15. MetOrAlone' /\ Undisturbed'
  BY <1>14 DEF MetOrAlone, Undisturbed
<1>16. Gone'
  <2>1. \A o \in Req : \A n \in req'[o].doomed : n < nextId'
    BY <1>2, <1>3, <1>4 DEF FilesInv, Gone
  <2>2. ASSUME NEW o \in Req, NEW n \in req'[o].doomed, req'[o].op = "delete",
               req'[o].at \in {"commit", "closing", "purging", "done"}
        PROVE  /\ n \in Ids(rows') => req'[o].at = "commit" /\ n \in req'[o].del
               /\ \A p \in Req : n \notin Ids(req'[p].put)
    <3>1. /\ req[o].op = "delete" /\ req[o].at \in {"commit", "closing", "purging", "done"}
          /\ n \in req[o].doomed
      BY <1>1, <1>2, <1>4, <2>2
    <3>2. (n \in Ids(rows) => req[o].at = "commit" /\ n \in req[o].del)
          /\ \A p \in Req : n \notin Ids(req[p].put)
      BY <3>1 DEF FilesInv, Gone
    <3>3. n \in Ids(rows') => n \in Ids(rows) /\ n \notin req[q].del
      BY <1>5, <3>2 DEF Ids, View
    <3>4. \A p \in Req : n \notin Ids(req'[p].put)
      BY <1>2, <1>4, <1>8, <3>2
    <3> QED
      BY <1>4, <3>2, <3>3, <3>4
  <2> QED
    BY <2>1, <2>2 DEF Gone
<1>17. DeletedFilesAreLeft'
  <2>1. \A o \in Req : req'[o].op = "delete" /\ req'[o].at \in {"purging", "done"} => req'[o] = req[o]
    BY <1>2, <1>4
  <2> QED
    BY <1>3, <2>1 DEF FilesInv, DeletedFilesAreLeft
<1>18. Quiet'
  <2>1. \A o \in Req : req'[o].op = "delete" /\ req'[o].at = "done" => req'[o] = req[o]
    BY <1>2, <1>4
  <2>2. RoomOpen' <=> RoomOpen
    BY <1>3 DEF RoomOpen
  <2> QED
    BY <1>3, <2>1, <2>2 DEF FilesInv, Quiet
<1> QED
  BY <1>7, <1>11, <1>12, <1>13, <1>15, <1>16, <1>17, <1>18 DEF FilesInv

(* What follows a deletion's commit.                                        *)
LEMMA AftermathStep ==
  ASSUME FilesInv, NEW q \in Req, NEW x \in Request, Becomes(q, x), UNCHANGED <<rows, nextId, met>>,
         req[q].at \in {"closing", "purging"}, x.at \in {"purging", "done"},
         x.op = req[q].op, x.doomed = req[q].doomed,
         x.put = req[q].put, x.del = req[q].del, x.targets = req[q].targets,
         sock' \in [Sock -> {"out", "joining", "in", "closing"}],
         {writing', doc', astray'} \subseteq BOOLEAN, late' \subseteq Sock,
         DeletedFilesAreLeft', Quiet'
  PROVE  FilesInv'
<1>1. req'[q] = x /\ (\A o \in Req \ {q} : req'[o] = req[o]) /\ req' \in [Req -> Request]
  BY OthersUntouched DEF FilesInv
<1>2. FilesTypeOK'
  BY <1>1 DEF FilesInv, FilesTypeOK
<1>3. Tables' /\ Locks'
  BY SameTables
<1>4. ~Open(q) /\ ~Open(q)' /\ \A o \in Req \ {q} : (Open(o)' <=> Open(o)) /\ (Alone(o)' <=> Alone(o))
  BY <1>1 DEF Open, Alone
<1>5. req[q].op = "delete" /\ req[q].put = {} /\ req[q].del = {} /\ req[q].targets = {}
  BY <1>4 DEF FilesInv, Stages, Staged
<1>6. Stages'
  <2>1. Staged(q)'
    BY <1>1, <1>4, <1>5 DEF Staged
  <2>2. \A o \in Req \ {q} : Staged(o)'
    BY <1>1, <1>4 DEF FilesInv, Stages, Staged
  <2> QED
    BY <2>1, <2>2 DEF Stages
<1>7. MetOrAlone'
  BY <1>4 DEF FilesInv, MetOrAlone, Alone
<1>8. Undisturbed'
  <2>1. ASSUME NEW o \in Req \ {q}, Alone(o)' PROVE Knows(o)'
    <3>1. Creates(o) /\ Found(o) /\ MovesTheTree(o) /\ DeletesTheTree(o)
      BY <1>4, <2>1 DEF FilesInv, Undisturbed, Knows
    <3>2. req'[o] = req[o] /\ rows' = rows
      BY <1>1
    <3>3. Creates(o)' /\ Found(o)' /\ DeletesTheTree(o)'
      BY <3>1, <3>2 DEF Creates, Found, DeletesTheTree
    <3>4. MovesTheTree(o)'
      BY <3>1, <3>2 DEF MovesTheTree, Plan, Moves, Staying
    <3> QED
      BY <3>3, <3>4 DEF Knows
  <2> QED
    BY <1>4, <2>1 DEF Undisturbed, Alone
<1>9. Gone'
  <2>1. \A o \in Req : req'[o].put = req[o].put /\ req'[o].doomed = req[o].doomed
    BY <1>1
  <2>2. ASSUME NEW n \in req[q].doomed
        PROVE  n \notin Ids(rows) /\ \A o \in Req : n \notin Ids(req[o].put)
    BY <1>5 DEF FilesInv, Gone
  <2> QED
    BY <1>1, <1>5, <2>1, <2>2 DEF FilesInv, Gone
<1> QED
  BY <1>2, <1>3, <1>6, <1>7, <1>8, <1>9 DEF FilesInv

LEMMA CloseRoomsStep ==
  ASSUME FilesInv, NEW q \in Req, CloseRooms(q)
  PROVE  FilesInv'
<1> DEFINE x == [req[q] EXCEPT !.at = "purging"]
<1>1. req[q] \in Request /\ req[q].at = "closing"
  BY DEF CloseRooms, FilesInv, FilesTypeOK
<1>2. /\ x \in Request /\ x.at = "purging" /\ x.op = req[q].op /\ x.doomed = req[q].doomed
      /\ x.put = req[q].put /\ x.del = req[q].del /\ x.targets = req[q].targets
  BY <1>1 DEF Request, Stage
<1>3. Becomes(q, x) /\ UNCHANGED <<rows, nextId, met, writing, doc, late, astray>>
  BY DEF CloseRooms
<1> HIDE DEF x
<1>4. req'[q] = x /\ (\A o \in Req \ {q} : req'[o] = req[o])
  BY <1>2, <1>3, OthersUntouched DEF FilesInv
<1>5. /\ sock' \in [Sock -> {"out", "joining", "in", "closing"}]
      /\ \A s \in Sock : /\ sock'[s] = "in" => sock[s] = "in" /\ ~Closes(q)
                         /\ sock'[s] \in {"in", "closing"} => sock[s] \in {"in", "closing"}
  BY DEF CloseRooms, FilesInv, FilesTypeOK
<1>6. DeletedFilesAreLeft'
  <2>1. ASSUME NEW o \in Req, req'[o].op = "delete", req'[o].at \in {"purging", "done"},
               File \in req'[o].doomed, NEW s \in Sock, sock'[s] = "in"
        PROVE  s \in late
    <3>1. o # q
      BY <1>2, <1>4, <1>5, <2>1 DEF Closes
    <3> QED
      BY <1>4, <1>5, <2>1, <3>1 DEF FilesInv, DeletedFilesAreLeft
  <2> QED
    BY <1>3, <2>1 DEF DeletedFilesAreLeft
<1>7. Quiet'
  <2>1. \A o \in Req : req'[o].at = "done" => req'[o] = req[o]
    BY <1>2, <1>4
  <2>2. RoomOpen' => RoomOpen
    BY <1>5 DEF RoomOpen
  <2> QED
    BY <1>3, <2>1, <2>2 DEF FilesInv, Quiet
<1>8. {writing', doc', astray'} \subseteq BOOLEAN /\ late' \subseteq Sock
  BY <1>3 DEF FilesInv, FilesTypeOK
<1> QED
  BY <1>1, <1>2, <1>3, <1>5, <1>6, <1>7, <1>8, AftermathStep

LEMMA PurgeLogStep ==
  ASSUME FilesInv, NEW q \in Req, PurgeLog(q)
  PROVE  FilesInv'
<1> DEFINE x == [req[q] EXCEPT !.at = "done"]
<1>1. req[q] \in Request /\ req[q].at = "purging"
  BY DEF PurgeLog, FilesInv, FilesTypeOK
<1>2. /\ x \in Request /\ x.at = "done" /\ x.op = req[q].op /\ x.doomed = req[q].doomed
      /\ x.put = req[q].put /\ x.del = req[q].del /\ x.targets = req[q].targets
  BY <1>1 DEF Request, Stage
<1>3. /\ Becomes(q, x) /\ UNCHANGED <<rows, nextId, met, sock, writing, late>>
      /\ doc' = (doc /\ File \notin req[q].doomed)
      /\ astray' = (astray \/ (File \in req[q].doomed /\ (RoomOpen \/ writing)))
  BY DEF PurgeLog
<1> HIDE DEF x
<1>4. req'[q] = x /\ (\A o \in Req \ {q} : req'[o] = req[o])
  BY <1>2, <1>3, OthersUntouched DEF FilesInv
<1>5. DeletedFilesAreLeft'
  <2>1. \A o \in Req : req'[o].op = "delete" /\ req'[o].at \in {"purging", "done"} =>
          /\ req[o].op = "delete" /\ req[o].at \in {"purging", "done"}
          /\ req'[o].doomed = req[o].doomed
    BY <1>1, <1>2, <1>4
  <2> QED
    BY <1>3, <2>1 DEF FilesInv, DeletedFilesAreLeft
<1>6. Quiet'
  <2>1. RoomOpen' <=> RoomOpen
    BY <1>3 DEF RoomOpen
  <2>2. ASSUME NEW o \in Req, req'[o].op = "delete", req'[o].at = "done", File \in req'[o].doomed,
               ~astray'
        PROVE  ~doc' /\ ~writing' /\ ~RoomOpen'
    <3>1. CASE o = q
      BY <1>2, <1>3, <1>4, <2>1, <2>2, <3>1
    <3>2. CASE o # q
      BY <1>3, <1>4, <2>1, <2>2, <3>2 DEF FilesInv, Quiet
    <3> QED
      BY <3>1, <3>2
  <2> QED
    BY <2>2 DEF Quiet
<1>7. /\ sock' \in [Sock -> {"out", "joining", "in", "closing"}]
      /\ {writing', doc', astray'} \subseteq BOOLEAN /\ late' \subseteq Sock
  BY <1>3 DEF FilesInv, FilesTypeOK
<1> QED
  BY <1>1, <1>2, <1>3, <1>5, <1>6, <1>7, AftermathStep
-----------------------------------------------------------------------------
(* The editors of the file.                                                 *)
LEMMA EditorsOnly ==
  ASSUME FilesInv, UNCHANGED NoRequest,
         sock' \in [Sock -> {"out", "joining", "in", "closing"}],
         {writing', doc', astray'} \subseteq BOOLEAN, late' \subseteq Sock,
         DeletedFilesAreLeft', Quiet'
  PROVE  FilesInv'
<1>1. UNCHANGED <<rows, req, nextId, met>>
  BY DEF NoRequest
<1>2. FilesTypeOK'
  BY <1>1 DEF FilesInv, FilesTypeOK
<1>3. Tables' /\ Locks'
  <2>1. \A q \in Req : View(q)' = View(q) /\ HeldIds(q)' = HeldIds(q) /\ HeldPaths(q)' = HeldPaths(q)
    BY <1>1 DEF View, HeldIds, HeldPaths
  <2> QED
    BY <1>1, <2>1 DEF FilesInv, Tables, Locks
<1>4. Stages' /\ MetOrAlone'
  BY <1>1 DEF FilesInv, Stages, Staged, MetOrAlone, Alone, Open
<1>5. Undisturbed'
  <2>1. \A q \in Req : Alone(q)' = Alone(q)
    BY <1>1 DEF Alone, Open
  <2>2. \A q \in Req : Creates(q)' = Creates(q) /\ Found(q)' = Found(q) /\ DeletesTheTree(q)' = DeletesTheTree(q)
    BY <1>1 DEF Creates, Found, DeletesTheTree
  <2>3. \A q \in Req : MovesTheTree(q)' = MovesTheTree(q)
    BY <1>1 DEF MovesTheTree, Plan, Moves, Staying
  <2> QED
    BY <2>1, <2>2, <2>3 DEF FilesInv, Undisturbed, Knows
<1>6. Gone'
  BY <1>1 DEF FilesInv, Gone
<1> QED
  BY <1>2, <1>3, <1>4, <1>5, <1>6 DEF FilesInv

(* Nobody new comes into the room of a file whose row is gone but by way of *)
(* those who are there.                                                     *)
LEMMA EditorStep ==
  ASSUME FilesInv, NEW s \in Sock, LetIn(s) \/ Joins(s) \/ Leaves(s)
  PROVE  FilesInv'
<1>1. /\ sock \in [Sock -> {"out", "joining", "in", "closing"}]
      /\ {writing, doc, astray} \subseteq BOOLEAN /\ late \subseteq Sock
  BY DEF FilesInv, FilesTypeOK
<1>2. ASSUME NEW q \in Req, req[q].op = "delete", req[q].at \in {"purging", "done"},
             File \in req[q].doomed
      PROVE  NoRow /\ \A o \in Sock : sock[o] = "in" => o \in late
  BY <1>2 DEF FilesInv, Gone, DeletedFilesAreLeft, NoRow
<1>3. CASE LetIn(s)
  <2>1. /\ sock' = [sock EXCEPT ![s] = "joining"] /\ sock[s] = "out"
        /\ UNCHANGED <<rows, req, nextId, met, writing, doc, late, astray>>
    BY <1>3 DEF LetIn, NoRequest
  <2>2. \A o \in Sock : sock'[o] \in {"in", "closing"} <=> sock[o] \in {"in", "closing"}
    BY <1>1, <2>1
  <2>3. DeletedFilesAreLeft' /\ Quiet'
    <3>1. \A o \in Sock : sock'[o] = "in" => sock[o] = "in"
      BY <1>1, <2>1
    <3>2. RoomOpen' <=> RoomOpen
      BY <2>2 DEF RoomOpen
    <3> QED
      BY <2>1, <3>1, <3>2 DEF FilesInv, DeletedFilesAreLeft, Quiet
  <2>4. sock' \in [Sock -> {"out", "joining", "in", "closing"}]
    BY <1>1, <2>1
  <2>5. UNCHANGED NoRequest
    BY <2>1 DEF NoRequest
  <2> QED
    BY <1>1, <2>1, <2>3, <2>4, <2>5, EditorsOnly
<1>4. CASE Joins(s)
  <2>1. /\ sock[s] = "joining" /\ UNCHANGED <<rows, req, nextId, met, writing, astray>>
        /\ IF ~RoomOpen /\ NoRow
           THEN sock' = [sock EXCEPT ![s] = "out"] /\ UNCHANGED doc
           ELSE sock' = [sock EXCEPT ![s] = "in"] /\ doc' = TRUE
        /\ late' = IF \E o \in Sock : sock[o] = "closing" \/ o \in late THEN late \cup {s} ELSE late
    BY <1>4 DEF Joins, NoRequest
  <2>2. ASSUME NEW q \in Req, req[q].op = "delete", req[q].at \in {"purging", "done"},
               File \in req[q].doomed, NEW o \in Sock, sock'[o] = "in"
        PROVE  o \in late'
    <3>1. CASE o # s
      <4>1. sock[o] = "in"
        BY <1>1, <2>1, <2>2, <3>1
      <4> QED
        BY <1>2, <2>1, <2>2, <4>1
    <3>2. CASE o = s
      <4>1. RoomOpen
        BY <1>1, <1>2, <2>1, <2>2, <3>2
      <4>2. PICK p \in Sock : sock[p] \in {"in", "closing"}
        BY <4>1 DEF RoomOpen
      <4>3. sock[p] = "closing" \/ p \in late
        BY <1>2, <2>2, <4>2
      <4> QED
        BY <2>1, <3>2, <4>3
    <3> QED
      BY <3>1, <3>2
  <2>3. DeletedFilesAreLeft'
    BY <2>1, <2>2 DEF DeletedFilesAreLeft
  <2>4. ASSUME NEW q \in Req, req[q].op = "delete", req[q].at = "done", File \in req[q].doomed, ~astray
        PROVE  ~doc' /\ ~writing' /\ ~RoomOpen'
    <3>1. ~doc /\ ~writing /\ ~RoomOpen /\ NoRow
      BY <1>2, <2>4 DEF FilesInv, Quiet
    <3>2. \A o \in Sock : sock'[o] \in {"in", "closing"} => sock[o] \in {"in", "closing"}
      BY <1>1, <2>1, <3>1
    <3> QED
      BY <2>1, <3>1, <3>2 DEF RoomOpen
  <2>5. Quiet'
    BY <2>1, <2>4 DEF Quiet
  <2>6. /\ sock' \in [Sock -> {"out", "joining", "in", "closing"}]
        /\ {writing', doc', astray'} \subseteq BOOLEAN /\ late' \subseteq Sock
    BY <1>1, <2>1
  <2>7. UNCHANGED NoRequest
    BY <2>1 DEF NoRequest
  <2> QED
    BY <2>3, <2>5, <2>6, <2>7, EditorsOnly
<1>5. CASE Leaves(s)
  <2>1. /\ sock[s] \in {"in", "closing"} /\ sock' = [sock EXCEPT ![s] = "out"] /\ late' = late \ {s}
        /\ writing' = (writing \/ \A o \in Sock \ {s} : sock[o] \notin {"in", "closing"})
        /\ UNCHANGED <<rows, req, nextId, met, doc, astray>>
    BY <1>5 DEF Leaves, NoRequest
  <2>2. \A o \in Sock : sock'[o] = "in" => o # s /\ sock[o] = "in"
    BY <1>1, <2>1
  <2>3. DeletedFilesAreLeft'
    BY <2>1, <2>2 DEF FilesInv, DeletedFilesAreLeft
  <2>4. RoomOpen
    BY <2>1 DEF RoomOpen
  <2>5. Quiet'
    BY <2>1, <2>4 DEF FilesInv, Quiet
  <2>6. /\ sock' \in [Sock -> {"out", "joining", "in", "closing"}]
        /\ {writing', doc', astray'} \subseteq BOOLEAN /\ late' \subseteq Sock
    BY <1>1, <2>1
  <2>7. UNCHANGED NoRequest
    BY <2>1 DEF NoRequest
  <2> QED
    BY <2>3, <2>5, <2>6, <2>7, EditorsOnly
<1> QED
  BY <1>3, <1>4, <1>5

LEMMA WriterStep ==
  ASSUME FilesInv, Written \/ Flushed
  PROVE  FilesInv'
<1>1. /\ UNCHANGED <<rows, req, nextId, met, sock, late, astray>> /\ (RoomOpen \/ writing)
      /\ {writing', doc'} \subseteq BOOLEAN
  BY DEF Written, Flushed, NoRequest, FilesInv, FilesTypeOK
<1>2. DeletedFilesAreLeft' /\ Quiet'
  BY <1>1 DEF FilesInv, DeletedFilesAreLeft, Quiet
<1>3. /\ sock' \in [Sock -> {"out", "joining", "in", "closing"}]
      /\ {writing', doc', astray'} \subseteq BOOLEAN /\ late' \subseteq Sock
  BY <1>1 DEF FilesInv, FilesTypeOK
<1>4. UNCHANGED NoRequest
  BY <1>1 DEF NoRequest
<1> QED
  BY <1>2, <1>3, <1>4, EditorsOnly

LEMMA FilesNextInv == FilesInv /\ [FilesNext]_filesVars => FilesInv'
<1> SUFFICES ASSUME FilesInv, [FilesNext]_filesVars PROVE FilesInv'
  OBVIOUS
<1>1. ASSUME NEW q \in Req, BeginCreate(q) \/ BeginMove(q) \/ BeginDelete(q) PROVE FilesInv'
  BY <1>1, Begun
<1>2. ASSUME NEW q \in Req, RequestStep(q) PROVE FilesInv'
  BY <1>2, FindExistingStep, FindAncestorStep, MakeDirectoryStep, InsertFileStep, FindMovedStep,
     ReadAllStep, UpdateOneStep, FindDeletedStep, ReadDoomedStep, DeleteRowsStep, CommitStep,
     DeadlockStep, CloseRoomsStep, PurgeLogStep DEF RequestStep
<1>3. CASE UNCHANGED filesVars
  <2>1. UNCHANGED NoRequest /\ UNCHANGED <<sock, writing, doc, late, astray>>
    BY <1>3 DEF filesVars, NoRequest
  <2>2. UNCHANGED req
    BY <1>3 DEF filesVars
  <2>3. DeletedFilesAreLeft' /\ Quiet'
    BY <2>1, <2>2 DEF FilesInv, DeletedFilesAreLeft, Quiet, RoomOpen
  <2>4. /\ sock' \in [Sock -> {"out", "joining", "in", "closing"}]
        /\ {writing', doc', astray'} \subseteq BOOLEAN /\ late' \subseteq Sock
    BY <2>1 DEF FilesInv, FilesTypeOK
  <2> QED
    BY <2>1, <2>3, <2>4, EditorsOnly
<1> QED
  BY <1>1, <1>2, <1>3, EditorStep, WriterStep DEF FilesNext
-----------------------------------------------------------------------------
(* What a commit that has met nobody makes of the tree.                     *)
LEMMA AloneCommits ==
  ASSUME FilesInv, NEW q \in Req, Commit(q), q \notin met
  PROVE  /\ rows' = View(q) /\ req[q].at = "commit" /\ Knows(q) /\ req[q] \in Request
         /\ req[q].op \in {"create", "move", "delete"}
<1>1. rows' = View(q) /\ req[q].at = "commit" /\ Open(q) /\ req[q] \in Request
  BY DEF Commit, Open, FilesInv, FilesTypeOK
<1>2. Knows(q)
  BY <1>1 DEF FilesInv, Undisturbed, Alone
<1> QED
  BY <1>1, <1>2 DEF FilesInv, Stages, Staged

(* A move's: all that it takes is in its place, everything else has stayed.  *)
LEMMA Moved ==
  ASSUME FilesInv, NEW q \in Req, Commit(q), q \notin met, req[q].op = "move",
         ~(req[q].put = {} /\ req[q].del = {})
  PROVE  /\ Plan(q) /\ req[q].todo = {} /\ req[q].path \in Path /\ req[q].old \in Seq(Name)
         /\ rows' = Staying(q) \cup req[q].put
         /\ req[q].targets \subseteq req[q].put
         /\ \A d \in rows : d.id \in Ids(req[q].targets) =>
              \E t \in req[q].targets : Moves(q, d, t)
         /\ \A y \in req[q].put : y.id \in Ids(rows) => y \in req[q].targets
<1>1. rows' = View(q) /\ req[q].at = "commit" /\ Knows(q) /\ req[q] \in Request /\ Open(q)
  BY AloneCommits DEF Open
<1>2. Plan(q) /\ req[q].todo = {} /\ Ids(req[q].targets) \subseteq req[q].del
  BY <1>1 DEF Knows, MovesTheTree
<1>3. req[q].path \in Path /\ req[q].del \subseteq Ids(req[q].targets) /\ req[q].old \in Seq(Name)
  BY <1>1 DEF FilesInv, Stages, Staged, Request
<1>4. req[q].targets \subseteq req[q].put
  BY <1>2 DEF Plan, Ids
<1>5. rows' = Staying(q) \cup req[q].put
  BY <1>1, <1>2, <1>3 DEF Staying, View
<1>6. ASSUME NEW d \in rows, d.id \in Ids(req[q].targets)
      PROVE  \E t \in req[q].targets : Moves(q, d, t)
  <2>1. PICK t \in req[q].targets : t.id = d.id
    BY <1>6 DEF Ids
  <2>2. PICK y \in rows : Moves(q, y, t)
    BY <1>2 DEF Plan
  <2>3. y = d
    BY <2>1, <2>2 DEF Moves, FilesInv, FilesTypeOK
  <2> QED
    BY <2>2, <2>3
<1>7. ASSUME NEW y \in req[q].put, y.id \in Ids(rows)
      PROVE  y \in req[q].targets
  <2>1. y.id \in req[q].del
    BY <1>7 DEF FilesInv, Tables
  <2>2. PICK t \in req[q].targets : t.id = y.id
    BY <1>3, <2>1 DEF Ids
  <2>3. y \in View(q) /\ t \in View(q)
    BY <1>4 DEF View
  <2>4. y = t
    BY <2>2, <2>3 DEF FilesInv, Tables, Unique
  <2> QED
    BY <2>4
<1> QED
  BY <1>2, <1>3, <1>4, <1>5, <1>6, <1>7

(* What stays under a directory that has one there still; what is moved      *)
(* finds again what was above it.                                            *)
LEMMA StayingKeepsParents ==
  ASSUME FilesInv, NEW q \in Req, Commit(q), q \notin met, req[q].op = "move",
         ~(req[q].put = {} /\ req[q].del = {}),
         NEW x \in Staying(q), NEW d \in rows, d.isDir, isDescendantOf(x.path, d.path)
  PROVE  d \in Staying(q)
<1>1. /\ Plan(q) /\ req[q].old \in Seq(Name)
      /\ d.id \in Ids(req[q].targets) => \E t \in req[q].targets : Moves(q, d, t)
  BY Moved
<1>2. x \in rows /\ x.id \notin Ids(req[q].targets) /\ x.path \in Seq(Name) /\ d.path \in Seq(Name)
  BY DEF Staying, FilesInv, FilesTypeOK, Row, Path
<1>3. ASSUME d.id \in Ids(req[q].targets) PROVE FALSE
  <2>1. PICK t \in req[q].targets : Moves(q, d, t)
    BY <1>1, <1>3
  <2>2. req[q].isDir /\ (d.path = req[q].old \/ isDescendantOf(d.path, req[q].old))
    BY <2>1 DEF Moves
  <2>3. isDescendantOf(x.path, req[q].old)
    BY <1>1, <1>2, <2>2, BelowBelow
  <2> QED
    BY <1>1, <1>2, <2>2, <2>3 DEF Plan
<1> QED
  BY <1>3 DEF Staying

LEMMA MovedOrphans ==
  ASSUME FilesInv, NEW q \in Req, Commit(q), q \notin met, req[q].op = "move",
         ~(req[q].put = {} /\ req[q].del = {}),
         NEW x \in rows', Orphan(rows', x)
  PROVE  \E y \in rows : y.id = x.id /\ Orphan(rows, y)
<1> DEFINE r == req[q]
<1>1. /\ Plan(q) /\ r.todo = {} /\ r.path \in Path /\ r.old \in Seq(Name)
      /\ rows' = Staying(q) \cup r.put /\ r.targets \subseteq r.put
  BY Moved
<1>2. PICK p \in Ancestors(x.path) : ~HasDir(rows', p)
  BY DEF Orphan, At, HasDir
<1>3. x.path \in Path /\ x.path \in Seq(Name) /\ p \in Path /\ p \in Seq(Name) /\ isDescendantOf(x.path, p)
  <2>1. x \in Row
    BY CommitStep DEF FilesInv, FilesTypeOK
  <2> QED
    BY <1>2, <2>1, AncestorsAre DEF Row, Path
<1>4. \A y \in rows : y \in Row /\ y.path \in Path /\ y.path \in Seq(Name)
  BY DEF FilesInv, FilesTypeOK, Row, Path
<1>5. \A a \in Ancestors(r.path) : HasDir(rows', a)
  BY <1>1 DEF Plan, HasDir
<1>6. CASE x \in Staying(q)
  <2>1. ASSUME NEW d \in rows, d.path = p, d.isDir PROVE FALSE
    <3>1. d \in Staying(q)
      BY <1>3, <1>6, <2>1, StayingKeepsParents
    <3> QED
      BY <1>1, <1>2, <2>1, <3>1 DEF HasDir
  <2> QED
    BY <1>2, <1>6, <2>1 DEF Orphan, At, Staying
<1>7. CASE x \in r.put /\ x \notin r.targets
  <2>1. x.path \in Ancestors(r.path)
    BY <1>1, <1>7 DEF Plan
  <2>2. r.path \in Seq(Name) /\ isDescendantOf(r.path, x.path)
    BY <1>1, <2>1, AncestorsAre DEF Path
  <2>3. p \in Ancestors(r.path)
    BY <1>3, <2>2, AncestorsAre, BelowBelow
  <2> QED
    BY <1>2, <1>5, <2>3
<1>8. CASE x \in r.targets
  <2>1. PICK y \in rows : Moves(q, y, x)
    BY <1>1, <1>8 DEF Plan
  <2>2. CASE x.path = r.path
    BY <1>2, <1>5, <2>2
  <2>3. CASE x.path # r.path
    <3>1. /\ y.id # r.id /\ r.isDir /\ isDescendantOf(y.path, r.old)
          /\ x.path = replacePathPrefix(y.path, r.old, r.path) /\ x.id = y.id
      BY <2>1, <2>3 DEF Moves
    <3>2. p # r.path
      <4>1. PICK t \in r.targets : t.id = r.id
        BY <1>1 DEF Plan
      <4>2. PICK z \in rows : Moves(q, z, t)
        BY <1>1 DEF Plan
      <4>3. t.path = r.path /\ t.isDir
        BY <3>1, <4>1, <4>2 DEF Moves
      <4> QED
        BY <1>1, <1>2, <4>3 DEF HasDir
    <3>3. p \notin Ancestors(r.path)
      BY <1>2, <1>5
    <3>4. PICK b \in Ancestors(y.path) : isDescendantOf(b, r.old) /\ p = replacePathPrefix(b, r.old, r.path)
      BY <1>1, <1>2, <1>4, <3>1, <3>2, <3>3, AboveReplaced
    <3>5. ASSUME NEW d \in rows, d.path = b, d.isDir PROVE FALSE
      <4>1. d.id \in Ids(r.targets)
        BY <1>1, <3>1, <3>4, <3>5 DEF Plan
      <4>2. PICK t \in r.targets : Moves(q, d, t)
        BY <4>1, Moved
      <4>3. d.path # r.old
        BY <1>1, <1>4, <3>4, <3>5, Below
      <4>4. t.path = p /\ t.isDir
        BY <3>4, <3>5, <4>2, <4>3 DEF Moves
      <4> QED
        BY <1>1, <1>2, <4>4 DEF HasDir
    <3> QED
      BY <3>1, <3>5 DEF Orphan, At
  <2> QED
    BY <2>2, <2>3
<1> QED
  BY <1>1, <1>6, <1>7, <1>8

LEMMA NoNewOrphans ==
  ASSUME FilesInv, NEW q \in Req, Commit(q), q \notin met, NEW x \in rows', Orphan(rows', x)
  PROVE  \E y \in rows : y.id = x.id /\ Orphan(rows, y)
<1>1. /\ rows' = View(q) /\ req[q].at = "commit" /\ Knows(q) /\ req[q] \in Request /\ Open(q)
      /\ req[q].op \in {"create", "move", "delete"}
  BY AloneCommits DEF Open
<1>2. CASE req[q].put = {} /\ req[q].del = {}
  <2>1. rows' = rows
    BY <1>1, <1>2 DEF View
  <2> QED
    BY <2>1
<1>3. PICK p \in Ancestors(x.path) : ~HasDir(rows', p)
  BY DEF Orphan, At, HasDir
<1>4. CASE req[q].op = "create"
  <2>1. rows' = rows \cup req[q].put
    BY <1>1, <1>4 DEF FilesInv, Stages, Staged, View
  <2>2. x \notin req[q].put
    BY <1>1, <1>3, <1>4, <2>1 DEF Knows, Creates
  <2>3. ~HasDir(rows, p)
    BY <1>3, <2>1 DEF HasDir
  <2> QED
    BY <1>3, <2>1, <2>2, <2>3 DEF Orphan, At, HasDir
<1>5. CASE req[q].op = "delete"
  <2>1. req[q].put = {} /\ req[q].del = req[q].doomed \cap Ids(rows)
    BY <1>1, <1>5 DEF FilesInv, Stages, Staged, Knows, DeletesTheTree
  <2>2. x \in rows /\ x.id \notin req[q].doomed
    BY <1>1, <2>1 DEF View, Ids
  <2>3. isDescendantOf(x.path, p)
    BY <1>3, <2>2, AncestorsAre DEF FilesInv, FilesTypeOK, Row, Path
  <2>4. ASSUME NEW d \in rows, d.path = p, d.isDir PROVE FALSE
    <3>1. d.id \in req[q].doomed
      BY <1>1, <1>3, <2>1, <2>4 DEF HasDir, View
    <3> QED
      BY <1>1, <1>5, <2>2, <2>3, <2>4, <3>1 DEF Knows, DeletesTheTree
  <2> QED
    BY <1>3, <2>2, <2>4 DEF Orphan, At
<1>6. CASE req[q].op = "move" /\ ~(req[q].put = {} /\ req[q].del = {})
  BY <1>6, MovedOrphans
<1> QED
  BY <1>1, <1>2, <1>4, <1>5, <1>6

(* Of two directories above the same path the longer one is below the other. *)
LEMMA OneLine ==
  ASSUME NEW p \in Seq(Name), NEW d \in Seq(Name), NEW e \in Seq(Name),
         isDescendantOf(p, d), isDescendantOf(p, e), Len(e) <= Len(d)
  PROVE  d = e \/ isDescendantOf(d, e)
<1>1. /\ Len(d) \in Nat /\ Len(e) \in Nat /\ Len(p) \in Nat
      /\ \A i \in 1..Len(d) : p[i] = d[i]
      /\ \A i \in 1..Len(e) : p[i] = e[i]
  BY Below
<1>2. \A i \in 1..Len(e) : d[i] = e[i]
  BY <1>1
<1>3. CASE Len(e) = Len(d)
  BY <1>2, <1>3
<1>4. CASE Len(e) < Len(d)
  BY <1>2, <1>4, Below
<1> QED
  BY <1>1, <1>3, <1>4

LEMMA ParentsStay ==
  ASSUME FilesInv, NEW q \in Req, Commit(q), req[q].op = "move", q \notin met,
         NEW x \in rows, NEW y \in rows', x.id = y.id, x.id # req[q].id
  PROVE  ParentOf(rows, x) \subseteq ParentOf(rows', y)
<1> DEFINE r == req[q]
<1>1. Unique(rows) /\ \A v \in rows : v \in Row /\ v.path \in Path /\ v.path \in Seq(Name)
  BY DEF FilesInv, FilesTypeOK, Unique, Row, Path
<1>2. CASE r.put = {} /\ r.del = {}
  <2>1. rows' = rows
    BY <1>2 DEF Commit, View
  <2>2. x = y
    BY <1>1, <2>1 DEF Unique
  <2> QED
    BY <2>1, <2>2
<1>3. CASE ~(r.put = {} /\ r.del = {})
  <2>1. /\ Plan(q) /\ r.path \in Path /\ r.path \in Seq(Name) /\ r.old \in Seq(Name)
        /\ rows' = Staying(q) \cup r.put /\ r.targets \subseteq r.put
        /\ \A d \in rows : d.id \in Ids(r.targets) => \E t \in r.targets : Moves(q, d, t)
        /\ \A v \in r.put : v.id \in Ids(rows) => v \in r.targets
    BY <1>3, Moved DEF Path
  <2> SUFFICES ASSUME NEW d \in rows, d.isDir, isDescendantOf(x.path, d.path),
                      Len(d.path) = Len(x.path) - 1
               PROVE  \E e \in rows' : /\ e.id = d.id /\ e.isDir /\ isDescendantOf(y.path, e.path)
                                       /\ Len(e.path) = Len(y.path) - 1
    BY DEF ParentOf
  <2>2. CASE y \in Staying(q)
    <3>1. x = y
      BY <1>1, <2>2 DEF Unique, Staying
    <3>2. d \in Staying(q)
      BY <1>3, <2>2, <3>1, StayingKeepsParents
    <3> QED
      BY <2>1, <3>1, <3>2
  <2>3. CASE y \in r.put
    <3>1. y \in r.targets
      BY <2>1, <2>3 DEF Ids
    <3>2. PICK z \in rows : Moves(q, z, y)
      BY <2>1, <3>1 DEF Plan
    <3>3. z = x
      BY <1>1, <3>2 DEF Moves, Unique
    <3>4. /\ r.isDir /\ isDescendantOf(x.path, r.old)
          /\ y.path = replacePathPrefix(x.path, r.old, r.path)
      BY <3>2, <3>3 DEF Moves
    <3>5. Len(r.old) <= Len(d.path) /\ Len(r.old) \in Nat /\ Len(x.path) \in Nat
      BY <1>1, <2>1, <3>4, Below
    <3>6. d.path = r.old \/ isDescendantOf(d.path, r.old)
      BY <1>1, <2>1, <3>4, <3>5, OneLine
    <3>7. CASE d.path = r.old
      <4>1. PICK t \in r.targets : t.id = r.id
        BY <2>1 DEF Plan
      <4>2. PICK w \in rows : Moves(q, w, t)
        BY <2>1 DEF Plan
      <4>3. w.path = r.old /\ w.id = r.id /\ t.path = r.path /\ t.isDir
        BY <3>4, <4>1, <4>2 DEF Moves
      <4>4. t.id = d.id
        BY <1>1, <3>7, <4>1, <4>3 DEF Unique
      <4>5. isDescendantOf(y.path, r.path) /\ Len(y.path) = Len(r.path) + Len(x.path) - Len(r.old)
        <5>1. x.path \in Seq(Name) /\ r.old \in Seq(Name) /\ r.path \in Path
          BY <1>1, <2>1
        <5>2. isDescendantOf(x.path, r.old) /\ y.path = replacePathPrefix(x.path, r.old, r.path)
          BY <3>4
        <5> HIDE DEF r
        <5>3. /\ isDescendantOf(replacePathPrefix(x.path, r.old, r.path), r.path)
              /\ Len(replacePathPrefix(x.path, r.old, r.path)) = Len(r.path) + Len(x.path) - Len(r.old)
          BY <5>1, <5>2, ReplacedPath
        <5> QED
          BY <5>2, <5>3
      <4>6. Len(r.path) \in Nat
        BY <2>1
      <4>7. Len(t.path) = Len(y.path) - 1
        <5>1. Len(t.path) = Len(r.path) /\ Len(r.old) = Len(x.path) - 1
          BY <3>7, <4>3
        <5> QED
          BY <3>5, <4>5, <4>6, <5>1
      <4> QED
        BY <2>1, <4>3, <4>4, <4>5, <4>7
    <3>8. CASE d.path # r.old /\ isDescendantOf(d.path, r.old)
      <4>1. PICK t \in r.targets : Moves(q, d, t)
        BY <2>1, <3>4, <3>8 DEF Plan
      <4>2. t.id = d.id /\ t.isDir /\ t.path = replacePathPrefix(d.path, r.old, r.path)
        BY <3>8, <4>1 DEF Moves
      <4>3. isDescendantOf(y.path, t.path) /\ Len(y.path) - Len(t.path) = Len(x.path) - Len(d.path)
        BY <1>1, <2>1, <3>4, <3>8, <4>2, StaysBelow
      <4>4. Len(y.path) \in Nat /\ Len(t.path) \in Nat
        <5>1. /\ x.path \in Seq(Name) /\ d.path \in Seq(Name) /\ r.old \in Seq(Name) /\ r.path \in Path
              /\ isDescendantOf(x.path, r.old) /\ isDescendantOf(d.path, r.old)
          BY <1>1, <2>1, <3>4, <3>8
        <5>2. t.path \in Path /\ y.path \in Path
          BY <3>4, <4>2, <5>1, ReplacedPath
        <5> QED
          BY <5>2 DEF Path
      <4>5. Len(t.path) = Len(y.path) - 1
        BY <3>5, <4>3, <4>4
      <4> QED
        BY <2>1, <4>2, <4>3, <4>5
    <3> QED
      BY <3>6, <3>7, <3>8
  <2> QED
    BY <2>1, <2>2, <2>3
<1> QED
  BY <1>2, <1>3
-----------------------------------------------------------------------------
(* The invariant that carries the results about files.                      *)
THEOREM FilesInvariance == FilesSpec => []FilesInv
<1> QED
  BY FilesInitInv, FilesNextInv, PTL DEF FilesSpec

(* The table keeps its keys unique, whatever requests commit, in any number  *)
(* and order: files.service.ts leaves that to Postgres.                      *)
THEOREM FilesTypeCorrect == FilesSpec => []FilesTypeOK
<1>1. FilesInv => FilesTypeOK
  BY DEF FilesInv
<1> QED
  BY <1>1, FilesInvariance, PTL

(* A deletion (deleteFile, closeFileRooms, deleteDoc) leaves nobody in the   *)
(* deleted file's room, and nothing of it in the log, but by those whom its  *)
(* last editors let in or wrote after.                                       *)
THEOREM DeletionsEnd == FilesSpec => []DeletionsAreComplete
<1>1. FilesInv => DeletionsAreComplete
  BY DEF FilesInv, Quiet, LeftoversAreLastWords, DeletionsAreComplete
<1> QED
  BY <1>1, FilesInvariance, PTL

(* A request that meets no other one orphans no row.                        *)
THEOREM OrphansNeedRaces == FilesSpec => OrphansComeFromRaces
<1>1. FilesInv => \A q \in Req : Commit(q) /\ q \notin met =>
               \A x \in rows' : Orphan(rows', x) => \E y \in rows : y.id = x.id /\ Orphan(rows, y)
  BY NoNewOrphans
<1> QED
  BY <1>1, FilesInvariance, PTL DEF OrphansComeFromRaces

(* A move that meets no other request takes its subtree along, and leaves    *)
(* the rest where it is.                                                     *)
THEOREM MovesKeepParents == FilesSpec => SubtreesMoveWhole
<1>1. FilesInv => \A q \in Req : Commit(q) /\ req[q].op = "move" /\ q \notin met =>
               \A x \in rows, y \in rows' :
                 x.id = y.id /\ x.id # req[q].id => ParentOf(rows, x) \subseteq ParentOf(rows', y)
  BY ParentsStay
<1> QED
  BY <1>1, FilesInvariance, PTL DEF SubtreesMoveWhole
-----------------------------------------------------------------------------
(* Rooms.                                                                   *)
Opening == {"waiting", "querying", "loading"}

(* The promise in the map is on its way to being the room, is the room, or  *)
(* is a miss nobody has noticed yet; no other promise is any of the first   *)
(* two.                                                                     *)
Mapped ==
  /\ \A r \in RoomId : state[r] \in Opening \cup {"live"} => rooms = r
  /\ rooms # NoRoom => state[rooms] \in Opening \cup {"live", "missing"}

(* room.conns and what the connection handlers hold on to agree.            *)
Members ==
  /\ \A r \in RoomId : \A c \in conns[r] :
       target[c] = r /\ pc[c] \in {"added", "joined", "leaving"} /\ state[r] = "live"
  /\ \A c \in Conn : pc[c] \in {"added", "joined", "leaving"} => c \in conns[target[c]]

(* pendingWrites names the room being evicted, whose final write the only   *)
(* promise that may be under way is waiting for.                            *)
FinalWrites ==
  /\ \A r \in RoomId : state[r] = "evicting" <=> pending = r
  /\ \A r \in RoomId : state[r] \in {"querying", "loading", "live"} => pending = NoRoom
  /\ \A r \in RoomId : state[r] = "waiting" /\ pending # NoRoom => waitsFor[r] = pending

(* Where the edits are.                                                     *)
EditsAreSomewhere ==
  /\ stored \subseteq made
  /\ \A r \in RoomId : state[r] = "live" => has[r] = made
  /\ pending # NoRoom => made = stored \cup has[pending]
  /\ (pending = NoRoom /\ \A r \in RoomId : state[r] # "live") => made = stored

(* The handler on the bus.                                                  *)
Handling ==
  /\ handler # NoRoom => handler = rooms /\ state[handler] = "live"
  /\ \A r \in RoomId : handler = r \/ \A c \in conns[r] : pc[c] = "added"
  /\ \A r \in observed : state[r] \notin Opening /\ (state[r] = "live" => handler = r)

Inv ==
  /\ TypeOK /\ Mapped /\ Members /\ FinalWrites /\ EditsAreSomewhere /\ Handling
-----------------------------------------------------------------------------
LEMMA InitInv == Init => Inv
BY RoomRegistryAssumption
DEF Init, Inv, TypeOK, Mapped, Members, FinalWrites, EditsAreSomewhere, Handling,
    Opening, Maybe, State, PC, Edits

(* The map's promise, or a fresh one put there: what joinRoom does first.   *)
LEMMA EnterMapInv ==
  ASSUME Inv, NEW c \in Conn, EnterMap(c), pc[c] \in {"authorizing", "joining"},
         UNCHANGED <<pending, handler, stored, made, open, up>>
  PROVE  Inv'
<1>1. CASE rooms # NoRoom
  <2>1. TypeOK'
    BY <1>1 DEF EnterMap, Inv, TypeOK, Maybe, PC
  <2>2. Mapped' /\ FinalWrites' /\ EditsAreSomewhere' /\ Handling'
    BY <1>1 DEF EnterMap, Inv, Mapped, FinalWrites, EditsAreSomewhere, Handling
  <2>3. Members'
    BY <1>1 DEF EnterMap, Inv, TypeOK, Members
  <2> QED
    BY <2>1, <2>2, <2>3 DEF Inv
<1>2. CASE rooms = NoRoom
  <2>1. PICK r \in RoomId :
          /\ Forgotten(r)
          /\ rooms' = r
          /\ target' = [target EXCEPT ![c] = r]
          /\ waitsFor' = [waitsFor EXCEPT ![r] = pending]
          /\ state' = [state EXCEPT ![r] = IF pending = NoRoom THEN "querying" ELSE "waiting"]
          /\ conns' = [conns EXCEPT ![r] = {}]
          /\ observed' = observed \ {r}
          /\ has' = [has EXCEPT ![r] = {}]
    BY <1>2 DEF EnterMap, WriteInFlight, Fresh
  <2>2. /\ r # NoRoom /\ pending # r /\ state[r] \notin Opening \cup {"live", "evicting"}
        /\ \A q \in Conn : target[q] # r
        /\ pc' = [pc EXCEPT ![c] = "joining"]
    BY <2>1, RoomRegistryAssumption DEF Forgotten, EnterMap, Opening
  <2>3. TypeOK'
    <3>1. waitsFor'[r] = pending /\ state'[r] = (IF pending = NoRoom THEN "querying" ELSE "waiting")
      BY <2>1 DEF Inv, TypeOK
    <3> QED
      BY <2>1, <2>2, <3>1 DEF Inv, TypeOK, Maybe, PC, State
  <2>4. \A q \in RoomId : state[q] \notin Opening \cup {"live"}
    BY <1>2, RoomRegistryAssumption DEF Inv, Mapped
  <2>5. Mapped'
    BY <2>1, <2>4 DEF Inv, TypeOK, Mapped, Opening
  <2>6. Members'
    BY <2>1, <2>2 DEF Inv, TypeOK, Members
  <2>7. FinalWrites'
    BY <2>1, <2>2, <2>4 DEF Inv, TypeOK, FinalWrites, Opening
  <2>8. EditsAreSomewhere'
    BY <2>1, <2>2, <2>4 DEF Inv, TypeOK, EditsAreSomewhere
  <2>9. Handling'
    <3>1. handler = NoRoom /\ handler' = NoRoom
      BY <1>2 DEF Inv, Handling
    <3>2. \A q \in RoomId : conns[q] = {}
      BY <2>4 DEF Inv, Members
    <3>3. \A q \in RoomId : conns'[q] = {}
      BY <2>1, <3>2 DEF Inv, TypeOK
    <3>4. \A q \in observed' : q \in RoomId /\ q # r /\ state'[q] = state[q]
      BY <2>1 DEF Inv, TypeOK
    <3> QED
      BY <2>4, <3>1, <3>3, <3>4 DEF Handling
  <2> QED
    BY <2>3, <2>5, <2>6, <2>7, <2>8, <2>9 DEF Inv
<1> QED
  BY <1>1, <1>2

LEMMA EnteringInv ==
  ASSUME Inv, NEW c \in Conn, Authorized(c) \/ Rejoin(c)
  PROVE  Inv'
BY EnterMapInv DEF Authorized, Rejoin

(* A handler that never got into the room comes and goes.                   *)
LEMMA OutsideInv ==
  ASSUME Inv, NEW c \in Conn, Connect(c) \/ Refuse(c) \/ JoinMissing(c) \/ CloseUnheard(c)
  PROVE  Inv'
<1> USE DEF Connect, Refuse, JoinMissing, CloseUnheard, Over, roomVars
<1>1. /\ UNCHANGED <<state, waitsFor, pending, conns, observed, handler, has, stored, made>>
      /\ rooms' = rooms \/ (rooms' = NoRoom /\ state[rooms] = "missing")
  OBVIOUS
<1>2. TypeOK'
  BY <1>1 DEF Inv, TypeOK, Maybe, PC
<1>3. Mapped'
  BY <1>1 DEF Inv, Mapped, Opening
<1>4. Members'
  BY <1>1 DEF Inv, TypeOK, Members
<1>5. FinalWrites' /\ EditsAreSomewhere'
  BY <1>1 DEF Inv, FinalWrites, EditsAreSomewhere
<1>6. Handling'
  <2>1. handler' # NoRoom => handler' = rooms' /\ state'[handler'] = "live"
    BY <1>1 DEF Inv, Handling
  <2>2. \A q \in RoomId : \A d \in conns[q] : pc'[d] = pc[d]
    BY DEF Inv, TypeOK, Members
  <2> QED
    BY <1>1, <2>1, <2>2 DEF Inv, Handling
<1> QED
  BY <1>2, <1>3, <1>4, <1>5, <1>6 DEF Inv

(* A connection that gets in.                                               *)
LEMMA JoinInv == ASSUME Inv, NEW c \in Conn, Join(c) PROVE Inv'
<1> DEFINE r == target[c]
<1>1. r \in RoomId /\ rooms = r /\ state[r] = "live"
  <2>1. r \in RoomId
    BY DEF Join, Inv, TypeOK, Maybe
  <2> QED
    BY <2>1, RoomRegistryAssumption DEF Join, StillMapped, IsRoom, Inv, Mapped, Opening
<1> USE DEF Join
<1>2. TypeOK'
  BY <1>1 DEF Inv, TypeOK, Maybe, PC
<1>3. Mapped' /\ FinalWrites' /\ EditsAreSomewhere'
  BY DEF Inv, Mapped, FinalWrites, EditsAreSomewhere
<1>4. Members'
  BY <1>1 DEF Inv, TypeOK, Members
<1>5. Handling'
  BY <1>1 DEF Inv, TypeOK, Handling
<1> QED
  BY <1>2, <1>3, <1>4, <1>5 DEF Inv

(* Where a connection that is in stands.                                    *)
LEMMA InsideTheRoom ==
  ASSUME Inv, NEW c \in Conn, pc[c] \in {"added", "joined", "leaving"}
  PROVE  /\ target[c] \in RoomId /\ rooms = target[c] /\ state[target[c]] = "live"
         /\ c \in conns[target[c]] /\ pending = NoRoom
         /\ \A q \in RoomId : q # target[c] => state[q] # "live" /\ conns[q] = {}
<1>1. target[c] \in RoomId /\ c \in conns[target[c]]
  BY DEF Inv, TypeOK, Maybe, Members
<1>2. state[target[c]] = "live"
  BY <1>1 DEF Inv, Members
<1>3. rooms = target[c] /\ pending = NoRoom
  BY <1>1, <1>2 DEF Inv, Mapped, FinalWrites
<1>4. \A q \in RoomId : q # target[c] => state[q] # "live"
  BY <1>3 DEF Inv, Mapped
<1>5. \A q \in RoomId : q # target[c] => conns[q] = {}
  BY <1>4 DEF Inv, Members
<1> QED
  BY <1>1, <1>2, <1>3, <1>4, <1>5

(* Its handler resumes.                                                     *)
LEMMA AttachInv == ASSUME Inv, NEW c \in Conn, Attach(c) PROVE Inv'
<1> DEFINE r == target[c]
<1>1. /\ r \in RoomId /\ rooms = r /\ state[r] = "live" /\ pending = NoRoom
      /\ \A q \in RoomId : q # r => state[q] # "live" /\ conns[q] = {}
  BY InsideTheRoom DEF Attach
<1>2. PICK queued \in SUBSET (Edits \ made) :
        made' = made \cup queued /\ has' = [has EXCEPT ![r] = @ \cup queued]
  BY DEF Attach
<1> USE DEF Attach, NotObserved
<1>3. TypeOK'
  BY <1>1, <1>2 DEF Inv, TypeOK, Maybe, PC
<1>4. Mapped' /\ FinalWrites'
  BY DEF Inv, Mapped, FinalWrites
<1>5. Members'
  BY <1>1 DEF Inv, TypeOK, Members
<1>6. EditsAreSomewhere'
  <2>1. has[r] = made
    BY <1>1 DEF Inv, EditsAreSomewhere
  <2> QED
    BY <1>1, <1>2, <2>1 DEF Inv, TypeOK, EditsAreSomewhere
<1>7. Handling'
  <2>1. handler' = r
    BY <1>1 DEF Inv, Handling
  <2>2. observed' = observed \cup {r} /\ observed \subseteq RoomId
    BY DEF Inv, TypeOK
  <2>3. \A q \in observed' : state'[q] \notin Opening /\ (state'[q] = "live" => handler' = q)
    BY <1>1, <2>1, <2>2 DEF Inv, Handling, Opening
  <2> QED
    BY <1>1, <2>1, <2>3 DEF Handling
<1> QED
  BY <1>3, <1>4, <1>5, <1>6, <1>7 DEF Inv

LEMMA EditInv == ASSUME Inv, NEW c \in Conn, Edit(c) PROVE Inv'
<1> DEFINE r == target[c]
<1>1. /\ r \in RoomId /\ state[r] = "live" /\ pending = NoRoom
      /\ \A q \in RoomId : q # r => state[q] # "live"
  BY InsideTheRoom DEF Edit
<1>2. PICK e \in Edits \ made : made' = made \cup {e} /\ has' = [has EXCEPT ![r] = @ \cup {e}]
  BY DEF Edit
<1>3. TypeOK'
  BY <1>1, <1>2 DEF Edit, Inv, TypeOK
<1>4. Mapped' /\ Members' /\ FinalWrites' /\ Handling'
  BY DEF Edit, Inv, Mapped, Members, FinalWrites, Handling
<1>5. EditsAreSomewhere'
  BY <1>1, <1>2 DEF Edit, Inv, TypeOK, EditsAreSomewhere
<1> QED
  BY <1>3, <1>4, <1>5 DEF Inv

(* The close listener: the map still holds the connection's room.           *)
LEMMA CloseSocketInv == ASSUME Inv, NEW c \in Conn, CloseSocket(c) PROVE Inv'
<1>1. target[c] \in RoomId /\ rooms = target[c] /\ rooms # NoRoom
  BY InsideTheRoom, RoomRegistryAssumption DEF CloseSocket
<1>2. pc' = [pc EXCEPT ![c] = "leaving"] /\ target' = target
  BY <1>1 DEF CloseSocket, Inv, TypeOK
<1>3. TypeOK'
  BY <1>1, <1>2 DEF CloseSocket, roomVars, Inv, TypeOK, PC
<1>4. Members'
  BY <1>2 DEF CloseSocket, roomVars, Inv, TypeOK, Members
<1>5. Mapped' /\ FinalWrites' /\ EditsAreSomewhere' /\ Handling'
  BY DEF CloseSocket, roomVars, Inv, Mapped, FinalWrites, EditsAreSomewhere, Handling
<1> QED
  BY <1>3, <1>4, <1>5 DEF Inv

LEMMA LeaveInv == ASSUME Inv, NEW c \in Conn, Leave(c) PROVE Inv'
<1> USE DEF Leave, Over, Others
<1>1. target[c] \in RoomId /\ state[target[c]] = "live"
  BY InsideTheRoom
<1>2. TypeOK'
  BY <1>1 DEF Inv, TypeOK, Maybe, PC
<1>3. Mapped' /\ FinalWrites' /\ EditsAreSomewhere'
  BY DEF Inv, Mapped, FinalWrites, EditsAreSomewhere
<1>4. Members'
  BY <1>1 DEF Inv, TypeOK, Members
<1>5. Handling'
  BY <1>1 DEF Inv, TypeOK, Handling
<1> QED
  BY <1>2, <1>3, <1>4, <1>5 DEF Inv

LEMMA LeaveLastInv == ASSUME Inv, NEW c \in Conn, LeaveLast(c) PROVE Inv'
<1> DEFINE r == target[c]
<1> USE DEF LeaveLast, Over, Others, HandlerDropped
<1>1. /\ r \in RoomId /\ rooms = r /\ state[r] = "live" /\ pending = NoRoom
      /\ \A q \in RoomId : q # r => state[q] # "live" /\ conns[q] = {}
  BY InsideTheRoom
<1>2. \A q \in RoomId : conns'[q] = {}
  BY <1>1 DEF Inv, TypeOK
<1>3. \A q \in Conn : q # c => pc[q] \notin {"added", "joined", "leaving"}
  <2>1. SUFFICES ASSUME NEW q \in Conn, q # c, pc[q] \in {"added", "joined", "leaving"} PROVE FALSE
    OBVIOUS
  <2>2. q \in conns[target[q]] /\ target[q] \in RoomId
    BY <2>1, InsideTheRoom
  <2>3. target[q] = r
    BY <1>1, <2>2
  <2> QED
    BY <2>1, <2>2, <2>3
<1>4. TypeOK'
  BY <1>1 DEF Inv, TypeOK, Maybe, PC, State
<1>5. Mapped'
  BY <1>1 DEF Inv, TypeOK, Mapped, Opening
<1>6. Members'
  BY <1>2, <1>3 DEF Inv, TypeOK, Members
<1>7. FinalWrites'
  <2>1. \A q \in RoomId : state[q] \notin {"evicting", "waiting", "querying", "loading"}
    BY <1>1, RoomRegistryAssumption DEF Inv, Mapped, FinalWrites, Opening
  <2> QED
    BY <1>1, <2>1 DEF Inv, TypeOK, FinalWrites
<1>8. EditsAreSomewhere'
  BY <1>1, RoomRegistryAssumption DEF Inv, TypeOK, EditsAreSomewhere
<1>9. Handling'
  BY <1>1, <1>2 DEF Inv, TypeOK, Handling, Opening
<1> QED
  BY <1>4, <1>5, <1>6, <1>7, <1>8, <1>9 DEF Inv
-----------------------------------------------------------------------------
LEMMA WriteAwaitedInv == ASSUME Inv, NEW r \in RoomId, WriteAwaited(r) PROVE Inv'
<1> USE DEF WriteAwaited, WriteOver
<1>1. pending = NoRoom /\ rooms = r
  <2>1. pending # NoRoom => state[pending] = "evicting"
    BY DEF Inv, TypeOK, Maybe, FinalWrites
  <2> QED
    BY <2>1 DEF Inv, Mapped, FinalWrites, Opening
<1>2. TypeOK'
  BY DEF Inv, TypeOK, Maybe, State
<1>3. Mapped'
  BY <1>1 DEF Inv, TypeOK, Mapped, Opening
<1>4. Members'
  BY DEF Inv, TypeOK, Members
<1>6. Handling'
  BY DEF Inv, TypeOK, Handling, Opening
<1>5. FinalWrites' /\ EditsAreSomewhere'
  BY <1>1 DEF Inv, TypeOK, FinalWrites, EditsAreSomewhere
<1> QED
  BY <1>2, <1>3, <1>4, <1>5, <1>6 DEF Inv

LEMMA QueryFileInv == ASSUME Inv, NEW r \in RoomId, QueryFile(r) PROVE Inv'
<1> USE DEF QueryFile
<1>1. PICK outcome \in {"missing", "loading"} : state' = [state EXCEPT ![r] = outcome]
  OBVIOUS
<1>2. pending = NoRoom /\ rooms = r
  BY DEF Inv, Mapped, FinalWrites, Opening
<1>3. TypeOK'
  BY <1>1 DEF Inv, TypeOK, State
<1>4. Mapped'
  BY <1>1, <1>2 DEF Inv, TypeOK, Mapped, Opening
<1>5. Members'
  BY <1>1 DEF Inv, TypeOK, Members
<1>6. FinalWrites' /\ EditsAreSomewhere'
  BY <1>1, <1>2 DEF Inv, TypeOK, FinalWrites, EditsAreSomewhere
<1>7. Handling'
  BY <1>1 DEF Inv, TypeOK, Handling, Opening
<1> QED
  BY <1>3, <1>4, <1>5, <1>6, <1>7 DEF Inv

(* No other room has edits the log lacks: what is loaded is everything.     *)
LEMMA LoadInv == ASSUME Inv, NEW r \in RoomId, Load(r) PROVE Inv'
<1> USE DEF Load
<1>1. pending = NoRoom /\ rooms = r
  BY DEF Inv, Mapped, FinalWrites, Opening
<1>2. \A q \in RoomId : state[q] # "live"
  BY <1>1 DEF Inv, Mapped
<1>3. made = stored
  BY <1>1, <1>2 DEF Inv, EditsAreSomewhere
<1>4. \A q \in RoomId : conns[q] = {}
  BY <1>2 DEF Inv, Members
<1>5. TypeOK'
  BY DEF Inv, TypeOK, State
<1>6. Mapped'
  BY <1>1 DEF Inv, TypeOK, Mapped, Opening
<1>7. Members' /\ FinalWrites'
  BY <1>1, <1>4 DEF Inv, TypeOK, Members, FinalWrites
<1>8. EditsAreSomewhere'
  BY <1>1, <1>2, <1>3 DEF Inv, TypeOK, EditsAreSomewhere
<1>9. Handling'
  BY <1>2, <1>4 DEF Inv, TypeOK, Handling, Opening
<1> QED
  BY <1>5, <1>6, <1>7, <1>8, <1>9 DEF Inv

LEMMA FlushInv == ASSUME Inv, NEW r \in RoomId, Flush(r) PROVE Inv'
<1> USE DEF Flush, roomVars
<1>1. has[r] = made /\ stored' = made /\ pending = NoRoom
  BY DEF Inv, FinalWrites, EditsAreSomewhere
<1>2. TypeOK'
  BY <1>1 DEF Inv, TypeOK
<1>3. Mapped' /\ Members' /\ FinalWrites' /\ Handling'
  BY DEF Inv, Mapped, Members, FinalWrites, Handling
<1>4. EditsAreSomewhere'
  BY <1>1 DEF Inv, EditsAreSomewhere
<1> QED
  BY <1>2, <1>3, <1>4 DEF Inv

LEMMA EvictedInv == ASSUME Inv, NEW r \in RoomId, Evicted(r) PROVE Inv'
<1> USE DEF Evicted
<1>1. pending = r /\ made = stored \cup has[r] /\ r # NoRoom
  BY RoomRegistryAssumption DEF Inv, FinalWrites, EditsAreSomewhere
<1>2. stored' = made /\ pending' = NoRoom
  BY <1>1
<1>3. \A q \in RoomId : q # r => state[q] # "evicting"
  BY <1>1 DEF Inv, FinalWrites
<1>4. \A q \in RoomId : state[q] # "live"
  BY <1>1 DEF Inv, FinalWrites
<1>5. TypeOK'
  BY <1>1 DEF Inv, TypeOK, Maybe, State
<1>6. Mapped'
  BY RoomRegistryAssumption DEF Inv, TypeOK, Mapped, Opening
<1>7. Members'
  BY DEF Inv, TypeOK, Members
<1>8. FinalWrites'
  BY <1>2, <1>3, RoomRegistryAssumption DEF Inv, TypeOK, FinalWrites
<1>9. EditsAreSomewhere' /\ Handling'
  BY <1>2, <1>4 DEF Inv, TypeOK, EditsAreSomewhere, Handling, Opening
<1> QED
  BY <1>5, <1>6, <1>7, <1>8, <1>9 DEF Inv

(* The process ends with every room it had, or comes back without any.      *)
LEMMA ProcessInv ==
  ASSUME Inv, (\E r \in RoomId : OpenFails(r)) \/ Restart
  PROVE  Inv'
<1>1. CASE \E r \in RoomId : OpenFails(r)
  <2>1. /\ up' = FALSE /\ rooms' = NoRoom /\ pending' = NoRoom /\ handler' = NoRoom
        /\ state' = [q \in RoomId |-> "none"] /\ waitsFor' = [q \in RoomId |-> NoRoom]
        /\ conns' = [q \in RoomId |-> {}] /\ has' = [q \in RoomId |-> {}]
        /\ observed' = {} /\ made' = stored /\ open' = {} /\ stored' = stored
        /\ pc' = [c \in Conn |-> "away"] /\ target' = [c \in Conn |-> NoRoom]
    BY <1>1 DEF OpenFails
  <2>2. TypeOK'
    BY <2>1 DEF Inv, TypeOK, Maybe, State, PC
  <2>3. Mapped' /\ Members'
    BY <2>1, RoomRegistryAssumption DEF Mapped, Members, Opening
  <2>4. FinalWrites' /\ EditsAreSomewhere' /\ Handling'
    BY <2>1, RoomRegistryAssumption DEF FinalWrites, EditsAreSomewhere, Handling
  <2> QED
    BY <2>2, <2>3, <2>4 DEF Inv
<1>2. CASE Restart
  BY <1>2
  DEF Restart, roomVars, Inv, TypeOK, Mapped, Members, FinalWrites, EditsAreSomewhere,
      Handling
<1> QED
  BY <1>1, <1>2

LEMMA NextInv == Inv /\ [Next]_vars => Inv'
<1> SUFFICES ASSUME Inv, [Next]_vars PROVE Inv'
  OBVIOUS
<1>1. CASE \E c \in Conn : ConnStep(c)
  BY <1>1, EnteringInv, OutsideInv, JoinInv, AttachInv, EditInv, CloseSocketInv, LeaveInv, LeaveLastInv
  DEF ConnStep
<1>2. CASE \E r \in RoomId : RoomStep(r)
  BY <1>2, WriteAwaitedInv, QueryFileInv, LoadInv, FlushInv, EvictedInv, ProcessInv
  DEF RoomStep
<1>3. CASE Restart
  BY <1>3, ProcessInv
<1>4. CASE UNCHANGED vars
  BY <1>4
  DEF vars, Inv, TypeOK, Mapped, Members, FinalWrites, EditsAreSomewhere, Handling
<1> QED
  BY <1>1, <1>2, <1>3, <1>4 DEF Next
-----------------------------------------------------------------------------
(* The invariant that carries the results below.                            *)
THEOREM Invariance == Spec => []Inv
BY InitInv, NextInv, PTL DEF Spec

(* Every variable keeps its shape, and what handlers and promises refer to  *)
(* is there.                                                                *)
THEOREM TypeCorrect == Spec => []TypeOK
<1>1. Inv => TypeOK
  BY DEF Inv
<1> QED
  BY <1>1, Invariance, PTL

(* joinRoom and leaveRoom: nobody is in a room that is being torn down, and *)
(* a document never has two rooms.                                          *)
THEOREM OneRoomPerDocument == Spec => []OneRoom
<1>1. Inv => OneRoom
  BY DEF Inv, TypeOK, Mapped, Members, OneRoom, Opening
<1> QED
  BY <1>1, Invariance, PTL

(* createRoom's wait for pendingWrites: no edit of an earlier room is       *)
(* missing from the room that opens after it.                               *)
THEOREM ReopeningIsComplete == Spec => []ReopenHasEverything
<1>1. Inv => ReopenHasEverything
  BY DEF Inv, EditsAreSomewhere, ReopenHasEverything
<1> QED
  BY <1>1, Invariance, PTL

(* leaveRoom's unsubscribeDoc before the final write: the handler on the    *)
(* bus is the current room's.                                               *)
THEOREM HandlerIsTheRooms == Spec => []BusFollowsRoom
<1>1. Inv => BusFollowsRoom
  BY DEF Inv, Handling, BusFollowsRoom
<1> QED
  BY <1>1, Invariance, PTL
=============================================================================
