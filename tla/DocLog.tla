------------------------------ MODULE DocLog ------------------------------
(***************************************************************************)
(* The update log of one document in PostgreSQL, as several server         *)
(* instances use it at once: postgresDocStore.ts (load, appendUpdate,      *)
(* writeSnapshot, readForCompaction, compact, countUpdates, deleteDoc),    *)
(* compactor.ts (maybeCompact, foldCandidate) and the part of createRoom   *)
(* that loads and seeds.  Every database round trip is a step of its own;  *)
(* what runs inside one transaction is one step.                           *)
(*                                                                         *)
(* A Yjs state is the set of updates applied to it: applyUpdate is union,  *)
(* which is all the store relies on (idempotent, order-free).              *)
(***************************************************************************)
EXTENDS Naturals, FiniteSets

CONSTANTS
  Instance,      \* server processes on one database
  Update,        \* payloads a flush appends
  Seed,          \* per instance, the update by which its room inserts File.content
  MaxId,         \* bound on the DocUpdate.id sequence
  CompactAfter   \* COMPACT_AFTER, in rows

ASSUME DocLogAssumption ==
  /\ \A i \in Instance : Seed[i] \notin Update
  /\ MaxId \in Nat
  /\ CompactAfter \in Nat

VARIABLES
  file,      \* the File row: "present", "deleted", or "purged" after deleteDoc
  rows,      \* committed DocUpdate rows
  snap,      \* the DocSnapshot row
  nextId,    \* next value of the DocUpdate.id sequence
  horizon,   \* every id at or below it was created before now - COMPACT_LAG_MS
  pc,        \* where each instance is in opening, flushing or compacting
  seen,      \* the snapshot an instance's load() has read
  inflight,  \* the INSERT an instance has issued and not heard back about
  cand,      \* the candidate an instance's compaction holds
  acked,     \* history: everything ever committed for this document
  late       \* history: first opens that another instance's seed has overtaken

vars == <<file, rows, snap, nextId, horizon, pc, seen, inflight, cand, acked, late>>
store == <<file, rows, snap, nextId, horizon, acked>>

Seeds == {Seed[i] : i \in Instance}
Content == Update \cup Seeds
Row == [id : 1..MaxId, update : Update]
Snapshot == [exists : BOOLEAN, updateId : 0..MaxId, content : SUBSET Content]
Candidate == [hadSnapshot : BOOLEAN, expected : 0..MaxId,
              content : SUBSET Content, through : 0..MaxId]

(* updateId 0 doubles as "snapshot?.updateId ?? 0n": ids start at 1. *)
NoSnapshot == [exists |-> FALSE, updateId |-> 0, content |-> {}]
NoCandidate == [hadSnapshot |-> FALSE, expected |-> 0, content |-> {}, through |-> 0]

PC == {"closed", "found", "snapshotRead", "seeding", "open",
       "appending", "appended", "counted", "candidate"}

Updates(R) == {r.update : r \in R}

(* The tail filter load() and readForCompaction() share. *)
TailGapped(watermark) == {r \in rows : r.id > watermark + 1}
RowsAfter(watermark) == {r \in rows : r.id > watermark}

(* What a complete read of the store rebuilds now. *)
Stored == snap.content \cup Updates(RowsAfter(snap.updateId))

(* What instance i's load() returns if its second query runs now. *)
Loaded(i) == seen[i].content \cup Updates(RowsAfter(seen[i].updateId))

(* An open that found no snapshot and has not decided, or has yet to seed. *)
FirstOpen(i) == pc[i] = "seeding" \/ (pc[i] = "snapshotRead" /\ ~seen[i].exists)

Init ==
  /\ file = "present"
  /\ rows = {}
  /\ snap = NoSnapshot
  /\ nextId = 1
  /\ horizon = 0
  /\ pc = [i \in Instance |-> "closed"]
  /\ seen = [i \in Instance |-> NoSnapshot]
  /\ inflight = [i \in Instance |-> 0]
  /\ cand = [i \in Instance |-> NoCandidate]
  /\ acked = {}
  /\ late = {}

Goto(i, label) == pc' = [pc EXCEPT ![i] = label]
-----------------------------------------------------------------------------
(* Opening a document: createRoom finds the File row ... *)
FindFile(i) ==
  /\ pc[i] = "closed" /\ file = "present"
  /\ Goto(i, "found")
  /\ UNCHANGED <<store, seen, inflight, cand, late>>

(* ... load() reads the snapshot ... *)
LoadSnapshot(i) ==
  /\ pc[i] = "found"
  /\ seen' = [seen EXCEPT ![i] = snap]
  /\ Goto(i, "snapshotRead")
  /\ UNCHANGED <<store, inflight, cand, late>>

(* ... and, in a second statement outside any transaction, the tail. *)
ExistsFromTailAlone(i) == RowsAfter(seen[i].updateId) # {}
Exists(i) == seen[i].exists \/ RowsAfter(seen[i].updateId) # {}

LoadRows(i) ==
  /\ pc[i] = "snapshotRead"
  /\ Goto(i, IF Exists(i) THEN "open" ELSE "seeding")
  /\ seen' = [seen EXCEPT ![i] = NoSnapshot]
  /\ late' = IF Exists(i) THEN late \ {i} ELSE late
  /\ UNCHANGED <<store, inflight, cand>>

(* writeSnapshot(seed, 0n): an upsert, whatever is there by now.  A second  *)
(* instance that read before this one wrote will seed as well, and replace. *)
SeedSnapshot(i) ==
  /\ pc[i] = "seeding"
  /\ snap' = [exists |-> TRUE, updateId |-> 0, content |-> {Seed[i]}]
  /\ acked' = acked \cup {Seed[i]}
  /\ late' = {j \in Instance \ {i} : FirstOpen(j)}
  /\ Goto(i, "open")
  /\ UNCHANGED <<file, rows, nextId, horizon, seen, inflight, cand>>
-----------------------------------------------------------------------------
(* appendUpdate: the sequence value is taken before the row is visible. *)
BeginAppend(i) ==
  /\ pc[i] = "open" /\ nextId <= MaxId
  /\ inflight' = [inflight EXCEPT ![i] = nextId]
  /\ nextId' = nextId + 1
  /\ Goto(i, "appending")
  /\ UNCHANGED <<file, rows, snap, horizon, seen, cand, acked, late>>

Commit(i, u) ==
  /\ rows' = rows \cup {[id |-> inflight[i], update |-> u]}
  /\ acked' = acked \cup {u}

CommitAppend(i) ==
  /\ pc[i] = "appending"
  /\ \E u \in Update : Commit(i, u)
  /\ inflight' = [inflight EXCEPT ![i] = 0]
  /\ Goto(i, "appended")
  /\ UNCHANGED <<file, snap, nextId, horizon, seen, cand, late>>

(* The append is reported as failed: the id is burnt, and the row may have *)
(* been committed all the same when only the answer was lost.              *)
FailAppend(i) ==
  /\ pc[i] = "appending"
  /\ \/ UNCHANGED <<rows, acked>>
     \/ \E u \in Update : Commit(i, u)
  /\ inflight' = [inflight EXCEPT ![i] = 0]
  /\ Goto(i, "open")
  /\ UNCHANGED <<file, snap, nextId, horizon, seen, cand, late>>

(* Time passes for the rows.  An INSERT is never COMPACT_LAG_MS old before *)
(* it commits: the margin compactor.ts states as its assumption.  Nor does *)
(* that much time pass between an open's reading nothing and its upsert:   *)
(* no row appended since ages meanwhile.  No code states this second one.  *)
Age ==
  /\ \A i \in Instance : ~FirstOpen(i)
  /\ \E h \in (horizon + 1)..(nextId - 1) :
       /\ \A i \in Instance : pc[i] = "appending" => h < inflight[i]
       /\ horizon' = h
  /\ UNCHANGED <<file, rows, snap, nextId, pc, seen, inflight, cand, acked, late>>
-----------------------------------------------------------------------------
(* maybeCompact, after every successful append: is the log long enough? *)
CountUpdates(i) ==
  /\ pc[i] = "appended"
  /\ Goto(i, IF Cardinality(rows) <= CompactAfter THEN "open" ELSE "counted")
  /\ UNCHANGED <<store, seen, inflight, cand, late>>

(* The rows a compaction may fold: the tail older than the cutoff. *)
EligibleWithoutCutoff == RowsAfter(snap.updateId)
Eligible == {r \in RowsAfter(snap.updateId) : r.id <= horizon}

(* foldCandidate: the snapshot, then the eligible rows. *)
Fold == snap.content \cup Updates(Eligible)

(* readForCompaction, one RepeatableRead transaction, then the fold. *)
ReadForCompaction(i) ==
  /\ pc[i] = "counted"
  /\ \E last \in Eligible :
       /\ \A r \in Eligible : r.id <= last.id
       /\ cand' = [cand EXCEPT ![i] =
            [hadSnapshot |-> snap.exists, expected |-> snap.updateId,
             content |-> Fold, through |-> last.id]]
  /\ Goto(i, "candidate")
  /\ UNCHANGED <<store, seen, inflight, late>>

NothingEligible(i) ==
  /\ pc[i] = "counted" /\ Eligible = {}
  /\ Goto(i, "open")
  /\ UNCHANGED <<store, seen, inflight, cand, late>>

(* The compare-and-set: updateMany on updateId, or the unique index when *)
(* no snapshot was there at read time.                                   *)
CasWins(c) ==
  IF c.hadSnapshot THEN snap.exists /\ snap.updateId = c.expected
                   ELSE ~snap.exists

(* deleteMany id <= throughUpdateId: what is left of the log. *)
Surviving(through) == {r \in rows : r.id > through}

(* compact() commits: snapshot replaced and folded rows deleted together. *)
Compact(i) ==
  /\ pc[i] = "candidate" /\ CasWins(cand[i])
  /\ snap' = [exists |-> TRUE, updateId |-> cand[i].through,
              content |-> cand[i].content]
  /\ rows' = Surviving(cand[i].through)
  /\ cand' = [cand EXCEPT ![i] = NoCandidate]
  /\ Goto(i, "open")
  /\ UNCHANGED <<file, nextId, horizon, seen, inflight, acked, late>>

LoseCas(i) ==
  /\ pc[i] = "candidate" /\ ~CasWins(cand[i])
  /\ cand' = [cand EXCEPT ![i] = NoCandidate]
  /\ Goto(i, "open")
  /\ UNCHANGED <<store, seen, inflight, late>>

(* Any of the three calls throws: writeBatch logs it and goes on. *)
FailCompaction(i) ==
  /\ pc[i] \in {"appended", "counted", "candidate"}
  /\ cand' = [cand EXCEPT ![i] = NoCandidate]
  /\ Goto(i, "open")
  /\ UNCHANGED <<store, seen, inflight, late>>
-----------------------------------------------------------------------------
(* The room is evicted after its last flush, or the process dies.  A row   *)
(* the database commits for a dead process is one committed just before.   *)
ForgetLocal(i) ==
  /\ Goto(i, "closed")
  /\ seen' = [seen EXCEPT ![i] = NoSnapshot]
  /\ inflight' = [inflight EXCEPT ![i] = 0]
  /\ cand' = [cand EXCEPT ![i] = NoCandidate]
  /\ late' = late \ {i}

Close(i) == pc[i] = "open" /\ ForgetLocal(i) /\ UNCHANGED store

Crash(i) == pc[i] # "closed" /\ ForgetLocal(i) /\ UNCHANGED store

(* deleteFile's transaction, and later its deleteDoc. *)
DeleteFile ==
  /\ file = "present" /\ file' = "deleted"
  /\ UNCHANGED <<rows, snap, nextId, horizon, pc, seen, inflight, cand, acked, late>>

DeleteDoc ==
  /\ file = "deleted" /\ file' = "purged"
  /\ rows' = {} /\ snap' = NoSnapshot
  /\ UNCHANGED <<nextId, horizon, pc, seen, inflight, cand, acked, late>>

Step(i) ==
  \/ FindFile(i) \/ LoadSnapshot(i) \/ LoadRows(i) \/ SeedSnapshot(i)
  \/ BeginAppend(i) \/ CommitAppend(i) \/ FailAppend(i)
  \/ CountUpdates(i) \/ ReadForCompaction(i) \/ NothingEligible(i)
  \/ Compact(i) \/ LoseCas(i) \/ FailCompaction(i)
  \/ Close(i) \/ Crash(i)

Next == (\E i \in Instance : Step(i)) \/ Age \/ DeleteFile \/ DeleteDoc

Spec == Init /\ [][Next]_vars
-----------------------------------------------------------------------------
(* Shapes of all variables; local state an instance is not using is reset. *)
TypeOK ==
  /\ file \in {"present", "deleted", "purged"}
  /\ rows \subseteq Row
  /\ snap \in Snapshot
  /\ nextId \in 1..(MaxId + 1)
  /\ horizon \in 0..MaxId
  /\ pc \in [Instance -> PC]
  /\ seen \in [Instance -> Snapshot]
  /\ inflight \in [Instance -> 0..MaxId]
  /\ cand \in [Instance -> Candidate]
  /\ acked \subseteq Content
  /\ late \subseteq Instance
  /\ \A i \in Instance :
       /\ pc[i] # "snapshotRead" => seen[i] = NoSnapshot
       /\ pc[i] # "appending" => inflight[i] = 0
       /\ pc[i] # "candidate" => cand[i] = NoCandidate

(* No committed row ever lies at or below the snapshot's watermark, where  *)
(* load()'s tail filter would hide it for good: "every row at or below is  *)
(* folded and deleted, every row above survives, there is no third case".  *)
SafePruning == \A r \in rows : r.id > snap.updateId

(* Every edit ever committed for a live file is still rebuilt by a complete *)
(* read, whichever instances append, compact, seed, race or die.            *)
Durable == file = "present" => acked \ Seeds \subseteq Stored

(* A compaction whose compare-and-set would win right now folds exactly    *)
(* the current snapshot and the rows it is about to delete.                *)
FoldCoversPrune ==
  file = "present" =>
    \A i \in Instance :
      pc[i] = "candidate" /\ CasWins(cand[i]) =>
        cand[i].content = snap.content \cup
          {r.update : r \in {s \in rows : s.id <= cand[i].through}}

(* File.content is seeded only into a document nothing is stored for, save  *)
(* by an open that had already found nothing when another instance's seed   *)
(* landed.  A second seed "needs a genuinely simultaneous first open"       *)
(* (docs/REALTIME.md:493); the snapshot of an empty document, a log         *)
(* compacted to nothing, a deletion or a crash never bring one about.       *)
SeedsOnlyNewDocuments ==
  \A i \in Instance \ late :
    pc[i] = "seeding" /\ file = "present" => ~snap.exists /\ rows = {}

(* While the file exists the watermark never moves back, and a snapshot    *)
(* that exists never disappears.                                           *)
WatermarkNeverRegresses ==
  [][file' = "present" =>
       /\ snap.updateId <= snap'.updateId
       /\ snap.exists => snap'.exists]_vars

(* The store keeps DurableDoc's promise: no edit is lost while the file      *)
(* lives, and a seed only to another seed, by the unconditional upsert of a  *)
(* simultaneous first open.                                                  *)
Promise == INSTANCE DurableDoc WITH saved <- Stored, live <- (file = "present")
KeepsPromise == Promise!AbsSpec

(* DocStore.ts: load() returns "the snapshot, then every update appended   *)
(* after it" -- so no committed update may be missing from its answer.     *)
LoadReturnsEverything ==
  [][\A i \in Instance :
       LoadRows(i) /\ file = "present" => Stored \subseteq Loaded(i)]_vars
=============================================================================
