------------------------- MODULE PersistenceProofs -------------------------
(***************************************************************************)
(* Proofs about DocLog, for any number of instances, any payloads, any     *)
(* sequence bound and any compaction threshold, and about WriteBuffer, for *)
(* any number of edits, failures and crashes.                              *)
(*                                                                         *)
(* One inductive invariant of DocLog says why the compaction protocol is   *)
(* sound:                                                                  *)
(*   - the horizon lies below every INSERT still in flight and above every *)
(*     watermark and every boundary a candidate will prune to;             *)
(*   - a candidate's read is stale only in ways the compare-and-set sees;  *)
(*   - while a document is new, everybody at it is still opening it;       *)
(*   - while an open that found nothing may yet seed, no row has aged and  *)
(*     no compaction holds anything, so that there is only a seed to lose. *)
(*                                                                         *)
(* Of WriteBuffer: the buffer drops nothing while the room exists, an edit *)
(* no flush has taken is always on the clock, and File.content keeps up.   *)
(***************************************************************************)
EXTENDS DocLog, WriteBuffer, TLAPS

IdBounds ==
  /\ horizon < nextId
  /\ snap.updateId <= horizon
  /\ \A i \in Instance :
       pc[i] = "appending" => horizon < inflight[i] /\ inflight[i] < nextId

CandidateSound ==
  \A i \in Instance : pc[i] = "candidate" =>
    /\ cand[i].expected < cand[i].through
    /\ cand[i].through <= horizon
    /\ file = "present" /\ cand[i].hadSnapshot =>
         snap.exists /\ cand[i].expected <= snap.updateId

NewDocument ==
  /\ ~snap.exists => snap = NoSnapshot
  /\ file = "present" /\ ~snap.exists =>
       /\ rows = {}
       /\ \A i \in Instance : pc[i] \in {"closed", "found", "snapshotRead", "seeding"}

SnapshotSeen ==
  file = "present" =>
    \A i \in Instance : pc[i] = "snapshotRead" =>
      /\ seen[i].exists => snap.exists
      /\ ~seen[i].exists => seen[i] = NoSnapshot
      /\ i \notin late => seen[i].exists = snap.exists

YoungLog ==
  file = "present" =>
    \A i \in Instance : FirstOpen(i) =>
      /\ snap.updateId = 0 /\ snap.content \subseteq Seeds
      /\ \A q \in rows : horizon < q.id
      /\ \A j \in Instance : pc[j] # "candidate"

Inv ==
  /\ TypeOK
  /\ IdBounds
  /\ SafePruning
  /\ CandidateSound
  /\ FoldCoversPrune
  /\ NewDocument
  /\ SeedsOnlyNewDocuments
  /\ SnapshotSeen
  /\ YoungLog
  /\ Durable
-----------------------------------------------------------------------------
(* The initial states satisfy the invariant. *)
LEMMA InitInv == Init => Inv
<1> SUFFICES ASSUME Init PROVE Inv
  OBVIOUS
<1> USE DocLogAssumption DEF Init
<1>1. TypeOK
  BY DEF TypeOK, NoSnapshot, NoCandidate, Snapshot, Candidate, PC
<1>2. IdBounds /\ SafePruning /\ CandidateSound /\ FoldCoversPrune
  BY DEF IdBounds, SafePruning, CandidateSound, FoldCoversPrune, NoSnapshot
<1>3. NewDocument /\ SeedsOnlyNewDocuments /\ SnapshotSeen /\ YoungLog /\ Durable
  BY DEF NewDocument, SeedsOnlyNewDocuments, SnapshotSeen, YoungLog, FirstOpen, Durable
<1> QED
  BY <1>1, <1>2, <1>3 DEF Inv

(* The reset values have the right shape. *)
LEMMA ResetShape == NoSnapshot \in Snapshot /\ NoCandidate \in Candidate
BY DocLogAssumption DEF NoSnapshot, Snapshot, NoCandidate, Candidate

(* A step that only moves one instance to a label where it holds nothing:  *)
(* most of the protocol's failures, losses and exits are of this kind.     *)
LEMMA IdleStepInv ==
  ASSUME Inv, NEW i \in Instance, NEW label \in {"closed", "found", "open", "counted"},
         Goto(i, label), UNCHANGED store,
         seen' = [seen EXCEPT ![i] = NoSnapshot],
         inflight' = [inflight EXCEPT ![i] = 0],
         cand' = [cand EXCEPT ![i] = NoCandidate],
         late' = late \/ late' = late \ {i},
         \/ label \in {"closed", "found"}
         \/ pc[i] \in {"appending", "appended", "counted", "candidate"}
         \/ file = "present" => snap.exists
  PROVE  Inv'
<1> USE DocLogAssumption DEF Goto, store
<1>1. TypeOK'
  <2>1. pc' \in [Instance -> PC]
    BY DEF Inv, TypeOK, PC
  <2>2. /\ seen' \in [Instance -> Snapshot]
        /\ inflight' \in [Instance -> 0..MaxId]
        /\ cand' \in [Instance -> Candidate]
    BY ResetShape DEF Inv, TypeOK
  <2> QED
    BY <2>1, <2>2 DEF Inv, TypeOK
<1>2. (IdBounds /\ SafePruning /\ CandidateSound)'
  BY DEF Inv, TypeOK, IdBounds, SafePruning, CandidateSound
<1>3. FoldCoversPrune'
  BY DEF Inv, TypeOK, FoldCoversPrune, CasWins
<1>4. (NewDocument /\ SeedsOnlyNewDocuments /\ SnapshotSeen /\ YoungLog)'
  BY DEF Inv, TypeOK, NewDocument, SeedsOnlyNewDocuments, SnapshotSeen,
         YoungLog, FirstOpen
<1>5. Durable'
  BY DEF Inv, Durable, Stored, RowsAfter, Updates
<1> QED
  BY <1>1, <1>2, <1>3, <1>4, <1>5 DEF Inv

(* What an instance is not using is already reset. *)
LEMMA Unused ==
  ASSUME TypeOK, NEW i \in Instance
  PROVE  /\ pc[i] # "snapshotRead" => seen = [seen EXCEPT ![i] = NoSnapshot]
         /\ pc[i] # "appending" => inflight = [inflight EXCEPT ![i] = 0]
         /\ pc[i] # "candidate" => cand = [cand EXCEPT ![i] = NoCandidate]
BY DEF TypeOK

LEMMA IdleActionsInv ==
  ASSUME Inv, NEW i \in Instance,
         \/ FindFile(i) \/ CountUpdates(i) \/ NothingEligible(i)
         \/ LoseCas(i) \/ FailCompaction(i) \/ Close(i) \/ Crash(i)
  PROVE  Inv'
<1>0. TypeOK
  BY DEF Inv
<1>1. CASE FindFile(i)
  BY <1>0, <1>1, Unused, IdleStepInv DEF FindFile
<1>2. CASE CountUpdates(i) \/ NothingEligible(i)
  BY <1>0, <1>2, Unused, IdleStepInv DEF CountUpdates, NothingEligible
<1>3. CASE LoseCas(i) \/ FailCompaction(i)
  BY <1>0, <1>3, Unused, IdleStepInv DEF LoseCas, FailCompaction
<1>4. CASE Close(i) \/ Crash(i)
  BY <1>4, IdleStepInv DEF Close, Crash, ForgetLocal
<1> QED
  BY <1>1, <1>2, <1>3, <1>4

-----------------------------------------------------------------------------
(* Opening: load() reads the snapshot, then the rows; then perhaps seeds. *)
LEMMA LoadSnapshotInv ==
  ASSUME Inv, NEW i \in Instance, LoadSnapshot(i) PROVE Inv'
<1> USE DocLogAssumption DEF LoadSnapshot, Goto, store
<1>1. TypeOK'
  BY DEF Inv, TypeOK, PC
<1>2. (IdBounds /\ SafePruning /\ CandidateSound)'
  BY DEF Inv, TypeOK, IdBounds, SafePruning, CandidateSound
<1>3. FoldCoversPrune'
  BY DEF Inv, TypeOK, FoldCoversPrune, CasWins
<1>4. (NewDocument /\ SeedsOnlyNewDocuments /\ SnapshotSeen)'
  BY DEF Inv, TypeOK, NewDocument, SeedsOnlyNewDocuments, SnapshotSeen
<1>5. YoungLog'
  <2> SUFFICES ASSUME file = "present", NEW j \in Instance, FirstOpen(j)'
               PROVE  /\ snap.updateId = 0 /\ snap.content \subseteq Seeds
                      /\ \A q \in rows : horizon < q.id
                      /\ \A k \in Instance : pc[k] # "candidate"
    BY DEF Inv, TypeOK, YoungLog
  <2>1. CASE j = i
    BY <2>1 DEF Inv, TypeOK, NewDocument, FirstOpen, NoSnapshot
  <2>2. CASE j # i
    BY <2>2 DEF Inv, TypeOK, YoungLog, FirstOpen
  <2> QED
    BY <2>1, <2>2
<1>6. Durable'
  BY DEF Inv, Durable, Stored, RowsAfter, Updates
<1> QED
  BY <1>1, <1>2, <1>3, <1>4, <1>5, <1>6 DEF Inv

LEMMA LoadRowsInv ==
  ASSUME Inv, NEW i \in Instance, LoadRows(i) PROVE Inv'
<1> USE DocLogAssumption DEF LoadRows, Goto, store
<1>1. TypeOK'
  BY ResetShape DEF Inv, TypeOK, PC
<1>2. (IdBounds /\ SafePruning /\ CandidateSound)'
  BY DEF Inv, TypeOK, IdBounds, SafePruning, CandidateSound
<1>3. FoldCoversPrune'
  BY DEF Inv, TypeOK, FoldCoversPrune, CasWins
<1>4. NewDocument'
  BY DEF Inv, TypeOK, NewDocument, SnapshotSeen, Exists, RowsAfter
<1>5. SeedsOnlyNewDocuments'
  BY DEF Inv, TypeOK, SeedsOnlyNewDocuments, SnapshotSeen, Exists, RowsAfter,
         NoSnapshot, Row
<1>6. (SnapshotSeen /\ YoungLog)'
  BY DEF Inv, TypeOK, SnapshotSeen, YoungLog, FirstOpen, Exists
<1>7. Durable'
  BY DEF Inv, Durable, Stored, RowsAfter, Updates
<1> QED
  BY <1>1, <1>2, <1>3, <1>4, <1>5, <1>6, <1>7 DEF Inv

(* What a seed replaces is nothing, or another seed. *)
LEMMA SeedReplacesSeeds ==
  ASSUME Inv, NEW i \in Instance, SeedSnapshot(i), file = "present"
  PROVE  /\ Stored' = (Stored \ Seeds) \cup {Seed[i]}
         /\ snap.updateId = 0
<1>1. snap.updateId = 0 /\ snap.content \subseteq Seeds
  BY DEF Inv, YoungLog, FirstOpen, SeedSnapshot
<1>2. \A q \in rows : q.update \in Update /\ q.update \notin Seeds
  BY DocLogAssumption DEF Inv, TypeOK, Row, Seeds
<1>3. Stored = snap.content \cup {q.update : q \in RowsAfter(0)}
  BY <1>1 DEF Stored, Updates
<1>4. Stored' = {Seed[i]} \cup {q.update : q \in RowsAfter(0)}
  BY DEF SeedSnapshot, Stored, Updates, RowsAfter
<1>5. RowsAfter(0) \subseteq rows
  BY DEF RowsAfter
<1> QED
  BY <1>1, <1>2, <1>3, <1>4, <1>5

LEMMA SeedSnapshotInv ==
  ASSUME Inv, NEW i \in Instance, SeedSnapshot(i) PROVE Inv'
<1> USE DocLogAssumption DEF SeedSnapshot, Goto
<1>0. Seed[i] \in Seeds
  BY DEF Seeds
<1>1. TypeOK'
  BY <1>0 DEF Inv, TypeOK, PC, Snapshot, Content
<1>2. (IdBounds /\ SafePruning)'
  BY DEF Inv, TypeOK, IdBounds, SafePruning, Row
<1>3. (CandidateSound /\ FoldCoversPrune)'
  BY DEF Inv, TypeOK, CandidateSound, FoldCoversPrune, CasWins, YoungLog, FirstOpen
<1>4. (NewDocument /\ SeedsOnlyNewDocuments)'
  BY DEF Inv, TypeOK, NewDocument, SeedsOnlyNewDocuments, FirstOpen
<1>5. (SnapshotSeen /\ YoungLog)'
  BY <1>0 DEF Inv, TypeOK, SnapshotSeen, YoungLog, FirstOpen
<1>6. Durable'
  BY <1>0, SeedReplacesSeeds DEF Inv, Durable
<1> QED
  BY <1>1, <1>2, <1>3, <1>4, <1>5, <1>6 DEF Inv
-----------------------------------------------------------------------------
(* Appending. *)
LEMMA BeginAppendInv ==
  ASSUME Inv, NEW i \in Instance, BeginAppend(i) PROVE Inv'
<1> USE DocLogAssumption DEF BeginAppend, Goto
<1>1. TypeOK'
  BY DEF Inv, TypeOK, PC
<1>2. IdBounds'
  BY DEF Inv, TypeOK, IdBounds
<1>3. (SafePruning /\ CandidateSound)'
  BY DEF Inv, TypeOK, SafePruning, CandidateSound
<1>4. FoldCoversPrune'
  BY DEF Inv, TypeOK, FoldCoversPrune, CasWins
<1>5. (NewDocument /\ SeedsOnlyNewDocuments /\ SnapshotSeen /\ YoungLog)'
  BY DEF Inv, TypeOK, NewDocument, SeedsOnlyNewDocuments, SnapshotSeen,
         YoungLog, FirstOpen
<1>6. Durable'
  BY DEF Inv, Durable, Stored, RowsAfter, Updates
<1> QED
  BY <1>1, <1>2, <1>3, <1>4, <1>5, <1>6 DEF Inv

(* A committed row is one a complete read returns from then on. *)
LEMMA CommitStores ==
  ASSUME Inv, NEW i \in Instance, pc[i] = "appending",
         NEW u \in Update, Commit(i, u), UNCHANGED snap
  PROVE  Stored' = Stored \cup {u}
<1> DEFINE new == [id |-> inflight[i], update |-> u]
<1>1. new.update = u /\ new.id > snap.updateId
  BY DocLogAssumption DEF Inv, TypeOK, IdBounds, Snapshot
<1>2. rows' = rows \cup {new} /\ snap' = snap
  BY DEF Commit
<1> HIDE DEF new
<1>3. {r \in rows' : r.id > snap.updateId} = RowsAfter(snap.updateId) \cup {new}
  BY <1>1, <1>2 DEF RowsAfter
<1>4. {r.update : r \in RowsAfter(snap.updateId) \cup {new}}
        = Updates(RowsAfter(snap.updateId)) \cup {u}
  BY <1>1 DEF Updates
<1>5. Stored' = snap.content \cup {r.update : r \in {q \in rows' : q.id > snap.updateId}}
  BY <1>2 DEF Stored, RowsAfter, Updates
<1> QED
  BY <1>3, <1>4, <1>5 DEF Stored

(* A row that becomes visible does so above the horizon, hence above the   *)
(* watermark and above every boundary a candidate holds.                   *)
LEMMA CommitInv ==
  ASSUME Inv, NEW i \in Instance, pc[i] = "appending",
         NEW u \in Update, Commit(i, u),
         inflight' = [inflight EXCEPT ![i] = 0],
         NEW label \in {"appended", "open"}, Goto(i, label),
         UNCHANGED <<file, snap, nextId, horizon, seen, cand, late>>
  PROVE  Inv'
<1> USE DocLogAssumption DEF Commit, Goto
<1>1. horizon < inflight[i] /\ inflight[i] \in 1..MaxId
  BY DEF Inv, TypeOK, IdBounds
<1>2. TypeOK'
  <2>1. rows' \subseteq Row /\ acked' \subseteq Content
    BY <1>1 DEF Inv, TypeOK, Row, Content
  <2>2. pc' \in [Instance -> PC] /\ inflight' \in [Instance -> 0..MaxId]
    BY DEF Inv, TypeOK, PC
  <2> QED
    BY <2>1, <2>2 DEF Inv, TypeOK
<1>3. (IdBounds /\ SafePruning /\ CandidateSound)'
  BY <1>1 DEF Inv, TypeOK, IdBounds, SafePruning, CandidateSound, Snapshot
<1>4. FoldCoversPrune'
  BY <1>1 DEF Inv, TypeOK, FoldCoversPrune, CandidateSound, CasWins, Candidate, Row
<1>5. (NewDocument /\ SeedsOnlyNewDocuments /\ SnapshotSeen /\ YoungLog)'
  BY <1>1 DEF Inv, TypeOK, NewDocument, SeedsOnlyNewDocuments, SnapshotSeen,
         YoungLog, FirstOpen
<1>6. Durable'
  <2>1. Stored' = Stored \cup {u}
    BY CommitStores
  <2> QED
    BY <2>1 DEF Inv, Durable
<1> QED
  BY <1>2, <1>3, <1>4, <1>5, <1>6 DEF Inv

LEMMA CommitAppendInv ==
  ASSUME Inv, NEW i \in Instance, CommitAppend(i) PROVE Inv'
BY CommitInv DEF CommitAppend

LEMMA FailAppendInv ==
  ASSUME Inv, NEW i \in Instance, FailAppend(i) PROVE Inv'
<1>1. CASE UNCHANGED <<rows, acked>>
  <2>1. TypeOK
    BY DEF Inv
  <2> QED
    BY <1>1, <2>1, Unused, IdleStepInv DEF FailAppend, store
<1>2. CASE \E u \in Update : Commit(i, u)
  BY <1>2, CommitInv DEF FailAppend
<1> QED
  BY <1>1, <1>2 DEF FailAppend
-----------------------------------------------------------------------------
(* Compacting. *)
LEMMA ReadForCompactionInv ==
  ASSUME Inv, NEW i \in Instance, ReadForCompaction(i) PROVE Inv'
<1> USE DocLogAssumption DEF Goto, store
<1>1. PICK last \in Eligible :
        /\ \A r \in Eligible : r.id <= last.id
        /\ cand' = [cand EXCEPT ![i] =
             [hadSnapshot |-> snap.exists, expected |-> snap.updateId,
              content |-> Fold, through |-> last.id]]
  BY DEF ReadForCompaction
<1>2. /\ pc[i] = "counted" /\ Goto(i, "candidate")
      /\ UNCHANGED <<store, seen, inflight, late>>
  BY DEF ReadForCompaction
<1>3. last \in rows /\ snap.updateId < last.id /\ last.id <= horizon
  BY DEF Inv, TypeOK, Eligible, RowsAfter, Row, Snapshot
<1>4. Fold = snap.content \cup {r.update : r \in {s \in rows : s.id <= last.id}}
  BY <1>1, <1>3 DEF Inv, TypeOK, SafePruning, Fold, Updates, Eligible, RowsAfter,
                    Row, Snapshot
<1>5. TypeOK'
  <2>1. [hadSnapshot |-> snap.exists, expected |-> snap.updateId,
         content |-> Fold, through |-> last.id] \in Candidate
    <3>1. Fold \subseteq Content
      BY <1>4 DEF Inv, TypeOK, Row, Snapshot, Content
    <3> QED
      BY <1>3, <3>1 DEF Inv, TypeOK, Candidate, Row, Snapshot
  <2>2. cand' \in [Instance -> Candidate] /\ pc' \in [Instance -> PC]
    BY <1>1, <1>2, <2>1 DEF Inv, TypeOK, PC
  <2> QED
    BY <1>1, <1>2, <2>2 DEF Inv, TypeOK
<1>6. (IdBounds /\ SafePruning)'
  BY <1>2 DEF Inv, TypeOK, IdBounds, SafePruning
<1>7. CandidateSound'
  BY <1>1, <1>2, <1>3 DEF Inv, TypeOK, CandidateSound, Snapshot
<1>8. FoldCoversPrune'
  BY <1>1, <1>2, <1>4 DEF Inv, TypeOK, FoldCoversPrune, CasWins
<1>9. (NewDocument /\ SeedsOnlyNewDocuments /\ SnapshotSeen)'
  BY <1>2 DEF Inv, TypeOK, NewDocument, SeedsOnlyNewDocuments, SnapshotSeen
<1>10. YoungLog'
  <2>1. last.id \in Nat /\ horizon \in Nat
    BY <1>3 DEF Inv, TypeOK, Row
  <2>2. file = "present" => \A j \in Instance : ~FirstOpen(j)
    BY <1>3, <2>1 DEF Inv, YoungLog
  <2> QED
    BY <1>2, <2>2 DEF Inv, TypeOK, YoungLog, FirstOpen
<1>11. Durable'
  BY <1>2 DEF Inv, Durable, Stored, RowsAfter, Updates
<1> QED
  BY <1>5, <1>6, <1>7, <1>8, <1>9, <1>10, <1>11 DEF Inv

(* What a compaction that wins rebuilds is what was there before it. *)
LEMMA CompactKeepsStored ==
  ASSUME Inv, NEW i \in Instance, Compact(i), file = "present"
  PROVE  Stored' = Stored
<1>1. cand[i].content = snap.content \cup
        {r.update : r \in {s \in rows : s.id <= cand[i].through}}
  BY DEF Inv, FoldCoversPrune, Compact
<1>2. Stored' = cand[i].content \cup
        {r.update : r \in {s \in rows : s.id > cand[i].through}}
  BY DEF Compact, Surviving, Stored, RowsAfter, Updates
<1>3. Stored = snap.content \cup {r.update : r \in rows}
  BY DEF Inv, SafePruning, Stored, RowsAfter, Updates
<1>4. \A r \in rows : r.id \in Nat
  BY DocLogAssumption DEF Inv, TypeOK, Row
<1>5. cand[i].through \in Nat
  BY DocLogAssumption DEF Inv, TypeOK, Candidate
<1> QED
  BY <1>1, <1>2, <1>3, <1>4, <1>5

LEMMA CompactInv ==
  ASSUME Inv, NEW i \in Instance, Compact(i) PROVE Inv'
<1> USE DocLogAssumption DEF Compact, Goto
<1>1. /\ cand[i] \in Candidate
      /\ cand[i].expected < cand[i].through
      /\ cand[i].through <= horizon
  BY DEF Inv, TypeOK, CandidateSound
<1>2. TypeOK'
  <2>1. snap' \in Snapshot /\ rows' \subseteq Row
    BY <1>1 DEF Inv, TypeOK, Snapshot, Candidate, Surviving
  <2>2. pc' \in [Instance -> PC] /\ cand' \in [Instance -> Candidate]
    BY ResetShape DEF Inv, TypeOK, PC
  <2> QED
    BY <2>1, <2>2 DEF Inv, TypeOK
<1>3. (IdBounds /\ SafePruning)'
  BY <1>1 DEF Inv, TypeOK, IdBounds, SafePruning, Surviving
<1>4. CandidateSound'
  BY <1>1 DEF Inv, TypeOK, CandidateSound, CasWins, Candidate
<1>5. FoldCoversPrune'
  BY <1>1 DEF Inv, TypeOK, FoldCoversPrune, CandidateSound, CasWins, Candidate
<1>6. (NewDocument /\ SeedsOnlyNewDocuments /\ SnapshotSeen /\ YoungLog)'
  BY DEF Inv, TypeOK, NewDocument, SeedsOnlyNewDocuments, SnapshotSeen, CasWins,
         YoungLog, FirstOpen
<1>7. Durable'
  BY CompactKeepsStored DEF Inv, Durable
<1> QED
  BY <1>2, <1>3, <1>4, <1>5, <1>6, <1>7 DEF Inv
-----------------------------------------------------------------------------
(* Steps of the environment: time, and the deletion of the file. *)
LEMMA AgeInv == ASSUME Inv, Age PROVE Inv'
<1> USE DocLogAssumption DEF Age
<1>1. TypeOK'
  BY DEF Inv, TypeOK
<1>2. IdBounds'
  BY DEF Inv, TypeOK, IdBounds, Snapshot
<1>3. (SafePruning /\ CandidateSound)'
  BY DEF Inv, TypeOK, SafePruning, CandidateSound, Candidate
<1>4. (FoldCoversPrune /\ Durable)'
  BY DEF Inv, FoldCoversPrune, CasWins, Durable, Stored, RowsAfter, Updates
<1>5. (NewDocument /\ SeedsOnlyNewDocuments /\ SnapshotSeen /\ YoungLog)'
  BY DEF Inv, NewDocument, SeedsOnlyNewDocuments, SnapshotSeen,
         YoungLog, FirstOpen
<1> QED
  BY <1>1, <1>2, <1>3, <1>4, <1>5 DEF Inv

LEMMA DeletionInv == ASSUME Inv, DeleteFile \/ DeleteDoc PROVE Inv'
<1> USE DocLogAssumption DEF DeleteFile, DeleteDoc
<1>1. TypeOK'
  BY ResetShape DEF Inv, TypeOK
<1>2. (IdBounds /\ SafePruning /\ CandidateSound)'
  BY DEF Inv, TypeOK, IdBounds, SafePruning, CandidateSound, NoSnapshot
<1>3. (FoldCoversPrune /\ SeedsOnlyNewDocuments /\ SnapshotSeen /\ YoungLog /\ Durable)'
  BY DEF FoldCoversPrune, SeedsOnlyNewDocuments, SnapshotSeen, YoungLog, Durable
<1>4. NewDocument'
  BY DEF Inv, NewDocument
<1> QED
  BY <1>1, <1>2, <1>3, <1>4 DEF Inv
-----------------------------------------------------------------------------
LEMMA StutterInv == ASSUME Inv, UNCHANGED vars PROVE Inv'
BY DEF vars, Inv, TypeOK, IdBounds, SafePruning, CandidateSound, FoldCoversPrune,
       CasWins, NewDocument, SeedsOnlyNewDocuments, SnapshotSeen, YoungLog,
       FirstOpen, Durable,
       Stored, RowsAfter, Updates

LEMMA NextInv == Inv /\ [Next]_vars => Inv'
<1> SUFFICES ASSUME Inv, [Next]_vars PROVE Inv'
  OBVIOUS
<1>1. CASE \E i \in Instance : Step(i)
  <2>1. PICK i \in Instance : Step(i)
    BY <1>1
  <2>2. CASE \/ FindFile(i) \/ CountUpdates(i) \/ NothingEligible(i)
             \/ LoseCas(i) \/ FailCompaction(i) \/ Close(i) \/ Crash(i)
    BY <2>2, IdleActionsInv
  <2>3. CASE LoadSnapshot(i) \/ LoadRows(i) \/ SeedSnapshot(i)
    BY <2>3, LoadSnapshotInv, LoadRowsInv, SeedSnapshotInv
  <2>4. CASE BeginAppend(i) \/ CommitAppend(i) \/ FailAppend(i)
    BY <2>4, BeginAppendInv, CommitAppendInv, FailAppendInv
  <2>5. CASE ReadForCompaction(i) \/ Compact(i)
    BY <2>5, ReadForCompactionInv, CompactInv
  <2> QED
    BY <2>1, <2>2, <2>3, <2>4, <2>5 DEF Step
<1>2. CASE Age
  BY <1>2, AgeInv
<1>3. CASE DeleteFile \/ DeleteDoc
  BY <1>3, DeletionInv
<1>4. CASE UNCHANGED vars
  BY <1>4, StutterInv
<1> QED
  BY <1>1, <1>2, <1>3, <1>4 DEF Next

(* The invariant that carries the results below. *)
THEOREM Invariance == Spec => []Inv
BY InitInv, NextInv, PTL DEF Spec

(* Every variable keeps its shape. *)
THEOREM LogTypes == Spec => []TypeOK
<1>1. Inv => TypeOK
  BY DEF Inv
<1> QED
  BY <1>1, Invariance, PTL

(* postgresDocStore.ts, compact: no row is left where load()'s filter would *)
(* hide it, whatever the number of instances and their timing.              *)
THEOREM PruningIsSafe == Spec => []SafePruning
<1>1. Inv => SafePruning
  BY DEF Inv
<1> QED
  BY <1>1, Invariance, PTL

(* No edit ever committed for a live file is lost to a compaction, a       *)
(* second seed, a crash or a race: foldCandidate and the compare-and-set   *)
(* together, and a first open that seeds within COMPACT_LAG_MS.            *)
THEOREM NothingCommittedIsLost == Spec => []Durable
<1>1. Inv => Durable
  BY DEF Inv
<1> QED
  BY <1>1, Invariance, PTL

(* "The bytes about to be deleted are exactly the bytes folded here".      *)
THEOREM FoldIsExact == Spec => []FoldCoversPrune
<1>1. Inv => FoldCoversPrune
  BY DEF Inv
<1> QED
  BY <1>1, Invariance, PTL

(* createRoom seeds from File.content a document something is stored for   *)
(* only when its open had found nothing before another instance's seed     *)
(* landed: two first opens of the same moment, and nothing else.           *)
THEOREM SeedingIsSafe == Spec => []SeedsOnlyNewDocuments
<1>1. Inv => SeedsOnlyNewDocuments
  BY DEF Inv
<1> QED
  BY <1>1, Invariance, PTL
-----------------------------------------------------------------------------
(* While the file lives, the watermark only ever advances. *)
LEMMA StepAdvances ==
  ASSUME Inv, [Next]_vars, file' = "present"
  PROVE  snap.updateId <= snap'.updateId /\ (snap.exists => snap'.exists)
<1> USE DocLogAssumption
<1>1. snap.updateId \in Nat
  BY DEF Inv, TypeOK, Snapshot
<1>2. CASE UNCHANGED snap
  BY <1>1, <1>2
<1>3. ASSUME NEW i \in Instance, SeedSnapshot(i)
      PROVE  snap.updateId <= snap'.updateId /\ (snap.exists => snap'.exists)
  BY <1>3, SeedReplacesSeeds DEF SeedSnapshot
<1>4. ASSUME NEW i \in Instance, Compact(i)
      PROVE  snap.updateId <= snap'.updateId /\ (snap.exists => snap'.exists)
  <2>1. cand[i].expected < cand[i].through /\ cand[i] \in Candidate
    BY <1>4 DEF Inv, TypeOK, CandidateSound, Compact
  <2>2. snap.exists => snap.updateId = cand[i].expected
    BY <1>4 DEF Compact, CasWins
  <2>3. ~snap.exists => snap.updateId = 0
    BY DEF Inv, NewDocument, NoSnapshot
  <2> QED
    BY <1>1, <1>4, <2>1, <2>2, <2>3 DEF Compact, Candidate
<1> QED
  BY <1>2, <1>3, <1>4
  DEF Next, Step, vars, store, FindFile, LoadSnapshot, LoadRows, BeginAppend,
      CommitAppend, FailAppend, CountUpdates, ReadForCompaction, NothingEligible,
      LoseCas, FailCompaction, Close, Crash, Age, DeleteFile, DeleteDoc

(* The snapshot's watermark never regresses and a snapshot never vanishes. *)
THEOREM WatermarkAdvances == Spec => WatermarkNeverRegresses
<1>1. Inv /\ [Next]_vars =>
        [file' = "present" =>
           /\ snap.updateId <= snap'.updateId
           /\ snap.exists => snap'.exists]_vars
  BY StepAdvances
<1> QED
  BY <1>1, Invariance, PTL DEF Spec, WatermarkNeverRegresses
-----------------------------------------------------------------------------
(* Refinement: the log keeps DurableDoc's promise. *)
(* An instance's step either leaves Stored alone, or saves one update, or  *)
(* puts its seed in place of others', or happens after the file is gone.   *)
LEMMA StepPromise ==
  ASSUME Inv, Inv', NEW i \in Instance, Step(i)
  PROVE  [Promise!AbsNext]_(Promise!absVars)
<1> USE DEF Promise!absVars, Promise!AbsNext
<1>0. Stored' \subseteq Content
  BY DEF Inv, TypeOK, Row, Snapshot, Content, Stored, RowsAfter, Updates
<1>1. file' = file
  BY DEF Step, store, FindFile, LoadSnapshot, LoadRows, SeedSnapshot, BeginAppend,
         CommitAppend, FailAppend, CountUpdates, ReadForCompaction, NothingEligible,
         Compact, LoseCas, FailCompaction, Close, Crash
<1>2. CASE file # "present"
  BY <1>0, <1>1, <1>2 DEF Promise!Forget
<1>3. CASE file = "present"
  <2>1. CASE UNCHANGED <<rows, snap>>
    BY <1>1, <2>1 DEF Stored, RowsAfter, Updates
  <2>2. ASSUME NEW u \in Content, Stored' = Stored \cup {u}
        PROVE  Promise!AbsNext
    BY <1>1, <1>3, <2>2 DEF Promise!Save
  <2>3. CASE SeedSnapshot(i)
    <3>1. Stored' = (Stored \ Seeds) \cup {Seed[i]} /\ Seed[i] \in Seeds
      BY <1>3, <2>3, SeedReplacesSeeds DEF Seeds
    <3> QED
      BY <1>1, <1>3, <3>1 DEF Promise!Reseed
  <2>4. CASE CommitAppend(i) \/ FailAppend(i)
    <3>1. CASE \E u \in Update : Commit(i, u)
      <4>1. PICK u \in Update : Commit(i, u)
        BY <3>1
      <4>2. Stored' = Stored \cup {u}
        BY <2>4, <4>1, CommitStores DEF CommitAppend, FailAppend
      <4> QED
        BY <2>2, <4>2 DEF Content
    <3> QED
      BY <2>1, <2>4, <3>1 DEF CommitAppend, FailAppend
  <2>5. CASE Compact(i)
    BY <1>1, <1>3, <2>5, CompactKeepsStored
  <2> QED
    BY <2>1, <2>3, <2>4, <2>5
    DEF Step, store, FindFile, LoadSnapshot, LoadRows, BeginAppend, CountUpdates,
        ReadForCompaction, NothingEligible, LoseCas, FailCompaction, Close, Crash
<1> QED
  BY <1>2, <1>3

LEMMA NextPromise ==
  ASSUME Inv, Inv', [Next]_vars PROVE [Promise!AbsNext]_(Promise!absVars)
<1> USE DEF Promise!absVars, Promise!AbsNext
<1>1. CASE \E i \in Instance : Step(i)
  BY <1>1, StepPromise
<1>2. CASE Age \/ UNCHANGED vars
  BY <1>2 DEF Age, vars, Stored, RowsAfter, Updates
<1>3. CASE DeleteFile
  BY <1>3 DEF DeleteFile, Promise!Delete, Stored, RowsAfter, Updates
<1>4. CASE DeleteDoc
  <2>1. Stored' = {}
    BY <1>4 DEF DeleteDoc, Stored, RowsAfter, Updates, NoSnapshot
  <2> QED
    BY <1>4, <2>1 DEF DeleteDoc, Promise!Forget
<1> QED
  BY <1>1, <1>2, <1>3, <1>4 DEF Next

(* PostgreSQL rows, snapshots, watermarks and compaction implement a store *)
(* that forgets nothing of a document whose file exists but a seed that    *)
(* another has replaced.                                                   *)
THEOREM LogKeepsPromise == Spec => KeepsPromise
<1>1. Init => Promise!AbsInit
  BY DEF Init, Promise!AbsInit, Stored, RowsAfter, Updates, NoSnapshot
<1>2. Inv /\ Inv' /\ [Next]_vars => [Promise!AbsNext]_(Promise!absVars)
  BY NextPromise
<1> QED
  BY <1>1, <1>2, Invariance, PTL DEF Spec, KeepsPromise, Promise!AbsSpec
-----------------------------------------------------------------------------

(* What the write in progress has already achieved. *)
RunningBatch ==
  /\ stage # "idle" => chain # <<>>
  /\ stage \in {"committed", "materializing", "compacting"} => Head(chain) \subseteq Logged

Closed ==
  phase = "closed" => doc = {} /\ buffered = {} /\ chain = <<>> /\ stage = "idle"

(* Edits are numbered: what exists was made. *)
Made ==
  /\ doc \subseteq 1..edits /\ Logged \subseteq 1..edits
  /\ content \subseteq 1..edits /\ text \subseteq 1..edits
  /\ stage = "materializing" => content \cap doc \subseteq text

BufferInv ==
  /\ BufferTypeOK
  /\ InChain \subseteq attempted
  /\ RunningBatch
  /\ Closed
  /\ NothingDropped
  /\ NewEditsAreOnTheClock
  /\ Made
-----------------------------------------------------------------------------
(* Sequences of sets: what Append, Tail and Head do to their union. *)
LEMMA UnionAppend ==
  ASSUME NEW S, NEW s \in Seq(S), NEW x \in S
  PROVE  /\ Append(s, x) \in Seq(S) /\ Append(s, x) # <<>>
         /\ UNION Range(Append(s, x)) = (UNION Range(s)) \cup x
<1>1. /\ Append(s, x) \in Seq(S) /\ Append(s, x) # <<>>
      /\ DOMAIN Append(s, x) = 1..(Len(s) + 1) /\ DOMAIN s = 1..Len(s)
      /\ Len(s) \in Nat
  OBVIOUS
<1>2. /\ \A k \in 1..Len(s) : Append(s, x)[k] = s[k]
      /\ Append(s, x)[Len(s) + 1] = x
  OBVIOUS
<1>3. Range(Append(s, x)) = Range(s) \cup {x}
  BY <1>1, <1>2 DEF Range
<1> QED
  BY <1>1, <1>3

LEMMA UnionTail ==
  ASSUME NEW S, NEW s \in Seq(S), s # <<>>
  PROVE  /\ Tail(s) \in Seq(S) /\ Head(s) \in S
         /\ UNION Range(s) = Head(s) \cup (UNION Range(Tail(s)))
<1>1. /\ Tail(s) \in Seq(S) /\ Head(s) \in S /\ Head(s) = s[1]
      /\ DOMAIN s = 1..Len(s) /\ Len(s) \in Nat \ {0}
      /\ DOMAIN Tail(s) = 1..(Len(s) - 1)
  OBVIOUS
<1>2. \A k \in 1..(Len(s) - 1) : Tail(s)[k] = s[k + 1]
  OBVIOUS
<1>3. Range(s) = {Head(s)} \cup Range(Tail(s))
  <2>1. ASSUME NEW k \in 1..Len(s) PROVE s[k] \in {Head(s)} \cup Range(Tail(s))
    <3>1. CASE k = 1
      BY <1>1, <3>1
    <3>2. CASE k # 1
      <4>1. k - 1 \in 1..(Len(s) - 1) /\ Tail(s)[k - 1] = s[k]
        BY <1>1, <1>2, <3>2
      <4> QED
        BY <1>1, <4>1 DEF Range
    <3> QED
      BY <3>1, <3>2
  <2>2. ASSUME NEW k \in 1..(Len(s) - 1) PROVE Tail(s)[k] \in Range(s)
    BY <1>1, <1>2 DEF Range
  <2>3. Head(s) \in Range(s)
    BY <1>1 DEF Range
  <2> QED
    BY <1>1, <2>1, <2>2, <2>3 DEF Range
<1> QED
  BY <1>1, <1>3

LEMMA UnionEmpty == UNION Range(<<>>) = {}
BY DEF Range
-----------------------------------------------------------------------------
LEMMA BufferInitInv == BufferInit => BufferInv
<1> SUFFICES ASSUME BufferInit PROVE BufferInv
  OBVIOUS
<1>1. Logged = {} /\ InChain = {}
  BY UnionEmpty DEF BufferInit, Logged, InChain
<1>2. BufferTypeOK
  <2>1. <<>> \in Seq(SUBSET Edits)
    OBVIOUS
  <2>2. NoRun \in Run
    BY DEF NoRun, Run
  <2>3. [failures |-> 0, crashes |-> 0] \in [failures : 0..MaxFailures, crashes : 0..MaxCrashes]
    BY WriteBufferAssumption
  <2> QED
    <3>1. edits \in 0..MaxEdits
      BY WriteBufferAssumption DEF BufferInit
    <3> QED
      BY <2>1, <2>2, <2>3, <3>1 DEF BufferInit, BufferTypeOK, Stage
<1>3. RunningBatch /\ Closed /\ NothingDropped /\ NewEditsAreOnTheClock /\ Made
  BY <1>1 DEF BufferInit, RunningBatch, Closed, NothingDropped, NewEditsAreOnTheClock, Made
<1> QED
  BY <1>1, <1>2, <1>3 DEF BufferInv

(* A flush moves the buffer to the end of the chain; `waiting' may contain  *)
(* an edit made in the same step.                                           *)
LEMMA CaptureInv ==
  ASSUME BufferInv, NEW waiting \in SUBSET Edits, Capture(waiting),
         phase = "live", phase' \in {"live", "evicting"},
         doc' = doc \cup waiting, buffered \subseteq waiting,
         edits' \in 0..MaxEdits, edits <= edits', waiting \subseteq 1..edits',
         waiting \cap content \subseteq doc,
         final' \subseteq Edits, run' \in Run,
         UNCHANGED <<stage, text, db, faults>>
  PROVE  BufferInv'
<1> USE DEF Capture, Chained, TimerAfterFlush, db
<1>1. /\ chain' \in Seq(SUBSET Edits) /\ chain' # <<>>
      /\ InChain' = InChain \cup waiting
  <2>1. chain \in Seq(SUBSET Edits) /\ waiting \in SUBSET Edits
    BY DEF BufferInv, BufferTypeOK
  <2>2. /\ Append(chain, waiting) \in Seq(SUBSET Edits)
        /\ Append(chain, waiting) # <<>>
        /\ UNION Range(Append(chain, waiting)) = (UNION Range(chain)) \cup waiting
    <3> DEFINE S == SUBSET Edits
    <3>1. chain \in Seq(S) /\ waiting \in S
      BY <2>1
    <3> HIDE DEF S
    <3>2. /\ Append(chain, waiting) \in Seq(S) /\ Append(chain, waiting) # <<>>
          /\ UNION Range(Append(chain, waiting)) = (UNION Range(chain)) \cup waiting
      BY <3>1, UnionAppend
    <3> QED
      BY <3>2 DEF S
  <2> QED
    BY <2>2 DEF InChain
<1>2. Logged' = Logged
  BY DEF Logged
<1>3. BufferTypeOK'
  BY <1>1 DEF BufferInv, BufferTypeOK
<1>4. RunningBatch'
  <2>1. chain # <<>> => Head(chain') = Head(chain)
    BY DEF BufferInv, BufferTypeOK
  <2> QED
    BY <1>1, <1>2, <2>1 DEF BufferInv, RunningBatch
<1>5. (Closed /\ NothingDropped /\ NewEditsAreOnTheClock)'
  BY <1>1, <1>2 DEF BufferInv, Closed, NothingDropped, NewEditsAreOnTheClock
<1>6. Made'
  BY <1>2 DEF BufferInv, BufferTypeOK, Made
<1> QED
  BY <1>1, <1>3, <1>4, <1>5, <1>6 DEF BufferInv

LEMMA EditInv == ASSUME BufferInv, Edit PROVE BufferInv'
<1> DEFINE waiting == buffered \cup {edits + 1}
<1> USE DEF Edit, Edits
<1>1. edits + 1 \in Edits /\ edits + 1 \notin content /\ edits \in Nat
  BY WriteBufferAssumption DEF BufferInv, BufferTypeOK, Made
<1>2. buffered \subseteq doc
  BY DEF BufferInv, NothingDropped
<1>3. CASE Cardinality(waiting) >= FlushAt
  <2>1. Capture(waiting) /\ doc' = doc \cup waiting
    BY <1>2, <1>3
  <2>2. /\ waiting \in SUBSET Edits /\ waiting \subseteq 1..edits'
        /\ edits' \in 0..MaxEdits /\ edits <= edits'
        /\ waiting \cap content \subseteq doc
    BY <1>1, <1>2, WriteBufferAssumption DEF BufferInv, BufferTypeOK, Made
  <2>3. final' \subseteq Edits /\ run' \in Run
    BY DEF BufferInv, BufferTypeOK
  <2> QED
    BY <2>1, <2>2, <2>3, CaptureInv
<1>4. CASE ~(Cardinality(waiting) >= FlushAt)
  <2>1. /\ buffered' = waiting /\ timer' = TRUE
        /\ UNCHANGED <<chain, attempted, phase, stage, text, log, content, run,
                       final, faults>>
    BY <1>4 DEF Armed, db
  <2>2. Logged' = Logged /\ InChain' = InChain
    BY <2>1 DEF Logged, InChain
  <2>3. BufferTypeOK'
    BY <1>1, <2>1, WriteBufferAssumption DEF BufferInv, BufferTypeOK
  <2>4. (RunningBatch /\ Closed /\ NothingDropped /\ NewEditsAreOnTheClock)'
    BY <2>1, <2>2 DEF BufferInv, RunningBatch, Closed, NothingDropped, NewEditsAreOnTheClock
  <2>5. Made'
    BY <1>1, <2>1, <2>2, WriteBufferAssumption DEF BufferInv, BufferTypeOK, Made
  <2> QED
    BY <2>1, <2>2, <2>3, <2>4, <2>5 DEF BufferInv
<1> QED
  BY <1>3, <1>4

(* The flushes that take exactly the buffer. *)
LEMMA FlushInv ==
  ASSUME BufferInv, phase = "live", Capture(buffered), phase' \in {"live", "evicting"},
         final' \subseteq Edits, run' \in Run,
         UNCHANGED <<doc, edits, stage, text, db, faults>>
  PROVE  BufferInv'
<1>1. buffered \subseteq doc /\ doc \subseteq 1..edits /\ edits \in 0..MaxEdits
  BY DEF BufferInv, NothingDropped, Made, BufferTypeOK
<1>2. edits <= edits
  BY <1>1, WriteBufferAssumption
<1>3. buffered \in SUBSET Edits
  BY DEF BufferInv, BufferTypeOK
<1>4. buffered \subseteq 1..edits' /\ edits' \in 0..MaxEdits /\ edits <= edits'
  BY <1>1, <1>2
<1>5. doc' = doc \cup buffered /\ buffered \cap content \subseteq doc
  BY <1>1
<1> QED
  BY <1>3, <1>4, <1>5, CaptureInv

LEMMA ForcedFlushInv ==
  ASSUME BufferInv, TimerFires \/ Evict \/ StartRun PROVE BufferInv'
<1>1. CASE TimerFires
  <2>1. phase = "live" /\ final' \subseteq Edits /\ run' \in Run
    BY <1>1 DEF TimerFires, BufferInv, BufferTypeOK
  <2> QED
    BY <1>1, <2>1, FlushInv DEF TimerFires
<1>2. CASE Evict
  <2>1. final' \subseteq Edits /\ run' \in Run
    BY <1>2 DEF Evict, BufferInv, BufferTypeOK
  <2> QED
    BY <1>2, <2>1, FlushInv DEF Evict
<1>3. CASE StartRun
  <2>1. run' \in Run /\ final' \subseteq Edits
    <3>1. Len(chain) + 1 \in Nat /\ doc \in SUBSET Edits /\ final' \subseteq Edits
      BY <1>3 DEF StartRun, BufferInv, BufferTypeOK
    <3>2. CASE phase = "live"
      <4>1. run' = [waiting |-> TRUE, ahead |-> Len(chain) + 1, wants |-> doc,
                    open |-> TRUE]
        BY <1>3, <3>2 DEF StartRun, EarlierAndOwn
      <4> QED
        BY <3>1, <4>1 DEF Run
    <3>3. CASE phase # "live"
      <4>1. run' = [waiting |-> TRUE, ahead |-> 0, wants |-> doc, open |-> FALSE]
        BY <1>3, <3>3 DEF StartRun
      <4> QED
        BY <3>1, <4>1 DEF Run
    <3> QED
      BY <3>2, <3>3
  <2>2. CASE phase = "live"
    BY <1>3, <2>1, <2>2, FlushInv DEF StartRun
  <2>3. CASE phase # "live"
    BY <1>3, <2>1, <2>3
    DEF StartRun, db, BufferInv, BufferTypeOK, RunningBatch, Closed, NothingDropped,
        NewEditsAreOnTheClock, Made, Logged, InChain
  <2> QED
    BY <2>2, <2>3
<1> QED
  BY <1>1, <1>2, <1>3
-----------------------------------------------------------------------------
(* The end of a writeBatch, when its batch is logged or back in the buffer. *)
LEMMA FinishInv ==
  ASSUME BufferInv, Finish, chain # <<>>,
         buffered' \in {buffered, Head(chain) \cup buffered},
         Head(chain) \subseteq Logged \cup buffered',
         phase # "closed",
         faults' \in [failures : 0..MaxFailures, crashes : 0..MaxCrashes],
         UNCHANGED <<phase, doc, edits, timer, db, attempted, final>>
  PROVE  BufferInv'
<1> USE DEF Finish, db
<1>1. /\ chain' \in Seq(SUBSET Edits) /\ Head(chain) \in SUBSET Edits
      /\ InChain = Head(chain) \cup InChain'
  BY UnionTail DEF BufferInv, BufferTypeOK, InChain
<1>2. Logged' = Logged
  BY DEF Logged
<1>3. run' \in Run
  <2>1. run \in Run /\ (run.ahead # 0 => run.ahead - 1 \in Nat)
    BY DEF BufferInv, BufferTypeOK, Run
  <2> QED
    BY <2>1 DEF Run
<1>4. BufferTypeOK'
  BY <1>1, <1>3 DEF BufferInv, BufferTypeOK, Stage
<1>5. (RunningBatch /\ Closed /\ NothingDropped)'
  BY <1>1, <1>2 DEF BufferInv, RunningBatch, Closed, NothingDropped
<1>6. (NewEditsAreOnTheClock /\ Made)'
  BY <1>1, <1>2 DEF BufferInv, BufferTypeOK, NewEditsAreOnTheClock, Made
<1> QED
  BY <1>1, <1>4, <1>5, <1>6 DEF BufferInv

LEMMA BatchEndsInv ==
  ASSUME BufferInv, SkipEmpty \/ AppendFails \/ Compacts PROVE BufferInv'
<1>0. chain # <<>> => phase # "closed"
  BY DEF BufferInv, Closed
<1>1. CASE SkipEmpty
  <2>1. faults' \in [failures : 0..MaxFailures, crashes : 0..MaxCrashes]
    BY <1>1 DEF SkipEmpty, BufferInv, BufferTypeOK
  <2> QED
    BY <1>0, <1>1, <2>1, FinishInv DEF SkipEmpty
<1>2. CASE AppendFails
  <2>1. faults' \in [failures : 0..MaxFailures, crashes : 0..MaxCrashes]
    BY <1>2, WriteBufferAssumption DEF AppendFails, CallFails, BufferInv, BufferTypeOK
  <2>2. chain # <<>> /\ buffered' = Head(chain) \cup buffered
    BY <1>2 DEF AppendFails, Requeued, BufferInv, RunningBatch
  <2> QED
    BY <1>0, <1>2, <2>1, <2>2, FinishInv DEF AppendFails
<1>3. CASE Compacts
  <2>1. faults' \in [failures : 0..MaxFailures, crashes : 0..MaxCrashes]
    BY <1>3 DEF Compacts, BufferInv, BufferTypeOK
  <2>2. chain # <<>> /\ Head(chain) \subseteq Logged
    BY <1>3 DEF Compacts, BufferInv, RunningBatch
  <2> QED
    BY <1>0, <1>3, <2>1, <2>2, FinishInv DEF Compacts
<1> QED
  BY <1>1, <1>2, <1>3

LEMMA AppendCommitsInv == ASSUME BufferInv, AppendCommits PROVE BufferInv'
<1> USE DEF AppendCommits
<1>1. chain # <<>> /\ chain \in Seq(SUBSET Edits) /\ log \in Seq(SUBSET Edits)
  BY DEF BufferInv, BufferTypeOK, RunningBatch
<1>2. Head(chain) \in SUBSET Edits /\ InChain = Head(chain) \cup (UNION Range(Tail(chain)))
  BY <1>1, UnionTail DEF InChain
<1>3. log' \in Seq(SUBSET Edits) /\ Logged' = Logged \cup Head(chain)
  BY <1>1, <1>2, UnionAppend DEF Logged
<1>4. InChain' = InChain
  BY DEF InChain
<1>5. BufferTypeOK'
  BY <1>3 DEF BufferInv, BufferTypeOK, Stage
<1>6. (RunningBatch /\ Closed /\ NothingDropped)'
  BY <1>1, <1>2, <1>3, <1>4 DEF BufferInv, RunningBatch, Closed, NothingDropped
<1>7. (NewEditsAreOnTheClock /\ Made)'
  BY <1>2, <1>3, <1>6 DEF BufferInv, NewEditsAreOnTheClock, NothingDropped, Closed, Made
<1> QED
  BY <1>4, <1>5, <1>6, <1>7 DEF BufferInv

(* The other steps of a writeBatch leave the log and the chain alone. *)
LEMMA BatchStepsInv ==
  ASSUME BufferInv, StartAppend \/ AppendReturns \/ Materializes \/ MaterializeFails
  PROVE  BufferInv'
<1> USE DEF StartAppend, AppendReturns, Materializes, MaterializeFails, TextNow, db
<1>1. Logged' = Logged /\ InChain' = InChain
  BY DEF Logged, InChain
<1>2. BufferTypeOK'
  BY WriteBufferAssumption DEF BufferInv, BufferTypeOK, Stage, CallFails
<1>3. (RunningBatch /\ Closed)'
  BY <1>1 DEF BufferInv, RunningBatch, Closed
<1>4. (NothingDropped /\ NewEditsAreOnTheClock)'
  BY <1>1 DEF BufferInv, NothingDropped, NewEditsAreOnTheClock
<1>5. Made'
  BY <1>1 DEF BufferInv, Made
<1> QED
  BY <1>1, <1>2, <1>3, <1>4, <1>5 DEF BufferInv
-----------------------------------------------------------------------------
LEMMA LifecycleInv == ASSUME BufferInv, Detach \/ BufferCrash \/ Reopen PROVE BufferInv'
<1>1. Logged' = Logged
  BY DEF Logged, db, Detach, BufferCrash, Reopen
<1>2. CASE Detach
  <2>1. stage = "idle"
    BY <1>2 DEF Detach, Drained, BufferInv, RunningBatch
  <2> QED
    BY <1>1, <1>2, <2>1, UnionEmpty
    DEF Detach, Drained, ForgetRoom, db, BufferInv, BufferTypeOK, RunningBatch, Closed,
        NothingDropped, NewEditsAreOnTheClock, Made, InChain
<1>3. CASE BufferCrash
  <2>1. BufferTypeOK'
    <3>1. NoRun \in Run /\ <<>> \in Seq(SUBSET Edits)
      BY DEF NoRun, Run
    <3>2. faults' \in [failures : 0..MaxFailures, crashes : 0..MaxCrashes]
      BY <1>3, WriteBufferAssumption DEF BufferCrash, BufferInv, BufferTypeOK
    <3> QED
      BY <1>3, <3>1, <3>2 DEF BufferCrash, ForgetRoom, db, BufferInv, BufferTypeOK, Stage
  <2>2. InChain' = {}
    BY <1>3, UnionEmpty DEF BufferCrash, InChain
  <2> QED
    BY <1>1, <1>3, <2>1, <2>2
    DEF BufferCrash, ForgetRoom, db, BufferInv, RunningBatch, Closed, NothingDropped,
        NewEditsAreOnTheClock, Made
<1>4. CASE Reopen
  <2>1. /\ chain = <<>> /\ buffered = {} /\ stage = "idle"
        /\ UNCHANGED <<chain, buffered, stage, edits, timer, text, log, content,
                       attempted, run, final, faults>>
    BY <1>4 DEF Reopen, db, BufferInv, Closed
  <2>2. InChain' = {}
    BY <2>1, UnionEmpty DEF InChain
  <2>3. phase' = "live" /\ doc' = Logged
    BY <1>4 DEF Reopen
  <2>4. Logged \subseteq Edits /\ ~timer
    <3>1. Logged \subseteq 1..edits /\ edits \in 0..MaxEdits
      BY DEF BufferInv, BufferTypeOK, Made
    <3>2. ~timer
      BY <1>4 DEF Reopen, BufferInv, BufferTypeOK
    <3> QED
      BY <3>1, <3>2, WriteBufferAssumption DEF Edits
  <2>5. BufferTypeOK'
    BY <2>1, <2>3, <2>4 DEF BufferInv, BufferTypeOK
  <2>6. (RunningBatch /\ Closed /\ NothingDropped /\ NewEditsAreOnTheClock /\ Made)'
    BY <1>1, <2>1, <2>2, <2>3
    DEF BufferInv, RunningBatch, Closed, NothingDropped, NewEditsAreOnTheClock, Made
  <2> QED
    BY <2>2, <2>5, <2>6 DEF BufferInv
<1> QED
  BY <1>2, <1>3, <1>4
-----------------------------------------------------------------------------
LEMMA BufferStutterInv == ASSUME BufferInv, UNCHANGED bufferVars PROVE BufferInv'
BY DEF bufferVars, BufferInv, BufferTypeOK, RunningBatch, Closed, NothingDropped,
       NewEditsAreOnTheClock, Made, Logged, InChain

LEMMA RunReadsInv == ASSUME BufferInv, RunReads PROVE BufferInv'
<1>1. NoRun \in Run
  BY DEF NoRun, Run
<1> QED
  BY <1>1
  DEF RunReads, db, BufferInv, BufferTypeOK, RunningBatch, Closed, NothingDropped,
      NewEditsAreOnTheClock, Made, Logged, InChain

LEMMA BufferNextInv == BufferInv /\ [BufferNext]_bufferVars => BufferInv'
<1> SUFFICES ASSUME BufferInv, [BufferNext]_bufferVars PROVE BufferInv'
  OBVIOUS
<1>1. CASE Edit
  BY <1>1, EditInv
<1>2. CASE TimerFires \/ Evict \/ StartRun
  BY <1>2, ForcedFlushInv
<1>3. CASE RunReads
  BY <1>3, RunReadsInv
<1>4. CASE WriteBatch
  BY <1>4, BatchEndsInv, AppendCommitsInv, BatchStepsInv DEF WriteBatch
<1>5. CASE Detach \/ BufferCrash \/ Reopen
  BY <1>5, LifecycleInv
<1>6. CASE UNCHANGED bufferVars
  BY <1>6, BufferStutterInv
<1> QED
  BY <1>1, <1>2, <1>3, <1>4, <1>5, <1>6 DEF BufferNext

(* The invariant that carries the results below. *)
THEOREM BufferInvariance == BufferSpec => []BufferInv
BY BufferInitInv, BufferNextInv, PTL DEF BufferSpec

(* Every variable keeps its shape, and the flush timer never runs for      *)
(* nothing.                                                                *)
THEOREM BufferTypes == BufferSpec => []BufferTypeOK
<1>1. BufferInv => BufferTypeOK
  BY DEF BufferInv
<1> QED
  BY <1>1, BufferInvariance, PTL

(* writeBatch and flush: every edit of an open document is logged, in a    *)
(* batch or in the buffer, whatever appends fail.                          *)
THEOREM BufferDropsNothing == BufferSpec => []NothingDropped
<1>1. BufferInv => NothingDropped
  BY DEF BufferInv
<1> QED
  BY <1>1, BufferInvariance, PTL

(* onUpdate: an edit no flush has taken yet has a clock running for it.    *)
THEOREM ClockRuns == BufferSpec => []NewEditsAreOnTheClock
<1>1. BufferInv => NewEditsAreOnTheClock
  BY DEF BufferInv
<1> QED
  BY <1>1, BufferInvariance, PTL

(* materializeContent only ever writes a text that has every edit the      *)
(* document and the previous text share.                                   *)
THEOREM ProjectionKeepsUp == BufferSpec => ContentKeepsUp
<1>1. ASSUME BufferInv, [BufferNext]_bufferVars PROVE content \cap doc \subseteq content'
  <2>1. CASE Materializes
    <3>1. content' = text /\ stage = "materializing"
      BY <2>1 DEF Materializes
    <3>2. content \cap doc \subseteq text
      BY <1>1, <3>1 DEF BufferInv, Made
    <3> QED
      BY <3>1, <3>2
  <2>2. CASE UNCHANGED content
    BY <2>2
  <2> QED
    BY <1>1, <2>1, <2>2
    DEF BufferNext, WriteBatch, bufferVars, db, Edit, TimerFires, Evict, StartRun, RunReads,
        SkipEmpty, StartAppend, AppendCommits, AppendReturns, AppendFails,
        MaterializeFails, Compacts, Detach, BufferCrash, Reopen
<1>2. BufferInv /\ [BufferNext]_bufferVars => [content \cap doc \subseteq content']_bufferVars
  BY <1>1
<1> QED
  BY <1>2, BufferInvariance, PTL DEF BufferSpec, ContentKeepsUp
-----------------------------------------------------------------------------
(* Until a call fails: batches hold edits in the order they were made, ...   *)
Ordered ==
  /\ \A i, j \in 1..Len(chain) : i < j => \A d \in chain[i], e \in chain[j] : d < e
  /\ \A d \in InChain \cup Logged, e \in buffered : d < e
  /\ \A i \in 1..Len(chain) : (i > 1 \/ stage \in {"idle", "appending"}) =>
       \A d \in Logged, e \in chain[i] : d < e

(* ... what is logged is in File.content or about to be, ...                 *)
Projected ==
  /\ Logged \subseteq content \cup InChain
  /\ stage = "materializing" => Head(chain) \subseteq text
  /\ stage = "compacting" => Head(chain) \subseteq content

(* ... a room that is being evicted has nothing left to flush, ...           *)
Flushed == phase = "evicting" => buffered = {}

(* ... and a run finds what it wants in File.content once the batches it     *)
(* waits for are through.                                                    *)
RunIsServed ==
  run.waiting /\ run.open =>
    /\ run.ahead <= Len(chain)
    /\ \A e \in run.wants : e \in content \/ \E i \in 1..run.ahead : e \in chain[i]
    /\ run.wants \subseteq IF phase = "closed" THEN Logged ELSE doc

CalmInv == Calm => Ordered /\ Projected /\ Flushed /\ RunIsServed

LEMMA Batches ==
  ASSUME NEW S, NEW s \in Seq(S)
  PROVE  /\ Len(s) \in Nat /\ \A i \in 1..Len(s) : s[i] \in S
         /\ \A e : e \in UNION Range(s) <=> \E i \in 1..Len(s) : e \in s[i]
         /\ s # <<>> => /\ Len(s) >= 1 /\ Head(s) = s[1]
                        /\ Len(Tail(s)) = Len(s) - 1
                        /\ \A i \in 1..(Len(s) - 1) : Tail(s)[i] = s[i + 1]
         /\ s = <<>> => Len(s) = 0
<1>1. Len(s) \in Nat /\ DOMAIN s = 1..Len(s) /\ \A i \in 1..Len(s) : s[i] \in S
  OBVIOUS
<1>2. \A e : e \in UNION Range(s) <=> \E i \in 1..Len(s) : e \in s[i]
  BY <1>1 DEF Range
<1>3. s # <<>> => /\ Len(s) >= 1 /\ Head(s) = s[1]
                  /\ Len(Tail(s)) = Len(s) - 1
                  /\ \A i \in 1..(Len(s) - 1) : Tail(s)[i] = s[i + 1]
  OBVIOUS
<1>4. s = <<>> => Len(s) = 0
  OBVIOUS
<1> QED
  BY <1>1, <1>2, <1>3, <1>4

(* The facts about the present state that the steps below use.               *)
LEMMA Now ==
  ASSUME BufferInv
  PROVE  /\ Len(chain) \in Nat /\ \A i \in 1..Len(chain) : chain[i] \subseteq Edits
         /\ \A e : e \in InChain <=> \E i \in 1..Len(chain) : e \in chain[i]
         /\ chain # <<>> => Len(chain) >= 1 /\ Head(chain) = chain[1]
         /\ chain = <<>> => Len(chain) = 0
         /\ run.ahead \in Nat /\ run.waiting \in BOOLEAN /\ run.open \in BOOLEAN
         /\ edits \in Nat /\ edits <= MaxEdits /\ Edits \subseteq Nat
         /\ doc \subseteq 1..edits /\ Logged \subseteq 1..edits
         /\ phase # "closed" => doc = Logged \cup InChain \cup buffered
<1> DEFINE S == SUBSET Edits
<1>1. chain \in Seq(S)
  BY DEF BufferInv, BufferTypeOK
<1> HIDE DEF S
<1>2. /\ Len(chain) \in Nat /\ \A i \in 1..Len(chain) : chain[i] \in S
      /\ \A e : e \in InChain <=> \E i \in 1..Len(chain) : e \in chain[i]
      /\ chain # <<>> => Len(chain) >= 1 /\ Head(chain) = chain[1]
      /\ chain = <<>> => Len(chain) = 0
  BY <1>1, Batches DEF InChain
<1>3. run.ahead \in Nat /\ run.waiting \in BOOLEAN /\ run.open \in BOOLEAN
  BY DEF BufferInv, BufferTypeOK, Run
<1>4. /\ edits \in Nat /\ edits <= MaxEdits /\ Edits \subseteq Nat
      /\ doc \subseteq 1..edits /\ Logged \subseteq 1..edits
  BY WriteBufferAssumption DEF BufferInv, BufferTypeOK, Made, Edits
<1>5. phase # "closed" => doc = Logged \cup InChain \cup buffered
  BY DEF BufferInv, NothingDropped
<1> QED
  BY <1>2, <1>3, <1>4, <1>5 DEF S

LEMMA CaptureCalm ==
  ASSUME BufferInv, Ordered, Projected, RunIsServed,
         NEW waiting \in SUBSET Edits, Capture(waiting),
         phase = "live", phase' \in {"live", "evicting"}, doc' = doc \cup waiting,
         \A d \in InChain \cup Logged, e \in waiting : d < e,
         UNCHANGED <<stage, text, db>>
  PROVE  /\ Ordered' /\ Projected' /\ Flushed'
         /\ run' = run => RunIsServed'
         /\ Len(chain') = Len(chain) + 1 /\ InChain' = InChain \cup waiting
         /\ \A i \in 1..Len(chain') : chain'[i] \subseteq InChain'
         /\ \A e \in InChain' : \E i \in 1..Len(chain') : e \in chain'[i]
<1>1. /\ buffered' = {} /\ chain' = Append(chain, waiting)
      /\ Logged' = Logged /\ content' = content /\ stage' = stage /\ text' = text
  BY DEF Capture, Chained, Logged, db
<1>2. /\ Len(chain') = Len(chain) + 1 /\ chain'[Len(chain) + 1] = waiting
      /\ \A i \in 1..Len(chain) : chain'[i] = chain[i]
      /\ chain # <<>> => Head(chain') = Head(chain)
  BY <1>1 DEF BufferInv, BufferTypeOK
<1> DEFINE S == SUBSET Edits
<1>3. chain \in Seq(S) /\ waiting \in S
  BY DEF BufferInv, BufferTypeOK
<1> HIDE DEF S
<1>4. chain' \in Seq(S) /\ InChain' = InChain \cup waiting
  <2>1. /\ Append(chain, waiting) \in Seq(S)
        /\ UNION Range(Append(chain, waiting)) = (UNION Range(chain)) \cup waiting
    BY <1>3, UnionAppend
  <2> QED
    BY <1>1, <2>1 DEF InChain
<1>5. \A e : e \in InChain' <=> \E i \in 1..Len(chain') : e \in chain'[i]
  BY <1>4, Batches DEF InChain
<1>6. Ordered'
  <2>1. ASSUME NEW i \in 1..Len(chain'), NEW j \in 1..Len(chain'), i < j
        PROVE  \A d \in chain'[i], e \in chain'[j] : d < e
    <3>1. i \in 1..Len(chain) /\ chain'[i] = chain[i]
      BY <1>2, <2>1, Now
    <3>2. CASE j \in 1..Len(chain)
      BY <1>2, <2>1, <3>1, <3>2 DEF Ordered
    <3>3. CASE j = Len(chain) + 1
      <4>1. chain'[j] = waiting /\ chain[i] \subseteq InChain
        BY <1>2, <3>1, <3>3, Now
      <4> QED
        BY <3>1, <4>1
    <3> QED
      BY <1>2, <3>2, <3>3, Now
  <2>2. ASSUME NEW i \in 1..Len(chain'), i > 1 \/ stage' \in {"idle", "appending"}
        PROVE  \A d \in Logged', e \in chain'[i] : d < e
    <3>1. CASE i \in 1..Len(chain)
      BY <1>1, <1>2, <2>2, <3>1 DEF Ordered
    <3>2. CASE i = Len(chain) + 1
      BY <1>1, <1>2, <3>2
    <3> QED
      BY <1>2, <3>1, <3>2, Now
  <2> QED
    BY <1>1, <2>1, <2>2 DEF Ordered
<1>7. Projected'
  BY <1>1, <1>2, <1>4 DEF Projected, BufferInv, RunningBatch
<1>8. ASSUME run' = run PROVE RunIsServed'
  <2>1. \A i \in 1..run.ahead : run.ahead <= Len(chain) => chain'[i] = chain[i]
    BY <1>2, Now
  <2>2. run.waiting /\ run.open => run.ahead <= Len(chain')
    BY <1>2, Now DEF RunIsServed
  <2> QED
    BY <1>1, <1>8, <2>1, <2>2 DEF RunIsServed
<1> QED
  BY <1>1, <1>2, <1>4, <1>5, <1>6, <1>7, <1>8 DEF Flushed

LEMMA EditCalm == ASSUME BufferInv, Ordered, Projected, Flushed, RunIsServed, Edit
                  PROVE  Ordered' /\ Projected' /\ Flushed' /\ RunIsServed'
<1> DEFINE waiting == buffered \cup {edits + 1}
<1>1. /\ phase = "live" /\ phase' = "live" /\ doc' = doc \cup {edits + 1}
      /\ UNCHANGED <<stage, text, db, run>> /\ edits + 1 \in Edits
  BY Now, WriteBufferAssumption DEF Edit, Edits
<1>2. /\ buffered \subseteq doc /\ InChain \subseteq doc /\ Logged \subseteq doc
      /\ \A d \in doc : d < edits + 1 /\ d \in Nat
  BY <1>1, Now
<1>3. \A d \in InChain \cup Logged, e \in waiting : d < e
  BY <1>2 DEF Ordered
<1>4. CASE Capture(waiting)
  <2>1. waiting \in SUBSET Edits /\ doc' = doc \cup waiting
    BY <1>1, <1>2 DEF BufferInv, BufferTypeOK
  <2>2. phase' \in {"live", "evicting"} /\ run' = run
    BY <1>1
  <2> HIDE DEF waiting
  <2> QED
    BY <1>1, <1>3, <1>4, <2>1, <2>2, CaptureCalm
<1>5. CASE buffered' = waiting /\ UNCHANGED <<chain, attempted>>
  <2>1. Logged' = Logged /\ InChain' = InChain
    BY <1>1, <1>5 DEF Logged, InChain, db
  <2>2. Ordered'
    BY <1>1, <1>3, <1>5, <2>1 DEF Ordered
  <2>3. Projected' /\ Flushed'
    BY <1>1, <1>5, <2>1 DEF Projected, Flushed, db
  <2>4. RunIsServed'
    BY <1>1, <1>5, <2>1 DEF RunIsServed, db
  <2> QED
    BY <2>2, <2>3, <2>4
<1> QED
  BY <1>4, <1>5 DEF Edit

LEMMA FlushCalm == ASSUME BufferInv, Ordered, Projected, Flushed, RunIsServed, TimerFires \/ Evict
                   PROVE  Ordered' /\ Projected' /\ Flushed' /\ RunIsServed'
<1>1. /\ phase = "live" /\ phase' \in {"live", "evicting"} /\ Capture(buffered)
      /\ UNCHANGED <<doc, stage, text, db>> /\ run' = run
  BY DEF TimerFires, Evict, BufferInv, BufferTypeOK
<1>2. /\ buffered \in SUBSET Edits /\ doc' = doc \cup buffered
      /\ \A d \in InChain \cup Logged, e \in buffered : d < e
  BY <1>1, Now DEF BufferInv, BufferTypeOK, Ordered
<1>3. UNCHANGED <<stage, text, db>>
  BY <1>1
<1> QED
  BY <1>1, <1>2, <1>3, CaptureCalm

LEMMA StartRunCalm == ASSUME BufferInv, Ordered, Projected, Flushed, RunIsServed, StartRun
                      PROVE  Ordered' /\ Projected' /\ Flushed' /\ RunIsServed'
<1>1. CASE phase = "live"
  <2>1. /\ Capture(buffered) /\ phase' = "live" /\ doc' = doc
        /\ UNCHANGED <<stage, text, db>>
        /\ run' = [waiting |-> TRUE, ahead |-> Len(chain) + 1, wants |-> doc, open |-> TRUE]
    BY <1>1 DEF StartRun, EarlierAndOwn
  <2>2. /\ buffered \in SUBSET Edits /\ doc' = doc \cup buffered
        /\ \A d \in InChain \cup Logged, e \in buffered : d < e
    BY <1>1, <2>1, Now DEF BufferInv, BufferTypeOK, Ordered
  <2>3. /\ Ordered' /\ Projected' /\ Flushed'
        /\ Len(chain') = Len(chain) + 1 /\ InChain' = InChain \cup buffered
        /\ \A e \in InChain' : \E i \in 1..Len(chain') : e \in chain'[i]
    BY <1>1, <2>1, <2>2, CaptureCalm
  <2>4. /\ run'.ahead = Len(chain') /\ run'.wants = doc
        /\ doc \subseteq content \cup InChain'
    BY <1>1, <2>1, <2>3, Now DEF Projected
  <2>5. RunIsServed'
    BY <1>1, <2>1, <2>3, <2>4, Now DEF RunIsServed, db
  <2> QED
    BY <2>3, <2>5
<1>2. CASE phase # "live"
  <2>1. /\ UNCHANGED <<phase, doc, stage, text, log, content, chain, buffered>>
        /\ ~run'.open
    BY <1>2 DEF StartRun, db
  <2>2. Logged' = Logged /\ InChain' = InChain
    BY <2>1 DEF Logged, InChain
  <2> QED
    BY <2>1, <2>2 DEF Ordered, Projected, Flushed, RunIsServed
<1> QED
  BY <1>1, <1>2

(* A batch that is through leaves nothing behind that a run waits for.       *)
LEMMA FinishCalm ==
  ASSUME BufferInv, Ordered, Projected, Flushed, RunIsServed, Finish, chain # <<>>,
         Head(chain) \subseteq content, (Head(chain) = {} /\ stage = "idle") \/ stage = "compacting",
         UNCHANGED <<phase, doc, buffered, db>>
  PROVE  Ordered' /\ Projected' /\ Flushed' /\ RunIsServed'
<1>1. /\ chain' = Tail(chain) /\ stage' = "idle" /\ Logged' = Logged /\ content' = content
      /\ buffered' = buffered /\ phase' = phase /\ doc' = doc
      /\ run' = [run EXCEPT !.ahead = IF @ = 0 THEN 0 ELSE @ - 1]
  BY DEF Finish, Logged, db
<1> DEFINE S == SUBSET Edits
<1>2. chain \in Seq(S)
  BY DEF BufferInv, BufferTypeOK
<1> HIDE DEF S
<1>3. /\ Len(chain) \in Nat /\ Len(chain) >= 1 /\ Head(chain) = chain[1]
      /\ Len(chain') = Len(chain) - 1 /\ \A i \in 1..Len(chain') : chain'[i] = chain[i + 1]
  BY <1>1, <1>2, Batches
<1>4. InChain = Head(chain) \cup InChain'
  BY <1>1, <1>2, UnionTail DEF InChain
<1>5. Ordered'
  <2>1. ASSUME NEW i \in 1..Len(chain'), NEW j \in 1..Len(chain'), i < j
        PROVE  \A d \in chain'[i], e \in chain'[j] : d < e
    <3>1. /\ i + 1 \in 1..Len(chain) /\ j + 1 \in 1..Len(chain) /\ i + 1 < j + 1
          /\ chain'[i] = chain[i + 1] /\ chain'[j] = chain[j + 1]
      BY <1>3, <2>1
    <3> QED
      BY <3>1 DEF Ordered
  <2>2. ASSUME NEW i \in 1..Len(chain')
        PROVE  \A d \in Logged, e \in chain'[i] : d < e
    <3>1. i + 1 \in 1..Len(chain) /\ i + 1 > 1 /\ chain'[i] = chain[i + 1]
      BY <1>3
    <3> QED
      BY <3>1 DEF Ordered
  <2> QED
    BY <1>1, <1>4, <2>1, <2>2 DEF Ordered
<1>6. Projected' /\ Flushed'
  BY <1>1, <1>4 DEF Projected, Flushed
<1>7. RunIsServed'
  <2>1. run \in Run
    BY DEF BufferInv, BufferTypeOK
  <2>2. /\ run'.wants = run.wants /\ run'.open = run.open /\ run'.waiting = run.waiting
        /\ run'.ahead = IF run.ahead = 0 THEN 0 ELSE run.ahead - 1
    BY <1>1, <2>1 DEF Run
  <2>3. CASE run.waiting /\ run.open
    <3>1. run'.ahead <= Len(chain')
      BY <1>3, <2>2, <2>3, Now DEF RunIsServed
    <3>2. ASSUME NEW e \in run.wants, e \notin content
          PROVE  \E i \in 1..run'.ahead : e \in chain'[i]
      <4>1. PICK i \in 1..run.ahead : e \in chain[i]
        BY <2>3, <3>2 DEF RunIsServed
      <4>2. i # 1
        BY <1>3, <3>2, <4>1
      <4>3. i - 1 \in 1..run'.ahead /\ i - 1 \in 1..Len(chain')
        BY <1>3, <2>2, <2>3, <4>1, <4>2, Now DEF RunIsServed
      <4>4. chain'[i - 1] = chain[i]
        BY <1>3, <4>1, <4>3, Now
      <4> QED
        BY <4>1, <4>3, <4>4
    <3> QED
      BY <1>1, <2>2, <2>3, <3>1, <3>2 DEF RunIsServed
  <2> QED
    BY <2>2, <2>3 DEF RunIsServed
<1> QED
  BY <1>5, <1>6, <1>7

LEMMA AppendCommitsCalm ==
  ASSUME BufferInv, Ordered, Projected, Flushed, RunIsServed, AppendCommits
  PROVE  Ordered' /\ Projected' /\ Flushed' /\ RunIsServed'
<1>1. /\ stage = "appending" /\ stage' = "committed" /\ log' = Append(log, Head(chain))
      /\ UNCHANGED <<phase, doc, buffered, chain, text, content, run>>
  BY DEF AppendCommits
<1>2. chain # <<>> /\ chain \in Seq(SUBSET Edits) /\ log \in Seq(SUBSET Edits)
  BY <1>1 DEF BufferInv, BufferTypeOK, RunningBatch
<1>3. /\ Head(chain) = chain[1] /\ Head(chain) \subseteq InChain /\ Len(chain) >= 1
      /\ Len(chain) \in Nat
  BY <1>2, Now
<1> DEFINE S == SUBSET Edits
<1>4. Logged' = Logged \cup Head(chain)
  <2>1. log \in Seq(S) /\ Head(chain) \in S
    BY <1>2
  <2> HIDE DEF S
  <2> QED
    BY <1>1, <2>1, UnionAppend DEF Logged
<1>5. InChain' = InChain
  BY <1>1 DEF InChain
<1>6. Ordered'
  <2>1. ASSUME NEW i \in 1..Len(chain), i > 1
        PROVE  \A d \in Logged', e \in chain[i] : d < e
    BY <1>3, <1>4, <2>1 DEF Ordered
  <2> QED
    BY <1>1, <1>3, <1>4, <1>5, <2>1 DEF Ordered
<1>7. Projected' /\ Flushed'
  BY <1>1, <1>3, <1>4, <1>5 DEF Projected, Flushed
<1>8. RunIsServed'
  BY <1>1, <1>4 DEF RunIsServed
<1> QED
  BY <1>6, <1>7, <1>8

LEMMA BatchStepsCalm ==
  ASSUME BufferInv, Ordered, Projected, Flushed, RunIsServed,
         StartAppend \/ AppendReturns \/ Materializes
  PROVE  Ordered' /\ Projected' /\ Flushed' /\ RunIsServed'
<1>1. /\ UNCHANGED <<phase, doc, buffered, chain, log, run>>
      /\ Logged' = Logged /\ InChain' = InChain
  BY DEF StartAppend, AppendReturns, Materializes, db, Logged, InChain
<1>2. chain # <<>> /\ phase # "closed"
  BY DEF StartAppend, AppendReturns, Materializes, BufferInv, RunningBatch, Closed
<1>3. /\ Len(chain) >= 1 /\ Head(chain) = chain[1] /\ Head(chain) \subseteq InChain
      /\ InChain \subseteq doc /\ Logged \subseteq doc
  BY <1>2, Now
<1>4. CASE StartAppend \/ AppendReturns
  <2>1. content' = content
    BY <1>4 DEF StartAppend, AppendReturns, db
  <2>2. /\ stage' \in {"idle", "appending"} => stage \in {"idle", "appending"}
        /\ stage' \in {"appending", "materializing"}
        /\ stage' = "materializing" => text' = doc
    BY <1>4 DEF StartAppend, AppendReturns, TextNow
  <2>3. Ordered' /\ Flushed' /\ RunIsServed'
    BY <1>1, <2>1, <2>2 DEF Ordered, Flushed, RunIsServed
  <2>4. Projected'
    BY <1>1, <1>3, <2>1, <2>2 DEF Projected
  <2> QED
    BY <2>3, <2>4
<1>5. CASE Materializes
  <2>1. /\ stage = "materializing" /\ stage' = "compacting" /\ content' = text
        /\ content \cap doc \subseteq text /\ Head(chain) \subseteq text
    BY <1>5 DEF Materializes, BufferInv, Made, Projected
  <2>2. Ordered' /\ Flushed'
    BY <1>1, <2>1 DEF Ordered, Flushed
  <2>3. Projected'
    BY <1>1, <1>3, <2>1 DEF Projected
  <2>4. RunIsServed'
    BY <1>1, <1>2, <2>1 DEF RunIsServed
  <2> QED
    BY <2>2, <2>3, <2>4
<1> QED
  BY <1>4, <1>5

LEMMA RoomCalm ==
  ASSUME BufferInv, Ordered, Projected, Flushed, RunIsServed, Detach \/ Reopen \/ RunReads
  PROVE  Ordered' /\ Projected' /\ Flushed' /\ RunIsServed'
<1>1. /\ UNCHANGED <<chain, stage, text, log, content>>
      /\ Logged' = Logged /\ InChain' = InChain
      /\ buffered' = buffered \/ buffered' = {}
  BY DEF Detach, ForgetRoom, Reopen, RunReads, db, Logged, InChain
<1>2. Ordered' /\ Projected'
  BY <1>1 DEF Ordered, Projected
<1>3. Flushed'
  BY DEF Flushed, Detach, ForgetRoom, Reopen, RunReads
<1>4. RunIsServed'
  <2>1. CASE Detach
    <3>1. doc \subseteq Logged
      BY <2>1, UnionEmpty DEF Detach, Drained, Flushed, BufferInv, NothingDropped, InChain
    <3> QED
      BY <1>1, <2>1, <3>1 DEF Detach, ForgetRoom, RunIsServed
  <2>2. CASE Reopen
    BY <1>1, <2>2 DEF Reopen, RunIsServed
  <2>3. CASE RunReads
    BY <2>3 DEF RunReads, RunIsServed, NoRun
  <2> QED
    BY <2>1, <2>2, <2>3
<1> QED
  BY <1>2, <1>3, <1>4

LEMMA CalmNext == BufferInv /\ CalmInv /\ [BufferNext]_bufferVars => CalmInv'
<1> SUFFICES ASSUME BufferInv, CalmInv, [BufferNext]_bufferVars, Calm'
             PROVE  Ordered' /\ Projected' /\ Flushed' /\ RunIsServed'
  BY DEF CalmInv
<1>1. /\ faults \in [failures : 0..MaxFailures, crashes : 0..MaxCrashes]
      /\ \A k \in 0..MaxFailures : k + 1 # 0
      /\ \A k \in 0..MaxCrashes : k + 1 # 0
  BY WriteBufferAssumption DEF BufferInv, BufferTypeOK
<1>2. ~CallFails /\ ~BufferCrash
  BY <1>1 DEF CallFails, BufferCrash, Calm
<1>3. Ordered /\ Projected /\ Flushed /\ RunIsServed
  <2>1. faults' = faults
    BY <1>2 DEF BufferNext, WriteBatch, bufferVars, Edit, TimerFires, Evict, StartRun, RunReads, SkipEmpty,
                StartAppend, AppendCommits, AppendReturns, AppendFails, Materializes,
                MaterializeFails, Compacts, Detach, Reopen
  <2> QED
    BY <2>1 DEF CalmInv, Calm
<1>4. CASE Edit
  BY <1>3, <1>4, EditCalm
<1>5. CASE TimerFires \/ Evict
  BY <1>3, <1>5, FlushCalm
<1>6. CASE StartRun
  BY <1>3, <1>6, StartRunCalm
<1>7. CASE Detach \/ Reopen \/ RunReads
  BY <1>3, <1>7, RoomCalm
<1>8. CASE SkipEmpty
  BY <1>3, <1>8, FinishCalm DEF SkipEmpty
<1>9. CASE Compacts
  <2>1. chain # <<>> /\ stage = "compacting" /\ Head(chain) \subseteq content
    BY <1>3, <1>9 DEF Compacts, BufferInv, RunningBatch, Projected
  <2> QED
    BY <1>3, <1>9, <2>1, FinishCalm DEF Compacts
<1>10. CASE AppendCommits
  BY <1>3, <1>10, AppendCommitsCalm
<1>11. CASE StartAppend \/ AppendReturns \/ Materializes
  BY <1>3, <1>11, BatchStepsCalm
<1>12. CASE AppendFails \/ MaterializeFails
  BY <1>2, <1>12 DEF AppendFails, MaterializeFails
<1>13. CASE UNCHANGED bufferVars
  <2>1. UNCHANGED <<phase, doc, buffered, chain, stage, text, log, content, run>>
    BY <1>13 DEF bufferVars, db
  <2> QED
    BY <1>3, <2>1 DEF Ordered, Projected, Flushed, RunIsServed, Logged, InChain
<1> QED
  BY <1>2, <1>4, <1>5, <1>6, <1>7, <1>8, <1>9, <1>10, <1>11, <1>12, <1>13 DEF BufferNext, WriteBatch

LEMMA CalmInit == BufferInit => CalmInv
  BY UnionEmpty DEF BufferInit, CalmInv, Ordered, Projected, Flushed, RunIsServed, Logged, InChain, NoRun

(* The invariant of the time before the first failure. *)
THEOREM CalmInvariance == BufferSpec => []CalmInv
  BY CalmInit, CalmNext, BufferInvariance, PTL DEF BufferSpec

(* flush chains its batches and writeBatch appends one at a time: until a    *)
(* call fails, an edit is logged only after those made before it.           *)
THEOREM RowsGoInOrder == BufferSpec => []RowsInOrder
<1>1. BufferInv /\ CalmInv => RowsInOrder
  <2> SUFFICES ASSUME BufferInv, CalmInv, Calm, NEW e \in Logged, NEW d \in doc, d < e, d \notin Logged
               PROVE  FALSE
    BY DEF RowsInOrder
  <2>1. /\ phase # "closed" /\ doc = Logged \cup InChain \cup buffered
        /\ e \in Nat /\ d \in Nat
    BY Now DEF BufferInv, Closed
  <2>2. d \notin buffered
    BY <2>1 DEF CalmInv, Ordered
  <2>3. PICK i \in 1..Len(chain) : d \in chain[i]
    BY <2>1, <2>2, Now
  <2>4. i = 1 /\ stage \notin {"idle", "appending"}
    BY <2>1, <2>3, Now DEF CalmInv, Ordered
  <2>5. Head(chain) \subseteq Logged /\ chain # <<>>
    BY <2>4 DEF BufferInv, RunningBatch, BufferTypeOK, Stage
  <2> QED
    BY <2>3, <2>4, <2>5, Now
<1> QED
  BY <1>1, BufferInvariance, CalmInvariance, PTL

(* leaveRoom: the forced flush has logged the whole document by the time the *)
(* room is destroyed, unless a call fails.                                   *)
THEOREM EvictionIsEnough == BufferSpec => EvictionKeepsAll
<1>1. BufferInv /\ CalmInv /\ Detach /\ Calm => doc \subseteq Logged
  BY UnionEmpty DEF Detach, Drained, CalmInv, Flushed, BufferInv, NothingDropped, InChain
<1>2. BufferInv /\ CalmInv => [Detach /\ Calm => doc \subseteq Logged]_bufferVars
  BY <1>1
<1> QED
  BY <1>2, BufferInvariance, CalmInvariance, PTL DEF BufferSpec, EvictionKeepsAll

(* startRun: the run of an open document reads a File.content that has all   *)
(* that was typed before it was asked for, unless a call fails.             *)
THEOREM RunsAreCurrent == BufferSpec => OpenRoomsRunCurrentText
<1>1. BufferInv /\ CalmInv /\ RunReads /\ run.open /\ Calm => run.wants \subseteq content
  BY Now DEF RunReads, CalmInv, RunIsServed
<1>2. BufferInv /\ CalmInv => [RunReads /\ run.open /\ Calm => run.wants \subseteq content]_bufferVars
  BY <1>1
<1> QED
  BY <1>2, BufferInvariance, CalmInvariance, PTL DEF BufferSpec, OpenRoomsRunCurrentText
=============================================================================
