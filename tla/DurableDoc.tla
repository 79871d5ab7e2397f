---------------------------- MODULE DurableDoc ----------------------------
(***************************************************************************)
(* What the document store promises the rest of the system, with nothing   *)
(* said about rows, snapshots, watermarks or compaction: whatever has been *)
(* saved for a document whose file still exists stays saved, but for the   *)
(* text it was seeded with, which two first opens may each write.          *)
(* (DocStore.ts is the interface; DocLog.tla is the implementation over    *)
(* PostgreSQL.)                                                            *)
(***************************************************************************)
CONSTANTS
  Content,              \* update payloads a document can be made of
  Seeds                 \* those that insert the file's first text

VARIABLES
  saved,                \* what a complete read of the store would rebuild
  live                  \* the File row exists

absVars == <<saved, live>>

AbsTypeOK == saved \subseteq Content /\ live \in BOOLEAN

AbsInit == saved = {} /\ live = TRUE

(* One more update is durable, whoever wrote it. *)
Save ==
  /\ live
  /\ \E u \in Content : saved' = saved \cup {u}
  /\ UNCHANGED live

(* One more room has seeded the document: its seed stands for the others. *)
Reseed ==
  /\ live
  /\ \E s \in Seeds : saved' = (saved \ Seeds) \cup {s}
  /\ UNCHANGED live

(* The file is deleted: the promise ends here. *)
Delete == live /\ live' = FALSE /\ UNCHANGED saved

(* Afterwards rows may be erased and orphan rows may still arrive. *)
Forget == ~live /\ saved' \in SUBSET Content /\ UNCHANGED live

AbsNext == Save \/ Reseed \/ Delete \/ Forget

AbsSpec == AbsInit /\ [][AbsNext]_absVars
=============================================================================
