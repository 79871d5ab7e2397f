----------------------------- MODULE OpenFiles -----------------------------
(***************************************************************************)
(* The open tabs of the work area (useOpenFiles.ts), as operators on a     *)
(* value of the form [tabs, activeId].  A tab is only a label: the id of a *)
(* file and its path (the name is the path's last part).                   *)
(***************************************************************************)
EXTENDS Subsequences, SequencesExt

CONSTANTS
  NoFile,       \* null
  MAX_RECENT    \* files remembered as recent

ASSUME OpenFilesAssumption == MAX_RECENT \in Nat \ {0}

NoneOpen == [tabs |-> << >>, activeId |-> NoFile]
OpenIds(o) == {tab.id : tab \in ToSet(o.tabs)}
PathOf(o, id) == (CHOOSE tab \in ToSet(o.tabs) : tab.id = id).path

openFile(o, id, path) ==
  [tabs |-> IF id \in OpenIds(o) THEN o.tabs ELSE Append(o.tabs, [id |-> id, path |-> path]),
   activeId |-> id]

(* The tab that is left last in the row becomes the active one.             *)
closeFile(o, id) ==
  LET remaining == Among(o.tabs, {tab \in ToSet(o.tabs) : tab.id # id}) IN
  [tabs |-> remaining,
   activeId |-> IF o.activeId # id THEN o.activeId
                ELSE IF remaining = << >> THEN NoFile ELSE Last(remaining).id]

RenamesActive(o, id, path) ==
  [o EXCEPT !.tabs = [i \in DOMAIN @ |-> IF @[i].id = o.activeId THEN [@[i] EXCEPT !.path = path]
                                         ELSE @[i]]]

renameTab(o, id, path) ==
  [o EXCEPT !.tabs = [i \in DOMAIN @ |-> IF @[i].id = id THEN [@[i] EXCEPT !.path = path]
                                         ELSE @[i]]]

(* The recent files, newest first; closing a tab does not forget it.        *)
recall(recentIds, id) ==
  LET longer == <<id>> \o Among(recentIds, ToSet(recentIds) \ {id}) IN
  SubSeq(longer, 1, IF Len(longer) < MAX_RECENT THEN Len(longer) ELSE MAX_RECENT)
=============================================================================
