------------------------------ MODULE WorkArea ------------------------------
(***************************************************************************)
(* The work area of a project's page: tabs, the provider of each, the one  *)
(* CodeMirror view that shows the active tab, and the run panel, under a   *)
(* page that is taken away whenever the project's detail is refreshed.     *)
(*                                                                         *)
(* An action is an event and the commit it causes, effects included.  The  *)
(* view is mounted only while the active tab's provider has a document; it *)
(* keeps an editor state per open tab, and a search result may ask it to   *)
(* go to a place in a file.  A provider is a CollabProvider of DocSync,    *)
(* seen as none, waiting for a document, or ready (which it stays).        *)
(***************************************************************************)
EXTENDS OpenFiles, ProjectDetail, RunPanel

CONSTANTS
  Files,       \* files of the project
  MaxReveals   \* places asked for

ASSUME WorkAreaAssumption == NoFile \notin Files /\ MaxReveals \in Nat

VARIABLES
  open,        \* tabs and the active one (useOpenFiles)
  provider,    \* of each file
  view,        \* CodeMirror: the tab it shows, the editor states it keeps,
               \* the last request it answered; NoView when not mounted
  reveal,      \* the last place a search asked for
  jumps,       \* history: how often each request has moved the cursor
  remounted    \* history: requests answered by a view that is gone

editorVars == <<open, provider, view, reveal, jumps, remounted>>
vars == <<detailVars, panelVars, editorVars>>

NoState == [kept |-> FALSE, readOnly |-> FALSE, history |-> FALSE, live |-> FALSE]
NoView == [showing |-> NoFile, states |-> [f \in Files |-> NoState], revealed |-> 0]
NoReveal == [docId |-> NoFile, nonce |-> 0]
NoJumps == [n \in 1..MaxReveals |-> 0]
Mounted == view.showing # NoFile

(* An editor state: for a reader who may type or not, with the reader's undo *)
(* history or none, bound to a text that lives or has been destroyed.        *)
Fresh(readOnly) == [kept |-> TRUE, readOnly |-> readOnly, history |-> FALSE, live |-> TRUE]

Init ==
  /\ DetailInit /\ PanelInit
  /\ open = NoneOpen /\ provider = [f \in Files |-> "none"]
  /\ view = NoView /\ reveal = NoReveal /\ jumps = NoJumps /\ remounted = {}
-----------------------------------------------------------------------------
(* useCollabDocs: one provider for every open tab and for no other, none     *)
(* once the pane is unmounted.                                               *)
Provided(before) ==
  [f \in Files |-> IF ~Shown' \/ f \notin OpenIds(open') THEN "none"
                   ELSE IF before[f] = "none" THEN "waiting" ELSE before[f]]

(* What is kept of the editor states when tabs change: that of every tab     *)
(* still open, the outgoing one's too.                                       *)
KeepsClosed(f) == view.states[f]
KeepsOthers(f) == IF f \in OpenIds(open') /\ f # view.showing THEN view.states[f] ELSE NoState
Kept(f) == IF f \in OpenIds(open') THEN view.states[f] ELSE NoState

(* A state whose provider is destroyed is bound to nothing.                 *)
Bound(s, f) == [s EXCEPT !.live = @ /\ provider'[f] # "none"]

Showing(f) ==
  [view EXCEPT !.showing = f,
               !.states = [g \in Files |-> LET s == Bound(Kept(g), g) IN
                             IF g = f /\ ~s.kept THEN Fresh(~canEdit') ELSE s]]

(* The commit.  A tab that is just being opened has no provider yet when the *)
(* pane is drawn, so the view goes, and all it keeps goes with it.           *)
Commits(before) ==
  /\ provider' = Provided(before)
  /\ IF open'.activeId \in Files /\ provider'[open'.activeId] = "ready"
     THEN view' = Showing(open'.activeId)
     ELSE view' = NoView

Forgets ==
  IF here' THEN /\ remounted' = IF view' = NoView THEN {n \in 1..MaxReveals : jumps[n] > 0}
                                ELSE remounted
                /\ UNCHANGED jumps
  ELSE jumps' = NoJumps /\ remounted' = {}

(* A step of the page: tabs and requests outlive a refresh, not the page.   *)
PageStep ==
  /\ Change \/ Changed \/ ChangeRefused \/ ReadDetail \/ Answered \/ Reassigned
       \/ Leave \/ Return
  /\ IF here' THEN UNCHANGED <<open, reveal>> ELSE open' = NoneOpen /\ reveal' = NoReveal
  /\ Commits(provider) /\ Forgets
  /\ IF Shown /\ ~Shown' THEN PanelUnmounts ELSE UNCHANGED panelVars

(* Something done to the tabs of the page.                                  *)
TabStep(o) ==
  /\ Shown /\ open' = o
  /\ UNCHANGED <<detailVars, panelVars>>
  /\ Commits(provider) /\ Forgets

OpenFile(f) == TabStep(openFile(open, f, f)) /\ UNCHANGED reveal
SelectTab(f) == f \in OpenIds(open) /\ TabStep([open EXCEPT !.activeId = f]) /\ UNCHANGED reveal
CloseTab(f) == f \in OpenIds(open) /\ TabStep(closeFile(open, f)) /\ UNCHANGED reveal

(* A search result in the text of a file.                                   *)
OpenFromSearch(f) ==
  /\ reveal.nonce < MaxReveals
  /\ reveal' = [docId |-> f, nonce |-> reveal.nonce + 1]
  /\ TabStep(openFile(open, f, f))

(* The provider has a document, from the local store or from the server.    *)
Ready(f) ==
  /\ provider[f] = "waiting"
  /\ UNCHANGED <<open, reveal, detailVars, panelVars>>
  /\ Commits([provider EXCEPT ![f] = "ready"]) /\ Forgets

Type ==
  /\ Mounted /\ ~view.states[view.showing].readOnly
  /\ view' = [view EXCEPT !.states[view.showing].history = TRUE]
  /\ UNCHANGED <<open, provider, reveal, jumps, remounted, detailVars, panelVars>>

(* The reveal effect and its timer.                                         *)
Aimed == Mounted /\ reveal.docId = view.showing /\ view.revealed # reveal.nonce

Jump ==
  /\ Aimed
  /\ view' = [view EXCEPT !.revealed = reveal.nonce]
  /\ jumps' = [jumps EXCEPT ![reveal.nonce] = IF @ < 2 THEN @ + 1 ELSE @]
  /\ UNCHANGED <<open, provider, reveal, remounted, detailVars, panelVars>>

(* The run panel; only the button looks at the page.                        *)
PanelStep ==
  /\ \E r \in Runs :
       \/ Shown /\ canEdit /\ open.activeId \in OpenIds(open) /\ Start(r)
       \/ Refused(r) \/ Accepted(r) \/ Output(r) \/ Ends(r)
  /\ UNCHANGED <<detailVars, editorVars>>

Next ==
  \/ PageStep \/ Type \/ Jump \/ PanelStep
  \/ \E f \in Files : OpenFile(f) \/ SelectTab(f) \/ CloseTab(f) \/ OpenFromSearch(f) \/ Ready(f)

Spec == Init /\ [][Next]_vars
-----------------------------------------------------------------------------
TypeOK ==
  /\ {here, loading, crossing} \subseteq BOOLEAN /\ {role, myRole} \subseteq Role \cup {"none"}
  /\ gets \subseteq [n : 1..MaxRefreshes, answer : Role \cup {"none", "unread"}]
  /\ asked \in 1..MaxRefreshes /\ changes \in 0..MaxRefreshes /\ reassigned \in 0..MaxRoleChanges
  /\ state \in {"idle", "starting", "running", "finished"} /\ source \in Runs \cup {NoRun}
  /\ mine \cup lines \cup orphans \subseteq Runs
  /\ run \in [Runs -> {"new", "asked", "refused", "streaming", "closed"}]
  /\ OpenIds(open) \subseteq Files /\ open.activeId \in OpenIds(open) \cup {NoFile}
  /\ provider \in [Files -> {"none", "waiting", "ready"}]
  /\ reveal \in [docId : Files \cup {NoFile}, nonce : 0..MaxReveals]
  /\ jumps \in [1..MaxReveals -> 0..2] /\ remounted \subseteq 1..MaxReveals

(* Whatever the editor keeps belongs to a tab that is open and is bound to   *)
(* that tab's living text: an undo or a keystroke never goes to a document   *)
(* that a closed tab or an earlier provider has left behind.                 *)
StatesAreLive ==
  Mounted => /\ view.showing = open.activeId /\ view.states[view.showing].kept
             /\ \A f \in Files : view.states[f].kept => view.states[f].live /\ f \in OpenIds(open)

(* While the view stays, going from tab to tab, closing others, refreshes    *)
(* that cross and runs leave every open tab its undo history.                *)
HistorySurvivesSwitching ==
  [][\A f \in Files : f \in OpenIds(open') /\ Mounted /\ Mounted' /\ view.states[f].history =>
                        view'.states[f].history]_vars

(* An editor lets its reader type exactly when the role that is shown does,  *)
(* unless two refreshes overlapped: the later answer then changes the role   *)
(* and not the editor states, which were made under the earlier one.         *)
EditableAsAllowed ==
  ~crossing => \A f \in Files : view.states[f].kept => view.states[f].readOnly = ~canEdit

(* The cursor goes where the last search result was, and for one request     *)
(* only once, unless the view that went there has been unmounted since.      *)
JumpsAreAsked ==
  [][\A n \in DOMAIN jumps : jumps'[n] > jumps[n] =>
       n = reveal.nonce /\ view.showing = reveal.docId /\ (jumps[n] > 0 => n \in remounted)]_vars

(* The panel's terminal shows one run at a time, and a stream that the panel *)
(* does not follow is one whose run was still being asked for when its panel *)
(* died: closeStream had nothing to close, and the answer opened it after.   *)
StreamsBelongToThePanel ==
  /\ Cardinality(lines) <= 1
  /\ \A r \in Runs : run[r] = "streaming" => IF r \in mine THEN r = source ELSE r \in orphans

(* "one state is cached per open document so the cursor and undo history     *)
(* survive" (CodeMirror.tsx:25): an open tab keeps its undo history for as   *)
(* long as the page is shown.                                                *)
UndoHistorySurvives ==
  [][\A f \in OpenIds(open') :
       Shown /\ Shown' /\ view.states[f].history => view'.states[f].history]_vars

(* "One reveal per request" (CodeMirror.tsx:168). *)
OneRevealPerRequest == \A n \in DOMAIN jumps : jumps[n] <= 1
=============================================================================
