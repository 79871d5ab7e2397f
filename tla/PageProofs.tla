------------------------------ MODULE PageProofs ------------------------------
(***************************************************************************)
(* Proofs about the project page: WorkArea, for any files and any number   *)
(* of detail fetches, runs and frames, and Explorer, for any names, rows,  *)
(* paths and changes.                                                      *)
(*                                                                         *)
(* Of WorkArea: the states the view keeps belong to open tabs and are      *)
(* bound to the texts of their providers, in the role the page last heard. *)
(*                                                                         *)
(* Explorer's invariant has four parts: the shape of rows, tree, changes   *)
(* and tabs; which of the GETs under way knows of which change; where the  *)
(* path on a tab comes from; and what a deletion has noted before it went. *)
(***************************************************************************)
EXTENDS WorkArea, Explorer, TreeProofs

EditorState == [kept : BOOLEAN, readOnly : BOOLEAN, history : BOOLEAN, live : BOOLEAN]

(* While no refreshes overlap, an answer finds the page taken away.         *)
DetailOK ==
  /\ here \in BOOLEAN /\ loading \in BOOLEAN /\ crossing \in BOOLEAN
  /\ ~crossing => /\ \A g1, g2 \in gets : g1 = g2
                  /\ gets # {} => loading

(* Providers and editor states are those of tabs of a page that is shown.   *)
EditorsOK ==
  /\ provider \in [Files -> {"none", "waiting", "ready"}]
  /\ view \in [showing : Files \cup {NoFile}, states : [Files -> EditorState],
               revealed : 0..MaxReveals]
  /\ Mounted \/ view = NoView
  /\ ~Shown => view = NoView /\ \A f \in Files : provider[f] = "none"
  /\ \A f \in Files : provider[f] # "none" => f \in OpenIds(open)
  /\ \A f \in Files : view.states[f].history => view.states[f].kept

(* A request that was answered is the last one the view answered, unless    *)
(* that view has gone.                                                      *)
JumpsOK ==
  /\ reveal \in [docId : Files \cup {NoFile}, nonce : 0..MaxReveals]
  /\ jumps \in [1..MaxReveals -> 0..2] /\ remounted \subseteq 1..MaxReveals
  /\ \A n \in 1..MaxReveals :
       /\ n > reveal.nonce => jumps[n] = 0
       /\ n = reveal.nonce /\ jumps[n] > 0 /\ n \notin remounted => view.revealed = n
  /\ ~here => jumps = NoJumps /\ remounted = {}

(* A panel has one run under way at most, and follows it once it streams.   *)
PanelOK ==
  /\ run \in [Runs -> {"new", "asked", "refused", "streaming", "closed"}]
  /\ state \in {"idle", "starting", "running", "finished"}
  /\ mine \subseteq Runs /\ lines \subseteq Runs /\ orphans \subseteq Runs
  /\ source # NoRun => source \in mine /\ run[source] = "streaming"
  /\ \A r \in mine : /\ run[r] # "new"
                     /\ run[r] = "asked" => state = "starting" /\ source = NoRun
                     /\ run[r] = "streaming" => state = "running" /\ source = r
  /\ \A r, q \in mine : run[r] = "asked" /\ run[q] = "asked" => r = q
  /\ state = "starting" => lines = {}
  /\ state = "running" => lines \subseteq {source}
  /\ \A r, q \in lines : r = q
  /\ \A r \in Runs \ mine : run[r] \in {"asked", "streaming"} => r \in orphans

Inv == DetailOK /\ EditorsOK /\ StatesAreLive /\ EditableAsAllowed /\ JumpsOK /\ PanelOK
-----------------------------------------------------------------------------
LEMMA NoViewIs ==
  /\ NoView \in [showing : Files \cup {NoFile}, states : [Files -> EditorState],
                 revealed : 0..MaxReveals]
  /\ NoView.showing = NoFile /\ NoView.revealed = 0
  /\ \A f \in Files : ~NoView.states[f].kept /\ ~NoView.states[f].history
  BY WorkAreaAssumption DEF NoView, NoState, EditorState

LEMMA InitInv == Init => Inv
<1> SUFFICES ASSUME Init PROVE Inv
  OBVIOUS
<1> USE WorkAreaAssumption, RunPanelAssumption DEF Init, DetailInit, PanelInit
<1>1. DetailOK
  BY DEF DetailOK
<1>2. EditorsOK
  BY NoViewIs DEF EditorsOK
<1>3. StatesAreLive /\ EditableAsAllowed
  BY NoViewIs DEF StatesAreLive, Mounted, EditableAsAllowed
<1>4. JumpsOK
  BY DEF JumpsOK, NoReveal, NoJumps
<1>5. PanelOK
  BY DEF PanelOK
<1> QED
  BY <1>1, <1>2, <1>3, <1>4, <1>5 DEF Inv
-----------------------------------------------------------------------------
(* The page's detail. *)
Detail == Change \/ Changed \/ ChangeRefused \/ ReadDetail \/ Answered \/ Reassigned \/ Leave \/ Return

LEMMA DetailMoves ==
  ASSUME Inv, Detail
  PROVE  /\ DetailOK'
         /\ Shown /\ Shown' /\ ~crossing' => ~crossing /\ role' = role
         /\ ~here' => ~Shown'
<1> USE DEF Inv, DetailOK, Shown
<1>1. CASE Change \/ ChangeRefused \/ Reassigned
  BY <1>1 DEF Change, ChangeRefused, Reassigned
<1>2. CASE Changed
  BY <1>2 DEF Changed, Refresh, Asks
<1>3. CASE ReadDetail
  <2>1. PICK g \in gets : gets' = (gets \ {g}) \cup {[g EXCEPT !.answer = myRole]}
    BY <1>3 DEF ReadDetail
  <2>2. UNCHANGED <<here, loading, role, crossing>>
    BY <1>3 DEF ReadDetail
  <2> QED
    BY <2>1, <2>2
<1>4. CASE Answered
  BY <1>4 DEF Answered
<1>5. CASE Leave
  BY <1>5 DEF Leave
<1>6. CASE Return
  BY <1>6 DEF Return, Refresh, Asks
<1> QED
  BY <1>1, <1>2, <1>3, <1>4, <1>5, <1>6 DEF Detail

(* A commit, of which a tab's providers may have become ready. *)
LEMMA Commit ==
  ASSUME Inv, NEW before \in [Files -> {"none", "waiting", "ready"}],
         \A f \in Files : before[f] # "none" => provider[f] # "none",
         \A f \in Files : provider[f] # "none" => before[f] # "none",
         Commits(before), Shown' \in BOOLEAN,
         Shown /\ Shown' /\ ~crossing' => ~crossing /\ role' = role
  PROVE  /\ EditorsOK' /\ StatesAreLive' /\ EditableAsAllowed'
         /\ view' = NoView \/ view'.revealed = view.revealed
         /\ Mounted' <=> view' # NoView
         /\ view' # NoView => \A f \in Files : f \in OpenIds(open') /\ view.states[f].history =>
                                                 view'.states[f].history
<1> DEFINE a == open'.activeId
<1>1. /\ provider' \in [Files -> {"none", "waiting", "ready"}]
      /\ ~Shown' => \A f \in Files : provider'[f] = "none"
      /\ \A f \in Files : provider'[f] # "none" => f \in OpenIds(open')
      /\ \A f \in Files : provider'[f] = "ready" => before[f] = "ready"
  BY DEF Commits, Provided
<1>2. view \in [showing : Files \cup {NoFile}, states : [Files -> EditorState],
                revealed : 0..MaxReveals]
  BY DEF Inv, EditorsOK
<1>3. CASE ~(a \in Files /\ provider'[a] = "ready")
  <2>1. view' = NoView
    BY <1>3 DEF Commits
  <2>2. EditorsOK'
    BY <1>1, <2>1, NoViewIs DEF EditorsOK, Mounted
  <2>3. ~Mounted' /\ StatesAreLive' /\ EditableAsAllowed'
    BY <2>1, NoViewIs DEF StatesAreLive, Mounted, EditableAsAllowed
  <2> QED
    BY <2>1, <2>2, <2>3
<1>4. CASE a \in Files /\ provider'[a] = "ready"
  <2> DEFINE new(g) == LET s == Bound(Kept(g), g) IN
                       IF g = a /\ ~s.kept THEN Fresh(~canEdit') ELSE s
  <2>1. view' = [view EXCEPT !.showing = a, !.states = [g \in Files |-> new(g)]]
    BY <1>4 DEF Commits, Showing
  <2>2. Shown /\ Shown'
    BY <1>1, <1>4 DEF Inv, EditorsOK
  <2>3. \A g \in Files :
          /\ Kept(g) \in EditorState
          /\ Kept(g) = IF g \in OpenIds(open') THEN view.states[g] ELSE NoState
    BY <1>2 DEF Kept, NoState, EditorState
  <2>4. \A g \in Files :
          /\ Bound(Kept(g), g) \in EditorState
          /\ Bound(Kept(g), g).kept = Kept(g).kept /\ Bound(Kept(g), g).readOnly = Kept(g).readOnly
          /\ Bound(Kept(g), g).history = Kept(g).history
          /\ Bound(Kept(g), g).live <=> Kept(g).live /\ provider'[g] # "none"
    BY <2>3 DEF Bound, EditorState
  <2>5. /\ Fresh(~canEdit') \in EditorState /\ Fresh(~canEdit').kept /\ ~Fresh(~canEdit').history
        /\ Fresh(~canEdit').live /\ Fresh(~canEdit').readOnly = ~canEdit'
    BY DEF Fresh, EditorState, canEdit
  <2>6. \A g \in Files : new(g) \in EditorState
    BY <2>4, <2>5
  <2>7. \A g \in Files : new(g).kept => new(g) = Bound(Kept(g), g) \/ (g = a /\ new(g) = Fresh(~canEdit'))
    OBVIOUS
  <2>8. \A g \in Files : Kept(g).kept => /\ new(g) = Bound(Kept(g), g) /\ g \in OpenIds(open')
                                         /\ Kept(g) = view.states[g] /\ view.states[g].kept
    BY <2>3, <2>4 DEF NoState
  <2>9. new(a).kept
    BY <1>4, <2>4, <2>5
  <2>10. \A g \in Files : new(g).history => new(g).kept
    <3>1. \A g \in Files : Kept(g).history => Kept(g).kept
      BY <2>3 DEF Inv, EditorsOK, NoState
    <3> QED
      BY <3>1, <2>4, <2>5
  <2> HIDE DEF new
  <2>11. /\ view' \in [showing : Files \cup {NoFile}, states : [Files -> EditorState],
                       revealed : 0..MaxReveals]
         /\ view'.showing = a /\ view'.revealed = view.revealed
         /\ \A g \in Files : view'.states[g] = new(g)
    BY <1>2, <1>4, <2>1, <2>6
  <2>12. view' # NoView /\ a # NoFile
    BY <1>4, <2>11, NoViewIs, WorkAreaAssumption
  <2>13. EditorsOK'
    BY <1>1, <2>2, <2>10, <2>11, <2>12 DEF EditorsOK, Mounted
  <2>14. StatesAreLive'
    <3>1. ASSUME NEW g \in Files, new(g).kept
          PROVE  new(g).live /\ g \in OpenIds(open')
      <4>1. CASE g = a /\ new(g) = Fresh(~canEdit')
        BY <1>1, <1>4, <2>5, <4>1
      <4>2. CASE new(g) = Bound(Kept(g), g)
        <5>1. Kept(g).kept
          BY <2>4, <3>1, <4>2
        <5>2. g \in OpenIds(open') /\ Kept(g) = view.states[g] /\ view.states[g].kept
          BY <2>8, <5>1
        <5>3. view.states[g].live /\ g \in OpenIds(open)
          BY <5>2, NoViewIs DEF Inv, EditorsOK, StatesAreLive
        <5>4. provider'[g] # "none"
          BY <2>2, <5>2 DEF Commits, Provided
        <5> QED
          BY <2>4, <4>2, <5>2, <5>3, <5>4
      <4> QED
        BY <2>7, <3>1, <4>1, <4>2
    <3> QED
      BY <1>4, <2>9, <2>11, <3>1 DEF StatesAreLive
  <2>15. EditableAsAllowed'
    <3>1. SUFFICES ASSUME ~crossing', NEW g \in Files, new(g).kept
          PROVE  new(g).readOnly = ~canEdit'
      BY <2>11 DEF EditableAsAllowed
    <3>2. ~crossing /\ role' = role
      BY <2>2, <3>1
    <3>3. canEdit' = canEdit
      BY <3>2 DEF canEdit
    <3>4. CASE new(g) = Bound(Kept(g), g)
      <4>1. Kept(g) = view.states[g] /\ view.states[g].kept
        BY <2>4, <2>8, <3>1, <3>4
      <4>2. view.states[g].readOnly = ~canEdit
        BY <3>2, <4>1 DEF Inv, EditableAsAllowed
      <4> QED
        BY <2>4, <3>3, <3>4, <4>1, <4>2
    <3> QED
      BY <2>5, <2>7, <3>1, <3>4
  <2>16. \A f \in Files : f \in OpenIds(open') /\ view.states[f].history => view'.states[f].history
    <3>1. SUFFICES ASSUME NEW f \in Files, f \in OpenIds(open'), view.states[f].history
          PROVE  new(f).history
      BY <2>11
    <3>2. Kept(f) = view.states[f] /\ view.states[f].kept
      BY <2>3, <3>1 DEF Inv, EditorsOK
    <3> QED
      BY <2>4, <2>8, <3>1, <3>2
  <2> QED
    BY <2>11, <2>12, <2>13, <2>14, <2>15, <2>16 DEF Mounted
<1> QED
  BY <1>3, <1>4
-----------------------------------------------------------------------------
(* Requests to go to a place.                                               *)
LEMMA Reveals ==
  ASSUME Inv, Forgets, here' \in BOOLEAN,
         view' = NoView \/ view'.revealed = view.revealed,
         here' => \/ reveal' = reveal
                  \/ /\ reveal.nonce < MaxReveals
                     /\ \E f \in Files : reveal' = [docId |-> f, nonce |-> reveal.nonce + 1],
         ~here' => reveal' = NoReveal
  PROVE  JumpsOK' /\ jumps' \in {jumps, NoJumps}
<1> USE WorkAreaAssumption DEF Inv, JumpsOK
<1>1. CASE ~here'
  BY <1>1 DEF Forgets, NoJumps, NoReveal
<1>2. CASE here'
  <2>1. jumps' = jumps
    BY <1>2 DEF Forgets
  <2>2. /\ reveal' \in [docId : Files \cup {NoFile}, nonce : 0..MaxReveals]
        /\ reveal'.nonce = reveal.nonce \/ reveal'.nonce = reveal.nonce + 1
    BY <1>2
  <2>3. \A n \in 1..MaxReveals : n > reveal'.nonce => jumps[n] = 0
    BY <2>2
  <2>4. CASE view' = NoView
    <3>1. remounted' = {n \in 1..MaxReveals : jumps[n] > 0}
      BY <1>2, <2>4 DEF Forgets
    <3> QED
      BY <1>2, <2>1, <2>2, <2>3, <3>1
  <2>5. CASE view' # NoView
    <3>1. remounted' = remounted /\ view'.revealed = view.revealed
      BY <1>2, <2>5 DEF Forgets
    <3>2. ASSUME NEW n \in 1..MaxReveals, n = reveal'.nonce, jumps[n] > 0, n \notin remounted
          PROVE  view'.revealed = n
      BY <2>2, <3>1, <3>2
    <3> QED
      BY <1>2, <2>1, <2>2, <2>3, <3>1, <3>2
  <2> QED
    BY <2>4, <2>5
<1> QED
  BY <1>1, <1>2
-----------------------------------------------------------------------------
(* The run panel.                                                           *)
LEMMA PanelStarts ==
  ASSUME PanelOK, NEW r \in Runs, Start(r)
  PROVE  PanelOK'
<1> USE RunPanelAssumption DEF PanelOK
<1>1. source = NoRun /\ \A q \in mine : run[q] \notin {"asked", "streaming"}
  BY DEF Start, busy
<1>2. /\ run[r] = "new" /\ run' = [run EXCEPT ![r] = "asked"]
      /\ source' = NoRun /\ lines' = {} /\ state' = "starting" /\ mine' = mine \cup {r}
      /\ orphans' = orphans
  BY <1>1 DEF Start, Starts, closeStream
<1> QED
  BY <1>1, <1>2

LEMMA PanelHears ==
  ASSUME PanelOK, NEW r \in Runs, Refused(r) \/ Accepted(r) \/ Output(r) \/ Ends(r)
  PROVE  PanelOK'
<1> USE RunPanelAssumption DEF PanelOK, Says
<1>1. CASE Refused(r)
  BY <1>1 DEF Refused
<1>2. CASE Accepted(r)
  BY <1>2 DEF Accepted
<1>3. CASE Output(r)
  BY <1>3 DEF Output
<1>4. CASE Ends(r)
  <2>1. r \in mine => source = r /\ closeStream = [run EXCEPT ![r] = "closed"]
    BY <1>4 DEF Ends, closeStream, Closing
  <2> QED
    BY <1>4, <2>1 DEF Ends, Closing
<1> QED
  BY <1>1, <1>2, <1>3, <1>4

LEMMA PanelDies ==
  ASSUME PanelOK, PanelUnmounts
  PROVE  PanelOK'
<1> USE RunPanelAssumption DEF PanelOK
<1>1. /\ mine' = {} /\ lines' = {} /\ source' = NoRun /\ state' = "idle"
      /\ orphans' = orphans \cup {r \in mine : run[r] = "asked"}
  BY DEF PanelUnmounts, Dies
<1>2. run' = closeStream
  BY DEF PanelUnmounts
<1>3. /\ run' \in [Runs -> {"new", "asked", "refused", "streaming", "closed"}]
      /\ \A q \in Runs : run'[q] = run[q] \/ run'[q] = "closed"
      /\ source # NoRun => run'[source] = "closed"
  BY <1>2 DEF closeStream, Closing
<1>4. ASSUME NEW q \in Runs, run'[q] \in {"asked", "streaming"}
      PROVE  q \in orphans'
  <2>1. run[q] \in {"asked", "streaming"}
    BY <1>3, <1>4
  <2>2. q \in mine => run[q] = "asked"
    BY <1>3, <1>4, <2>1
  <2> QED
    BY <1>1, <2>1, <2>2
<1> QED
  BY <1>1, <1>3, <1>4

LEMMA PanelRests == ASSUME PanelOK, UNCHANGED panelVars PROVE PanelOK'
  BY DEF PanelOK, panelVars
-----------------------------------------------------------------------------
(* What a step leaves alone, beside the invariant. *)
HistoryKept == \A f \in Files : f \in OpenIds(open') /\ Mounted /\ Mounted' /\ view.states[f].history =>
                                 view'.states[f].history
JumpAsked == \A n \in DOMAIN jumps : jumps'[n] > jumps[n] =>
               n = reveal.nonce /\ view.showing = reveal.docId /\ (jumps[n] > 0 => n \in remounted)
StepOK == Inv' /\ HistoryKept /\ JumpAsked

LEMMA NoNewJump == Inv /\ jumps' \in {jumps, NoJumps} => JumpAsked
  BY WorkAreaAssumption DEF Inv, JumpsOK, NoJumps, JumpAsked

LEMMA Committed ==
  ASSUME Inv, NEW before \in [Files -> {"none", "waiting", "ready"}],
         \A f \in Files : before[f] = "none" <=> provider[f] = "none",
         Commits(before), Forgets, DetailOK', PanelOK',
         Shown /\ Shown' /\ ~crossing' => ~crossing /\ role' = role,
         here' => \/ reveal' = reveal
                  \/ /\ reveal.nonce < MaxReveals
                     /\ \E f \in Files : reveal' = [docId |-> f, nonce |-> reveal.nonce + 1],
         ~here' => reveal' = NoReveal
  PROVE  StepOK
<1>1. here' \in BOOLEAN /\ Shown' \in BOOLEAN
  BY DEF DetailOK, Shown
<1>2. /\ EditorsOK' /\ StatesAreLive' /\ EditableAsAllowed'
      /\ view' = NoView \/ view'.revealed = view.revealed
      /\ Mounted' <=> view' # NoView
      /\ view' # NoView => \A f \in Files : f \in OpenIds(open') /\ view.states[f].history =>
                                              view'.states[f].history
  BY <1>1, Commit
<1>3. JumpsOK' /\ jumps' \in {jumps, NoJumps}
  BY <1>1, <1>2, Reveals
<1>4. JumpAsked
  BY <1>3, NoNewJump
<1>5. HistoryKept
  BY <1>2 DEF HistoryKept
<1> QED
  BY <1>2, <1>3, <1>4, <1>5 DEF StepOK, Inv

LEMMA PageSteps == Inv /\ PageStep => StepOK
<1> SUFFICES ASSUME Inv, PageStep PROVE StepOK
  OBVIOUS
<1>1. DetailOK' /\ (Shown /\ Shown' /\ ~crossing' => ~crossing /\ role' = role)
  BY DetailMoves DEF PageStep, Detail
<1>2. PanelOK'
  BY PanelDies, PanelRests DEF PageStep, Inv
<1>3. provider \in [Files -> {"none", "waiting", "ready"}]
  BY DEF Inv, EditorsOK
<1>4. /\ Commits(provider) /\ Forgets
      /\ here' => reveal' = reveal
      /\ ~here' => reveal' = NoReveal
  BY DEF PageStep
<1> QED
  BY <1>1, <1>2, <1>3, <1>4, Committed

LEMMA TabSteps ==
  ASSUME Inv, NEW o, TabStep(o),
         \/ UNCHANGED reveal
         \/ /\ reveal.nonce < MaxReveals
            /\ \E f \in Files : reveal' = [docId |-> f, nonce |-> reveal.nonce + 1]
  PROVE  StepOK
<1>1. /\ UNCHANGED detailVars /\ UNCHANGED panelVars
      /\ Commits(provider) /\ Forgets /\ Shown
  BY DEF TabStep
<1>2. /\ DetailOK' /\ here' /\ (Shown /\ Shown' /\ ~crossing' => ~crossing /\ role' = role)
  BY <1>1 DEF detailVars, Inv, DetailOK, Shown
<1>3. PanelOK'
  BY <1>1, PanelRests DEF Inv
<1>4. provider \in [Files -> {"none", "waiting", "ready"}]
  BY DEF Inv, EditorsOK
<1> QED
  BY <1>1, <1>2, <1>3, <1>4, Committed

LEMMA ReadySteps ==
  ASSUME Inv, NEW f \in Files, Ready(f)
  PROVE  StepOK
<1> DEFINE before == [provider EXCEPT ![f] = "ready"]
<1>1. /\ UNCHANGED detailVars /\ UNCHANGED panelVars /\ UNCHANGED reveal
      /\ provider[f] = "waiting" /\ Commits(before) /\ Forgets
  BY DEF Ready
<1>2. provider \in [Files -> {"none", "waiting", "ready"}]
  BY DEF Inv, EditorsOK
<1>3. /\ before \in [Files -> {"none", "waiting", "ready"}]
      /\ \A g \in Files : before[g] = "none" <=> provider[g] = "none"
  BY <1>1, <1>2
<1>4. /\ DetailOK' /\ here /\ here' /\ (Shown /\ Shown' /\ ~crossing' => ~crossing /\ role' = role)
  BY <1>1 DEF detailVars, Inv, DetailOK, EditorsOK, Shown
<1>5. PanelOK'
  BY <1>1, PanelRests DEF Inv
<1> HIDE DEF before
<1> QED
  BY <1>1, <1>3, <1>4, <1>5, Committed

LEMMA TypeSteps == Inv /\ Type => StepOK
<1> SUFFICES ASSUME Inv, Type PROVE StepOK
  OBVIOUS
<1> DEFINE f == view.showing
<1>1. /\ Mounted /\ view' = [view EXCEPT !.states[f].history = TRUE]
      /\ UNCHANGED <<open, provider, reveal, jumps, remounted>>
      /\ UNCHANGED detailVars /\ UNCHANGED panelVars
  BY DEF Type
<1>2. view \in [showing : Files \cup {NoFile}, states : [Files -> EditorState],
                revealed : 0..MaxReveals]
  BY DEF Inv, EditorsOK
<1>3. f \in Files /\ view.states[f] \in EditorState /\ view.states[f].kept
  BY <1>1, <1>2 DEF Mounted, Inv, StatesAreLive
<1>4. [view.states[f] EXCEPT !.history = TRUE] \in EditorState
  BY <1>3 DEF EditorState
<1>5. /\ view'.showing = f /\ view'.revealed = view.revealed
      /\ view' \in [showing : Files \cup {NoFile}, states : [Files -> EditorState],
                    revealed : 0..MaxReveals]
      /\ \A g \in Files : view'.states[g] = IF g = f THEN [view.states[f] EXCEPT !.history = TRUE]
                                             ELSE view.states[g]
  BY <1>1, <1>2, <1>3, <1>4
<1>6. \A g \in Files : /\ view'.states[g].kept = view.states[g].kept
                       /\ view'.states[g].live = view.states[g].live
                       /\ view'.states[g].readOnly = view.states[g].readOnly
                       /\ view.states[g].history => view'.states[g].history
                       /\ view'.states[g].history => view.states[g].history \/ g = f
  BY <1>3, <1>5 DEF EditorState
<1>7. Mounted' /\ Shown' = Shown /\ DetailOK' /\ PanelOK'
  BY <1>1, <1>5, PanelRests DEF Mounted, Shown, DetailOK, detailVars, Inv
<1>8. EditorsOK'
  <2>1. Shown'
    BY <1>1, <1>7, NoViewIs DEF EditorsOK, Inv, Mounted
  <2>2. \A g \in Files : view'.states[g].history => view'.states[g].kept
    BY <1>3, <1>6 DEF EditorsOK, Inv
  <2>3. /\ provider' \in [Files -> {"none", "waiting", "ready"}]
        /\ \A g \in Files : provider'[g] # "none" => g \in OpenIds(open')
    BY <1>1 DEF EditorsOK, Inv
  <2> QED
    BY <1>5, <1>7, <2>1, <2>2, <2>3 DEF EditorsOK
<1>9. StatesAreLive' /\ EditableAsAllowed'
  BY <1>1, <1>3, <1>5, <1>6, <1>7 DEF StatesAreLive, EditableAsAllowed, Inv, detailVars, canEdit
<1>10. JumpsOK'
  BY <1>1, <1>5 DEF JumpsOK, Inv, detailVars
<1>11. HistoryKept /\ JumpAsked
  BY <1>1, <1>6, NoNewJump DEF HistoryKept
<1> QED
  BY <1>7, <1>8, <1>9, <1>10, <1>11 DEF StepOK, Inv

LEMMA JumpSteps == Inv /\ Jump => StepOK
<1> SUFFICES ASSUME Inv, Jump PROVE StepOK
  OBVIOUS
<1>1. /\ Mounted /\ reveal.docId = view.showing /\ view.revealed # reveal.nonce
      /\ view' = [view EXCEPT !.revealed = reveal.nonce]
      /\ jumps' = [jumps EXCEPT ![reveal.nonce] = IF @ < 2 THEN @ + 1 ELSE @]
      /\ UNCHANGED <<open, provider, reveal, remounted>>
      /\ UNCHANGED detailVars /\ UNCHANGED panelVars
  BY DEF Jump, Aimed
<1>2. /\ view \in [showing : Files \cup {NoFile}, states : [Files -> EditorState],
                   revealed : 0..MaxReveals]
      /\ reveal.nonce \in 0..MaxReveals /\ here
  BY <1>1, NoViewIs DEF Inv, EditorsOK, JumpsOK, Mounted, Shown
<1>3. /\ view'.showing = view.showing /\ view'.states = view.states /\ view'.revealed = reveal.nonce
      /\ view' \in [showing : Files \cup {NoFile}, states : [Files -> EditorState],
                    revealed : 0..MaxReveals]
  BY <1>1, <1>2
<1>4. DetailOK' /\ PanelOK' /\ Shown' = Shown /\ Mounted' /\ here'
  BY <1>1, <1>2, <1>3, PanelRests DEF Shown, Mounted, DetailOK, detailVars, Inv
<1>5. EditorsOK'
  BY <1>1, <1>3, <1>4, NoViewIs DEF EditorsOK, Inv, Mounted
<1>6. StatesAreLive' /\ EditableAsAllowed'
  BY <1>1, <1>3, <1>4 DEF StatesAreLive, EditableAsAllowed, Inv, detailVars, canEdit
<1>7. /\ jumps' \in [1..MaxReveals -> 0..2]
      /\ \A n \in 1..MaxReveals : jumps'[n] # jumps[n] => n = reveal.nonce
  <2>1. jumps \in [1..MaxReveals -> 0..2]
    BY DEF Inv, JumpsOK
  <2> DEFINE once == IF jumps[reveal.nonce] < 2 THEN jumps[reveal.nonce] + 1
                     ELSE jumps[reveal.nonce]
  <2>2. reveal.nonce \in 1..MaxReveals => once \in 0..2
    BY <2>1
  <2>3. jumps' = [jumps EXCEPT ![reveal.nonce] = once]
    BY <1>1
  <2> HIDE DEF once
  <2> QED
    BY <2>1, <2>2, <2>3
<1>8. JumpsOK'
  BY <1>1, <1>2, <1>3, <1>4, <1>7, WorkAreaAssumption DEF JumpsOK, Inv
<1>9. HistoryKept
  BY <1>3 DEF HistoryKept
<1>10. JumpAsked
  BY <1>1, <1>7, WorkAreaAssumption DEF JumpAsked, JumpsOK, Inv
<1> QED
  BY <1>4, <1>5, <1>6, <1>8, <1>9, <1>10 DEF StepOK, Inv

LEMMA StillSteps ==
  ASSUME Inv, PanelOK', UNCHANGED detailVars, UNCHANGED editorVars
  PROVE  StepOK
<1>1. /\ UNCHANGED <<open, provider, view, reveal, jumps, remounted>>
      /\ UNCHANGED <<here, loading, role, gets, crossing>>
  BY DEF editorVars, detailVars
<1>2. DetailOK' /\ EditorsOK' /\ StatesAreLive' /\ EditableAsAllowed' /\ JumpsOK'
  BY <1>1 DEF Inv, DetailOK, EditorsOK, StatesAreLive, EditableAsAllowed, JumpsOK, Mounted, Shown,
              canEdit
<1>3. HistoryKept /\ JumpAsked
  BY <1>1, NoNewJump DEF HistoryKept
<1> QED
  BY <1>2, <1>3 DEF StepOK, Inv

LEMMA PanelSteps == Inv /\ PanelStep => StepOK
<1> SUFFICES ASSUME Inv, PanelStep PROVE StepOK
  OBVIOUS
<1>1. UNCHANGED detailVars /\ UNCHANGED editorVars
  BY DEF PanelStep
<1>2. PICK r \in Runs : Start(r) \/ Refused(r) \/ Accepted(r) \/ Output(r) \/ Ends(r)
  BY DEF PanelStep
<1>3. PanelOK'
  BY <1>2, PanelStarts, PanelHears DEF Inv
<1> QED
  BY <1>1, <1>3, StillSteps

LEMMA NextInv == Inv /\ [Next]_vars => StepOK
<1> SUFFICES ASSUME Inv, [Next]_vars PROVE StepOK
  OBVIOUS
<1>1. CASE PageStep
  BY <1>1, PageSteps
<1>2. CASE Type
  BY <1>2, TypeSteps
<1>3. CASE Jump
  BY <1>3, JumpSteps
<1>4. CASE PanelStep
  BY <1>4, PanelSteps
<1>5. ASSUME NEW f \in Files, OpenFile(f)
      PROVE  StepOK
  BY <1>5, TabSteps DEF OpenFile
<1>6. ASSUME NEW f \in Files, SelectTab(f)
      PROVE  StepOK
  BY <1>6, TabSteps DEF SelectTab
<1>7. ASSUME NEW f \in Files, CloseTab(f)
      PROVE  StepOK
  BY <1>7, TabSteps DEF CloseTab
<1>8. ASSUME NEW f \in Files, OpenFromSearch(f)
      PROVE  StepOK
  BY <1>8, TabSteps DEF OpenFromSearch
<1>9. ASSUME NEW f \in Files, Ready(f)
      PROVE  StepOK
  BY <1>9, ReadySteps
<1>10. CASE UNCHANGED vars
  <2>1. UNCHANGED detailVars /\ UNCHANGED panelVars /\ UNCHANGED editorVars
    BY <1>10 DEF vars
  <2> QED
    BY <2>1, PanelRests, StillSteps DEF Inv
<1> QED
  BY <1>1, <1>2, <1>3, <1>4, <1>5, <1>6, <1>7, <1>8, <1>9, <1>10 DEF Next

LEMMA Always == Spec => []Inv
<1>1. Inv /\ [Next]_vars => Inv'
  BY NextInv DEF StepOK
<1> QED
  BY InitInv, <1>1, PTL DEF Spec
-----------------------------------------------------------------------------
(* Whatever CodeMirror keeps belongs to an open tab and is bound to that     *)
(* tab's living document, whatever order tabs, refreshes and documents       *)
(* arrive in (EditorPane.tsx, CodeMirror.tsx, useCollabDocs.ts).            *)
THEOREM LiveStates == Spec => []StatesAreLive
  BY Always, PTL DEF Inv

(* Unless two refreshes overlapped, an editor state allows typing exactly    *)
(* when the shown role does, although it is made once and never changed:     *)
(* a refresh takes the pane away before a new role can arrive.              *)
THEOREM EditorsFollowTheRole == Spec => []EditableAsAllowed
  BY Always, PTL DEF Inv

(* The terminal of the run panel shows one run, the one its ref follows; any *)
(* other stream belongs to a panel that died while the POST was under way.   *)
THEOREM OneRunPerTerminal == Spec => []StreamsBelongToThePanel
<1>1. Inv => StreamsBelongToThePanel
  <2> SUFFICES ASSUME Inv PROVE StreamsBelongToThePanel
    OBVIOUS
  <2>1. lines = {} \/ \E r \in lines : lines = {r}
    BY DEF Inv, PanelOK
  <2>2. Cardinality(lines) <= 1
    BY <2>1, FS_EmptySet, FS_Singleton
  <2>3. \A r \in Runs : run[r] = "streaming" => IF r \in mine THEN r = source ELSE r \in orphans
    BY DEF Inv, PanelOK
  <2> QED
    BY <2>2, <2>3 DEF StreamsBelongToThePanel
<1> QED
  BY Always, <1>1, PTL

(* While the view stays mounted every open file keeps its undo history: the  *)
(* effect that swaps states loses none that is still open.                  *)
THEOREM HistorySurvives == Spec => HistorySurvivesSwitching
<1>1. Inv /\ [Next]_vars => HistoryKept
  BY NextInv DEF StepOK
<1> QED
  BY Always, <1>1, PTL DEF Spec, HistorySurvivesSwitching, HistoryKept

(* The cursor moves for the last search result only, in the file it is in,   *)
(* and a second time only if the view that answered it has gone.            *)
THEOREM JumpsAnswerRequests == Spec => JumpsAreAsked
<1>1. Inv /\ [Next]_vars => JumpAsked
  BY NextInv DEF StepOK
<1> QED
  BY Always, <1>1, PTL DEF Spec, JumpsAreAsked, JumpAsked
-----------------------------------------------------------------------------
-----------------------------------------------------------------------------
(* What the server does keeps the rows a tree with unique keys.              *)
RowsOK(S, bound) ==
  S \subseteq Row /\ IsFiniteSet(S) /\ Tidy(S) /\ \A x \in S : x.id < bound
Dirs(S, p) == \A a \in Ancestors(p) : \A x \in At(S, a) : x.isDir

LEMMA RowsAreTable ==
  ASSUME NEW S, NEW n, RowsOK(S, n)
  PROVE  Table(S) /\ Closed(S) /\ Unique(S)
  BY DEF RowsOK, Table, Row, Tidy

LEMMA AncestorsFinite ==
  ASSUME NEW p \in Path PROVE IsFiniteSet(Ancestors(p))
<1> DEFINE I == 1..(Len(p) - 1)
           f == [k \in I |-> SubSeq(p, 1, k)]
<1>1. Len(p) - 1 \in Int
  BY FrontIs
<1>2. IsFiniteSet(I)
  BY <1>1, FS_Interval
<1>3. f \in Surjection(I, Ancestors(p))
  <2> HIDE DEF I
  <2> QED
    BY DEF Surjection, Ancestors, I
<1> QED
  BY <1>2, <1>3, FS_Surjection

LEMMA AncestorFacts ==
  ASSUME NEW p \in Path, NEW a \in Ancestors(p)
  PROVE  /\ a \in Path /\ a \in Seq(Name) /\ isDescendantOf(p, a) /\ a # p
         /\ Len(a) \in Nat /\ Len(p) \in Nat /\ Len(a) >= 1 /\ Len(a) < Len(p)
         /\ Ancestors(a) \subseteq Ancestors(p)
         /\ \A b \in Ancestors(p) : Len(a) = Len(b) => a = b
<1>1. p \in Seq(Name)
  BY DEF Path
<1>2. a \in Path /\ isDescendantOf(p, a) /\ a \in Seq(Name)
  BY <1>1, AncestorsAre DEF Path
<1>3. Len(a) < Len(p) /\ \A i \in 1..Len(a) : p[i] = a[i]
  BY <1>1, <1>2, Below
<1>4. Len(a) \in Nat /\ Len(p) \in Nat /\ Len(a) >= 1
  BY <1>2, FrontIs
<1>5. ASSUME NEW b \in Ancestors(a) PROVE b \in Ancestors(p)
  <2>1. b \in Path /\ b \in Seq(Name) /\ isDescendantOf(a, b)
    BY <1>2, AncestorsAre DEF Path
  <2>2. isDescendantOf(p, b)
    BY <1>1, <1>2, <2>1, BelowBelow
  <2> QED
    BY <1>1, <2>1, <2>2, AncestorsAre
<1>6. ASSUME NEW b \in Ancestors(p), Len(a) = Len(b) PROVE a = b
  <2>1. b \in Path /\ b \in Seq(Name) /\ isDescendantOf(p, b)
    BY <1>1, AncestorsAre DEF Path
  <2>2. \A i \in 1..Len(b) : p[i] = b[i]
    BY <1>1, <2>1, Below
  <2> QED
    BY <1>2, <1>3, <1>6, <2>1, <2>2, SeqEqual
<1> QED
  BY <1>2, <1>3, <1>4, <1>5, <1>6

(* The directories made for a path whose parents are missing.                *)
Made(S, p) == {[id |-> nextId + Len(a), path |-> a, isDir |-> TRUE] : a \in Ancestors(p) \ Paths(S)}

LEMMA MadeIs ==
  ASSUME NEW S, RowsOK(S, nextId), nextId \in Nat \ {0}, NEW p \in Path, Dirs(S, p)
  PROVE  /\ RowsOK(S \cup Made(S, p), nextId + Len(p)) /\ Made(S, p) \subseteq Row
         /\ \A a \in Ancestors(p) : \E d \in S \cup Made(S, p) : d.path = a /\ d.isDir
         /\ \A x \in Made(S, p) : x.id > nextId /\ x.path \in Ancestors(p) /\ x.path \notin Paths(S)
<1> DEFINE M == Made(S, p)
           A == Ancestors(p) \ Paths(S)
           U == S \cup M
<1>1. Len(p) \in Nat /\ Len(p) >= 1
  BY FrontIs
<1>2. ASSUME NEW x \in M
      PROVE  /\ x \in Row /\ x.isDir /\ x.path \in Ancestors(p) /\ x.path \notin Paths(S)
             /\ x.id = nextId + Len(x.path) /\ x.id > nextId /\ x.id < nextId + Len(p)
  <2>1. PICK a \in A : x = [id |-> nextId + Len(a), path |-> a, isDir |-> TRUE]
    BY DEF Made
  <2>2. a \in Path /\ Len(a) \in Nat /\ Len(a) >= 1 /\ Len(a) < Len(p)
    BY AncestorFacts
  <2>3. x.id = nextId + Len(a) /\ x.path = a /\ x.isDir = TRUE
    BY <2>1
  <2>4. nextId + Len(a) \in Nat \ {0} /\ nextId + Len(a) > nextId /\ nextId + Len(a) < nextId + Len(p)
    <3> DEFINE l == Len(a)
               m == Len(p)
    <3>1. l \in Nat /\ l >= 1 /\ l < m /\ m \in Nat
      BY <1>1, <2>2
    <3> HIDE DEF l, m
    <3>2. nextId + l \in Nat \ {0} /\ nextId + l > nextId /\ nextId + l < nextId + m
      BY <3>1
    <3> QED
      BY <3>2 DEF l, m
  <2>5. x \in Row
    BY <2>1, <2>2, <2>4 DEF Row
  <2> QED
    BY <2>2, <2>3, <2>4, <2>5
<1>3. ASSUME NEW a \in A PROVE \E x \in M : x.path = a
  <2> DEFINE x == [id |-> nextId + Len(a), path |-> a, isDir |-> TRUE]
  <2>1. x \in M
    BY DEF Made
  <2>2. x.path = a
    OBVIOUS
  <2> HIDE DEF x, M
  <2> QED
    BY <2>1, <2>2
<1>4. IsFiniteSet(M)
  <2> DEFINE f == [a \in A |-> [id |-> nextId + Len(a), path |-> a, isDir |-> TRUE]]
  <2>1. f \in Surjection(A, M)
    BY DEF Surjection, Made
  <2>2. IsFiniteSet(A)
    BY AncestorsFinite, FS_Subset
  <2> QED
    BY <2>1, <2>2, FS_Surjection
<1> HIDE DEF M
<1>5. S \subseteq Row /\ IsFiniteSet(S) /\ Unique(S) /\ Closed(S) /\ \A x \in S : x.id < nextId /\ x.id \in Nat
  BY DEF RowsOK, Tidy, Row
<1>6. U \subseteq Row /\ IsFiniteSet(U)
  BY <1>2, <1>4, <1>5, FS_Union
<1>7. \A x \in U : x.id < nextId + Len(p) /\ x.id \in Nat
  <2> SUFFICES ASSUME NEW x \in U PROVE x.id < nextId + Len(p) /\ x.id \in Nat
    OBVIOUS
  <2>1. CASE x \in S
    BY <1>1, <1>5, <2>1
  <2>2. CASE x \in M
    BY <1>2, <2>2 DEF Row
  <2> QED
    BY <2>1, <2>2
<1>8. Unique(U)
  <2>1. ASSUME NEW x \in M, NEW y \in M, x.id = y.id \/ x.path = y.path PROVE x = y
    <3>1. x.path = y.path
      <4>1. CASE x.id = y.id
        <5> DEFINE l == Len(x.path)
                   m == Len(y.path)
        <5>1. l \in Nat /\ m \in Nat /\ nextId + l = nextId + m
          BY <1>2, <4>1, AncestorFacts
        <5> HIDE DEF l, m
        <5>2. l = m
          BY <5>1
        <5>3. Len(x.path) = Len(y.path)
          BY <5>2 DEF l, m
        <5> QED
          BY <1>2, <5>3, AncestorFacts
      <4> QED
        BY <2>1, <4>1
    <3>2. x.id = y.id /\ x.isDir = TRUE /\ y.isDir = TRUE
      BY <1>2, <3>1 DEF Row
    <3>3. x \in Row /\ y \in Row
      BY <1>2
    <3> QED
      BY <3>1, <3>2, <3>3 DEF Row
  <2>2. ASSUME NEW x \in S, NEW y \in M PROVE x.id # y.id /\ x.path # y.path
    <3>1. x.path \in Paths(S)
      BY DEF Paths
    <3>2. x.id \in Nat /\ y.id \in Nat /\ x.id < nextId /\ y.id > nextId
      BY <1>2, <1>5 DEF Row
    <3> QED
      BY <1>2, <3>1, <3>2
  <2> QED
    BY <1>5, <2>1, <2>2 DEF Unique
<1>9. ASSUME NEW a \in Ancestors(p) PROVE \E d \in U : d.path = a /\ d.isDir
  <2>1. CASE a \in Paths(S)
    <3>1. PICK x \in S : x.path = a
      BY <2>1 DEF Paths
    <3> QED
      BY <3>1 DEF Dirs, At
  <2>2. CASE a \notin Paths(S)
    BY <1>2, <1>3, <2>2
  <2> QED
    BY <2>1, <2>2
<1>10. Closed(U)
  <2> SUFFICES ASSUME NEW x \in U, NEW a \in Ancestors(x.path) PROVE \E d \in U : d.path = a /\ d.isDir
    BY DEF Closed, At
  <2>1. CASE x \in S
    BY <1>5, <2>1 DEF Closed, At
  <2>2. CASE x \in M
    <3>1. a \in Ancestors(p)
      BY <1>2, <2>2, AncestorFacts
    <3> QED
      BY <1>9, <3>1
  <2> QED
    BY <2>1, <2>2
<1>11. RowsOK(U, nextId + Len(p))
  BY <1>6, <1>7, <1>8, <1>10 DEF RowsOK, Tidy
<1>12. M \subseteq Row
  BY <1>2
<1> QED
  BY <1>2, <1>9, <1>11, <1>12 DEF M

(* Adding one row below directories.                                        *)
LEMMA AddedRow ==
  ASSUME NEW U, NEW n, RowsOK(U, n), NEW x \in Row, x.id \notin Ids(U), x.path \notin Paths(U), x.id < n,
         \A a \in Ancestors(x.path) : \E d \in U : d.path = a /\ d.isDir
  PROVE  RowsOK(U \cup {x}, n)
<1>1. U \subseteq Row /\ IsFiniteSet(U) /\ Unique(U) /\ Closed(U) /\ \A y \in U : y.id < n
  BY DEF RowsOK, Tidy
<1>2. IsFiniteSet(U \cup {x}) /\ U \cup {x} \subseteq Row
  BY <1>1, FS_AddElement
<1>3. \A y \in U : y.id # x.id /\ y.path # x.path
  BY DEF Ids, Paths
<1>4. Unique(U \cup {x})
  BY <1>1, <1>3 DEF Unique
<1>5. Closed(U \cup {x})
  <2> SUFFICES ASSUME NEW y \in U \cup {x}, NEW a \in Ancestors(y.path)
               PROVE  \E d \in U \cup {x} : d.path = a /\ d.isDir
    BY DEF Closed, At
  <2>1. \E d \in U : d.path = a /\ d.isDir
    BY <1>1 DEF Closed, At
  <2> QED
    BY <2>1
<1> QED
  BY <1>1, <1>2, <1>4, <1>5 DEF RowsOK, Tidy

(* What an outcome is, seen from the rows there were.                        *)
Follows(new) ==
  /\ \E n \in Nat : RowsOK(new, n)
  /\ \A x \in new : x.id \in Ids(rows) \/ x.id >= nextId

LEMMA CreatedIs ==
  ASSUME RowsOK(rows, nextId), nextId \in Nat \ {0}, NEW p \in Path, NEW d \in BOOLEAN,
         NEW new \in Created(p, d)
  PROVE  Follows(new)
<1> DEFINE x == [id |-> nextId, path |-> p, isDir |-> d]
           U == rows \cup Made(rows, p)
           n == nextId + Len(p)
<1>1. /\ p \notin Paths(rows) /\ \A a \in Ancestors(p) : \A y \in At(rows, a) : y.isDir
      /\ new = U \cup {x}
  BY DEF Created, Made
<1>2. Dirs(rows, p)
  BY <1>1 DEF Dirs
<1>3. /\ RowsOK(U, n) /\ \A a \in Ancestors(p) : \E e \in U : e.path = a /\ e.isDir
      /\ \A y \in Made(rows, p) : y.id > nextId /\ y.path \in Ancestors(p)
  BY <1>2, MadeIs
<1>4. n \in Nat /\ nextId < n
  BY FrontIs
<1>5. \A y \in rows : y.id < nextId /\ y.path # p /\ y.id \in Nat
  BY <1>1 DEF RowsOK, Paths, Row
<1>6. \A y \in Made(rows, p) : y.id # nextId /\ y.path # p /\ y.id > nextId
  BY <1>3, AncestorFacts
<1>7. nextId \notin Ids(U) /\ p \notin Paths(U)
  BY <1>5, <1>6 DEF Ids, Paths
<1>8. x \in Row /\ x.id = nextId /\ x.path = p
  BY DEF Row
<1> HIDE DEF x, U, n
<1>9. RowsOK(U \cup {x}, n)
  BY <1>3, <1>4, <1>7, <1>8, AddedRow
<1>10. \A y \in new : y.id \in Ids(rows) \/ y.id >= nextId
  <2> SUFFICES ASSUME NEW y \in new PROVE y.id \in Ids(rows) \/ y.id >= nextId
    OBVIOUS
  <2>1. y \in rows \/ y \in Made(rows, p) \/ y = x
    BY <1>1 DEF U
  <2>2. ASSUME y \in Made(rows, p) PROVE y.id >= nextId
    <3>1. y.id > nextId /\ y.id \in Nat
      <4>1. y \in U
        BY <2>2 DEF U
      <4>2. y \in Row
        BY <1>3, <4>1 DEF RowsOK
      <4> QED
        BY <1>6, <2>2, <4>2 DEF Row
    <3> QED
      BY <3>1
  <2> QED
    BY <1>8, <2>1, <2>2 DEF Ids
<1> QED
  BY <1>1, <1>4, <1>9, <1>10 DEF Follows

LEMMA RemovedIs ==
  ASSUME RowsOK(rows, nextId), nextId \in Nat \ {0}, NEW id, NEW new \in Removed(id)
  PROVE  Follows(new)
<1>1. rows \subseteq Row /\ IsFiniteSet(rows) /\ Unique(rows) /\ Closed(rows) /\ \A x \in rows : x.id < nextId
  BY DEF RowsOK, Tidy
<1>2. id \in Ids(rows) /\ new = {x \in rows : x.id \notin Swept(id)}
  BY DEF Removed, Swept
<1> DEFINE row == RowOf(rows, id)
<1>3. row \in rows /\ row.id = id
  BY <1>2 DEF Ids, RowOf
<1>4. Swept(id) = Ids({x \in rows : x = row \/ isDescendantOf(x.path, row.path)})
  BY <1>2 DEF Swept
<1> HIDE DEF row
<1>5. \A x \in rows : x.id \in Swept(id) <=> x = row \/ isDescendantOf(x.path, row.path)
  BY <1>1, <1>4 DEF Ids, Unique
<1>6. Closed(new)
  <2> SUFFICES ASSUME NEW x \in new, NEW a \in Ancestors(x.path) PROVE \E d \in new : d.path = a /\ d.isDir
    BY DEF Closed, At
  <2>1. x \in rows /\ x # row /\ ~isDescendantOf(x.path, row.path)
    BY <1>2, <1>5
  <2>2. PICK d \in rows : d.path = a /\ d.isDir
    BY <1>1, <2>1 DEF Closed, At
  <2>3. x.path \in Path /\ row.path \in Path
    BY <1>1, <1>3, <2>1 DEF Row
  <2>4. isDescendantOf(x.path, a) /\ a \in Seq(Name)
    BY <2>3, AncestorFacts
  <2>5. ~(d = row \/ isDescendantOf(d.path, row.path))
    BY <2>1, <2>2, <2>3, <2>4, BelowBelow DEF Path
  <2> QED
    BY <1>2, <1>5, <2>2, <2>5
<1>7. Unique(new) /\ IsFiniteSet(new) /\ new \subseteq Row /\ \A x \in new : x.id < nextId
  BY <1>1, <1>2, FS_Subset DEF Unique
<1>8. RowsOK(new, nextId)
  BY <1>6, <1>7 DEF RowsOK, Tidy
<1> QED
  BY <1>2, <1>8 DEF Follows, Ids

LEMMA ReplacedSelf ==
  ASSUME NEW p \in Path, NEW to \in Path
  PROVE  replacePathPrefix(p, p, to) = to
<1>1. Len(p) \in Nat /\ to \in Seq(Name) /\ p \in Seq(Name)
  BY DEF Path
<1>2. SubSeq(p, Len(p) + 1, Len(p)) = << >>
  BY <1>1, SubSeqEmpty
<1>3. to \o << >> = to
  BY <1>1
<1> QED
  BY <1>2, <1>3 DEF replacePathPrefix

LEMMA ReplacedApart ==
  ASSUME NEW p \in Seq(Name), NEW q \in Seq(Name), NEW from \in Seq(Name), NEW to \in Path,
         isDescendantOf(p, from), isDescendantOf(q, from),
         replacePathPrefix(p, from, to) = replacePathPrefix(q, from, to)
  PROVE  p = q
<1> DEFINE r == replacePathPrefix(p, from, to)
           s == replacePathPrefix(q, from, to)
<1>1. /\ Len(r) = Len(to) + Len(p) - Len(from)
      /\ \A i \in 1..(Len(p) - Len(from)) : r[Len(to) + i] = p[Len(from) + i]
  BY Replaced
<1>2. /\ Len(s) = Len(to) + Len(q) - Len(from)
      /\ \A i \in 1..(Len(q) - Len(from)) : s[Len(to) + i] = q[Len(from) + i]
  BY Replaced
<1>3. /\ Len(p) \in Nat /\ Len(q) \in Nat /\ Len(from) \in Nat /\ Len(to) \in Nat
      /\ Len(from) < Len(p) /\ Len(from) < Len(q)
      /\ \A i \in 1..Len(from) : p[i] = from[i] /\ q[i] = from[i]
  <2>1. to \in Seq(Name)
    BY DEF Path
  <2>2. Len(p) \in Nat /\ Len(q) \in Nat /\ Len(from) \in Nat /\ Len(to) \in Nat
    BY <2>1
  <2>3. Len(from) < Len(p) /\ \A i \in 1..Len(from) : p[i] = from[i]
    BY Below
  <2>4. Len(from) < Len(q) /\ \A i \in 1..Len(from) : q[i] = from[i]
    BY Below
  <2> QED
    BY <2>2, <2>3, <2>4
<1>4. r = s
  OBVIOUS
<1> HIDE DEF r, s
<1>5. Len(p) = Len(q)
  BY <1>1, <1>2, <1>3, <1>4
<1>6. ASSUME NEW i \in 1..Len(p) PROVE p[i] = q[i]
  <2>1. CASE i <= Len(from)
    BY <1>3, <2>1
  <2>2. CASE i > Len(from)
    <3> DEFINE j == i - Len(from)
    <3>1. j \in 1..(Len(p) - Len(from)) /\ j \in 1..(Len(q) - Len(from)) /\ Len(from) + j = i
      BY <1>3, <1>5, <2>2
    <3> HIDE DEF j
    <3>2. r[Len(to) + j] = p[Len(from) + j] /\ s[Len(to) + j] = q[Len(from) + j]
      BY <1>1, <1>2, <3>1
    <3> QED
      BY <1>4, <3>1, <3>2
  <2> QED
    BY <1>3, <2>1, <2>2
<1> QED
  BY <1>5, <1>6, SeqEqual

(* A directory or file and what is beneath it, at a new path.                *)
Shifted(x, row, path) == [x EXCEPT !.path = replacePathPrefix(@, row.path, path)]

LEMMA ShiftedIs ==
  ASSUME NEW x \in Row, NEW row \in Row, NEW path \in Path,
         x = row \/ isDescendantOf(x.path, row.path)
  PROVE  /\ Shifted(x, row, path) \in Row /\ Shifted(x, row, path).id = x.id
         /\ Shifted(x, row, path).isDir = x.isDir
         /\ Shifted(x, row, path).path = replacePathPrefix(x.path, row.path, path)
         /\ x = row => Shifted(x, row, path).path = path
         /\ x # row => isDescendantOf(Shifted(x, row, path).path, path)
         /\ Len(Shifted(x, row, path).path) >= Len(path)
         /\ \A a \in Ancestors(Shifted(x, row, path).path) :
              \/ a \in Ancestors(path)
              \/ x # row /\ a = path
              \/ \E b \in Ancestors(x.path) : /\ isDescendantOf(b, row.path)
                                              /\ a = replacePathPrefix(b, row.path, path)
<1> DEFINE y == Shifted(x, row, path)
           r == replacePathPrefix(x.path, row.path, path)
<1>1. x.path \in Path /\ row.path \in Path /\ x.path \in Seq(Name) /\ row.path \in Seq(Name)
  BY DEF Row, Path
<1>2. y = [x EXCEPT !.path = r]
  BY DEF Shifted
<1>3. CASE x = row
  <2>1. r = path
    BY <1>1, <1>3, ReplacedSelf
  <2> HIDE DEF r, y
  <2>2. y.path = path /\ y.id = x.id /\ y.isDir = x.isDir /\ y \in Row
    BY <1>2, <2>1 DEF Row
  <2>3. Len(path) \in Nat
    BY FrontIs
  <2> QED
    BY <1>3, <2>1, <2>2, <2>3 DEF y, r
<1>4. CASE x # row
  <2>1. isDescendantOf(x.path, row.path)
    BY <1>4
  <2>2. r \in Path /\ isDescendantOf(r, path)
    BY <1>1, <2>1, ReplacedPath
  <2>3. \A a \in Ancestors(r) : \/ a \in Ancestors(path) \/ a = path
                                \/ \E b \in Ancestors(x.path) : /\ isDescendantOf(b, row.path)
                                                                /\ a = replacePathPrefix(b, row.path, path)
    BY <1>1, <2>1, AboveReplaced
  <2> HIDE DEF r, y
  <2>4. y.path = r /\ y.id = x.id /\ y.isDir = x.isDir /\ y \in Row
    BY <1>2, <2>2 DEF Row
  <2>5. Len(r) >= Len(path)
    <3>1. r \in Seq(Name) /\ path \in Seq(Name)
      BY <2>2 DEF Path
    <3>2. Len(path) < Len(r)
      BY <2>2, <3>1, Below
    <3> QED
      BY <3>1, <3>2
  <2> QED
    BY <1>4, <2>2, <2>3, <2>4, <2>5 DEF y, r
<1> QED
  BY <1>3, <1>4

LEMMA MovedIs ==
  ASSUME RowsOK(rows, nextId), nextId \in Nat \ {0}, NEW id, NEW path \in Path, NEW new \in Moved(id, path)
  PROVE  Follows(new) /\ id \in Ids(rows) /\ \E x \in new : x.id = id /\ x.path = path
<1> DEFINE row == RowOf(rows, id)
           moving == {x \in rows : x = row \/ isDescendantOf(x.path, row.path)}
           others == rows \ moving
           made == Made(others, path)
           moved == {Shifted(x, row, path) : x \in moving}
           n == nextId + Len(path)
<1>1. /\ id \in Ids(rows) /\ Paths(moved) \cap Paths(others) = {}
      /\ \A p \in Ancestors(path) : \A x \in At(others, p) : x.isDir
      /\ new = others \cup moved \cup made
  BY DEF Moved, Made, Shifted
<1>2. rows \subseteq Row /\ IsFiniteSet(rows) /\ Unique(rows) /\ Closed(rows) /\ \A x \in rows : x.id < nextId
  BY DEF RowsOK, Tidy
<1>3. row \in rows /\ row.id = id
  BY <1>1 DEF Ids, RowOf
<1> HIDE DEF row
<1>4. row \in moving /\ moving \subseteq rows /\ others \subseteq rows
  BY <1>3
<1>5. \A x \in rows : x \in moving <=> x = row \/ isDescendantOf(x.path, row.path)
  OBVIOUS
<1>6. \A x \in rows : x \in others <=> x \notin moving
  OBVIOUS
<1>7. \A x \in rows : x.path \in Path /\ x.path \in Seq(Name) /\ x.id \in Nat
  BY <1>2 DEF Row, Path
<1> HIDE DEF moving, others
<1>8. RowsOK(others, nextId)
  <2>1. ASSUME NEW x \in others, NEW a \in Ancestors(x.path) PROVE \E d \in others : d.path = a /\ d.isDir
    <3>1. x \in rows /\ x \notin moving
      BY <1>4, <1>6
    <3>2. PICK d \in rows : d.path = a /\ d.isDir
      BY <1>2, <2>1, <3>1 DEF Closed, At
    <3>3. isDescendantOf(x.path, d.path)
      BY <1>7, <2>1, <3>1, <3>2, AncestorFacts
    <3>4. d \notin moving
      BY <1>3, <1>5, <1>7, <3>1, <3>3, BelowBelow
    <3> QED
      BY <1>6, <3>2, <3>4
  <2>2. Closed(others)
    BY <2>1 DEF Closed, At
  <2> QED
    BY <1>2, <1>4, <2>2, FS_Subset DEF RowsOK, Tidy, Unique
<1>9. Dirs(others, path)
  BY <1>1 DEF Dirs
<1> DEFINE U == others \cup made
<1>10. /\ RowsOK(U, n) /\ \A a \in Ancestors(path) : \E d \in U : d.path = a /\ d.isDir
       /\ \A x \in made : x.id > nextId /\ x.path \in Ancestors(path) /\ x.path \notin Paths(others)
  BY <1>8, <1>9, MadeIs
<1>11. n \in Nat /\ nextId < n /\ Len(path) \in Nat
  BY FrontIs
<1> HIDE DEF made, n, U
<1>12. ASSUME NEW x \in moving
       PROVE  LET y == Shifted(x, row, path) IN
              /\ y \in Row /\ y.id = x.id /\ y.isDir = x.isDir
              /\ y.path = replacePathPrefix(x.path, row.path, path)
              /\ Len(y.path) >= Len(path) /\ (x = row => y.path = path)
              /\ (x # row => isDescendantOf(y.path, path))
  <2>1. x \in Row /\ row \in Row /\ (x = row \/ isDescendantOf(x.path, row.path))
    BY <1>2, <1>3, <1>4, <1>5
  <2> QED
    BY <2>1, ShiftedIs
<1>13. IsFiniteSet(moved)
  <2> DEFINE f == [x \in moving |-> Shifted(x, row, path)]
  <2>1. f \in Surjection(moving, moved)
    BY DEF Surjection
  <2>2. IsFiniteSet(moving)
    BY <1>2, <1>4, FS_Subset
  <2> QED
    BY <2>1, <2>2, FS_Surjection
<1>14. moved \subseteq Row
  BY <1>12
<1>15. \A y \in moved : \E x \in moving : y = Shifted(x, row, path)
  OBVIOUS
<1>16. \A x \in moving : Shifted(x, row, path) \in moved
  OBVIOUS
<1> HIDE DEF moved
<1>17. ASSUME NEW x \in moving, NEW z \in moving,
              replacePathPrefix(x.path, row.path, path) = replacePathPrefix(z.path, row.path, path)
       PROVE  x = z
  <2> DEFINE p == replacePathPrefix(x.path, row.path, path)
             q == replacePathPrefix(z.path, row.path, path)
  <2>1. /\ x \in rows /\ z \in rows /\ x.path \in Seq(Name) /\ z.path \in Seq(Name) /\ row.path \in Seq(Name)
        /\ path \in Seq(Name)
    BY <1>3, <1>4, <1>7 DEF Path
  <2>2. CASE x # row /\ z # row
    <3>1. isDescendantOf(x.path, row.path) /\ isDescendantOf(z.path, row.path)
      BY <1>5, <2>1, <2>2
    <3>2. x.path = z.path
      BY <1>17, <2>1, <3>1, ReplacedApart
    <3> QED
      BY <1>2, <2>1, <3>2 DEF Unique
  <2>3. x = row => p = path
    BY <1>3, <1>7, ReplacedSelf
  <2>4. z = row => q = path
    BY <1>3, <1>7, ReplacedSelf
  <2>5. ASSUME NEW w \in moving, w # row PROVE replacePathPrefix(w.path, row.path, path) # path
    <3>1. isDescendantOf(w.path, row.path) /\ w.path \in Seq(Name)
      BY <1>4, <1>5, <1>7, <2>5
    <3>2. isDescendantOf(replacePathPrefix(w.path, row.path, path), path)
      BY <2>1, <3>1, ReplacedPath
    <3> QED
      BY <3>2 DEF isDescendantOf, IsStrictPrefix
  <2> QED
    BY <1>17, <2>2, <2>3, <2>4, <2>5
<1>18. \A y \in U : (y \in others \/ y \in made) /\ y \in Row
  BY <1>10 DEF U, RowsOK
<1>19. ASSUME NEW y \in moved, NEW z \in U PROVE y.id # z.id /\ y.path # z.path
  <2>1. PICK x \in moving : y = Shifted(x, row, path)
    BY <1>15
  <2>2. y.id = x.id /\ Len(y.path) >= Len(path) /\ x \in rows /\ x.id < nextId /\ x.id \in Nat
    BY <1>2, <1>4, <1>7, <1>12, <2>1
  <2>3. CASE z \in others
    <3>1. z \in rows /\ z # x
      BY <1>4, <1>6, <2>3
    <3>2. z.id # x.id
      BY <1>2, <2>2, <3>1 DEF Unique
    <3>3. y.path \in Paths(moved) /\ z.path \in Paths(others)
      BY <2>3 DEF Paths
    <3> QED
      BY <1>1, <2>2, <3>2, <3>3
  <2>4. CASE z \in made
    <3>1. z.id > nextId /\ z.path \in Ancestors(path) /\ z.id \in Nat
      BY <1>10, <1>18, <2>4 DEF Row
    <3>2. Len(z.path) < Len(path) /\ Len(z.path) \in Nat
      BY <3>1, AncestorFacts
    <3>3. y.path # z.path
      <4>1. ASSUME y.path = z.path PROVE FALSE
        <5>1. Len(z.path) >= Len(path)
          BY <2>2, <4>1
        <5> DEFINE l == Len(z.path)
                   m == Len(path)
        <5>2. l \in Nat /\ m \in Nat /\ l < m /\ l >= m
          BY <1>11, <3>2, <5>1
        <5> HIDE DEF l, m
        <5> QED
          BY <5>2
      <4> QED
        BY <4>1
    <3> QED
      BY <2>2, <3>1, <3>3
  <2> QED
    BY <1>18, <2>3, <2>4
<1>20. Unique(moved)
  <2> SUFFICES ASSUME NEW y \in moved, NEW z \in moved, y.id = z.id \/ y.path = z.path PROVE y = z
    BY DEF Unique
  <2>1. PICK x \in moving, w \in moving : y = Shifted(x, row, path) /\ z = Shifted(w, row, path)
    BY <1>15
  <2>2. /\ y.id = x.id /\ y.path = replacePathPrefix(x.path, row.path, path)
        /\ z.id = w.id /\ z.path = replacePathPrefix(w.path, row.path, path)
    BY <1>12, <2>1
  <2>3. x = w
    BY <1>2, <1>4, <1>17, <2>2 DEF Unique
  <2> QED
    BY <2>1, <2>3
<1>21. new = U \cup moved
  BY <1>1 DEF U
<1>22. Unique(new)
  <2>1. Unique(U)
    BY <1>10 DEF RowsOK, Tidy
  <2> QED
    BY <1>19, <1>20, <1>21, <2>1 DEF Unique
<1>23. ASSUME NEW y \in moved, NEW a \in Ancestors(y.path) PROVE \E d \in new : d.path = a /\ d.isDir
  <2>1. PICK x \in moving : y = Shifted(x, row, path)
    BY <1>15
  <2>2. x \in Row /\ row \in Row /\ x \in rows /\ (x = row \/ isDescendantOf(x.path, row.path))
    BY <1>2, <1>3, <1>4, <1>5
  <2>3. \/ a \in Ancestors(path)
        \/ x # row /\ a = path
        \/ \E b \in Ancestors(x.path) : isDescendantOf(b, row.path) /\ a = replacePathPrefix(b, row.path, path)
    BY <1>23, <2>1, <2>2, ShiftedIs
  <2>4. CASE a \in Ancestors(path)
    BY <1>10, <1>21, <2>4
  <2>5. CASE x # row /\ a = path
    <3>1. row.path \in Ancestors(x.path)
      BY <1>3, <1>7, <2>2, <2>5, AncestorsAre
    <3>2. PICK d \in rows : d.path = row.path /\ d.isDir
      BY <1>2, <2>2, <3>1 DEF Closed, At
    <3>3. d = row
      BY <1>2, <1>3, <3>2 DEF Unique
    <3>4. Shifted(row, row, path).path = path /\ Shifted(row, row, path).isDir
      BY <1>4, <1>12, <3>2, <3>3
    <3> QED
      BY <1>4, <1>16, <1>21, <2>5, <3>4
  <2>6. CASE \E b \in Ancestors(x.path) : isDescendantOf(b, row.path) /\ a = replacePathPrefix(b, row.path, path)
    <3>1. PICK b \in Ancestors(x.path) : isDescendantOf(b, row.path) /\ a = replacePathPrefix(b, row.path, path)
      BY <2>6
    <3>2. PICK d \in rows : d.path = b /\ d.isDir
      BY <1>2, <2>2, <3>1 DEF Closed, At
    <3>3. d \in moving
      BY <1>5, <3>1, <3>2
    <3>4. Shifted(d, row, path).path = a /\ Shifted(d, row, path).isDir
      BY <1>12, <3>1, <3>2, <3>3
    <3> QED
      BY <1>16, <1>21, <3>3, <3>4
  <2> QED
    BY <2>3, <2>4, <2>5, <2>6
<1>24. Closed(new)
  <2> SUFFICES ASSUME NEW y \in new, NEW a \in Ancestors(y.path) PROVE \E d \in new : d.path = a /\ d.isDir
    BY DEF Closed, At
  <2>1. CASE y \in U
    <3>1. Closed(U)
      BY <1>10 DEF RowsOK, Tidy
    <3> QED
      BY <1>21, <2>1, <3>1 DEF Closed, At
  <2> QED
    BY <1>21, <1>23, <2>1
<1>25. RowsOK(new, n)
  <2>1. \A y \in moved : y.id < n
    <3> SUFFICES ASSUME NEW y \in moved PROVE y.id < n
      OBVIOUS
    <3>1. PICK x \in moving : y = Shifted(x, row, path)
      BY <1>15
    <3>2. y.id = x.id /\ x.id < nextId /\ x.id \in Nat
      BY <1>2, <1>4, <1>7, <1>12, <3>1
    <3> QED
      BY <1>11, <3>2
  <2>2. IsFiniteSet(new)
    BY <1>10, <1>13, <1>21, FS_Union DEF RowsOK
  <2>3. U \subseteq Row /\ \A y \in U : y.id < n
    BY <1>10 DEF RowsOK
  <2> QED
    BY <1>14, <1>21, <1>22, <1>24, <2>1, <2>2, <2>3 DEF RowsOK, Tidy
<1>26. ASSUME NEW y \in new PROVE y.id \in Ids(rows) \/ y.id >= nextId
  <2>1. CASE y \in moved
    <3>1. PICK x \in moving : y = Shifted(x, row, path)
      BY <1>15, <2>1
    <3> QED
      BY <1>4, <1>12, <3>1 DEF Ids
  <2>2. CASE y \in others
    BY <1>4, <2>2 DEF Ids
  <2>3. CASE y \in made
    <3>1. y.id > nextId /\ y.id \in Nat
      <4>1. y \in U
        BY <2>3 DEF U
      <4>2. y \in Row
        BY <1>18, <4>1
      <4> QED
        BY <1>10, <2>3, <4>2 DEF Row
    <3> QED
      BY <3>1
  <2> QED
    BY <1>18, <1>21, <2>1, <2>2, <2>3
<1>27. \E x \in new : x.id = id /\ x.path = path
  <2>1. Shifted(row, row, path).id = id /\ Shifted(row, row, path).path = path
    BY <1>3, <1>4, <1>12
  <2> QED
    BY <1>4, <1>16, <1>21, <2>1
<1> QED
  BY <1>1, <1>11, <1>25, <1>26, <1>27 DEF Follows

LEMMA BecomesIs ==
  ASSUME RowsOK(rows, nextId), nextId \in Nat \ {0}, version \in Nat, NEW new, Follows(new), Becomes(new)
  PROVE  /\ rows' = new /\ version' = version + 1
         /\ nextId' \in Nat \ {0} /\ nextId' > nextId /\ RowsOK(rows', nextId')
<1>1. PICK n \in Nat : RowsOK(new, n)
  BY DEF Follows
<1>2. new \subseteq Row /\ IsFiniteSet(new) /\ Tidy(new)
  BY <1>1 DEF RowsOK
<1> DEFINE I == {nextId} \cup Ids(new)
           f == [x \in new |-> x.id]
<1>3. f \in Surjection(new, Ids(new))
  BY DEF Surjection, Ids
<1>4. IsFiniteSet(Ids(new))
  BY <1>2, <1>3, FS_Surjection
<1>5. IsFiniteSet(I) /\ I # {} /\ I \subseteq Nat
  <2>1. IsFiniteSet(Ids(new) \cup {nextId})
    BY <1>4, FS_AddElement
  <2>2. Ids(new) \subseteq Nat
    BY <1>2 DEF Ids, Row
  <2>3. I = Ids(new) \cup {nextId}
    OBVIOUS
  <2> QED
    BY <2>1, <2>2, <2>3
<1>6. nextId \in I /\ \A x \in new : x.id \in I
  BY DEF Ids
<1> DEFINE m == Max(I)
<1>7. rows' = new /\ version' = version + 1 /\ nextId' = 1 + m
  BY DEF Becomes
<1> HIDE DEF I
<1>8. m \in I /\ \A y \in I : y <= m
  BY <1>5, MaxIs
<1> HIDE DEF m
<1>9. m \in Nat /\ nextId <= m /\ \A x \in new : x.id <= m /\ x.id \in Nat
  BY <1>5, <1>6, <1>8
<1>10. \A x \in new : x.id < 1 + m
  BY <1>9
<1> QED
  BY <1>2, <1>7, <1>9, <1>10 DEF RowsOK
-----------------------------------------------------------------------------
(* The tabs.                                                                *)
Tab == [id : Nat, path : Seq(Name)]
TabsOf(S) == [tabs : Seq(S), activeId : Nat \cup {NoFile}]
OneTabEach(o) == \A t, u \in ToSet(o.tabs) : t.id = u.id => t = u

LEMMA OpenedIs ==
  ASSUME NEW o \in TabsOf(Tab), NEW id \in Nat, NEW path \in Seq(Name)
  PROVE  /\ openFile(o, id, path) \in TabsOf(Tab)
         /\ OpenIds(openFile(o, id, path)) = OpenIds(o) \cup {id}
         /\ ToSet(openFile(o, id, path).tabs) =
              ToSet(o.tabs) \cup (IF id \in OpenIds(o) THEN {} ELSE {[id |-> id, path |-> path]})
         /\ OneTabEach(o) => OneTabEach(openFile(o, id, path))
<1> DEFINE t == [id |-> id, path |-> path]
           new == openFile(o, id, path)
<1>1. o.tabs \in Seq(Tab) /\ t \in Tab /\ t.id = id
  BY DEF TabsOf, Tab
<1>2. new.tabs = (IF id \in OpenIds(o) THEN o.tabs ELSE Append(o.tabs, t)) /\ new.activeId = id
      /\ new = [tabs |-> new.tabs, activeId |-> id]
  BY DEF openFile
<1> HIDE DEF new, t
<1>3. new.tabs \in Seq(Tab)
  BY <1>1, <1>2
<1>4. new \in TabsOf(Tab)
  BY <1>2, <1>3 DEF TabsOf
<1>5. ToSet(new.tabs) = ToSet(o.tabs) \cup (IF id \in OpenIds(o) THEN {} ELSE {t})
  BY <1>1, <1>2, AppendedSet
<1>6. OpenIds(new) = OpenIds(o) \cup {id}
  BY <1>1, <1>5 DEF OpenIds
<1>7. OneTabEach(o) => OneTabEach(new)
  BY <1>1, <1>5 DEF OneTabEach, OpenIds
<1> QED
  BY <1>4, <1>5, <1>6, <1>7 DEF new, t

LEMMA ClosedIs ==
  ASSUME NEW o \in TabsOf(Tab), NEW id
  PROVE  /\ closeFile(o, id) \in TabsOf(Tab)
         /\ ToSet(closeFile(o, id).tabs) = {t \in ToSet(o.tabs) : t.id # id}
<1> DEFINE S == {t \in ToSet(o.tabs) : t.id # id}
           r == Among(o.tabs, S)
<1>1. o.tabs \in Seq(Tab) /\ o.activeId \in Nat \cup {NoFile}
  BY DEF TabsOf
<1>2. r \in Seq(Tab) /\ ToSet(r) = ToSet(o.tabs) \cap S
  BY <1>1, AmongIs
<1>3. closeFile(o, id) = [tabs |-> r,
        activeId |-> IF o.activeId # id THEN o.activeId ELSE IF r = << >> THEN NoFile ELSE Last(r).id]
  BY DEF closeFile
<1> HIDE DEF r
<1>4. ASSUME r # << >> PROVE Last(r).id \in Nat
  <2>1. Len(r) \in 1..Len(r) /\ \A i \in 1..Len(r) : r[i] \in Tab
    BY <1>2, <1>4
  <2>2. Last(r) = r[Len(r)]
    BY DEF Last
  <2>3. r[Len(r)] \in Tab
    BY <2>1
  <2> QED
    BY <2>2, <2>3 DEF Tab
<1> DEFINE a == IF o.activeId # id THEN o.activeId ELSE IF r = << >> THEN NoFile ELSE Last(r).id
<1>5. a \in Nat \cup {NoFile}
  BY <1>1, <1>4
<1>6. closeFile(o, id) = [tabs |-> r, activeId |-> a]
  BY <1>3
<1> HIDE DEF a
<1> QED
  BY <1>2, <1>5, <1>6 DEF TabsOf

LEMMA RenamedIs ==
  ASSUME NEW o \in TabsOf(Tab), NEW id, NEW path \in Seq(Name)
  PROVE  /\ renameTab(o, id, path) \in TabsOf(Tab)
         /\ ToSet(renameTab(o, id, path).tabs) =
              {IF t.id = id THEN [id |-> t.id, path |-> path] ELSE t : t \in ToSet(o.tabs)}
<1> DEFINE f == [t \in Tab |-> IF t.id = id THEN [id |-> t.id, path |-> path] ELSE t]
           s == o.tabs
           r == [i \in DOMAIN s |-> IF s[i].id = id THEN [s[i] EXCEPT !.path = path] ELSE s[i]]
<1>1. s \in Seq(Tab) /\ o.activeId \in Nat \cup {NoFile} /\ o = [tabs |-> o.tabs, activeId |-> o.activeId]
  BY DEF TabsOf
<1>2. renameTab(o, id, path) = [tabs |-> r, activeId |-> o.activeId]
  <2>1. renameTab(o, id, path) = [o EXCEPT !.tabs = r]
    BY Zenon DEF renameTab
  <2> HIDE DEF r
  <2>2. [o EXCEPT !.tabs = r] = [tabs |-> r, activeId |-> o.activeId]
    BY DEF TabsOf
  <2> QED
    BY <2>1, <2>2
<1>3. f \in [Tab -> Tab]
  BY DEF Tab
<1>4. ASSUME NEW i \in DOMAIN s
      PROVE  f[s[i]] = IF s[i].id = id THEN [s[i] EXCEPT !.path = path] ELSE s[i]
  <2>1. s[i] \in Tab
    BY <1>1
  <2>2. s[i] = [id |-> s[i].id, path |-> s[i].path]
    BY <2>1 DEF Tab
  <2>3. [s[i] EXCEPT !.path = path] = [id |-> s[i].id, path |-> path]
    BY <2>2
  <2> QED
    BY <2>1, <2>3
<1> HIDE DEF f
<1>5. r = [i \in DOMAIN s |-> f[s[i]]]
  BY <1>4
<1> HIDE DEF r
<1>6. Maps(f, s, r)
  BY <1>5 DEF Maps
<1>7. r \in Seq(Tab) /\ ToSet(r) = {f[t] : t \in ToSet(s)}
  BY <1>1, <1>3, <1>6, MappedSet, MappedSeq
<1>8. ToSet(s) \subseteq Tab
  BY <1>1, ElementsOf
<1>9. ToSet(r) = {IF t.id = id THEN [id |-> t.id, path |-> path] ELSE t : t \in ToSet(s)}
  BY <1>7, <1>8 DEF f
<1> HIDE DEF s
<1>10. [tabs |-> r, activeId |-> o.activeId] \in TabsOf(Tab)
  BY <1>1, <1>7 DEF TabsOf
<1> QED
  BY <1>2, <1>9, <1>10 DEF s

LEMMA ClosedAll ==
  ASSUME NEW o \in TabsOf(Tab), NEW ids, IsFiniteSet(ids)
  PROVE  /\ closeFiles(o, ids) \in TabsOf(Tab)
         /\ ToSet(closeFiles(o, ids).tabs) = {t \in ToSet(o.tabs) : t.id \notin ids}
<1> DEFINE V == TabsOf(Tab)
           step == [a \in ids \X V |-> closeFile(a[2], a[1])]
           Is(g) == g = [s \in SUBSET ids |->
                           IF s = {} THEN o
                           ELSE LET x == CHOOSE x \in s : TRUE IN closeFile(g[s \ {x}], x)]
           iter == CHOOSE g : Is(g)
<1>1. closeFiles(o, ids) = iter[ids]
  BY DEF closeFiles, FoldSet, MapThenFoldSet
<1>2. step \in [ids \X V -> V] /\ \A x \in ids, v \in V : step[<<x, v>>] = closeFile(v, x)
  BY ClosedIs
<1> HIDE DEF step, V
<1>3. PICK it : Folds(it, ids, V, o, step)
  BY <1>2, Folding DEF V
<1>4. it \in [SUBSET ids -> V] /\ it[{}] = o
      /\ \A s \in SUBSET ids : s # {} => it[s] = step[<<Pick(s), it[s \ {Pick(s)}]>>]
  BY <1>3 DEF Folds
<1>5. Is(it)
  <2>1. ASSUME NEW s \in SUBSET ids, s # {} PROVE it[s] = closeFile(it[s \ {Pick(s)}], Pick(s))
    <3>1. Pick(s) \in ids /\ s \ {Pick(s)} \in SUBSET ids
      BY <2>1 DEF Pick
    <3>2. it[s \ {Pick(s)}] \in V
      BY <1>4, <3>1
    <3> QED
      BY <1>2, <1>4, <2>1, <3>1, <3>2
  <2> QED
    BY <1>4, <2>1 DEF Pick
<1>6. Is(iter)
  BY <1>5
<1> HIDE DEF iter
<1> DEFINE Left(s) == {t \in ToSet(o.tabs) : t.id \notin s}
           T == {s \in SUBSET ids : iter[s] \in V /\ ToSet(iter[s].tabs) = Left(s)}
<1>7. iter[{}] = o /\ \A s \in SUBSET ids : s # {} => iter[s] = closeFile(iter[s \ {Pick(s)}], Pick(s))
  BY <1>6 DEF Pick
<1>8. ASSUME NEW n \in Nat, \A s \in SUBSET ids : Cardinality(s) = n => s \in T
      PROVE  \A s \in SUBSET ids : Cardinality(s) = n + 1 => s \in T
  <2> SUFFICES ASSUME NEW s \in SUBSET ids, Cardinality(s) = n + 1 PROVE s \in T
    OBVIOUS
  <2>1. IsFiniteSet(s) /\ s # {}
    <3>1. Cardinality({}) = 0
      BY FS_EmptySet, Zenon
    <3> QED
      BY <3>1, FS_Subset
  <2> DEFINE x == Pick(s)
             r == s \ {x}
  <2>2. x \in s
    BY <2>1 DEF Pick
  <2>3. iter[s] = closeFile(iter[r], x)
    BY <1>7, <2>1
  <2> HIDE DEF x
  <2>4. Cardinality(r) = Cardinality(s) - 1
    BY <2>1, <2>2, FS_RemoveElement, Zenon
  <2>5. r \in SUBSET ids /\ Cardinality(r) = n
    BY <2>4
  <2>6. r \in T
    BY <1>8, <2>5
  <2>7. iter[r] \in V /\ ToSet(iter[r].tabs) = Left(r)
    BY <2>6
  <2>8. iter[s] \in V /\ ToSet(iter[s].tabs) = {t \in Left(r) : t.id # x}
    <3> DEFINE w == iter[r]
    <3>1. w \in TabsOf(Tab) /\ ToSet(w.tabs) = Left(r) /\ iter[s] = closeFile(w, x)
      BY <2>3, <2>7 DEF V
    <3> HIDE DEF w, Left
    <3>2. closeFile(w, x) \in TabsOf(Tab) /\ ToSet(closeFile(w, x).tabs) = {t \in ToSet(w.tabs) : t.id # x}
      BY <3>1, ClosedIs
    <3> QED
      BY <3>1, <3>2 DEF V
  <2>9. {t \in Left(r) : t.id # x} = Left(s)
    BY <2>2
  <2> QED
    BY <2>8, <2>9
<1>9. \A s \in SUBSET ids : Cardinality(s) = 0 => s \in T
  <2> SUFFICES ASSUME NEW s \in SUBSET ids, Cardinality(s) = 0 PROVE s \in T
    OBVIOUS
  <2>1. IsFiniteSet(s)
    BY FS_Subset
  <2>2. s = {}
    BY <2>1, FS_EmptySet
  <2>3. Left({}) = ToSet(o.tabs)
    OBVIOUS
  <2> QED
    BY <1>7, <2>2, <2>3 DEF V
<1> DEFINE N == {n \in Nat : \A s \in SUBSET ids : Cardinality(s) = n => s \in T}
<1> HIDE DEF T
<1>10. 0 \in N /\ \A n \in Nat : n \in N => n + 1 \in N
  BY <1>8, <1>9
<1> HIDE DEF N
<1>11. \A n \in Nat : n \in N
  BY <1>10, SetInduction
<1>12. ids \in T
  <2>1. Cardinality(ids) \in Nat
    BY FS_CardinalityType
  <2> QED
    BY <1>11, <2>1 DEF N
<1> QED
  BY <1>1, <1>12 DEF T, V

Stage == {"new", "form", "sent", "applied", "refused", "refreshing", "done", "dropped"}
Changes == [at : Stage, kind : Kind, id : Nat, from : Seq(Name), path : Seq(Name), isDir : BOOLEAN,
            removed : SUBSET Nat, under : SUBSET Nat, swept : SUBSET Nat, version : Nat]
Fetches == [by : Op \cup {NoOp}, n : Nat, read : BOOLEAN, rows : SUBSET Row, version : Nat]

ServerOK == nextId \in Nat \ {0} /\ version \in Nat /\ RowsOK(rows, nextId)

TreeOK ==
  /\ tree = << >> \/ (RowsOK(Known, nextId) /\ tree = buildTree(Known))
  /\ shown \in 0..version /\ {treeLoading, crossed} \subseteq BOOLEAN
  /\ fetches \subseteq Fetches /\ \A g \in fetches : RowsOK(g.rows, nextId) /\ g.version <= version

ChangesOK ==
  /\ op \in [Op -> Changes] /\ dialog \in [Kind -> Op \cup {NoOp}]
  /\ left \in [{"clicks", "troubles"} -> Nat]
  /\ \A o \in Op :
       /\ op[o].id < nextId /\ op[o].version <= version /\ IsFiniteSet(op[o].removed)
       /\ op[o].at = "sent" /\ op[o].kind # "delete" => op[o].path \in Path

TabsOK == opened \in TabsOf(Tab) /\ OpenIds(opened) \subseteq 1..(nextId - 1)

Types == ServerOK /\ TreeOK /\ ChangesOK /\ TabsOK

LEMMA NoRows == ASSUME NEW n \in Nat PROVE RowsOK({}, n)
  BY FS_EmptySet DEF RowsOK, Tidy, Unique, Closed

LEMMA RowsGrow ==
  ASSUME NEW S, NEW m \in Nat, NEW n \in Nat, m <= n, RowsOK(S, m)
  PROVE  RowsOK(S, n)
<1>1. \A x \in S : x.id \in Nat
  BY DEF RowsOK, Row
<1> QED
  BY <1>1 DEF RowsOK

LEMMA KnownIs ==
  ASSUME nextId \in Nat, TreeOK
  PROVE  RowsOK(Known, nextId) /\ ((tree = << >> /\ Known = {}) \/ tree = buildTree(Known))
<1>1. CASE tree = << >>
  <2>1. Known = {}
    BY <1>1, NoTreeNoRows, NoElements DEF Known
  <2> QED
    BY <1>1, <2>1, NoRows
<1> QED
  BY <1>1 DEF TreeOK

LEMMA BuiltIs ==
  ASSUME NEW S, NEW n, RowsOK(S, n)
  PROVE  ToSet(flattenTree(buildTree(S))) = S
  BY RowsAreTable, TreeHasRows

(* What a deletion will close has in it what was seen beneath the file.     *)
LEMMA DoomedIs ==
  ASSUME nextId \in Nat, TreeOK, NEW id \in Nat
  PROVE  /\ Doomed(id) \in SUBSET Nat /\ IsFiniteSet(Doomed(id))
         /\ Under(id) \in SUBSET Nat /\ Under(id) \subseteq Doomed(id)
<1>1. RowsOK(Known, nextId) /\ ((tree = << >> /\ Known = {}) \/ tree = buildTree(Known))
  BY KnownIs
<1>2. Known \subseteq Row /\ IsFiniteSet(Known) /\ Unique(Known) /\ Closed(Known) /\ Table(Known)
  BY <1>1, RowsAreTable DEF RowsOK
<1>3. IsFiniteSet({id}) /\ {id} \in SUBSET Nat
  BY FS_Singleton
<1>4. ASSUME id \notin Ids(Known) PROVE Doomed(id) = {id} /\ Under(id) = {}
  <2>1. Under(id) = {}
    BY <1>4 DEF Under, Ids
  <2>2. CASE tree = << >>
    BY <2>1, <2>2, NoTreeNoRows, NoElements DEF Doomed, subtreeIds
  <2>3. CASE tree = buildTree(Known)
    <3> DEFINE S == Known
    <3>1. Table(S) /\ Closed(S) /\ id \notin Ids(S) /\ tree = buildTree(S)
      BY <1>2, <1>4, <2>3
    <3> HIDE DEF S
    <3>2. subtreeIds(buildTree(S), id) = {id}
      BY <3>1, SubtreeIs
    <3> QED
      BY <2>1, <3>1, <3>2 DEF Doomed
  <2> QED
    BY <1>1, <2>2, <2>3
<1>5. ASSUME NEW x \in Known, x.id = id
      PROVE  Doomed(id) = Ids(Beneath(Known, x)) /\ Under(id) = Doomed(id)
  <2> DEFINE S == Known
  <2>1. Table(S) /\ Closed(S) /\ x \in S /\ tree = buildTree(S)
    BY <1>1, <1>2, <1>5
  <2>2. Under(id) = {n.id : n \in {n \in S : \E d \in S : d.id = id /\ (n = d \/ isDescendantOf(n.path, d.path))}}
    BY DEF Under
  <2>3. \A d \in S : d.id = id => d = x
    BY <1>2, <1>5 DEF Unique
  <2> HIDE DEF S
  <2>4. subtreeIds(buildTree(S), id) = Ids(Beneath(S, x))
    BY <1>5, <2>1, SubtreeIs
  <2>5. Under(id) = Ids(Beneath(S, x))
    BY <1>5, <2>1, <2>2, <2>3 DEF Ids, Beneath
  <2> QED
    BY <2>1, <2>4, <2>5 DEF Doomed, S
<1>6. ASSUME NEW x \in Known
      PROVE  Ids(Beneath(Known, x)) \in SUBSET Nat /\ IsFiniteSet(Ids(Beneath(Known, x)))
  <2> DEFINE B == Beneath(Known, x)
             f == [y \in B |-> y.id]
  <2>1. B \subseteq Known
    BY DEF Beneath
  <2> HIDE DEF B
  <2>2. IsFiniteSet(B) /\ Ids(B) \in SUBSET Nat
    BY <1>2, <2>1, FS_Subset DEF Ids, Row
  <2>3. f \in Surjection(B, Ids(B))
    BY DEF Surjection, Ids
  <2>4. IsFiniteSet(Ids(B))
    BY <2>2, <2>3, FS_Surjection
  <2> QED
    BY <2>2, <2>4 DEF B
<1>7. CASE id \notin Ids(Known)
  BY <1>3, <1>4, <1>7
<1>8. CASE id \in Ids(Known)
  <2>1. PICK x \in Known : x.id = id
    BY <1>8 DEF Ids
  <2> QED
    BY <1>5, <1>6, <2>1
<1> QED
  BY <1>7, <1>8
-----------------------------------------------------------------------------
(* How a step changes the changes.                                          *)
Others(o) == \A p \in Op \ {o} : op'[p] = op[p]
Alike(a, b) ==
  /\ a.kind = b.kind /\ a.id = b.id /\ a.from = b.from /\ a.path = b.path /\ a.isDir = b.isDir
  /\ a.removed = b.removed /\ a.under = b.under /\ a.swept = b.swept /\ a.version = b.version
Staged(o, a) == op' \in [Op -> Changes] /\ Others(o) /\ op'[o].at = a /\ Alike(op'[o], op[o])

LEMMA StagedIs ==
  ASSUME op \in [Op -> Changes], NEW o \in Op, NEW a \in Stage, op' = [op EXCEPT ![o].at = a]
  PROVE  Staged(o, a)
<1>1. op[o] \in Changes
  OBVIOUS
<1> DEFINE c == [op[o] EXCEPT !.at = a]
<1>2. c \in Changes /\ c.at = a /\ Alike(c, op[o])
  BY <1>1 DEF Changes, Alike
<1>3. op' = [op EXCEPT ![o] = c]
  OBVIOUS
<1> HIDE DEF c
<1> QED
  BY <1>2, <1>3 DEF Staged, Others

LEMMA StagedOK ==
  ASSUME ChangesOK, NEW o \in Op, NEW a \in Stage \ {"sent"}, Staged(o, a),
         nextId \in Nat, version \in Nat, nextId' \in Nat, version' \in Nat,
         nextId' >= nextId, version' >= version,
         dialog' \in [Kind -> Op \cup {NoOp}], left' \in [{"clicks", "troubles"} -> Nat]
  PROVE  ChangesOK'
<1>1. ASSUME NEW p \in Op
      PROVE  /\ op'[p].id = op[p].id /\ op'[p].version = op[p].version /\ op'[p].removed = op[p].removed
             /\ op'[p].at = "sent" => op[p].at = "sent"
             /\ op'[p].kind = op[p].kind /\ op'[p].path = op[p].path
             /\ op[p].id \in Nat /\ op[p].version \in Nat
  BY DEF Staged, Others, Alike, ChangesOK, Changes
<1>2. \A p \in Op : op'[p].id < nextId' /\ op'[p].version <= version'
  BY <1>1 DEF ChangesOK
<1> QED
  BY <1>1, <1>2 DEF ChangesOK, Staged

(* The server's counters only grow.                                         *)
Grows == /\ nextId \in Nat /\ version \in Nat /\ nextId' \in Nat /\ version' \in Nat
         /\ nextId' >= nextId /\ version' >= version

LEMMA ServerRests ==
  ASSUME ServerOK, UNCHANGED serverVars PROVE ServerOK' /\ Grows /\ nextId' = nextId /\ version' = version
  BY DEF ServerOK, serverVars, Grows, RowsOK

LEMMA TreeRests ==
  ASSUME TreeOK, Grows, UNCHANGED fetchVars PROVE TreeOK'
<1>1. Known' = Known
  BY DEF Known, fetchVars
<1>2. tree' = << >> \/ (RowsOK(Known', nextId') /\ tree' = buildTree(Known'))
  <2>1. CASE RowsOK(Known, nextId) /\ tree = buildTree(Known)
    <3>1. RowsOK(Known, nextId')
      BY <2>1, RowsGrow DEF Grows
    <3> QED
      BY <1>1, <2>1, <3>1 DEF fetchVars
  <2>2. CASE tree = << >>
    <3>1. tree' = tree
      BY DEF fetchVars
    <3> QED
      BY <2>2, <3>1
  <2>3. tree = << >> \/ (RowsOK(Known, nextId) /\ tree = buildTree(Known))
    BY DEF TreeOK
  <2> QED
    BY <2>1, <2>2, <2>3
<1>3. \A g \in fetches : RowsOK(g.rows, nextId') /\ g.version <= version'
  <2> SUFFICES ASSUME NEW g \in fetches PROVE RowsOK(g.rows, nextId') /\ g.version <= version'
    OBVIOUS
  <2>1. RowsOK(g.rows, nextId) /\ g.version \in Nat /\ g.version <= version
    BY DEF TreeOK, Fetches
  <2> QED
    BY <2>1, RowsGrow DEF Grows
<1>4. shown' \in 0..version'
  BY DEF TreeOK, Grows, fetchVars
<1> QED
  BY <1>2, <1>3, <1>4 DEF TreeOK, fetchVars

LEMMA TabsRest ==
  ASSUME TabsOK, Grows, UNCHANGED opened PROVE TabsOK'
  BY DEF TabsOK, Grows, OpenIds

LEMMA ChangesRest ==
  ASSUME ChangesOK, Grows, op' = op, dialog' \in [Kind -> Op \cup {NoOp}],
         left' \in [{"clicks", "troubles"} -> Nat]
  PROVE  ChangesOK'
  <1>1. \A p \in Op : op[p].id \in Nat /\ op[p].version \in Nat
    BY DEF ChangesOK, Changes
  <1>2. \A p \in Op : op[p].id < nextId' /\ op[p].version <= version'
    BY <1>1 DEF ChangesOK, Grows
  <1> QED
    BY <1>2 DEF ChangesOK

LEMMA ExplorerStarts == ExplorerInit => Types
<1> SUFFICES ASSUME ExplorerInit PROVE Types
  OBVIOUS
<1> DEFINE I == {0} \cup Ids(StartRows)
           m == Max(I)
           f == [x \in StartRows |-> x.id]
<1>1. IsFiniteSet(StartRows) /\ StartRows \subseteq Row /\ Tidy(StartRows)
  BY ExplorerAssumption
<1>2. f \in Surjection(StartRows, Ids(StartRows))
  BY DEF Surjection, Ids
<1>3. IsFiniteSet(Ids(StartRows)) /\ Ids(StartRows) \subseteq Nat
  BY <1>1, <1>2, FS_Surjection DEF Ids, Row
<1>4. IsFiniteSet(I) /\ I # {} /\ I \subseteq Nat
  <2>1. IsFiniteSet(Ids(StartRows) \cup {0})
    BY <1>3, FS_AddElement
  <2>2. I = Ids(StartRows) \cup {0}
    OBVIOUS
  <2> QED
    BY <1>3, <2>1, <2>2
<1>5. rows = StartRows /\ nextId = 1 + m /\ version = 1
  BY DEF ExplorerInit
<1>6. \A x \in StartRows : x.id \in I
  BY DEF Ids
<1> HIDE DEF I
<1>7. m \in I /\ \A y \in I : y <= m
  BY <1>4, MaxIs
<1> HIDE DEF m
<1>8. m \in Nat /\ \A x \in StartRows : x.id <= m /\ x.id \in Nat
  BY <1>4, <1>6, <1>7
<1>9. nextId \in Nat \ {0} /\ \A x \in StartRows : x.id < nextId
  BY <1>5, <1>8
<1>10. ServerOK
  BY <1>1, <1>5, <1>9 DEF ServerOK, RowsOK
<1>11. TreeOK
  <2>1. Get(NoOp, 1) \in Fetches /\ Get(NoOp, 1).rows = {} /\ Get(NoOp, 1).version = 0
    BY DEF Get, Fetches
  <2>2. RowsOK({}, nextId)
    BY <1>9, NoRows
  <2>3. tree = << >> /\ treeLoading = TRUE /\ fetches = {Get(NoOp, 1)} /\ shown = 0 /\ crossed = FALSE
    BY DEF ExplorerInit
  <2> DEFINE G == Get(NoOp, 1)
  <2>4. fetches \subseteq Fetches /\ \A g \in fetches : RowsOK(g.rows, nextId) /\ g.version <= version
    <3>1. G \in Fetches /\ RowsOK(G.rows, nextId) /\ fetches = {G}
      BY <2>1, <2>2, <2>3
    <3>2. G.version <= version
      BY <1>5, <2>1
    <3> HIDE DEF G
    <3> QED
      BY <3>1, <3>2
  <2>5. shown \in 0..version
    BY <1>5, <2>3
  <2>6. {treeLoading, crossed} \subseteq BOOLEAN
    BY <2>3, Zenon
  <2> QED
    BY <2>3, <2>4, <2>5, <2>6, Zenon DEF TreeOK
<1>12. ChangesOK
  <2>1. NewOp \in Changes /\ NewOp.id = 0 /\ NewOp.version = 0 /\ NewOp.removed = {} /\ NewOp.at = "new"
    BY DEF NewOp, Changes, Stage, Kind
  <2>2. /\ op = [o \in Op |-> NewOp] /\ dialog = [k \in Kind |-> NoOp]
        /\ left = [clicks |-> MaxClicks, troubles |-> MaxTroubles]
    BY DEF ExplorerInit
  <2>3. left \in [{"clicks", "troubles"} -> Nat]
    BY <2>2, ExplorerAssumption
  <2>4. 0 < nextId /\ 0 <= version /\ IsFiniteSet({})
    BY <1>5, <1>9, FS_EmptySet
  <2> HIDE DEF NewOp
  <2> QED
    BY <2>1, <2>2, <2>3, <2>4 DEF ChangesOK
<1>13. TabsOK
  <2>1. opened = [tabs |-> << >>, activeId |-> NoFile]
    BY DEF ExplorerInit, NoneOpen
  <2>2. OpenIds(opened) = {}
    BY <2>1, NoElements DEF OpenIds
  <2> QED
    BY <2>1, <2>2 DEF TabsOK, TabsOf
<1> QED
  BY <1>10, <1>11, <1>12, <1>13 DEF Types
-----------------------------------------------------------------------------
LEMMA OpenDialogIs ==
  ASSUME Types, NEW o \in Op, OpenDialog(o)
  PROVE  /\ Types' /\ Others(o) /\ op[o].at = "new" /\ op'[o].at = "form" /\ op'[o].version = op[o].version
         /\ UNCHANGED <<serverVars, fetchVars, opened, strayed>>
<1>1. op \in [Op -> Changes] /\ op[o] \in Changes
  BY DEF Types, ChangesOK
<1>2. UNCHANGED <<serverVars, fetchVars, opened, expanded, left, strayed>> /\ op[o].at = "new"
  BY DEF OpenDialog
<1>3. ServerOK' /\ TreeOK' /\ TabsOK' /\ Grows /\ nextId' = nextId /\ version' = version
  BY <1>2, ServerRests, TreeRests, TabsRest DEF Types
<1>4. PICK c \in Changes, k \in Kind :
        /\ op' = [op EXCEPT ![o] = c] /\ dialog' = [dialog EXCEPT ![k] = o]
        /\ c.at = "form" /\ c.removed = op[o].removed /\ c.version = op[o].version /\ c.id < nextId
  <2>1. CASE op' = [op EXCEPT ![o].at = "form"] /\ dialog' = [dialog EXCEPT !["create"] = o]
    <3> DEFINE c == [op[o] EXCEPT !.at = "form"]
    <3>1. c \in Changes /\ c.at = "form" /\ c.removed = op[o].removed /\ c.version = op[o].version /\ c.id = op[o].id
      BY <1>1 DEF Changes, Stage
    <3>2. op' = [op EXCEPT ![o] = c]
      BY <2>1
    <3>3. op[o].id < nextId /\ "create" \in Kind
      BY DEF Types, ChangesOK, Kind
    <3> HIDE DEF c
    <3> QED
      BY <2>1, <3>1, <3>2, <3>3
  <2>2. CASE \E n \in Known, k \in {"move", "delete"} :
          /\ op' = [op EXCEPT ![o].at = "form", ![o].kind = k, ![o].id = n.id, ![o].from = n.path]
          /\ dialog' = [dialog EXCEPT ![k] = o]
    <3>1. PICK n \in Known, k \in {"move", "delete"} :
          /\ op' = [op EXCEPT ![o].at = "form", ![o].kind = k, ![o].id = n.id, ![o].from = n.path]
          /\ dialog' = [dialog EXCEPT ![k] = o]
      BY <2>2
    <3>2. RowsOK(Known, nextId)
      BY KnownIs DEF Types, ServerOK
    <3>3. n.id \in Nat /\ n.path \in Seq(Name) /\ n.id < nextId
      BY <3>2 DEF RowsOK, Row, Path
    <3> DEFINE c == [op[o] EXCEPT !.at = "form", !.kind = k, !.id = n.id, !.from = n.path]
    <3>4. c \in Changes /\ c.at = "form" /\ c.removed = op[o].removed /\ c.version = op[o].version /\ c.id = n.id
      BY <1>1, <3>3 DEF Changes, Stage, Kind
    <3>5. op' = [op EXCEPT ![o] = c]
      BY <3>1
    <3>6. k \in Kind
      BY DEF Kind
    <3> HIDE DEF c
    <3> QED
      BY <3>1, <3>3, <3>4, <3>5, <3>6
  <2> QED
    BY <2>1, <2>2 DEF OpenDialog
<1>5. op' \in [Op -> Changes] /\ op'[o] = c /\ \A p \in Op \ {o} : op'[p] = op[p]
  BY <1>1, <1>4
<1>6. dialog' \in [Kind -> Op \cup {NoOp}] /\ left' \in [{"clicks", "troubles"} -> Nat]
  BY <1>2, <1>4 DEF Types, ChangesOK
<1>7. ChangesOK'
  BY <1>3, <1>4, <1>5, <1>6 DEF Types, ChangesOK
<1> QED
  BY <1>2, <1>3, <1>4, <1>5, <1>7 DEF Types, Others

LEMMA OneOp == ASSUME Types, NEW o \in Op PROVE op \in [Op -> Changes] /\ op[o] \in Changes
  BY DEF Types, ChangesOK

LEMMA StagedTypes ==
  ASSUME Types, NEW o \in Op, NEW a \in Stage \ {"sent"}, Staged(o, a), UNCHANGED <<serverVars, fetchVars, opened>>,
         dialog' \in [Kind -> Op \cup {NoOp}], left' \in [{"clicks", "troubles"} -> Nat]
  PROVE  Types'
<1>1. ServerOK' /\ TreeOK' /\ TabsOK' /\ Grows
  BY ServerRests, TreeRests, TabsRest DEF Types
<1>2. ChangesOK'
  BY <1>1, StagedOK DEF Types, Grows
<1> QED
  BY <1>1, <1>2 DEF Types

LEMMA DismissIs ==
  ASSUME Types, NEW o \in Op, Dismiss(o)
  PROVE  /\ Types' /\ (op' = op \/ (op[o].at = "form" /\ Staged(o, "dropped")))
         /\ UNCHANGED <<serverVars, fetchVars, opened, strayed>>
<1>1. /\ UNCHANGED <<serverVars, fetchVars, opened, expanded, left, strayed>>
      /\ dialog' = [dialog EXCEPT ![op[o].kind] = NoOp]
      /\ op' = IF op[o].at = "form" THEN [op EXCEPT ![o].at = "dropped"] ELSE op
  BY DEF Dismiss
<1>2. dialog' \in [Kind -> Op \cup {NoOp}] /\ left' \in [{"clicks", "troubles"} -> Nat]
  BY <1>1 DEF Types, ChangesOK
<1>3. CASE op[o].at = "form"
  <2>1. op' = [op EXCEPT ![o].at = "dropped"]
    BY <1>1, <1>3
  <2>2. "dropped" \in Stage \ {"sent"}
    BY DEF Stage
  <2>3. Staged(o, "dropped")
    BY <2>1, <2>2, StagedIs, OneOp
  <2> QED
    BY <1>1, <1>2, <1>3, <2>2, <2>3, StagedTypes
<1>4. CASE op[o].at # "form"
  <2>1. op' = op
    BY <1>1, <1>4
  <2>2. ServerOK' /\ TreeOK' /\ TabsOK' /\ Grows
    BY <1>1, ServerRests, TreeRests, TabsRest DEF Types
  <2>3. ChangesOK'
    BY <1>2, <2>1, <2>2, ChangesRest DEF Types
  <2> QED
    BY <1>1, <2>1, <2>2, <2>3 DEF Types
<1> QED
  BY <1>3, <1>4

LEMMA SubmitIs ==
  ASSUME Types, NEW o \in Op, Submit(o)
  PROVE  /\ Types' /\ UNCHANGED <<serverVars, fetchVars, opened, strayed>>
         /\ op[o].at = "form" /\ op'[o].at = "sent" /\ Others(o)
         /\ op'[o].kind = op[o].kind /\ op'[o].id = op[o].id /\ op'[o].version = op[o].version
         /\ op[o].kind = "delete" => op'[o].under \subseteq op'[o].removed
<1>1. UNCHANGED <<serverVars, fetchVars, pageVars, left, strayed>> /\ op[o].at = "form"
  BY DEF Submit
<1>2. op \in [Op -> Changes] /\ op[o] \in Changes
  BY OneOp
<1>3. ServerOK' /\ TreeOK' /\ TabsOK' /\ Grows /\ nextId' = nextId /\ version' = version
  BY <1>1, ServerRests, TreeRests, TabsRest DEF Types, pageVars
<1>4. PICK c \in Changes :
        /\ op' = [op EXCEPT ![o] = c] /\ c.at = "sent" /\ c.kind = op[o].kind /\ c.id = op[o].id
        /\ c.version = op[o].version /\ IsFiniteSet(c.removed)
        /\ c.kind # "delete" => c.path \in Path
        /\ c.kind = "delete" => c.under \subseteq c.removed
  <2>1. IsFiniteSet(op[o].removed) /\ AskedPath \subseteq Path
    BY ExplorerAssumption DEF Types, ChangesOK
  <2>2. CASE /\ op[o].kind = "create"
             /\ \E p \in AskedPath, d \in BOOLEAN :
                  op' = [op EXCEPT ![o].at = "sent", ![o].path = p, ![o].isDir = d]
    <3>1. PICK p \in AskedPath, d \in BOOLEAN :
                  op' = [op EXCEPT ![o].at = "sent", ![o].path = p, ![o].isDir = d]
      BY <2>2
    <3> DEFINE c == [op[o] EXCEPT !.at = "sent", !.path = p, !.isDir = d]
    <3>2. op' = [op EXCEPT ![o] = c]
      BY <3>1
    <3>3. p \in Path /\ p \in Seq(Name)
      BY <2>1 DEF Path
    <3>4. /\ c \in Changes /\ c.at = "sent" /\ c.kind = op[o].kind /\ c.id = op[o].id
          /\ c.version = op[o].version /\ c.removed = op[o].removed /\ c.path = p
      BY <1>2, <3>3 DEF Changes, Stage
    <3> HIDE DEF c
    <3> QED
      BY <2>1, <2>2, <3>2, <3>3, <3>4
  <2>3. CASE /\ op[o].kind = "move"
             /\ \E p \in AskedPath \ {op[o].from} : op' = [op EXCEPT ![o].at = "sent", ![o].path = p]
    <3>1. PICK p \in AskedPath : op' = [op EXCEPT ![o].at = "sent", ![o].path = p]
      BY <2>3
    <3> DEFINE c == [op[o] EXCEPT !.at = "sent", !.path = p]
    <3>2. op' = [op EXCEPT ![o] = c]
      BY <3>1
    <3>3. p \in Path /\ p \in Seq(Name)
      BY <2>1 DEF Path
    <3>4. /\ c \in Changes /\ c.at = "sent" /\ c.kind = op[o].kind /\ c.id = op[o].id
          /\ c.version = op[o].version /\ c.removed = op[o].removed /\ c.path = p
      BY <1>2, <3>3 DEF Changes, Stage
    <3> HIDE DEF c
    <3> QED
      BY <2>1, <2>3, <3>2, <3>3, <3>4
  <2>4. CASE /\ op[o].kind = "delete"
             /\ op' = [op EXCEPT ![o].at = "sent", ![o].removed = Doomed(op[o].id),
                                 ![o].under = Under(op[o].id)]
    <3> DEFINE R == Doomed(op[o].id)
               U == Under(op[o].id)
    <3>1. R \in SUBSET Nat /\ IsFiniteSet(R) /\ U \in SUBSET Nat /\ U \subseteq R
      <4>1. op[o].id \in Nat /\ nextId \in Nat /\ TreeOK
        BY <1>2 DEF Changes, Types, ServerOK
      <4> QED
        BY <4>1, DoomedIs
    <3>2. op' = [op EXCEPT ![o].at = "sent", ![o].removed = R, ![o].under = U]
      BY <2>4
    <3> HIDE DEF R, U
    <3> DEFINE c == [op[o] EXCEPT !.at = "sent", !.removed = R, !.under = U]
    <3>3. op' = [op EXCEPT ![o] = c]
      BY <3>2
    <3>4. /\ c \in Changes /\ c.at = "sent" /\ c.kind = op[o].kind /\ c.id = op[o].id
          /\ c.version = op[o].version /\ c.removed = R /\ c.under = U
      BY <1>2, <3>1 DEF Changes, Stage
    <3> HIDE DEF c
    <3> QED
      BY <2>4, <3>1, <3>3, <3>4
  <2> QED
    BY <2>2, <2>3, <2>4 DEF Submit
<1>5. op' \in [Op -> Changes] /\ op'[o] = c /\ \A p \in Op \ {o} : op'[p] = op[p]
  BY <1>2, <1>4
<1>6. dialog' \in [Kind -> Op \cup {NoOp}] /\ left' \in [{"clicks", "troubles"} -> Nat]
  BY <1>1 DEF Types, ChangesOK, pageVars
<1>7. \A p \in Op : /\ op'[p].id < nextId' /\ op'[p].version <= version' /\ IsFiniteSet(op'[p].removed)
                    /\ op'[p].at = "sent" /\ op'[p].kind # "delete" => op'[p].path \in Path
  BY <1>3, <1>4, <1>5 DEF Types, ChangesOK
<1>8. ChangesOK'
  BY <1>5, <1>6, <1>7 DEF ChangesOK
<1> QED
  BY <1>1, <1>3, <1>4, <1>5, <1>8 DEF Types, Others, pageVars

LEMMA AnsweredIs ==
  ASSUME Types, NEW o \in Op, RequestAnswered(o)
  PROVE  /\ Types' /\ UNCHANGED <<serverVars, opened, strayed, tree, shown, latest, crossed>>
         /\ op[o].at = "applied" /\ Staged(o, "refreshing") /\ Refreshes(o)
<1>1. /\ op[o].at = "applied" /\ op' = [op EXCEPT ![o].at = "refreshing"] /\ Refreshes(o)
      /\ UNCHANGED <<serverVars, left, strayed>> /\ UNCHANGED <<tree, shown, latest, crossed, pageVars>>
  BY DEF RequestAnswered, AwaitsTheTree
<1>2. "refreshing" \in Stage \ {"sent"}
  BY DEF Stage
<1>3. Staged(o, "refreshing")
  BY <1>1, <1>2, StagedIs, OneOp
<1>4. ServerOK' /\ TabsOK' /\ Grows /\ nextId' = nextId /\ version' = version
  BY <1>1, ServerRests, TabsRest DEF Types, pageVars
<1>5. dialog' \in [Kind -> Op \cup {NoOp}] /\ left' \in [{"clicks", "troubles"} -> Nat]
  BY <1>1 DEF Types, ChangesOK, pageVars
<1>6. ChangesOK'
  BY <1>2, <1>3, <1>4, <1>5, StagedOK DEF Types, Grows
<1>7. TreeOK'
  <2>1. Known' = Known
    BY <1>1 DEF Known
  <2> DEFINE many == 1 + Cardinality({p \in Op : op[p].at \in {"refreshing", "done"}})
  <2>2. many + 1 \in Nat
    <3> DEFINE A == {p \in Op : op[p].at \in {"refreshing", "done"}}
    <3>1. IsFiniteSet(A)
      BY FS_Subset, ExplorerAssumption
    <3>2. Cardinality(A) \in Nat
      BY <3>1, FS_CardinalityType
    <3> HIDE DEF A
    <3> QED
      BY <3>2 DEF A
  <2>3. treeLoading' = TRUE /\ fetches' = fetches \cup {Get(o, many + 1)}
    BY <1>1 DEF Refreshes
  <2> HIDE DEF many
  <2>4. Get(o, many + 1) \in Fetches /\ Get(o, many + 1).rows = {} /\ Get(o, many + 1).version = 0
    BY <2>2 DEF Get, Fetches
  <2>5. RowsOK({}, nextId)
    BY NoRows DEF Types, ServerOK
  <2>6. \A g \in fetches' : RowsOK(g.rows, nextId') /\ g.version <= version'
    <3> DEFINE G == Get(o, many + 1)
    <3>1. RowsOK(G.rows, nextId)
      BY <2>4, <2>5
    <3>2. G.version <= version
      BY <2>4 DEF Types, ServerOK
    <3>3. fetches' = fetches \cup {G}
      BY <2>3
    <3> HIDE DEF G
    <3> QED
      BY <1>4, <3>1, <3>2, <3>3 DEF Types, TreeOK
  <2>7. fetches' \subseteq Fetches
    BY <2>3, <2>4 DEF Types, TreeOK
  <2>8. tree' = << >> \/ (RowsOK(Known', nextId') /\ tree' = buildTree(Known'))
    <3>1. tree' = tree
      BY <1>1
    <3> QED
      BY <1>4, <2>1, <3>1 DEF Types, TreeOK
  <2>9. shown' \in 0..version' /\ {treeLoading', crossed'} \subseteq BOOLEAN
    <3>1. shown' = shown /\ crossed' = crossed
      BY <1>1
    <3>2. shown \in 0..version /\ crossed \in BOOLEAN
      BY DEF Types, TreeOK
    <3> QED
      BY <1>4, <2>3, <3>1, <3>2, Zenon
  <2> QED
    BY <2>6, <2>7, <2>8, <2>9 DEF TreeOK
<1> QED
  BY <1>1, <1>3, <1>4, <1>6, <1>7 DEF Types, pageVars

LEMMA FormAgainIs ==
  ASSUME Types, NEW o \in Op, op' = FormAgain(o)
  PROVE  \E a \in {"form", "dropped"} : a \in Stage \ {"sent"} /\ Staged(o, a)
<1> DEFINE a == IF dialog[op[o].kind] = o THEN "form" ELSE "dropped"
<1>1. a \in {"form", "dropped"} /\ a \in Stage \ {"sent"}
  BY DEF Stage
<1>2. op' = [op EXCEPT ![o].at = a]
  BY DEF FormAgain
<1> HIDE DEF a
<1>3. Staged(o, a)
  BY <1>1, <1>2, StagedIs, OneOp
<1> QED
  BY <1>1, <1>3

LEMMA RefusedIs ==
  ASSUME Types, NEW o \in Op, RequestRefused(o)
  PROVE  /\ Types' /\ UNCHANGED <<serverVars, fetchVars, opened, strayed>>
         /\ op[o].at = "refused" /\ \E a \in {"form", "dropped"} : Staged(o, a)
<1>1. op[o].at = "refused" /\ op' = FormAgain(o) /\ UNCHANGED <<serverVars, fetchVars, pageVars, left, strayed>>
  BY DEF RequestRefused
<1>2. PICK a \in {"form", "dropped"} : a \in Stage \ {"sent"} /\ Staged(o, a)
  BY <1>1, FormAgainIs
<1>3. dialog' \in [Kind -> Op \cup {NoOp}] /\ left' \in [{"clicks", "troubles"} -> Nat]
  BY <1>1 DEF Types, ChangesOK, pageVars
<1>4. UNCHANGED <<serverVars, fetchVars, opened, strayed>>
  BY <1>1 DEF pageVars
<1>5. Types'
  BY <1>2, <1>3, <1>4, StagedTypes
<1> QED
  BY <1>1, <1>2, <1>4, <1>5

LEMMA LostIs ==
  ASSUME Types, NEW o \in Op, Lost(o)
  PROVE  /\ Types' /\ UNCHANGED <<serverVars, fetchVars, opened>>
         /\ op[o].at \in {"sent", "applied"} /\ \E a \in {"form", "dropped"} : Staged(o, a)
         /\ strayed' = IF op[o].kind = "move" THEN strayed \cup {op[o].id} ELSE strayed
<1>1. /\ op[o].at \in {"sent", "applied"} /\ op' = FormAgain(o) /\ UNCHANGED <<serverVars, fetchVars, pageVars>>
      /\ strayed' = IF op[o].kind = "move" THEN strayed \cup {op[o].id} ELSE strayed
      /\ left["troubles"] > 0 /\ left' = [left EXCEPT !["troubles"] = @ - 1]
  BY DEF Lost, Spend
<1>2. PICK a \in {"form", "dropped"} : a \in Stage \ {"sent"} /\ Staged(o, a)
  BY <1>1, FormAgainIs
<1>3. dialog' \in [Kind -> Op \cup {NoOp}]
  BY <1>1 DEF Types, ChangesOK, pageVars
<1>4. left' \in [{"clicks", "troubles"} -> Nat]
  BY <1>1 DEF Types, ChangesOK
<1>5. UNCHANGED <<serverVars, fetchVars, opened>>
  BY <1>1 DEF pageVars
<1>6. Types'
  BY <1>2, <1>3, <1>4, <1>5, StagedTypes
<1> QED
  BY <1>1, <1>2, <1>5, <1>6

(* The server's rows after a change of them.                                *)
Rewritten ==
  /\ ServerOK' /\ Grows /\ version' = version + 1
  /\ \A x \in rows' : x.id \in Ids(rows) \/ x.id >= nextId

LEMMA OutcomeIs ==
  ASSUME ServerOK, NEW k \in Kind, NEW id, NEW path, k # "delete" => path \in Path, NEW d \in BOOLEAN,
         NEW new \in Outcome(k, id, path, d)
  PROVE  /\ Follows(new) /\ (k = "move" => \E x \in new : x.id = id /\ x.path = path)
         /\ k = "create" => rows \subseteq new
         /\ k = "delete" => new \subseteq rows
<1>1. RowsOK(rows, nextId) /\ nextId \in Nat \ {0}
  BY DEF ServerOK
<1>2. CASE k = "create"
  <2>1. new \in Created(path, d) /\ path \in Path
    BY <1>2 DEF Outcome
  <2>2. rows \subseteq new
    BY <2>1 DEF Created
  <2> QED
    BY <1>1, <1>2, <2>1, <2>2, CreatedIs
<1>3. CASE k = "move"
  <2>1. new \in Moved(id, path) /\ path \in Path
    BY <1>3 DEF Outcome
  <2> QED
    BY <1>1, <1>3, <2>1, MovedIs
<1>4. CASE k = "delete"
  <2>1. new \in Removed(id)
    BY <1>4 DEF Outcome
  <2>2. new \subseteq rows
    BY <2>1 DEF Removed
  <2> QED
    BY <1>1, <1>4, <2>1, <2>2, RemovedIs
<1> QED
  BY <1>2, <1>3, <1>4 DEF Kind

LEMMA RewrittenIs ==
  ASSUME ServerOK, NEW new, Follows(new), Becomes(new)
  PROVE  Rewritten /\ rows' = new
<1>1. RowsOK(rows, nextId) /\ nextId \in Nat \ {0} /\ version \in Nat
  BY DEF ServerOK
<1>2. /\ rows' = new /\ version' = version + 1
      /\ nextId' \in Nat \ {0} /\ nextId' > nextId /\ RowsOK(rows', nextId')
  BY <1>1, BecomesIs
<1>3. ServerOK' /\ Grows
  BY <1>1, <1>2 DEF ServerOK, Grows
<1>4. \A x \in rows' : x.id \in Ids(rows) \/ x.id >= nextId
  BY <1>2 DEF Follows
<1> QED
  BY <1>2, <1>3, <1>4 DEF Rewritten

Strays(o) ==
  strayed' = strayed \cup (Displaced \ {op[o].id})
               \cup {id \in {op[o].id} : op[o].kind = "move" /\ PendingMove(id) # {o}}

LEMMA AppliedIs ==
  ASSUME Types, NEW o \in Op, Applied(o)
  PROVE  /\ Types' /\ UNCHANGED <<fetchVars, opened>> /\ op[o].at = "sent"
         /\ \/ Staged(o, "refused") /\ UNCHANGED <<serverVars, strayed>>
            \/ /\ Rewritten /\ Strays(o)
               /\ Others(o) /\ op'[o].at = "applied" /\ op'[o].version = version'
               /\ op'[o].kind = op[o].kind /\ op'[o].path = op[o].path
               /\ op'[o].removed = op[o].removed /\ op'[o].under = op[o].under
               /\ op[o].kind # "create" => op'[o].id = op[o].id
               /\ op[o].kind = "move" => \E x \in rows' : x.id = op[o].id /\ x.path = op[o].path
               /\ op[o].kind # "move" => Displaced = {}
<1> DEFINE outcome == Outcome(op[o].kind, op[o].id, op[o].path, op[o].isDir)
<1>1. op \in [Op -> Changes] /\ op[o] \in Changes /\ op[o].at = "sent" /\ UNCHANGED <<fetchVars, pageVars, left>>
  BY OneOp DEF Applied
<1>2. dialog' \in [Kind -> Op \cup {NoOp}] /\ left' \in [{"clicks", "troubles"} -> Nat]
  BY <1>1 DEF Types, ChangesOK, pageVars
<1>3. CASE outcome = {}
  <2>1. op' = [op EXCEPT ![o].at = "refused"] /\ UNCHANGED <<serverVars, strayed>>
    BY <1>3 DEF Applied
  <2>2. "refused" \in Stage \ {"sent"}
    BY DEF Stage
  <2>3. Staged(o, "refused")
    BY <1>1, <2>1, <2>2, StagedIs
  <2>4. UNCHANGED <<fetchVars, opened>>
    BY <1>1 DEF pageVars
  <2>5. Types'
    BY <1>2, <2>1, <2>2, <2>3, <2>4, StagedTypes
  <2> QED
    BY <1>1, <2>1, <2>3, <2>4, <2>5
<1>4. CASE outcome # {}
  <2>1. PICK new \in outcome : Becomes(new)
    BY <1>4 DEF Applied
  <2> DEFINE sw == IF op[o].kind = "delete" THEN Swept(op[o].id) ELSE {}
             id == IF op[o].kind = "create" THEN nextId ELSE op[o].id
             c == [op[o] EXCEPT !.at = "applied", !.version = version', !.swept = sw, !.id = id]
  <2>2. op' = [op EXCEPT ![o].at = "applied", ![o].version = version', ![o].swept = sw, ![o].id = id]
        /\ Strays(o)
    BY <1>4 DEF Applied, Strays
  <2>3. op[o].kind \in Kind /\ op[o].isDir \in BOOLEAN /\ op[o].id \in Nat /\ ServerOK
        /\ (op[o].kind # "delete" => op[o].path \in Path) /\ op[o].id < nextId
    BY <1>1 DEF Types, ChangesOK, Changes
  <2>4. /\ Follows(new) /\ (op[o].kind = "move" => \E x \in new : x.id = op[o].id /\ x.path = op[o].path)
        /\ (op[o].kind = "create" => rows \subseteq new) /\ (op[o].kind = "delete" => new \subseteq rows)
    <3> DEFINE k == op[o].kind
               i == op[o].id
               p == op[o].path
               d == op[o].isDir
    <3>1. k \in Kind /\ d \in BOOLEAN /\ new \in Outcome(k, i, p, d) /\ (k # "delete" => p \in Path)
      BY <2>3
    <3> HIDE DEF k, i, p, d
    <3>2. /\ Follows(new) /\ (k = "move" => \E x \in new : x.id = i /\ x.path = p)
          /\ (k = "create" => rows \subseteq new) /\ (k = "delete" => new \subseteq rows)
      BY <2>3, <3>1, OutcomeIs
    <3> QED
      BY <3>2 DEF k, i, p
  <2>5. Rewritten /\ rows' = new
    BY <2>1, <2>3, <2>4, RewrittenIs
  <2>6. sw \in SUBSET Nat
    BY <2>3 DEF Swept, ServerOK, RowsOK, Row, Ids
  <2>7. id \in Nat /\ id < nextId' /\ version' \in Nat /\ nextId < nextId'
    <3>1. nextId' > nextId /\ nextId \in Nat /\ nextId' \in Nat /\ version' \in Nat
      BY <2>1, <2>3, <2>4, <2>5, BecomesIs DEF Grows, Rewritten, ServerOK
    <3> QED
      BY <2>3, <3>1
  <2>8. op' = [op EXCEPT ![o] = c]
    BY <2>2
  <2>9. /\ c \in Changes /\ c.at = "applied" /\ c.version = version' /\ c.id = id
        /\ c.kind = op[o].kind /\ c.path = op[o].path /\ c.removed = op[o].removed /\ c.under = op[o].under
    <3> HIDE DEF sw, id
    <3> QED
      BY <1>1, <2>6, <2>7 DEF Changes, Stage
  <2>10. op[o].kind # "create" => id = op[o].id
    OBVIOUS
  <2> HIDE DEF c, id, sw
  <2>11. op' \in [Op -> Changes] /\ op'[o] = c /\ \A p \in Op \ {o} : op'[p] = op[p]
    BY <1>1, <2>8, <2>9
  <2>12. ASSUME NEW p \in Op
         PROVE  /\ op'[p].id < nextId' /\ op'[p].version <= version' /\ IsFiniteSet(op'[p].removed)
                /\ op'[p].at = "sent" /\ op'[p].kind # "delete" => op'[p].path \in Path
    <3>1. op[p].id \in Nat /\ op[p].version \in Nat /\ op[p].id < nextId /\ op[p].version <= version
          /\ IsFiniteSet(op[p].removed)
          /\ (op[p].at = "sent" /\ op[p].kind # "delete" => op[p].path \in Path)
      BY DEF Types, ChangesOK, Changes
    <3>2. Grows
      BY <2>5 DEF Rewritten
    <3>3. CASE p = o
      BY <2>7, <2>9, <2>11, <3>1, <3>3
    <3>4. CASE p # o
      <4>1. op'[p] = op[p]
        BY <2>11, <3>4
      <4> QED
        BY <3>1, <3>2, <4>1 DEF Grows
    <3> QED
      BY <3>3, <3>4
  <2>13. ChangesOK'
    BY <1>2, <2>11, <2>12 DEF ChangesOK
  <2>14. UNCHANGED fetchVars /\ UNCHANGED opened
    BY <1>1 DEF pageVars
  <2>15. ServerOK' /\ TreeOK' /\ TabsOK'
    BY <2>5, <2>14, TreeRests, TabsRest DEF Types, Rewritten
  <2>16. op[o].kind = "move" => \E x \in rows' : x.id = op[o].id /\ x.path = op[o].path
    BY <2>4, <2>5
  <2>17. op[o].kind # "move" => Displaced = {}
    <3>1. Unique(rows) /\ Unique(rows')
      BY <2>3, <2>5 DEF Rewritten, ServerOK, RowsOK, Tidy
    <3>2. op[o].kind # "move" => rows \subseteq rows' \/ rows' \subseteq rows
      BY <2>3, <2>4, <2>5 DEF Kind
    <3> QED
      BY <3>1, <3>2 DEF Displaced, Unique
  <2> QED
    BY <1>1, <2>2, <2>17, <2>5, <2>9, <2>10, <2>11, <2>13, <2>14, <2>15, <2>16 DEF Types, Others
<1> QED
  BY <1>3, <1>4

LEMMA ForeignIs ==
  ASSUME Types, Foreign
  PROVE  Types' /\ UNCHANGED <<fetchVars, op, opened>> /\ Rewritten /\ strayed' = strayed \cup Displaced
<1>1. PICK k \in Kind, x \in rows, p \in AskedPath : \E new \in Outcome(k, x.id, p, FALSE) \ {rows} : Becomes(new)
  BY DEF Foreign
<1>2. PICK new \in Outcome(k, x.id, p, FALSE) : Becomes(new)
  BY <1>1
<1>3. p \in Path
  BY ExplorerAssumption
<1>4. Follows(new)
  <2> DEFINE i == x.id
  <2>1. new \in Outcome(k, i, p, FALSE) /\ FALSE \in BOOLEAN /\ (k # "delete" => p \in Path) /\ ServerOK
    BY <1>2, <1>3 DEF Types
  <2> HIDE DEF i
  <2> QED
    BY <2>1, OutcomeIs
<1>5. Rewritten
  BY <1>2, <1>4, RewrittenIs DEF Types
<1>6. /\ UNCHANGED <<fetchVars, op, pageVars>> /\ strayed' = strayed \cup Displaced
      /\ left["troubles"] > 0 /\ left' = [left EXCEPT !["troubles"] = @ - 1]
  BY DEF Foreign, Spend
<1>7. UNCHANGED fetchVars /\ UNCHANGED opened /\ op' = op
  BY <1>6 DEF pageVars
<1>8. dialog' \in [Kind -> Op \cup {NoOp}] /\ left' \in [{"clicks", "troubles"} -> Nat]
  BY <1>6 DEF Types, ChangesOK, pageVars
<1>9. Grows
  BY <1>5 DEF Rewritten
<1>10. ChangesOK'
  BY <1>7, <1>8, <1>9, ChangesRest DEF Types
<1>11. ServerOK' /\ TreeOK' /\ TabsOK'
  BY <1>5, <1>7, <1>9, TreeRests, TabsRest DEF Types, Rewritten
<1> QED
  BY <1>5, <1>6, <1>7, <1>10, <1>11 DEF Types

LEMMA ReadTreeIs ==
  ASSUME Types, ReadTree
  PROVE  /\ Types' /\ UNCHANGED <<serverVars, tree, shown, latest, crossed, op, opened, strayed>>
         /\ \E g \in fetches, h \in Fetches :
              /\ ~g.read /\ h.by = g.by /\ h.n = g.n /\ h.version = version
              /\ fetches' = (fetches \ {g}) \cup {h}
<1>1. PICK g \in fetches :
        /\ ~g.read
        /\ fetches' = (fetches \ {g}) \cup {[g EXCEPT !.read = TRUE, !.rows = rows, !.version = version]}
  BY DEF ReadTree
<1>2. UNCHANGED <<serverVars, tree, treeLoading, shown, latest, crossed, op, pageVars, left, strayed>>
  BY DEF ReadTree
<1>3. g \in Fetches /\ rows \subseteq Row /\ version \in Nat /\ RowsOK(rows, nextId)
  BY DEF Types, TreeOK, ServerOK, RowsOK
<1> DEFINE h == [g EXCEPT !.read = TRUE, !.rows = rows, !.version = version]
<1>4. h \in Fetches /\ h.by = g.by /\ h.n = g.n /\ h.version = version /\ h.rows = rows
  BY <1>3 DEF Fetches
<1> HIDE DEF h
<1>5. fetches' = (fetches \ {g}) \cup {h}
  BY <1>1 DEF h
<1>6. UNCHANGED serverVars /\ op' = op /\ opened' = opened /\ dialog' = dialog /\ left' = left
  BY <1>2 DEF pageVars
<1>7. ServerOK' /\ Grows /\ nextId' = nextId /\ version' = version
  BY <1>6, ServerRests DEF Types
<1>8. TabsOK'
  BY <1>6, <1>7, TabsRest DEF Types
<1>9. ChangesOK'
  BY <1>6, <1>7, ChangesRest DEF Types, ChangesOK
<1>10. TreeOK'
  <2>1. tree' = tree /\ shown' = shown /\ crossed' = crossed /\ treeLoading' = treeLoading
    BY <1>2
  <2>2. Known' = Known
    BY <2>1 DEF Known
  <2>3. tree' = << >> \/ (RowsOK(Known', nextId') /\ tree' = buildTree(Known'))
    BY <1>7, <2>1, <2>2 DEF Types, TreeOK
  <2>4. fetches' \subseteq Fetches /\ \A f \in fetches' : RowsOK(f.rows, nextId') /\ f.version <= version'
    <3>1. h \in Fetches /\ RowsOK(h.rows, nextId') /\ h.version <= version'
      BY <1>3, <1>4, <1>7
    <3> QED
      BY <1>5, <1>7, <3>1 DEF Types, TreeOK
  <2>5. shown' \in 0..version' /\ {treeLoading', crossed'} \subseteq BOOLEAN
    BY <1>7, <2>1, Zenon DEF Types, TreeOK
  <2> QED
    BY <2>3, <2>4, <2>5 DEF TreeOK
<1>11. Types'
  BY <1>7, <1>8, <1>9, <1>10 DEF Types
<1>12. \E f \in fetches, k \in Fetches :
              /\ ~f.read /\ k.by = f.by /\ k.n = f.n /\ k.version = version
              /\ fetches' = (fetches \ {f}) \cup {k}
  BY <1>1, <1>4, <1>5
<1> QED
  BY <1>2, <1>6, <1>11, <1>12

(* What the end of a change does to the tabs.                               *)
TabsFollow(o) ==
  /\ op[o].kind = "create" => opened' = opened
  /\ op[o].kind = "move" =>
       ToSet(opened'.tabs) =
         {IF t.id = op[o].id THEN [id |-> t.id, path |-> op[o].path] ELSE t : t \in ToSet(opened.tabs)}
  /\ op[o].kind = "delete" => ToSet(opened'.tabs) = {t \in ToSet(opened.tabs) : t.id \notin op[o].removed}

LEMMA FinishesIs ==
  ASSUME Types, NEW o \in Op, Finishes(o), Grows, left' \in [{"clicks", "troubles"} -> Nat]
  PROVE  Staged(o, "done") /\ TabsFollow(o) /\ ChangesOK' /\ TabsOK'
<1>1. op \in [Op -> Changes] /\ op[o] \in Changes /\ "done" \in Stage \ {"sent"}
  BY OneOp DEF Stage
<1>2. /\ op' = [op EXCEPT ![o].at = "done"] /\ dialog' = [dialog EXCEPT ![op[o].kind] = NoOp]
      /\ opened' = CASE op[o].kind = "create" -> opened
                     [] op[o].kind = "move" -> renameTab(opened, op[o].id, op[o].path)
                     [] op[o].kind = "delete" -> closeFiles(opened, op[o].removed)
  BY DEF Finishes
<1>3. Staged(o, "done")
  BY <1>1, <1>2, StagedIs
<1>4. dialog' \in [Kind -> Op \cup {NoOp}]
  BY <1>2 DEF Types, ChangesOK
<1>5. ChangesOK'
  BY <1>1, <1>3, <1>4, StagedOK DEF Types, Grows
<1> DEFINE k == op[o].kind
           id == op[o].id
           path == op[o].path
           gone == op[o].removed
<1>6. k \in Kind /\ id \in Nat /\ path \in Seq(Name) /\ IsFiniteSet(gone) /\ opened \in TabsOf(Tab)
  BY <1>1 DEF Changes, Types, ChangesOK, TabsOK
<1>7. opened' = CASE k = "create" -> opened [] k = "move" -> renameTab(opened, id, path)
                  [] k = "delete" -> closeFiles(opened, gone)
  BY <1>2
<1> HIDE DEF k, id, path, gone
<1>8. \/ k = "create" /\ opened' = opened
      \/ /\ k = "move" /\ opened' \in TabsOf(Tab)
         /\ ToSet(opened'.tabs) = {IF t.id = id THEN [id |-> t.id, path |-> path] ELSE t : t \in ToSet(opened.tabs)}
      \/ /\ k = "delete" /\ opened' \in TabsOf(Tab)
         /\ ToSet(opened'.tabs) = {t \in ToSet(opened.tabs) : t.id \notin gone}
  <2>1. CASE k = "create"
    BY <1>7, <2>1
  <2>2. CASE k = "move"
    <3>1. opened' = renameTab(opened, id, path)
      BY <1>7, <2>2
    <3> QED
      BY <1>6, <2>2, <3>1, RenamedIs
  <2>3. CASE k = "delete"
    <3>1. opened' = closeFiles(opened, gone)
      BY <1>7, <2>3
    <3> QED
      BY <1>6, <2>3, <3>1, ClosedAll
  <2> QED
    BY <1>6, <2>1, <2>2, <2>3 DEF Kind
<1>9. TabsFollow(o)
  BY <1>8 DEF TabsFollow, k, id, path, gone
<1>10. opened' \in TabsOf(Tab) /\ OpenIds(opened') \subseteq OpenIds(opened)
  <2>1. CASE k = "create" /\ opened' = opened
    BY <1>6, <2>1
  <2>2. CASE /\ k = "move" /\ opened' \in TabsOf(Tab)
             /\ ToSet(opened'.tabs) = {IF t.id = id THEN [id |-> t.id, path |-> path] ELSE t : t \in ToSet(opened.tabs)}
    BY <2>2 DEF OpenIds
  <2>3. CASE /\ k = "delete" /\ opened' \in TabsOf(Tab)
             /\ ToSet(opened'.tabs) = {t \in ToSet(opened.tabs) : t.id \notin gone}
    BY <2>3 DEF OpenIds
  <2> QED
    BY <1>8, <2>1, <2>2, <2>3
<1>11. TabsOK'
  BY <1>10 DEF Types, TabsOK, Grows, OpenIds
<1> QED
  BY <1>3, <1>5, <1>9, <1>11

LEMMA TreeArrivesIs ==
  ASSUME Types, TreeArrives
  PROVE  /\ Types' /\ UNCHANGED <<serverVars, strayed>>
         /\ \E g \in fetches :
              /\ g.read /\ fetches' = fetches \ {g} /\ shown' \in {0, g.version}
              /\ crossed' = (crossed \/ g.n < latest) /\ latest' = Max({latest, g.n})
              /\ IF g.by = NoOp THEN op' = op /\ opened' = opened
                 ELSE g.by \in Op /\ Staged(g.by, "done") /\ TabsFollow(g.by)
<1>1. PICK g \in fetches :
    /\ g.read
    /\ \/ tree' = buildTree(g.rows) /\ shown' = g.version /\ UNCHANGED left
       \/ tree' = << >> /\ shown' = 0 /\ Spend("troubles")
    /\ crossed' = (crossed \/ g.n < latest) /\ latest' = Max({latest, g.n})
    /\ treeLoading' = FALSE /\ fetches' = fetches \ {g}
    /\ IF g.by = NoOp THEN UNCHANGED <<op, pageVars>> ELSE Finishes(g.by)
    /\ UNCHANGED <<serverVars, strayed>>
  BY DEF TreeArrives
<1>2. UNCHANGED serverVars
  BY <1>1
<1>3. ServerOK' /\ Grows /\ nextId' = nextId /\ version' = version
  BY <1>2, ServerRests DEF Types
<1>4. g \in Fetches /\ RowsOK(g.rows, nextId) /\ g.version <= version /\ g.version \in Nat /\ version \in Nat
      /\ g.by \in Op \cup {NoOp}
  BY DEF Types, TreeOK, Fetches, ServerOK
<1>5. left' \in [{"clicks", "troubles"} -> Nat]
  <2>1. CASE UNCHANGED left
    BY <2>1 DEF Types, ChangesOK
  <2>2. CASE Spend("troubles")
    BY <2>2 DEF Types, ChangesOK, Spend
  <2> QED
    BY <1>1, <2>1, <2>2
<1>6. TreeOK'
  <2>1. tree' = << >> \/ (RowsOK(Known', nextId') /\ tree' = buildTree(Known'))
    <3>1. ASSUME tree' = buildTree(g.rows) PROVE RowsOK(Known', nextId') /\ tree' = buildTree(Known')
      <4> DEFINE S == g.rows
      <4>1. RowsOK(S, nextId) /\ tree' = buildTree(S) /\ Known' = ToSet(flattenTree(tree'))
        BY <1>4, <3>1 DEF Known
      <4> HIDE DEF S
      <4>2. Known' = S
        BY <4>1, BuiltIs
      <4> QED
        BY <1>3, <4>1, <4>2
    <3> QED
      BY <1>1, <3>1
  <2>2. shown' \in 0..version'
    BY <1>1, <1>3, <1>4
  <2>3. treeLoading' = FALSE /\ crossed' = (crossed \/ g.n < latest) /\ fetches' = fetches \ {g}
    BY <1>1
  <2>4. {treeLoading', crossed'} \subseteq BOOLEAN
    BY <2>3, Zenon
  <2>5. fetches' \subseteq Fetches /\ \A f \in fetches' : RowsOK(f.rows, nextId') /\ f.version <= version'
    BY <1>3, <2>3 DEF Types, TreeOK
  <2> QED
    BY <2>1, <2>2, <2>4, <2>5 DEF TreeOK
<1>7. IF g.by = NoOp THEN op' = op /\ opened' = opened
      ELSE g.by \in Op /\ Staged(g.by, "done") /\ TabsFollow(g.by)
  <2>1. CASE g.by = NoOp
    BY <1>1, <2>1 DEF pageVars
  <2>2. CASE g.by # NoOp
    <3> DEFINE o == g.by
    <3>1. o \in Op /\ Finishes(o)
      BY <1>1, <1>4, <2>2
    <3> HIDE DEF o
    <3>2. Staged(o, "done") /\ TabsFollow(o)
      BY <1>3, <1>5, <3>1, FinishesIs
    <3> QED
      BY <2>2, <3>1, <3>2 DEF o
  <2> QED
    BY <2>1, <2>2
<1>8. ChangesOK' /\ TabsOK'
  <2>1. CASE g.by = NoOp
    <3>1. op' = op /\ UNCHANGED opened /\ dialog' = dialog
      BY <1>1, <2>1 DEF pageVars
    <3>2. dialog' \in [Kind -> Op \cup {NoOp}]
      BY <3>1 DEF Types, ChangesOK
    <3> QED
      BY <1>3, <1>5, <3>1, <3>2, ChangesRest, TabsRest DEF Types
  <2>2. CASE g.by # NoOp
    <3> DEFINE o == g.by
    <3>1. o \in Op /\ Finishes(o)
      BY <1>1, <1>4, <2>2
    <3> HIDE DEF o
    <3> QED
      BY <1>3, <1>5, <3>1, FinishesIs
  <2> QED
    BY <2>1, <2>2
<1>9. shown' \in {0, g.version}
  BY <1>1
<1>10. Types'
  BY <1>3, <1>6, <1>8 DEF Types
<1> QED
  BY <1>1, <1>7, <1>9, <1>10
-----------------------------------------------------------------------------
SweptWithout(id) ==
  \A o \in Op : /\ op'[o].at = op[o].at /\ op'[o].kind = op[o].kind /\ op'[o].id = op[o].id
                /\ op'[o].path = op[o].path /\ op'[o].removed = op[o].removed
                /\ op'[o].under = op[o].under /\ op'[o].version = op[o].version
                /\ op'[o].swept = op[o].swept \ {id}

LEMMA SelectIs ==
  ASSUME Types, NEW n \in Known, Select(n)
  PROVE  /\ Types' /\ UNCHANGED <<serverVars, fetchVars>> /\ SweptWithout(n.id)
         /\ opened' = openFile(opened, n.id, n.path) /\ n.id \in Nat /\ n.path \in Seq(Name)
         /\ strayed' = IF /\ \E x \in rows : x.id = n.id /\ x.path # n.path
                          /\ \A o \in PendingMove(n.id) : op[o].at = "sent"
                       THEN strayed \cup {n.id} ELSE strayed
<1>1. /\ opened' = openFile(opened, n.id, n.path) /\ UNCHANGED <<serverVars, fetchVars, dialog>>
      /\ op' = [o \in Op |-> [op[o] EXCEPT !.swept = @ \ {n.id}]]
      /\ strayed' = IF /\ \E x \in rows : x.id = n.id /\ x.path # n.path
                       /\ \A o \in PendingMove(n.id) : op[o].at = "sent"
                    THEN strayed \cup {n.id} ELSE strayed
      /\ left["clicks"] > 0 /\ left' = [left EXCEPT !["clicks"] = @ - 1]
  BY DEF Select, Spend
<1>2. RowsOK(Known, nextId)
  BY KnownIs DEF Types, ServerOK
<1>3. n.id \in Nat \ {0} /\ n.id < nextId /\ n.path \in Seq(Name)
  BY <1>2 DEF RowsOK, Row, Path
<1>4. UNCHANGED serverVars /\ UNCHANGED fetchVars /\ dialog' = dialog
  BY <1>1
<1>5. ServerOK' /\ TreeOK' /\ Grows /\ nextId' = nextId /\ version' = version
  BY <1>4, ServerRests, TreeRests DEF Types
<1> DEFINE i == n.id
           f(o) == [op[o] EXCEPT !.swept = @ \ {i}]
<1>6. op' = [o \in Op |-> f(o)]
  BY <1>1
<1>7. ASSUME NEW o \in Op
      PROVE  /\ f(o) \in Changes /\ f(o).at = op[o].at /\ f(o).kind = op[o].kind /\ f(o).id = op[o].id
             /\ f(o).path = op[o].path /\ f(o).removed = op[o].removed
             /\ f(o).under = op[o].under /\ f(o).version = op[o].version
             /\ f(o).swept = op[o].swept \ {i}
  <2> HIDE DEF i
  <2>1. op[o] \in Changes
    BY OneOp
  <2> QED
    BY <2>1 DEF Changes
<1> HIDE DEF f
<1>8. SweptWithout(n.id) /\ op' \in [Op -> Changes]
  BY <1>6, <1>7 DEF SweptWithout
<1>9. left' \in [{"clicks", "troubles"} -> Nat] /\ dialog' \in [Kind -> Op \cup {NoOp}]
  BY <1>1, <1>4 DEF Types, ChangesOK
<1>10. ChangesOK'
  BY <1>5, <1>8, <1>9 DEF Types, ChangesOK, SweptWithout
<1>11. TabsOK'
  <2> DEFINE p == n.path
  <2>1. opened' = openFile(opened, i, p) /\ i \in Nat /\ p \in Seq(Name) /\ i \in 1..(nextId - 1)
        /\ opened \in TabsOf(Tab) /\ OpenIds(opened) \subseteq 1..(nextId - 1)
    BY <1>1, <1>3 DEF Types, TabsOK, ServerOK
  <2> HIDE DEF i, p
  <2>2. opened' \in TabsOf(Tab) /\ OpenIds(opened') = OpenIds(opened) \cup {i}
    BY <2>1, OpenedIs
  <2>3. OpenIds(opened)' = OpenIds(opened')
    BY DEF OpenIds
  <2> QED
    BY <1>5, <2>1, <2>2, <2>3 DEF TabsOK
<1> QED
  BY <1>1, <1>3, <1>4, <1>5, <1>8, <1>10, <1>11 DEF Types

LEMMA CloseIs ==
  ASSUME Types, NEW id, Close(id)
  PROVE  /\ Types' /\ UNCHANGED <<serverVars, fetchVars, op, strayed>>
         /\ ToSet(opened'.tabs) \subseteq ToSet(opened.tabs)
<1>1. opened' = closeFile(opened, id)
      /\ UNCHANGED <<serverVars, fetchVars, op, dialog, expanded, left, strayed>>
  BY DEF Close
<1>2. opened \in TabsOf(Tab) /\ OpenIds(opened) \subseteq 1..(nextId - 1)
  BY DEF Types, TabsOK
<1>3. opened' \in TabsOf(Tab) /\ ToSet(opened'.tabs) \subseteq ToSet(opened.tabs)
  BY <1>1, <1>2, ClosedIs
<1>4. UNCHANGED serverVars /\ UNCHANGED fetchVars /\ op' = op /\ dialog' = dialog /\ left' = left
  BY <1>1
<1>5. ServerOK' /\ TreeOK' /\ Grows /\ nextId' = nextId
  BY <1>4, ServerRests, TreeRests DEF Types
<1>6. ChangesOK'
  BY <1>4, <1>5, ChangesRest DEF Types, ChangesOK
<1>7. TabsOK'
  BY <1>2, <1>3, <1>5 DEF TabsOK, OpenIds
<1> QED
  BY <1>1, <1>3, <1>5, <1>6, <1>7 DEF Types

LEMMA ToggleIs ==
  ASSUME Types, NEW n, toggle(n)
  PROVE  Types' /\ UNCHANGED <<serverVars, fetchVars, op, opened, strayed>>
<1>1. UNCHANGED <<serverVars, fetchVars, op, dialog, opened, strayed>>
      /\ left["clicks"] > 0 /\ left' = [left EXCEPT !["clicks"] = @ - 1]
  BY DEF toggle, Spend
<1>2. UNCHANGED serverVars /\ UNCHANGED fetchVars /\ op' = op /\ dialog' = dialog /\ UNCHANGED opened
  BY <1>1
<1>3. ServerOK' /\ TreeOK' /\ Grows /\ TabsOK'
  BY <1>2, ServerRests, TreeRests, TabsRest DEF Types
<1>4. left' \in [{"clicks", "troubles"} -> Nat] /\ dialog' \in [Kind -> Op \cup {NoOp}]
  BY <1>1, <1>2 DEF Types, ChangesOK
<1>5. ChangesOK'
  BY <1>2, <1>3, <1>4, ChangesRest DEF Types
<1> QED
  BY <1>1, <1>3, <1>5 DEF Types

Asking == {o \in Op : op[o].at \in {"refreshing", "done"}}
Asked == 1 + Cardinality(Asking)

(* GETs are numbered as they are asked; a change awaits one of them.        *)
Numbered ==
  /\ latest \in 0..Asked
  /\ \A g \in fetches :
       /\ g.n \in 1..Asked /\ g.n # latest
       /\ g.by # NoOp => op[g.by].at = "refreshing"
       /\ \A h \in fetches : h.n = g.n \/ (h.by = g.by /\ g.by # NoOp) => h = g

(* A GET that was read saw every change whose own GET was asked no later,    *)
(* and until answers cross, every change that is done.                      *)
Reads ==
  \A g \in fetches : g.read =>
    /\ \A h \in fetches : h.by # NoOp /\ h.n <= g.n => g.version >= op[h.by].version
    /\ ~crossed /\ g.n > latest => \A o \in Op : op[o].at = "done" => g.version >= op[o].version

Shows == Numbered /\ Reads /\ YourChangesShow

LEMMA AskedIs == Asked \in Nat /\ Asked >= 1 /\ IsFiniteSet(Asking)
<1>1. IsFiniteSet(Asking)
  BY FS_Subset, ExplorerAssumption DEF Asking
<1>2. Cardinality(Asking) \in Nat
  BY <1>1, FS_CardinalityType
<1> QED
  BY <1>1, <1>2 DEF Asked

LEMMA ShowsStarts == ExplorerInit => Shows
<1> SUFFICES ASSUME ExplorerInit PROVE Shows
  OBVIOUS
<1> DEFINE G == Get(NoOp, 1)
<1>1. fetches = {G} /\ latest = 0 /\ shown = 0 /\ op = [o \in Op |-> NewOp]
  BY DEF ExplorerInit
<1>2. G.n = 1 /\ G.by = NoOp /\ G.read = FALSE
  BY DEF Get
<1> HIDE DEF G
<1>3. Numbered
  BY <1>1, <1>2, AskedIs DEF Numbered
<1>4. Reads
  BY <1>1, <1>2 DEF Reads
<1> QED
  BY <1>1, <1>3, <1>4 DEF Shows, YourChangesShow

(* Steps that neither ask for the tree nor hear of it.                      *)
SameAsking ==
  \A o \in Op :
    /\ op'[o].at = "refreshing" <=> op[o].at = "refreshing"
    /\ op'[o].at = "done" <=> op[o].at = "done"
    /\ op[o].at \in {"refreshing", "done"} => op'[o].version = op[o].version

LEMMA ShowsKept ==
  ASSUME Types, Shows, UNCHANGED fetchVars, SameAsking
  PROVE  Shows'
<1>1. fetches' = fetches /\ shown' = shown /\ latest' = latest /\ crossed' = crossed
  BY DEF fetchVars
<1>2. Asking' = Asking
  BY DEF Asking, SameAsking
<1>3. Asked' = Asked
  BY <1>2 DEF Asked
<1>4. \A g \in fetches : g.by \in Op \cup {NoOp}
  BY DEF Types, TreeOK, Fetches
<1>5. Numbered'
  BY <1>1, <1>3, <1>4 DEF Shows, Numbered, SameAsking
<1>6. \A h \in fetches : h.by # NoOp => op'[h.by].version = op[h.by].version
  BY <1>4 DEF Shows, Numbered, SameAsking
<1>7. Reads'
  BY <1>1, <1>6 DEF Shows, Reads, SameAsking
<1>8. YourChangesShow'
  BY <1>1 DEF Shows, YourChangesShow, SameAsking
<1> QED
  BY <1>5, <1>7, <1>8 DEF Shows

LEMMA AnsweredShows ==
  ASSUME Types, Shows, NEW o \in Op, op[o].at = "applied", Staged(o, "refreshing"), Refreshes(o),
         UNCHANGED <<shown, latest, crossed>>
  PROVE  Shows'
<1> DEFINE G == Get(o, Asked + 1)
<1>1. fetches' = fetches \cup {G} /\ G.n = Asked + 1 /\ G.by = o /\ G.read = FALSE
  BY DEF Refreshes, Get, Asked, Asking
<1>2. Asking' = Asking \cup {o} /\ o \notin Asking
  BY DEF Asking, Staged, Others
<1>3. Asked' = Asked + 1 /\ Asked \in Nat /\ Asked >= 1
  <2>1. IsFiniteSet(Asking) /\ Cardinality(Asking) \in Nat
    BY AskedIs, FS_CardinalityType
  <2>2. Cardinality(Asking \cup {o}) = Cardinality(Asking) + 1
    BY <1>2, <2>1, FS_AddElement, Zenon
  <2> QED
    BY <1>2, <2>1, <2>2, AskedIs DEF Asked
<1> HIDE DEF G
<1>4. ASSUME NEW g \in fetches PROVE g.by \in Op \cup {NoOp} /\ g.by # o /\ g.n \in Nat /\ g.n < G.n
  <2>1. g.by \in Op \cup {NoOp} /\ g.n \in Nat
    BY DEF Types, TreeOK, Fetches
  <2>2. g.n \in 1..Asked /\ (g.by # NoOp => op[g.by].at = "refreshing")
    BY DEF Shows, Numbered
  <2>3. g.by # o
    BY <2>2, ExplorerAssumption
  <2> QED
    BY <1>1, <1>3, <2>1, <2>2, <2>3
<1>5. \A p \in Op : /\ op'[p].version = op[p].version /\ op'[o].at = "refreshing"
                    /\ (p # o => op'[p].at = op[p].at)
  BY DEF Staged, Others, Alike
<1>6. latest' = latest /\ shown' = shown /\ crossed' = crossed /\ o # NoOp
  BY ExplorerAssumption
<1>7. Numbered'
  <2>1. latest' \in 0..Asked'
    BY <1>3, <1>6 DEF Shows, Numbered
  <2>2. ASSUME NEW g \in fetches'
        PROVE  /\ g.n \in 1..Asked' /\ g.n # latest'
               /\ g.by # NoOp => op'[g.by].at = "refreshing"
               /\ \A h \in fetches' : h.n = g.n \/ (h.by = g.by /\ g.by # NoOp) => h = g
    <3>1. CASE g = G
      BY <1>1, <1>3, <1>4, <1>5, <1>6, <3>1 DEF Shows, Numbered
    <3>2. CASE g \in fetches
      <4>1. g.n \in 1..Asked' /\ g.n # latest'
        BY <1>3, <1>6, <3>2 DEF Shows, Numbered
      <4>2. g.by # NoOp => op'[g.by].at = "refreshing"
        BY <1>4, <1>5, <3>2 DEF Shows, Numbered
      <4>3. \A h \in fetches' : h.n = g.n \/ (h.by = g.by /\ g.by # NoOp) => h = g
        BY <1>1, <1>4, <3>2 DEF Shows, Numbered
      <4> QED
        BY <4>1, <4>2, <4>3
    <3> QED
      BY <1>1, <3>1, <3>2
  <2> QED
    BY <2>1, <2>2 DEF Numbered
<1>8. Reads'
  <2> SUFFICES ASSUME NEW g \in fetches', g.read
               PROVE  /\ \A h \in fetches' : h.by # NoOp /\ h.n <= g.n => g.version >= op'[h.by].version
                      /\ ~crossed' /\ g.n > latest' => \A p \in Op : op'[p].at = "done" => g.version >= op'[p].version
    BY DEF Reads
  <2>1. g \in fetches
    BY <1>1
  <2>2. ASSUME NEW h \in fetches', h.by # NoOp, h.n <= g.n PROVE g.version >= op'[h.by].version
    <3>1. h \in fetches
      BY <1>1, <1>3, <1>4, <2>1, <2>2
    <3>2. g.version >= op[h.by].version
      BY <2>1, <2>2, <3>1 DEF Shows, Reads
    <3> QED
      BY <1>4, <1>5, <2>2, <3>1, <3>2
  <2>3. ~crossed' /\ g.n > latest' => \A p \in Op : op'[p].at = "done" => g.version >= op'[p].version
    BY <1>5, <1>6, <2>1 DEF Shows, Reads
  <2> QED
    BY <2>2, <2>3
<1>9. YourChangesShow'
  BY <1>5, <1>6 DEF Shows, YourChangesShow
<1> QED
  BY <1>7, <1>8, <1>9 DEF Shows

LEMMA ReadShows ==
  ASSUME Types, Shows, UNCHANGED <<shown, latest, crossed, op>>,
         NEW g \in fetches, NEW h \in Fetches, ~g.read, h.by = g.by, h.n = g.n, h.version = version,
         fetches' = (fetches \ {g}) \cup {h}
  PROVE  Shows'
<1>1. Asking' = Asking /\ op' = op /\ shown' = shown /\ latest' = latest /\ crossed' = crossed
  BY DEF Asking
<1>2. Asked' = Asked
  BY <1>1 DEF Asked
<1>3. \A f \in fetches : f.by \in Op \cup {NoOp} /\ f.n \in Nat
  BY DEF Types, TreeOK, Fetches
<1>4. \A p \in Op : op[p].version <= version /\ op[p].version \in Nat /\ version \in Nat
  BY DEF Types, ChangesOK, Changes, ServerOK
<1>5. Numbered'
  BY <1>1, <1>2 DEF Shows, Numbered
<1>6. Reads'
  <2> SUFFICES ASSUME NEW f \in fetches', f.read
               PROVE  /\ \A k \in fetches' : k.by # NoOp /\ k.n <= f.n => f.version >= op[k.by].version
                      /\ ~crossed /\ f.n > latest => \A p \in Op : op[p].at = "done" => f.version >= op[p].version
    BY <1>1 DEF Reads
  <2>1. CASE f = h
    <3>1. \A p \in Op : f.version >= op[p].version
      BY <1>4, <2>1
    <3>2. \A k \in fetches' : k.by \in Op \cup {NoOp}
      BY <1>3
    <3> QED
      BY <3>1, <3>2
  <2>2. CASE f \in fetches /\ f # h
    <3>1. \A k \in fetches' : \E k2 \in fetches : k2.by = k.by /\ k2.n = k.n
      OBVIOUS
    <3> QED
      BY <2>2, <3>1 DEF Shows, Reads
  <2> QED
    BY <2>1, <2>2
<1>7. YourChangesShow'
  BY <1>1 DEF Shows, YourChangesShow
<1> QED
  BY <1>5, <1>6, <1>7 DEF Shows

LEMMA ArrivesShows ==
  ASSUME Types, Shows, NEW g \in fetches, g.read, fetches' = fetches \ {g}, shown' \in {0, g.version},
         crossed' = (crossed \/ g.n < latest), latest' = Max({latest, g.n}),
         (op' = op \/ (g.by \in Op /\ Staged(g.by, "done"))), g.by = NoOp => op' = op
  PROVE  Shows'
<1>1. g.n \in Nat /\ latest \in Nat /\ g.n # latest /\ g.n \in 1..Asked /\ g.by \in Op \cup {NoOp} /\ Asked \in Nat
      /\ latest <= Asked /\ (g.by # NoOp => op[g.by].at = "refreshing")
  BY AskedIs DEF Types, TreeOK, Fetches, Shows, Numbered
<1> DEFINE i == g.n
<1>2. latest' \in {latest, i} /\ latest' >= latest /\ latest' >= i /\ latest' \in Nat
  <2>1. i \in Nat /\ latest \in Nat /\ latest' = Max({latest, i})
    BY <1>1
  <2> HIDE DEF i
  <2> QED
    BY <2>1, MaxOfTwo
<1>3. ASSUME NEW p \in Op
      PROVE  /\ op'[p].version = op[p].version
             /\ op'[p].at = (IF p = g.by /\ op' # op THEN "done" ELSE op[p].at)
  BY DEF Staged, Others, Alike
<1>4. Asking' = Asking
  BY <1>1, <1>3 DEF Asking
<1>5. Asked' = Asked
  BY <1>4 DEF Asked
<1>6. \A f \in fetches' : f \in fetches /\ f.by \in Op \cup {NoOp} /\ f.n \in Nat /\ f.n # g.n
                          /\ (f.by # NoOp => f.by # g.by)
  BY DEF Types, TreeOK, Fetches, Shows, Numbered
<1>7. Numbered'
  <2>1. latest' \in 0..Asked'
    BY <1>1, <1>2, <1>5
  <2>2. ASSUME NEW f \in fetches'
        PROVE  /\ f.n \in 1..Asked' /\ f.n # latest'
               /\ f.by # NoOp => op'[f.by].at = "refreshing"
               /\ \A h \in fetches' : h.n = f.n \/ (h.by = f.by /\ f.by # NoOp) => h = f
    <3>1. f \in fetches /\ f.n # g.n /\ f.by \in Op \cup {NoOp}
      BY <1>6
    <3>2. f.n \in 1..Asked' /\ f.n # latest'
      BY <1>2, <1>5, <3>1 DEF Shows, Numbered
    <3>3. f.by # NoOp => op'[f.by].at = "refreshing"
      BY <1>3, <1>6, <3>1 DEF Shows, Numbered
    <3>4. \A h \in fetches' : h.n = f.n \/ (h.by = f.by /\ f.by # NoOp) => h = f
      BY <1>6, <3>1 DEF Shows, Numbered
    <3> QED
      BY <3>2, <3>3, <3>4
  <2> QED
    BY <2>1, <2>2 DEF Numbered
<1>11. ASSUME ~crossed' PROVE ~crossed /\ g.n > latest
  <2>1. ~crossed /\ ~(g.n < latest)
    BY <1>11, Zenon
  <2> QED
    BY <1>1, <2>1
<1>8. ASSUME NEW p \in Op, op'[p].at = "done" PROVE op[p].at = "done" \/ p = g.by
  BY <1>3, <1>8
<1>9. Reads'
  <2> SUFFICES ASSUME NEW f \in fetches', f.read
               PROVE  /\ \A h \in fetches' : h.by # NoOp /\ h.n <= f.n => f.version >= op'[h.by].version
                      /\ ~crossed' /\ f.n > latest' => \A p \in Op : op'[p].at = "done" => f.version >= op'[p].version
    BY DEF Reads
  <2>1. f \in fetches
    BY <1>6
  <2>2. \A h \in fetches' : h.by # NoOp /\ h.n <= f.n => f.version >= op'[h.by].version
    BY <1>3, <1>6, <2>1 DEF Shows, Reads
  <2>3. ASSUME ~crossed', f.n > latest', NEW p \in Op, op'[p].at = "done" PROVE f.version >= op'[p].version
    <3>1. f.n \in Nat /\ ~crossed /\ f.n > latest /\ g.n <= f.n
      BY <1>1, <1>2, <1>6, <1>11, <2>3
    <3>2. CASE op[p].at = "done"
      BY <1>3, <2>1, <3>1, <3>2 DEF Shows, Reads
    <3>3. CASE p = g.by
      <4>1. g.by # NoOp
        BY <3>3, ExplorerAssumption
      <4> QED
        BY <1>3, <2>1, <3>1, <3>3, <4>1 DEF Shows, Reads
    <3> QED
      BY <1>8, <2>3, <3>2, <3>3
  <2> QED
    BY <2>2, <2>3
<1>10. YourChangesShow'
  <2> SUFFICES ASSUME ~crossed', shown' # 0, NEW p \in Op, op'[p].at = "done" PROVE shown' >= op'[p].version
    BY DEF YourChangesShow
  <2>1. shown' = g.version /\ ~crossed /\ g.n > latest
    BY <1>11
  <2>2. CASE op[p].at = "done"
    BY <1>3, <2>1, <2>2 DEF Shows, Reads
  <2>3. CASE p = g.by
    <3>1. g.by # NoOp /\ g.n <= g.n
      BY <1>1, <2>3, ExplorerAssumption
    <3> QED
      BY <1>3, <2>1, <2>3, <3>1 DEF Shows, Reads
  <2> QED
    BY <1>8, <2>2, <2>3
<1> QED
  BY <1>7, <1>9, <1>10 DEF Shows

(* A move that has been made, and that the page has not heard of.           *)
Underway(o, id) == op[o].kind = "move" /\ op[o].id = id /\ op[o].at \in {"applied", "refreshing"}

Labels ==
  /\ OneTabEach(opened)
  /\ \A x \in rows : x.id \notin strayed =>
       /\ \A o \in Op : Underway(o, x.id) => x.path = op[o].path
       /\ (\A o \in Op : ~Underway(o, x.id)) => \A t \in ToSet(opened.tabs) : t.id = x.id => t.path = x.path

LEMMA LabelsAreRight ==
  ASSUME Types, Labels PROVE LabelsFollowFiles
<1> SUFFICES ASSUME NEW id \in OpenIds(opened), id \in Ids(rows), id \notin strayed, PendingMove(id) = {}
             PROVE  PathOf(opened, id) = RowOf(rows, id).path
  BY DEF LabelsFollowFiles
<1> DEFINE t == CHOOSE tab \in ToSet(opened.tabs) : tab.id = id
           x == RowOf(rows, id)
<1>1. t \in ToSet(opened.tabs) /\ t.id = id
  BY DEF OpenIds
<1>2. x \in rows /\ x.id = id
  BY DEF Ids, RowOf
<1>3. \A o \in Op : ~Underway(o, id)
  BY DEF PendingMove, Underway
<1>4. PathOf(opened, id) = t.path
  BY DEF PathOf
<1> HIDE DEF t, x
<1>5. t.path = x.path
  BY <1>1, <1>2, <1>3 DEF Labels
<1> QED
  BY <1>4, <1>5 DEF x

LEMMA LabelsStart == ExplorerInit => Labels
<1> SUFFICES ASSUME ExplorerInit PROVE Labels
  OBVIOUS
<1>1. opened.tabs = << >>
  BY DEF ExplorerInit, NoneOpen
<1>2. \A o \in Op : op[o].at = "new"
  BY DEF ExplorerInit, NewOp
<1> QED
  BY <1>1, <1>2, NoElements DEF Labels, OneTabEach, Underway

LEMMA LabelsKept ==
  ASSUME Labels, rows' = rows, strayed \subseteq strayed', ToSet(opened'.tabs) \subseteq ToSet(opened.tabs),
         \A o \in Op : \A id : id \notin strayed' =>
           /\ Underway(o, id)' <=> Underway(o, id)
           /\ Underway(o, id) => op'[o].path = op[o].path
  PROVE  Labels'
<1>1. OneTabEach(opened)'
  BY DEF Labels, OneTabEach
<1>2. ASSUME NEW x \in rows, x.id \notin strayed'
      PROVE  /\ \A o \in Op : Underway(o, x.id)' => x.path = op'[o].path
             /\ (\A o \in Op : ~Underway(o, x.id)') =>
                  \A t \in ToSet(opened'.tabs) : t.id = x.id => t.path = x.path
  <2> DEFINE i == x.id
  <2>1. \A o \in Op : /\ Underway(o, i)' <=> Underway(o, i)
                      /\ Underway(o, i) => op'[o].path = op[o].path
    <3>1. i \notin strayed' /\ i' = i
      BY <1>2
    <3> HIDE DEF i
    <3> QED
      BY <3>1
  <2>2. i \notin strayed /\ i = x.id
    BY <1>2
  <2>3. /\ \A o \in Op : Underway(o, i) => x.path = op[o].path
        /\ (\A o \in Op : ~Underway(o, i)) => \A t \in ToSet(opened.tabs) : t.id = i => t.path = x.path
    BY <2>2 DEF Labels
  <2> QED
    BY <2>1, <2>3
<1> QED
  BY <1>1, <1>2 DEF Labels

LEMMA StagedLabels ==
  ASSUME Labels, NEW o \in Op, NEW a, Staged(o, a), rows' = rows, strayed \subseteq strayed',
         ToSet(opened'.tabs) \subseteq ToSet(opened.tabs),
         \/ op[o].at \in {"applied", "refreshing"} /\ a \in {"applied", "refreshing"}
         \/ op[o].at \notin {"applied", "refreshing"} /\ a \notin {"applied", "refreshing"}
         \/ op[o].kind # "move" \/ op[o].id \in strayed'
  PROVE  Labels'
<1>1. ASSUME NEW p \in Op, NEW id, id \notin strayed'
      PROVE  (Underway(p, id)' <=> Underway(p, id)) /\ (Underway(p, id) => op'[p].path = op[p].path)
  <2>1. CASE p = o
    <3>1. op'[o].at = a /\ op'[o].kind = op[o].kind /\ op'[o].id = op[o].id /\ op'[o].path = op[o].path
      BY DEF Staged, Alike
    <3> QED
      BY <1>1, <2>1, <3>1 DEF Underway
  <2>2. CASE p # o
    BY <2>2 DEF Staged, Others, Underway
  <2> QED
    BY <2>1, <2>2
<1> QED
  BY <1>1, LabelsKept

(* What a change of rows leaves right.                                      *)
LEMMA Undisplaced ==
  ASSUME ServerOK, Rewritten, NEW x \in rows', x.id \notin Displaced
  PROVE  (\E y \in rows : y.id = x.id /\ y.path = x.path) \/ (x.id \in Nat /\ x.id >= nextId)
<1>1. x.id \in Ids(rows) \/ x.id >= nextId
  BY DEF Rewritten
<1>2. x.id \in Nat
  BY DEF Rewritten, ServerOK, RowsOK, Row
<1>3. ASSUME x.id \in Ids(rows) PROVE \E y \in rows : y.id = x.id /\ y.path = x.path
  <2>1. PICK y \in rows : y.id = x.id
    BY <1>3 DEF Ids
  <2> QED
    BY <2>1 DEF Displaced
<1> QED
  BY <1>1, <1>2, <1>3

LEMMA ForeignLabels ==
  ASSUME Types, Labels, Rewritten, UNCHANGED <<op, opened>>, strayed' = strayed \cup Displaced
  PROVE  Labels'
<1>1. OneTabEach(opened)'
  BY DEF Labels, OneTabEach
<1>2. ASSUME NEW x \in rows', x.id \notin strayed'
      PROVE  /\ \A o \in Op : Underway(o, x.id)' => x.path = op'[o].path
             /\ (\A o \in Op : ~Underway(o, x.id)') =>
                  \A t \in ToSet(opened'.tabs) : t.id = x.id => t.path = x.path
  <2> DEFINE i == x.id
  <2>1. \A o \in Op : Underway(o, i)' <=> Underway(o, i)
    BY DEF Underway
  <2>2. CASE \E y \in rows : y.id = i /\ y.path = x.path
    <3>1. PICK y \in rows : y.id = i /\ y.path = x.path
      BY <2>2
    <3>2. y.id \notin strayed
      BY <1>2, <3>1
    <3>3. /\ \A o \in Op : Underway(o, i) => x.path = op[o].path
          /\ (\A o \in Op : ~Underway(o, i)) => \A t \in ToSet(opened.tabs) : t.id = i => t.path = x.path
      BY <3>1, <3>2 DEF Labels
    <3> QED
      BY <2>1, <3>3
  <2>3. CASE i \in Nat /\ i >= nextId
    <3>1. \A o \in Op : ~Underway(o, i)
      <4>1. \A o \in Op : op[o].id \in Nat /\ op[o].id < nextId /\ nextId \in Nat
        BY DEF Types, ChangesOK, Changes, ServerOK
      <4> QED
        BY <2>3, <4>1 DEF Underway
    <3>2. \A t \in ToSet(opened.tabs) : t.id # i
      <4>1. \A t \in ToSet(opened.tabs) : t.id \in 1..(nextId - 1) /\ nextId \in Nat
        BY DEF Types, TabsOK, OpenIds, ServerOK
      <4> QED
        BY <2>3, <4>1
    <3> QED
      BY <2>1, <3>1, <3>2
  <2> QED
    BY <1>2, <2>2, <2>3, Undisplaced DEF Types
<1> QED
  BY <1>1, <1>2 DEF Labels

LEMMA AppliedLabels ==
  ASSUME Types, Labels, NEW o \in Op, Applied(o)
  PROVE  Labels'
<1>1. /\ UNCHANGED <<fetchVars, opened>> /\ op[o].at = "sent"
      /\ \/ Staged(o, "refused") /\ UNCHANGED <<serverVars, strayed>>
         \/ /\ Rewritten /\ Strays(o) /\ Others(o) /\ op'[o].at = "applied"
            /\ op'[o].kind = op[o].kind /\ op'[o].path = op[o].path
            /\ op[o].kind # "create" => op'[o].id = op[o].id
            /\ op[o].kind = "move" => \E x \in rows' : x.id = op[o].id /\ x.path = op[o].path
            /\ op[o].kind # "move" => Displaced = {}
  BY AppliedIs
<1>2. CASE Staged(o, "refused") /\ UNCHANGED <<serverVars, strayed>>
  BY <1>1, <1>2, StagedLabels DEF serverVars
<1>3. CASE /\ Rewritten /\ Strays(o) /\ Others(o) /\ op'[o].at = "applied"
           /\ op'[o].kind = op[o].kind /\ op'[o].path = op[o].path
           /\ op[o].kind # "create" => op'[o].id = op[o].id
           /\ op[o].kind = "move" => \E x \in rows' : x.id = op[o].id /\ x.path = op[o].path
           /\ op[o].kind # "move" => Displaced = {}
  <2>1. OneTabEach(opened)'
    BY <1>1 DEF Labels, OneTabEach
  <2>2. Unique(rows') /\ ServerOK
    BY <1>3 DEF Types, Rewritten, ServerOK, RowsOK, Tidy
  <2>3. strayed \subseteq strayed' /\ Displaced \ {op[o].id} \subseteq strayed'
        /\ (op[o].kind = "move" /\ PendingMove(op[o].id) # {o} => op[o].id \in strayed')
    BY <1>3 DEF Strays
  <2>4. ASSUME NEW x \in rows', x.id \notin strayed'
        PROVE  /\ \A p \in Op : Underway(p, x.id)' => x.path = op'[p].path
               /\ (\A p \in Op : ~Underway(p, x.id)') =>
                    \A t \in ToSet(opened'.tabs) : t.id = x.id => t.path = x.path
    <3> DEFINE i == x.id
    <3>1. \A p \in Op \ {o} : (Underway(p, i)' <=> Underway(p, i)) /\ op'[p].path = op[p].path
      BY <1>3 DEF Underway, Others
    <3>2. ~Underway(o, i)
      BY <1>1 DEF Underway
    <3>3. opened' = opened
      BY <1>1
    <3>4. CASE op[o].kind = "move" /\ op[o].id = i
      <4>1. PendingMove(i) = {o}
        BY <2>3, <2>4, <3>4
      <4>2. x.path = op[o].path
        BY <1>3, <2>2, <3>4 DEF Unique
      <4>3. \A p \in Op \ {o} : ~Underway(p, i)
        BY <4>1 DEF PendingMove, Underway
      <4>4. Underway(o, i)' /\ op'[o].path = op[o].path
        BY <1>3, <3>4 DEF Underway
      <4> QED
        BY <3>1, <4>2, <4>3, <4>4
    <3>5. CASE ~(op[o].kind = "move" /\ op[o].id = i)
      <4>1. ~Underway(o, i)'
        BY <1>3, <3>5 DEF Underway
      <4>2. i \notin Displaced
        BY <1>3, <2>3, <2>4, <3>5
      <4>3. CASE \E y \in rows : y.id = i /\ y.path = x.path
        <5>1. PICK y \in rows : y.id = i /\ y.path = x.path
          BY <4>3
        <5>2. y.id \notin strayed
          BY <2>3, <2>4, <5>1
        <5>3. /\ \A p \in Op : Underway(p, i) => x.path = op[p].path
              /\ (\A p \in Op : ~Underway(p, i)) => \A t \in ToSet(opened.tabs) : t.id = i => t.path = x.path
          BY <5>1, <5>2 DEF Labels
        <5> QED
          BY <3>1, <3>2, <3>3, <4>1, <5>3
      <4>4. CASE i \in Nat /\ i >= nextId
        <5>1. \A p \in Op : ~Underway(p, i)
          <6>1. \A p \in Op : op[p].id \in Nat /\ op[p].id < nextId /\ nextId \in Nat
            BY DEF Types, ChangesOK, Changes, ServerOK
          <6> QED
            BY <4>4, <6>1 DEF Underway
        <5>2. \A t \in ToSet(opened.tabs) : t.id # i
          <6>1. \A t \in ToSet(opened.tabs) : t.id \in 1..(nextId - 1) /\ nextId \in Nat
            BY DEF Types, TabsOK, OpenIds, ServerOK
          <6> QED
            BY <4>4, <6>1
        <5> QED
          BY <3>1, <3>3, <4>1, <5>1, <5>2
      <4> QED
        BY <1>3, <2>2, <4>2, <4>3, <4>4, Undisplaced
    <3> QED
      BY <3>4, <3>5
  <2> QED
    BY <2>1, <2>4 DEF Labels
<1> QED
  BY <1>1, <1>2, <1>3

LEMMA ArrivesLabels ==
  ASSUME Types, Labels, NEW o \in Op, op[o].at = "refreshing", Staged(o, "done"), TabsFollow(o),
         UNCHANGED <<rows, strayed>>
  PROVE  Labels'
<1> DEFINE id == op[o].id
           path == op[o].path
<1>1. op[o].kind \in Kind
  BY OneOp DEF Changes
<1>2. CASE op[o].kind # "move"
  <2>1. ToSet(opened'.tabs) \subseteq ToSet(opened.tabs)
    BY <1>1, <1>2 DEF TabsFollow, Kind
  <2> QED
    BY <1>2, <2>1, StagedLabels
<1>3. CASE op[o].kind = "move"
  <2>1. ToSet(opened'.tabs) = {IF t.id = id THEN [id |-> t.id, path |-> path] ELSE t : t \in ToSet(opened.tabs)}
    BY <1>3 DEF TabsFollow
  <2>2. ASSUME NEW x \in rows, x.id \notin strayed'
        PROVE  /\ \A p \in Op : Underway(p, x.id)' => x.path = op'[p].path
               /\ (\A p \in Op : ~Underway(p, x.id)') =>
                    \A t \in ToSet(opened'.tabs) : t.id = x.id => t.path = x.path
    <3> DEFINE i == x.id
    <3>1. \A p \in Op \ {o} : (Underway(p, i)' <=> Underway(p, i)) /\ op'[p].path = op[p].path
      BY DEF Underway, Staged, Others
    <3>2. ~Underway(o, i)'
      BY DEF Underway, Staged
    <3>3. /\ \A p \in Op : Underway(p, i) => x.path = op[p].path
          /\ (\A p \in Op : ~Underway(p, i)) => \A t \in ToSet(opened.tabs) : t.id = i => t.path = x.path
      BY <2>2 DEF Labels
    <3>4. \A p \in Op : Underway(p, i)' => x.path = op'[p].path
      BY <3>1, <3>2, <3>3
    <3>5. ASSUME \A p \in Op : ~Underway(p, i)', NEW u \in ToSet(opened'.tabs), u.id = i
          PROVE  u.path = x.path
      <4>1. PICK t \in ToSet(opened.tabs) : u = IF t.id = id THEN [id |-> t.id, path |-> path] ELSE t
        BY <2>1
      <4>2. CASE i = id
        <5>1. Underway(o, i)
          BY <1>3, <4>2 DEF Underway
        <5>2. x.path = path
          BY <3>3, <5>1
        <5>3. t.id = id
          BY <3>5, <4>1, <4>2
        <5> QED
          BY <4>1, <5>2, <5>3
      <4>3. CASE i # id
        <5>1. \A p \in Op : ~Underway(p, i)
          BY <3>1, <3>5, <4>3 DEF Underway
        <5>2. u = t
          BY <3>5, <4>1, <4>3
        <5> QED
          BY <3>3, <3>5, <5>1, <5>2
      <4> QED
        BY <4>2, <4>3
    <3> QED
      BY <3>4, <3>5
  <2>3. OneTabEach(opened)'
    <3> SUFFICES ASSUME NEW u \in ToSet(opened'.tabs), NEW v \in ToSet(opened'.tabs), u.id = v.id PROVE u = v
      BY DEF OneTabEach
    <3>1. PICK t \in ToSet(opened.tabs) : u = IF t.id = id THEN [id |-> t.id, path |-> path] ELSE t
      BY <2>1
    <3>2. PICK w \in ToSet(opened.tabs) : v = IF w.id = id THEN [id |-> w.id, path |-> path] ELSE w
      BY <2>1
    <3>3. u.id = t.id /\ v.id = w.id
      BY <3>1, <3>2
    <3>4. t = w
      BY <3>3 DEF Labels, OneTabEach
    <3> QED
      BY <3>1, <3>2, <3>4
  <2> QED
    BY <2>2, <2>3 DEF Labels
<1> QED
  BY <1>2, <1>3

LEMMA SelectLabels ==
  ASSUME Types, Labels, NEW n \in Known, Select(n)
  PROVE  Labels'
<1> DEFINE i == n.id
           p == n.path
<1>1. /\ UNCHANGED serverVars /\ SweptWithout(i) /\ opened' = openFile(opened, i, p)
      /\ i \in Nat /\ p \in Seq(Name) /\ opened \in TabsOf(Tab)
      /\ strayed' = IF (\E x \in rows : x.id = i /\ x.path # p) /\ (\A o \in PendingMove(i) : op[o].at = "sent")
                    THEN strayed \cup {i} ELSE strayed
  BY SelectIs DEF Types, TabsOK
<1> HIDE DEF i, p
<1>2. /\ ToSet(opened'.tabs) =
           ToSet(opened.tabs) \cup (IF i \in OpenIds(opened) THEN {} ELSE {[id |-> i, path |-> p]})
      /\ OneTabEach(opened) => OneTabEach(opened')
  BY <1>1, OpenedIs
<1>3. OneTabEach(opened)'
  BY <1>2 DEF Labels, OneTabEach
<1>4. rows' = rows /\ strayed \subseteq strayed'
  BY <1>1 DEF serverVars
<1>5. ASSUME NEW x \in rows, x.id \notin strayed'
      PROVE  /\ \A o \in Op : Underway(o, x.id)' => x.path = op'[o].path
             /\ (\A o \in Op : ~Underway(o, x.id)') =>
                  \A t \in ToSet(opened'.tabs) : t.id = x.id => t.path = x.path
  <2> DEFINE j == x.id
  <2>1. \A o \in Op : (Underway(o, j)' <=> Underway(o, j)) /\ op'[o].path = op[o].path
    BY <1>1 DEF SweptWithout, Underway
  <2>2. /\ \A o \in Op : Underway(o, j) => x.path = op[o].path
        /\ (\A o \in Op : ~Underway(o, j)) => \A t \in ToSet(opened.tabs) : t.id = j => t.path = x.path
    BY <1>4, <1>5 DEF Labels
  <2>3. ASSUME \A o \in Op : ~Underway(o, j), NEW t \in ToSet(opened'.tabs), t.id = j
        PROVE  t.path = x.path
    <3>1. CASE t \in ToSet(opened.tabs)
      BY <2>2, <2>3, <3>1
    <3>2. CASE t = [id |-> i, path |-> p]
      <4>1. t.id = i /\ t.path = p /\ j = i
        BY <2>3, <3>2
      <4>2. \A o \in PendingMove(i) : op[o].at = "sent"
        BY <2>3, <4>1 DEF PendingMove, Underway
      <4> QED
        BY <1>1, <1>5, <4>1, <4>2
    <3> QED
      BY <1>2, <2>3, <3>1, <3>2
  <2> QED
    BY <2>1, <2>2, <2>3
<1> QED
  BY <1>3, <1>4, <1>5 DEF Labels

LEMMA RequestLabels ==
  ASSUME Types, Labels, NEW o \in Op,
         OpenDialog(o) \/ Dismiss(o) \/ Submit(o) \/ Applied(o) \/ RequestAnswered(o)
           \/ RequestRefused(o) \/ Lost(o)
  PROVE  Labels'
<1>1. CASE OpenDialog(o)
  <2>1. /\ Others(o) /\ op[o].at = "new" /\ op'[o].at = "form"
        /\ UNCHANGED <<serverVars, fetchVars, opened, strayed>>
    BY <1>1, OpenDialogIs
  <2>2. \A p \in Op : \A id : (Underway(p, id)' <=> Underway(p, id)) /\ (Underway(p, id) => op'[p].path = op[p].path)
    BY <2>1 DEF Underway, Others
  <2> QED
    BY <2>1, <2>2, LabelsKept DEF serverVars
<1>2. CASE Dismiss(o)
  <2>1. /\ op' = op \/ (op[o].at = "form" /\ Staged(o, "dropped"))
        /\ UNCHANGED <<serverVars, fetchVars, opened, strayed>>
    BY <1>2, DismissIs
  <2>2. CASE op' = op
    <3>1. \A p \in Op : \A id : (Underway(p, id)' <=> Underway(p, id)) /\ (Underway(p, id) => op'[p].path = op[p].path)
      BY <2>2 DEF Underway
    <3> QED
      BY <2>1, <3>1, LabelsKept DEF serverVars
  <2>3. CASE op[o].at = "form" /\ Staged(o, "dropped")
    BY <2>1, <2>3, StagedLabels DEF serverVars
  <2> QED
    BY <2>1, <2>2, <2>3
<1>3. CASE Submit(o)
  <2>1. /\ Others(o) /\ op[o].at = "form" /\ op'[o].at = "sent"
        /\ UNCHANGED <<serverVars, fetchVars, opened, strayed>>
    BY <1>3, SubmitIs
  <2>2. \A p \in Op : \A id : (Underway(p, id)' <=> Underway(p, id)) /\ (Underway(p, id) => op'[p].path = op[p].path)
    BY <2>1 DEF Underway, Others
  <2> QED
    BY <2>1, <2>2, LabelsKept DEF serverVars
<1>4. CASE Applied(o)
  BY <1>4, AppliedLabels
<1>5. CASE RequestAnswered(o)
  <2>1. UNCHANGED <<serverVars, opened, strayed>> /\ op[o].at = "applied" /\ Staged(o, "refreshing")
    BY <1>5, AnsweredIs
  <2> QED
    BY <2>1, StagedLabels DEF serverVars
<1>6. CASE RequestRefused(o)
  <2>1. PICK a \in {"form", "dropped"} : Staged(o, a)
    BY <1>6, RefusedIs
  <2>2. UNCHANGED <<serverVars, opened, strayed>> /\ op[o].at = "refused"
    BY <1>6, RefusedIs
  <2> QED
    BY <2>1, <2>2, StagedLabels DEF serverVars
<1>7. CASE Lost(o)
  <2>1. PICK a \in {"form", "dropped"} : Staged(o, a)
    BY <1>7, LostIs
  <2>2. /\ UNCHANGED <<serverVars, opened>> /\ op[o].at \in {"sent", "applied"}
        /\ strayed' = IF op[o].kind = "move" THEN strayed \cup {op[o].id} ELSE strayed
    BY <1>7, LostIs
  <2>3. op[o].kind # "move" \/ op[o].id \in strayed'
    BY <2>2
  <2> QED
    BY <2>1, <2>2, <2>3, StagedLabels DEF serverVars
<1> QED
  BY <1>1, <1>2, <1>3, <1>4, <1>5, <1>6, <1>7

LEMMA RequestShows ==
  ASSUME Types, Shows, NEW o \in Op,
         OpenDialog(o) \/ Dismiss(o) \/ Submit(o) \/ Applied(o) \/ RequestAnswered(o)
           \/ RequestRefused(o) \/ Lost(o)
  PROVE  Shows'
<1>1. CASE OpenDialog(o)
  <2>1. SameAsking /\ UNCHANGED fetchVars
    BY <1>1, OpenDialogIs DEF Others, SameAsking
  <2> QED
    BY <2>1, ShowsKept
<1>2. CASE Dismiss(o)
  <2>1. SameAsking /\ UNCHANGED fetchVars
    BY <1>2, DismissIs DEF Staged, Others, Alike, SameAsking
  <2> QED
    BY <2>1, ShowsKept
<1>3. CASE Submit(o)
  <2>1. SameAsking /\ UNCHANGED fetchVars
    BY <1>3, SubmitIs DEF Others, SameAsking
  <2> QED
    BY <2>1, ShowsKept
<1>4. CASE Applied(o)
  <2>1. SameAsking /\ UNCHANGED fetchVars
    <3>1. /\ UNCHANGED fetchVars /\ op[o].at = "sent" /\ Others(o) /\ op'[o].at \in {"applied", "refused"}
      BY <1>4, AppliedIs DEF Staged
    <3> QED
      BY <3>1 DEF Others, SameAsking
  <2> QED
    BY <2>1, ShowsKept
<1>5. CASE RequestAnswered(o)
  <2>1. /\ op[o].at = "applied" /\ Staged(o, "refreshing") /\ Refreshes(o)
        /\ UNCHANGED <<shown, latest, crossed>>
    BY <1>5, AnsweredIs
  <2> QED
    BY <2>1, AnsweredShows
<1>6. CASE RequestRefused(o)
  <2>1. PICK a \in {"form", "dropped"} : Staged(o, a)
    BY <1>6, RefusedIs
  <2>2. UNCHANGED fetchVars /\ op[o].at = "refused"
    BY <1>6, RefusedIs
  <2>3. SameAsking
    BY <2>1, <2>2 DEF Staged, Others, Alike, SameAsking
  <2> QED
    BY <2>2, <2>3, ShowsKept
<1>7. CASE Lost(o)
  <2>1. PICK a \in {"form", "dropped"} : Staged(o, a)
    BY <1>7, LostIs
  <2>2. UNCHANGED fetchVars /\ op[o].at \in {"sent", "applied"}
    BY <1>7, LostIs
  <2>3. SameAsking
    BY <2>1, <2>2 DEF Staged, Others, Alike, SameAsking
  <2> QED
    BY <2>2, <2>3, ShowsKept
<1> QED
  BY <1>1, <1>2, <1>3, <1>4, <1>5, <1>6, <1>7
-----------------------------------------------------------------------------
(* A deletion on its way takes what was seen beneath the file; one that is   *)
(* done has closed it.                                                      *)
Noted == {"sent", "applied", "refused", "refreshing", "done"}
Deletions ==
  \A o \in Op : op[o].kind = "delete" =>
    /\ op[o].at \in Noted => op[o].under \subseteq op[o].removed
    /\ op[o].at = "done" => OpenIds(opened) \cap op[o].swept \cap op[o].under = {}

LEMMA DeletionsKept ==
  ASSUME Deletions, NEW o, Others(o), ToSet(opened'.tabs) \subseteq ToSet(opened.tabs),
         op'[o].at # "done" \/ op' = op,
         \/ op'[o].kind # "delete" \/ op'[o].at \notin Noted \/ op'[o].under \subseteq op'[o].removed
  PROVE  Deletions'
<1>1. OpenIds(opened') \subseteq OpenIds(opened)
  BY DEF OpenIds
<1>2. OpenIds(opened)' = OpenIds(opened')
  BY DEF OpenIds
<1>3. ASSUME NEW p \in Op, op'[p].kind = "delete"
      PROVE  /\ op'[p].at \in Noted => op'[p].under \subseteq op'[p].removed
             /\ op'[p].at = "done" => OpenIds(opened') \cap op'[p].swept \cap op'[p].under = {}
  <2>1. CASE op'[p] = op[p]
    BY <1>1, <1>3, <2>1 DEF Deletions
  <2>2. CASE p = o /\ op' # op
    BY <1>3, <2>2
  <2> QED
    BY <2>1, <2>2 DEF Others
<1> QED
  BY <1>2, <1>3 DEF Deletions

LEMMA RequestDeletes ==
  ASSUME Types, Deletions, NEW o \in Op,
         OpenDialog(o) \/ Dismiss(o) \/ Submit(o) \/ Applied(o) \/ RequestAnswered(o)
           \/ RequestRefused(o) \/ Lost(o)
  PROVE  Deletions'
<1> DEFINE Fine == /\ Others(o) /\ opened' = opened /\ (op'[o].at # "done" \/ op' = op)
                   /\ \/ op'[o].kind # "delete" \/ op'[o].at \notin Noted
                      \/ op'[o].under \subseteq op'[o].removed
<1>1. CASE OpenDialog(o)
  <2>1. Fine
    BY <1>1, OpenDialogIs DEF Noted
  <2> QED
    BY <2>1, DeletionsKept
<1>2. CASE Dismiss(o)
  <2>1. Others(o) /\ opened' = opened /\ (op' = op \/ op'[o].at = "dropped")
    BY <1>2, DismissIs DEF Staged, Others
  <2>2. Fine
    BY <2>1 DEF Noted, Deletions
  <2> QED
    BY <2>2, DeletionsKept
<1>3. CASE Submit(o)
  <2>1. Fine
    BY <1>3, SubmitIs DEF Noted
  <2> QED
    BY <2>1, DeletionsKept
<1>4. CASE Applied(o)
  <2>1. /\ opened' = opened /\ op[o].at = "sent" /\ Others(o) /\ op'[o].at \in {"applied", "refused"}
        /\ op'[o].kind = op[o].kind /\ op'[o].removed = op[o].removed /\ op'[o].under = op[o].under
    BY <1>4, AppliedIs DEF Staged, Alike
  <2>2. Fine
    BY <2>1 DEF Noted, Deletions
  <2> QED
    BY <2>2, DeletionsKept
<1>5. CASE RequestAnswered(o)
  <2>1. opened' = opened /\ op[o].at = "applied" /\ Staged(o, "refreshing")
    BY <1>5, AnsweredIs
  <2>2. Fine
    BY <2>1 DEF Staged, Alike, Noted, Deletions
  <2> QED
    BY <2>2, DeletionsKept
<1>6. CASE RequestRefused(o)
  <2>1. PICK a \in {"form", "dropped"} : Staged(o, a)
    BY <1>6, RefusedIs
  <2>2. opened' = opened
    BY <1>6, RefusedIs
  <2>3. Fine
    BY <2>1, <2>2 DEF Staged, Noted
  <2> QED
    BY <2>3, DeletionsKept
<1>7. CASE Lost(o)
  <2>1. PICK a \in {"form", "dropped"} : Staged(o, a)
    BY <1>7, LostIs
  <2>2. opened' = opened
    BY <1>7, LostIs
  <2>3. Fine
    BY <2>1, <2>2 DEF Staged, Noted
  <2> QED
    BY <2>3, DeletionsKept
<1> QED
  BY <1>1, <1>2, <1>3, <1>4, <1>5, <1>6, <1>7

LEMMA ArrivesDeletes ==
  ASSUME Types, Deletions, NEW o \in Op, op[o].at = "refreshing", Staged(o, "done"), TabsFollow(o)
  PROVE  Deletions'
<1>1. op[o].kind \in Kind
  BY OneOp DEF Changes
<1>2. OpenIds(opened') \subseteq OpenIds(opened)
      /\ (op[o].kind = "delete" => OpenIds(opened') \cap op[o].removed = {})
  <2>1. CASE op[o].kind = "create"
    BY <2>1 DEF TabsFollow
  <2>2. CASE op[o].kind = "move"
    BY <2>2 DEF TabsFollow, OpenIds
  <2>3. CASE op[o].kind = "delete"
    BY <2>3 DEF TabsFollow, OpenIds
  <2> QED
    BY <1>1, <2>1, <2>2, <2>3 DEF Kind
<1>3. OpenIds(opened)' = OpenIds(opened')
  BY DEF OpenIds
<1>4. ASSUME NEW p \in Op, op'[p].kind = "delete"
      PROVE  /\ op'[p].at \in Noted => op'[p].under \subseteq op'[p].removed
             /\ op'[p].at = "done" => OpenIds(opened') \cap op'[p].swept \cap op'[p].under = {}
  <2>1. CASE p # o
    BY <1>2, <1>4, <2>1 DEF Staged, Others, Deletions
  <2>2. CASE p = o
    <3>1. op[o].kind = "delete" /\ op'[o].under = op[o].under /\ op'[o].removed = op[o].removed
      BY <1>4, <2>2 DEF Staged, Alike
    <3>2. op[o].under \subseteq op[o].removed
      BY <3>1 DEF Deletions, Noted
    <3> QED
      BY <1>2, <2>2, <3>1, <3>2
  <2> QED
    BY <2>1, <2>2
<1> QED
  BY <1>3, <1>4 DEF Deletions

LEMMA SelectDeletes ==
  ASSUME Types, Deletions, NEW n \in Known, Select(n)
  PROVE  Deletions'
<1> DEFINE i == n.id
           q == n.path
<1>1. /\ SweptWithout(i) /\ opened' = openFile(opened, i, q)
      /\ i \in Nat /\ q \in Seq(Name) /\ opened \in TabsOf(Tab)
  BY SelectIs DEF Types, TabsOK
<1> HIDE DEF i, q
<1>2. OpenIds(opened') = OpenIds(opened) \cup {i}
  BY <1>1, OpenedIs
<1>3. OpenIds(opened)' = OpenIds(opened')
  BY DEF OpenIds
<1>4. ASSUME NEW p \in Op, op'[p].kind = "delete"
      PROVE  /\ op'[p].at \in Noted => op'[p].under \subseteq op'[p].removed
             /\ op'[p].at = "done" => OpenIds(opened') \cap op'[p].swept \cap op'[p].under = {}
  <2>1. /\ op'[p].at = op[p].at /\ op[p].kind = "delete" /\ op'[p].under = op[p].under
        /\ op'[p].removed = op[p].removed /\ op'[p].swept = op[p].swept \ {i}
    BY <1>1, <1>4 DEF SweptWithout
  <2> QED
    BY <1>2, <2>1 DEF Deletions
<1> QED
  BY <1>3, <1>4 DEF Deletions
-----------------------------------------------------------------------------
ExplorerInv == Types /\ Shows /\ Labels /\ Deletions

LEMMA ExplorerInitInv == ExplorerInit => ExplorerInv
<1> SUFFICES ASSUME ExplorerInit PROVE ExplorerInv
  OBVIOUS
<1>1. \A o \in Op : op[o].at = "new"
  BY DEF ExplorerInit, NewOp
<1>2. Deletions
  BY <1>1 DEF Deletions, Noted
<1> QED
  BY <1>2, ExplorerStarts, ShowsStarts, LabelsStart DEF ExplorerInv

LEMMA ExplorerNextInv == ExplorerInv /\ [ExplorerNext]_explorerVars => ExplorerInv'
<1> SUFFICES ASSUME Types, Shows, Labels, Deletions, [ExplorerNext]_explorerVars PROVE ExplorerInv'
  BY DEF ExplorerInv
<1> DEFINE Still == UNCHANGED <<serverVars, op, strayed>> /\ ToSet(opened'.tabs) \subseteq ToSet(opened.tabs)
<1>1. ASSUME Still PROVE Labels' /\ Deletions'
  <2>1. op' = op /\ rows' = rows /\ strayed' = strayed
    BY <1>1 DEF serverVars
  <2>2. \A p \in Op : \A id : (Underway(p, id)' <=> Underway(p, id)) /\ (Underway(p, id) => op'[p].path = op[p].path)
    BY <2>1 DEF Underway
  <2>3. Labels'
    BY <1>1, <2>1, <2>2, LabelsKept
  <2>4. OpenIds(opened)' \subseteq OpenIds(opened)
    BY <1>1 DEF OpenIds
  <2>5. Deletions'
    BY <2>1, <2>4 DEF Deletions
  <2> QED
    BY <2>3, <2>5
<1>2. ASSUME UNCHANGED <<fetchVars, op>> PROVE Shows'
  BY <1>2, ShowsKept DEF SameAsking
<1> HIDE DEF Still
<1>3. ASSUME NEW o \in Op,
             OpenDialog(o) \/ Dismiss(o) \/ Submit(o) \/ Applied(o) \/ RequestAnswered(o)
               \/ RequestRefused(o) \/ Lost(o)
      PROVE  ExplorerInv'
  <2>1. Types'
    BY <1>3, OpenDialogIs, DismissIs, SubmitIs, AppliedIs, AnsweredIs, RefusedIs, LostIs
  <2>2. Shows' /\ Labels' /\ Deletions'
    BY <1>3, RequestShows, RequestLabels, RequestDeletes
  <2> QED
    BY <2>1, <2>2 DEF ExplorerInv
<1>4. CASE ReadTree
  <2>1. Types' /\ UNCHANGED <<serverVars, tree, shown, latest, crossed, op, opened, strayed>>
    BY <1>4, ReadTreeIs
  <2>2. PICK g \in fetches, h \in Fetches :
              /\ ~g.read /\ h.by = g.by /\ h.n = g.n /\ h.version = version
              /\ fetches' = (fetches \ {g}) \cup {h}
    BY <1>4, ReadTreeIs
  <2>3. Shows'
    BY <2>1, <2>2, ReadShows
  <2>4. Still
    BY <2>1 DEF Still
  <2> QED
    BY <1>1, <2>1, <2>3, <2>4 DEF ExplorerInv
<1>5. CASE TreeArrives
  <2>1. Types' /\ UNCHANGED <<serverVars, strayed>>
    BY <1>5, TreeArrivesIs
  <2>2. PICK g \in fetches :
              /\ g.read /\ fetches' = fetches \ {g} /\ shown' \in {0, g.version}
              /\ crossed' = (crossed \/ g.n < latest) /\ latest' = Max({latest, g.n})
              /\ IF g.by = NoOp THEN op' = op /\ opened' = opened
                 ELSE g.by \in Op /\ Staged(g.by, "done") /\ TabsFollow(g.by)
    BY <1>5, TreeArrivesIs
  <2>3. Shows'
    <3>1. (op' = op \/ (g.by \in Op /\ Staged(g.by, "done"))) /\ (g.by = NoOp => op' = op)
      BY <2>2
    <3> QED
      BY <2>2, <3>1, ArrivesShows
  <2>4. CASE g.by = NoOp
    <3>1. Still
      BY <2>1, <2>2, <2>4 DEF Still
    <3> QED
      BY <1>1, <2>1, <2>3, <3>1 DEF ExplorerInv
  <2>5. CASE g.by # NoOp
    <3> DEFINE o == g.by
    <3>1. o \in Op /\ Staged(o, "done") /\ TabsFollow(o) /\ op[o].at = "refreshing"
      BY <2>2, <2>5 DEF Shows, Numbered
    <3>2. UNCHANGED <<rows, strayed>>
      BY <2>1 DEF serverVars
    <3> HIDE DEF o
    <3>3. Labels' /\ Deletions'
      BY <3>1, <3>2, ArrivesLabels, ArrivesDeletes
    <3> QED
      BY <2>1, <2>3, <3>3 DEF ExplorerInv
  <2> QED
    BY <2>4, <2>5
<1>6. CASE Foreign
  <2>1. Types' /\ UNCHANGED <<fetchVars, op, opened>> /\ Rewritten /\ strayed' = strayed \cup Displaced
    BY <1>6, ForeignIs
  <2>2. Labels'
    BY <2>1, ForeignLabels
  <2>3. OpenIds(opened)' = OpenIds(opened) /\ op' = op
    BY <2>1 DEF OpenIds
  <2>4. Deletions'
    BY <2>3 DEF Deletions
  <2> QED
    BY <1>2, <2>1, <2>2, <2>4 DEF ExplorerInv
<1>7. ASSUME NEW n \in Known, Select(n) PROVE ExplorerInv'
  <2>1. Types' /\ UNCHANGED fetchVars /\ SweptWithout(n.id)
    BY <1>7, SelectIs
  <2>2. SameAsking
    BY <2>1 DEF SweptWithout, SameAsking
  <2>3. Shows'
    BY <2>1, <2>2, ShowsKept
  <2>4. Labels' /\ Deletions'
    BY <1>7, SelectLabels, SelectDeletes
  <2> QED
    BY <2>1, <2>3, <2>4 DEF ExplorerInv
<1>8. ASSUME NEW n, toggle(n) PROVE ExplorerInv'
  <2>1. Types' /\ UNCHANGED <<serverVars, fetchVars, op, opened, strayed>>
    BY <1>8, ToggleIs
  <2>2. Still
    BY <2>1 DEF Still
  <2> QED
    BY <1>1, <1>2, <2>1, <2>2 DEF ExplorerInv
<1>9. ASSUME NEW id, Close(id) PROVE ExplorerInv'
  <2>1. /\ Types' /\ UNCHANGED <<serverVars, fetchVars, op, strayed>>
        /\ ToSet(opened'.tabs) \subseteq ToSet(opened.tabs)
    BY <1>9, CloseIs
  <2>2. Still
    BY <2>1 DEF Still
  <2> QED
    BY <1>1, <1>2, <2>1, <2>2 DEF ExplorerInv
<1>10. CASE UNCHANGED explorerVars
  <2>1. /\ UNCHANGED serverVars /\ UNCHANGED fetchVars /\ op' = op /\ UNCHANGED opened /\ dialog' = dialog
        /\ left' = left /\ strayed' = strayed
    BY <1>10 DEF explorerVars, serverVars, fetchVars
  <2>2. ServerOK' /\ TreeOK' /\ TabsOK' /\ Grows
    BY <2>1, ServerRests, TreeRests, TabsRest DEF Types
  <2>3. ChangesOK'
    BY <2>1, <2>2, ChangesRest DEF Types, ChangesOK
  <2>4. Still
    BY <2>1 DEF Still
  <2> QED
    BY <1>1, <1>2, <2>1, <2>2, <2>3, <2>4 DEF ExplorerInv, Types
<1> QED
  BY <1>3, <1>4, <1>5, <1>6, <1>7, <1>8, <1>9, <1>10 DEF ExplorerNext

LEMMA ExplorerAlways == ExplorerSpec => []ExplorerInv
  BY ExplorerInitInv, ExplorerNextInv, PTL DEF ExplorerSpec
-----------------------------------------------------------------------------
(* The page's state is what its code takes it for; the rows stay a tree with *)
(* unique ids and paths under every change.                                 *)
THEOREM ExplorerTypes == ExplorerSpec => []ExplorerTypeOK
<1>1. ExplorerInv => ExplorerTypeOK
  <2> SUFFICES ASSUME Types PROVE ExplorerTypeOK
    BY DEF ExplorerInv
  <2>1. nextId \in Nat /\ Tidy(rows) /\ dialog \in [Kind -> Op \cup {NoOp}]
    BY DEF Types, ServerOK, ChangesOK, RowsOK
  <2>2. {treeLoading, crossed} \subseteq BOOLEAN /\ shown \in 0..version
    BY DEF Types, TreeOK
  <2>3. OpenIds(opened) \subseteq 1..nextId
    BY <2>1 DEF Types, TabsOK
  <2> QED
    BY <2>1, <2>2, <2>3 DEF ExplorerTypeOK
<1> QED
  BY <1>1, ExplorerAlways, PTL

(* A change that has gone through is in the tree on the screen, unless an    *)
(* answer came after that of a later request.                               *)
THEOREM YourChangesAreShown == ExplorerSpec => []YourChangesShow
<1>1. ExplorerInv => YourChangesShow
  BY DEF ExplorerInv, Shows
<1> QED
  BY <1>1, ExplorerAlways, PTL

(* Tabs bear the paths their files have.                                    *)
THEOREM TabsAreLabelled == ExplorerSpec => []LabelsFollowFiles
<1>1. ExplorerInv => LabelsFollowFiles
  BY LabelsAreRight DEF ExplorerInv
<1> QED
  BY <1>1, ExplorerAlways, PTL

(* A deletion closes the tabs of what it was seen to take.                  *)
THEOREM DeletionsCloseTabs == ExplorerSpec => []DeletedTabsClose
<1>1. ExplorerInv => DeletedTabsClose
  BY DEF ExplorerInv, Deletions, DeletedTabsClose
<1> QED
  BY <1>1, ExplorerAlways, PTL
=============================================================================
