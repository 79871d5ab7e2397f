------------------------------ MODULE RunPanel ------------------------------
(***************************************************************************)
(* The Run button, the output stream and the terminal (useRun, RunPanel,   *)
(* Terminal): asking for a run, then following its stream to the frame     *)
(* that ends it.  The panel lives and dies with the page; a POST that is   *)
(* under way when it dies still answers, into the refs of the dead panel.  *)
(***************************************************************************)
EXTENDS FiniteSets

CONSTANTS
  Runs,     \* runs asked for in this browser
  NoRun     \* null

ASSUME RunPanelAssumption == NoRun \notin Runs

VARIABLES
  state,    \* of the panel: idle, starting, running, finished
  source,   \* sourceRef of the panel: the run whose stream it follows
  mine,     \* runs this panel has started; the others are of panels now dead
  run,      \* each run: new, asked, refused, streaming, closed
  lines,    \* runs that have written to the panel's terminal
  orphans   \* history: runs that were being asked for when their panel died

panelVars == <<state, source, mine, run, lines, orphans>>

PanelInit ==
  /\ state = "idle" /\ source = NoRun /\ mine = {} /\ lines = {}
  /\ run = [r \in Runs |-> "new"] /\ orphans = {}

busy == state \in {"starting", "running"}

Closing(r) == [run EXCEPT ![r] = "closed"]
closeStream == IF source = NoRun THEN run ELSE Closing(source)

Starts(r) ==
  /\ run[r] = "new"
  /\ run' = [closeStream EXCEPT ![r] = "asked"] /\ source' = NoRun
  /\ lines' = {} /\ state' = "starting" /\ mine' = mine \cup {r}
  /\ UNCHANGED orphans

Start(r) == ~busy /\ Starts(r)

(* What a run says reaches the terminal of the panel that started it.       *)
Says(r) == lines' = IF r \in mine THEN lines \cup {r} ELSE lines

Refused(r) ==
  /\ run[r] = "asked" /\ run' = [run EXCEPT ![r] = "refused"] /\ Says(r)
  /\ state' = IF r \in mine THEN "finished" ELSE state
  /\ UNCHANGED <<source, mine, orphans>>

(* The job's id arrives and its stream is opened, whoever is there to read. *)
Accepted(r) ==
  /\ run[r] = "asked" /\ run' = [run EXCEPT ![r] = "streaming"]
  /\ IF r \in mine THEN state' = "running" /\ source' = r ELSE UNCHANGED <<state, source>>
  /\ UNCHANGED <<mine, lines, orphans>>

Output(r) ==
  /\ run[r] = "streaming" /\ Says(r)
  /\ UNCHANGED <<state, source, mine, run, orphans>>

(* The exit frame, or the stream breaking: say so, and close for good. A    *)
(* dead panel had one POST under way at most, so its ref holds this run.    *)
Ends(r) ==
  /\ run[r] = "streaming" /\ Says(r)
  /\ IF r \in mine THEN run' = closeStream /\ source' = NoRun /\ state' = "finished"
     ELSE run' = Closing(r) /\ UNCHANGED <<state, source>>
  /\ UNCHANGED <<mine, orphans>>

(* The panel is unmounted, and its terminal with it. *)
Dies ==
  /\ orphans' = orphans \cup {r \in mine : run[r] = "asked"}
  /\ state' = "idle" /\ source' = NoRun /\ mine' = {} /\ lines' = {}

ForgetsItsStream == Dies /\ UNCHANGED run

PanelUnmounts == Dies /\ run' = closeStream
=============================================================================
