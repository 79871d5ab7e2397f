----------------------------- MODULE RunWorker -----------------------------
(***************************************************************************)
(* The runner process: the queue's worker (apps/runner/src/worker.ts), the *)
(* limits on a run (sandbox/limits.ts), the container it happens in        *)
(* (sandbox/docker.ts), the reaper of forgotten containers                 *)
(* (sandbox/reaper.ts) and the shutdown (index.ts).                        *)
(*                                                                         *)
(* The docker daemon answers in its own time: a container starts, is       *)
(* killed or is removed some while after the runner asked for it.  A       *)
(* container is known by its run and by the attempt that made it.  BullMQ  *)
(* gives a job whose runner died to another attempt, up to Stalls times.   *)
(***************************************************************************)
EXTENDS Naturals, FiniteSets, Sequences, SequencesExt

CONSTANTS
  Run,             \* jobs, which are their own run ids
  CONCURRENCY,     \* jobs handled at a time
  MAX_OUTPUT,      \* what a program may print, in the units of Chunks
  Chunks,          \* sizes of what arrives on a pipe at a time
  Stalls,          \* BullMQ's maxStalledCount
  MaxBreaks        \* bound: deaths, shutdowns, failed publishes and removals

ASSUME RunWorkerAssumption ==
  /\ CONCURRENCY \in Nat \ {0} /\ MAX_OUTPUT \in Nat /\ Chunks \subseteq Nat \ {0}
  /\ Stalls \in Nat /\ MaxBreaks \in Nat

VARIABLES
  proc,      \* the runner: "up", "closing" or "down"
  job,       \* each job in the queue
  attempt,   \* how often it was taken back from a dead runner
  h,         \* handleRunJob and what it calls, one record per job
  box,       \* each run's container: its state, the attempt that made it, whether it is
             \* older than a minute, and how its program ended
  kill,      \* docker kills under way, by container
  sweep,     \* the reaper: where it is, and the containers it found
  frames,    \* what was published on run:<jobId>
  excused,   \* history: runs whose runner died, or whose exit frame Redis refused
  left,      \* history: runs whose container could not be removed
  breaks

workerVars == <<proc, job, attempt, h, box, kill, sweep, frames, excused, left, breaks>>

Idle == [at |-> "idle", timer |-> FALSE, reason |-> "none", listening |-> FALSE,
         killed |-> FALSE, sent |-> 0, cut |-> FALSE, threw |-> FALSE, code |-> "null",
         result |-> << >>, terminalSent |-> FALSE]
NoBox == [state |-> "none", by |-> 0, old |-> FALSE, end |-> "none"]
Quiet == [at |-> "idle", ids |-> {}]

Exit(status, code, truncated) ==
  [type |-> "exit", status |-> status, code |-> code, truncated |-> truncated]
Output == [type |-> "output"]
failed == Exit("error", "null", FALSE)

Exists(r) == box[r].state # "none"
Present(id) == Exists(id[1]) /\ box[id[1]].by = id[2]
Own(r) == <<r, attempt[r]>>
Busy == {r \in Run : h[r].at # "idle"}
MayBreak == breaks < MaxBreaks /\ breaks' = breaks + 1

WorkerInit ==
  /\ proc = "up" /\ job = [r \in Run |-> "waiting"] /\ attempt = [r \in Run |-> 0]
  /\ h = [r \in Run |-> Idle] /\ box = [r \in Run |-> NoBox]
  /\ kill = {} /\ sweep = Quiet /\ frames = [r \in Run |-> << >>]
  /\ excused = {} /\ left = {} /\ breaks = 0
-----------------------------------------------------------------------------
(* The limits. *)

(* abortWith: the first reason stays. Only a listener that is there by now   *)
(* hears the abort; it asks for the kill and does not wait for it.           *)
LastWriterAborts(r, x, why) ==
  /\ h' = [h EXCEPT ![r] = [x EXCEPT !.reason = why, !.killed = x.killed \/ x.listening]]
  /\ kill' = IF x.listening THEN kill \cup {Own(r)} ELSE kill

AbortsWith(r, x, why) ==
  IF x.reason # "none" THEN h' = [h EXCEPT ![r] = x] /\ UNCHANGED kill
  ELSE /\ h' = [h EXCEPT ![r] = [x EXCEPT !.reason = why, !.killed = x.listening]]
       /\ kill' = IF x.listening THEN kill \cup {Own(r)} ELSE kill

TimerFires(r) ==
  /\ h[r].timer
  /\ AbortsWith(r, [h[r] EXCEPT !.timer = FALSE], "timeout")
  /\ UNCHANGED <<proc, job, attempt, box, sweep, frames, excused, left, breaks>>

(* onOutput: forwarded up to the cap, cut at it, and then no more.           *)
Prints(r, n) ==
  /\ h[r].at = "running" /\ h[r].reason # "output"
  /\ box[r].state = "running" \/ box[r].end \in {"own", "signal"}
  /\ LET sent == h[r].sent + n
         fits == sent <= MAX_OUTPUT IN
     /\ IF fits THEN h' = [h EXCEPT ![r].sent = sent] /\ UNCHANGED kill
        ELSE AbortsWith(r, [h[r] EXCEPT !.sent = MAX_OUTPUT, !.cut = (h[r].reason = "none")],
                        "output")
     /\ frames' = IF h[r].sent < MAX_OUTPUT THEN [frames EXCEPT ![r] = Append(@, Output)]
                                            ELSE frames
  /\ UNCHANGED <<proc, job, attempt, box, sweep, excused, left, breaks>>

(* What runWithLimits makes of the end of runInContainer: the reason as it   *)
(* is by now, cleaning up included.                                          *)
Result(x) ==
  IF x.threw THEN Exit("error", "null", x.reason = "output")
  ELSE IF x.reason = "timeout" THEN Exit("timeout", "null", FALSE)
  ELSE Exit("ok", x.code, x.reason = "output")
-----------------------------------------------------------------------------
(* The handler. *)

Takes(r) ==
  /\ proc = "up" /\ job[r] = "waiting" /\ Cardinality(Busy) < CONCURRENCY
  /\ job' = [job EXCEPT ![r] = "active"]
  /\ h' = [h EXCEPT ![r] = [Idle EXCEPT !.at = "creating", !.timer = TRUE]]
  /\ UNCHANGED <<proc, attempt, box, kill, sweep, frames, excused, left, breaks>>

(* The language, the entrypoint, the staging, the image or the name (an      *)
(* earlier attempt's container has the same) will not do.                    *)
CreateFails(r) ==
  /\ h[r].at = "creating"
  /\ LET x == [h[r] EXCEPT !.threw = TRUE, !.timer = FALSE] IN
     h' = [h EXCEPT ![r] = [x EXCEPT !.at = "publishing", !.result = << Result(x) >>]]
  /\ UNCHANGED <<proc, job, attempt, box, kill, sweep, frames, excused, left, breaks>>

Creates(r) ==
  /\ h[r].at = "creating" /\ ~Exists(r)
  /\ h' = [h EXCEPT ![r].at = "copying"]
  /\ box' = [box EXCEPT ![r] = [NoBox EXCEPT !.state = "created", !.by = attempt[r]]]
  /\ UNCHANGED <<proc, job, attempt, kill, sweep, frames, excused, left, breaks>>

AfterFailure == "removing"

CopyFails(r) ==
  /\ h[r].at = "copying"
  /\ LET x == [h[r] EXCEPT !.threw = TRUE, !.at = AfterFailure] IN
     h' = [h EXCEPT ![r] = [x EXCEPT !.result = << Result(x) >>]]
  /\ UNCHANGED <<proc, job, attempt, box, kill, sweep, frames, excused, left, breaks>>

(* The copy is in: the listener, which does not hear what has been, and      *)
(* `docker start -a`.                                                        *)
Starts(r) ==
  /\ h[r].at = "copying" /\ box[r].state = "created"
  /\ h' = [h EXCEPT ![r].at = "running", ![r].listening = TRUE]
  /\ box' = [box EXCEPT ![r].state = "starting"]
  /\ UNCHANGED <<proc, job, attempt, kill, sweep, frames, excused, left, breaks>>

(* The docker start process is over, whatever for.                           *)
Closes(r) ==
  /\ h[r].at = "running" /\ box[r].state \notin {"starting", "running"}
  /\ h' = [h EXCEPT ![r].at = "removing", ![r].listening = FALSE,
                    ![r].code = IF h[r].killed THEN "null" ELSE box[r].end]
  /\ UNCHANGED <<proc, job, attempt, box, kill, sweep, frames, excused, left, breaks>>

(* removeContainer, which may fail and says nothing; the timer stops.        *)
Removes(r) ==
  /\ h[r].at = "removing"
  /\ \/ /\ box' = [box EXCEPT ![r].state = "none"]
        /\ UNCHANGED <<left, breaks>>
     \/ Exists(r) /\ MayBreak /\ left' = left \cup {r} /\ UNCHANGED box
  /\ h' = [h EXCEPT ![r].at = "publishing", ![r].timer = FALSE, ![r].result = << Result(h[r]) >>]
  /\ UNCHANGED <<proc, job, attempt, kill, sweep, frames, excused>>

(* sendExit: one terminal frame a handler; Redis may refuse it.              *)
SendsExit(r, f) ==
  IF h[r].terminalSent THEN UNCHANGED <<frames, excused, breaks>>
  ELSE \/ frames' = [frames EXCEPT ![r] = Append(@, f)] /\ UNCHANGED <<excused, breaks>>
       \/ MayBreak /\ excused' = excused \cup {r} /\ UNCHANGED frames

PublishesResults(r) ==
  /\ h[r].at = "publishing"
  /\ IF h[r].threw THEN UNCHANGED <<frames, excused, breaks>>
                   ELSE SendsExit(r, h[r].result[1])
  /\ h' = [h EXCEPT ![r].at = "finally", ![r].terminalSent = TRUE]
  /\ UNCHANGED <<proc, job, attempt, box, kill, sweep, left>>

Publishes(r) ==
  /\ h[r].at = "publishing"
  /\ SendsExit(r, h[r].result[1])
  /\ h' = [h EXCEPT ![r].at = "finally", ![r].terminalSent = TRUE]
  /\ UNCHANGED <<proc, job, attempt, box, kill, sweep, left>>

Forgotten(S) == [r \in Run |-> IF r \in S /\ ~Exists(r) THEN NoBox ELSE box[r]]

Finishes(r) ==
  /\ h[r].at = "finally"
  /\ SendsExit(r, failed)
  /\ h' = [h EXCEPT ![r] = Idle]
  /\ job' = [job EXCEPT ![r] = "completed"]
  /\ box' = Forgotten({r})
  /\ UNCHANGED <<proc, attempt, kill, sweep, left>>
-----------------------------------------------------------------------------
(* The docker daemon, and the program. *)
Gone(r, end) == [box EXCEPT ![r].state = "none", ![r].end = end]
DaemonOnly == <<proc, job, attempt, h, frames, excused, left, breaks>>

DaemonStarts(r) ==
  /\ box[r].state = "starting"
  /\ box' = [box EXCEPT ![r].state = "running"]
  /\ UNCHANGED <<DaemonOnly, kill, sweep>>

DaemonRefuses(r) ==
  /\ box[r].state = "starting"
  /\ box' = [box EXCEPT ![r].state = "refused", ![r].end = "docker"]
  /\ UNCHANGED <<DaemonOnly, kill, sweep>>

(* A container that is not running cannot be killed, and nobody tries again. *)
KillArrives(r) ==
  \E id \in kill :
    /\ id[1] = r
    /\ kill' = kill \ {id}
    /\ box' = IF Present(id) /\ box[r].state = "running" THEN Gone(r, "signal") ELSE box
    /\ UNCHANGED <<DaemonOnly, sweep>>

ProgramExits(r) ==
  /\ box[r].state = "running"
  /\ box' = Gone(r, "own")
  /\ UNCHANGED <<DaemonOnly, kill, sweep>>

(* A minute has passed, and with it the ten seconds of the run's own timer.  *)
Ages(r) ==
  /\ Exists(r) /\ ~box[r].old
  /\ r \in Busy /\ Present(Own(r)) => ~h[r].timer
  /\ box' = [box EXCEPT ![r].old = TRUE]
  /\ UNCHANGED <<DaemonOnly, kill, sweep>>
-----------------------------------------------------------------------------
(* The reaper: list, inspect, remove. *)
ListsRunning == {<<r, box[r].by>> : r \in {q \in Run : box[q].state = "running"}}
Listed == {<<r, box[r].by>> : r \in {q \in Run : Exists(q)}}

SweepLists ==
  /\ proc = "up" /\ sweep.at = "idle" /\ Listed # {}
  /\ sweep' = [at |-> "listed", ids |-> Listed]
  /\ UNCHANGED <<DaemonOnly, box, kill>>

(* docker inspect fails for all of them when one is gone by now.             *)
AllOf(ids) == ids
StaleOf(ids) == {id \in ids : box[id[1]].old}

SweepInspects ==
  /\ sweep.at = "listed"
  /\ LET stale == IF \A id \in sweep.ids : Present(id) THEN StaleOf(sweep.ids) ELSE {} IN
     sweep' = IF stale = {} THEN Quiet ELSE [at |-> "stale", ids |-> stale]
  /\ UNCHANGED <<DaemonOnly, box, kill>>

SweepRemoves ==
  /\ sweep.at = "stale"
  /\ box' = [r \in Run |->
       IF <<r, box[r].by>> \notin sweep.ids \/ ~Exists(r) THEN box[r]
       ELSE Gone(r, IF box[r].state = "running" THEN "signal" ELSE "docker")[r]]
  /\ sweep' = Quiet
  /\ UNCHANGED <<DaemonOnly, kill>>

(* One of the docker calls of a sweep fails: that sweep is over.             *)
SweepFails ==
  /\ sweep.at # "idle" /\ MayBreak
  /\ sweep' = Quiet
  /\ UNCHANGED <<proc, job, attempt, h, box, kill, frames, excused, left>>
-----------------------------------------------------------------------------
(* The process. *)

(* SIGTERM: no more jobs, no more sweeps; wait for the jobs there are.       *)
Shutdown ==
  /\ proc = "up" /\ MayBreak
  /\ proc' = "closing"
  /\ UNCHANGED <<job, attempt, h, box, kill, sweep, frames, excused, left>>

Stops ==
  /\ proc = "closing" /\ Busy = {}
  /\ proc' = "down" /\ sweep' = Quiet
  /\ UNCHANGED <<job, attempt, h, box, kill, frames, excused, left, breaks>>

(* SIGKILL: handlers, timers and the sweep are gone, containers stay.        *)
Dies ==
  /\ proc # "down" /\ MayBreak
  /\ proc' = "down" /\ sweep' = Quiet
  /\ h' = [r \in Run |-> Idle] /\ excused' = excused \cup Busy
  /\ box' = Forgotten(Busy)
  /\ UNCHANGED <<job, attempt, kill, frames, left>>

Boots ==
  /\ proc = "down"
  /\ proc' = "up"
  /\ UNCHANGED <<job, attempt, h, box, kill, sweep, frames, excused, left, breaks>>

(* BullMQ: an active job nobody renews the lock of.                          *)
Stalled(r) ==
  /\ proc = "up" /\ job[r] = "active" /\ r \notin Busy
  /\ IF attempt[r] < Stalls
     THEN /\ job' = [job EXCEPT ![r] = "waiting"]
          /\ attempt' = [attempt EXCEPT ![r] = @ + 1]
     ELSE job' = [job EXCEPT ![r] = "failed"] /\ UNCHANGED attempt
  /\ UNCHANGED <<proc, h, box, kill, sweep, frames, excused, left, breaks>>
-----------------------------------------------------------------------------
Works ==
  \/ \E r \in Run :
       \/ Takes(r) \/ CreateFails(r) \/ Creates(r) \/ CopyFails(r) \/ Starts(r) \/ Closes(r)
       \/ Removes(r) \/ Publishes(r) \/ Finishes(r) \/ TimerFires(r) \/ Stalled(r)
       \/ DaemonStarts(r) \/ DaemonRefuses(r) \/ KillArrives(r)
  \/ Stops \/ Boots

Sweeps == SweepLists \/ SweepInspects \/ SweepRemoves

WorkerNext ==
  \/ Works \/ Sweeps \/ SweepFails \/ Shutdown \/ Dies
  \/ \E r \in Run : ProgramExits(r) \/ Ages(r) \/ \E n \in Chunks : Prints(r, n)

(* The runner and the daemon go on, time passes and the reaper's interval    *)
(* comes round; a program need not end.                                      *)
WorkerSpec ==
  /\ WorkerInit /\ [][WorkerNext]_workerVars
  /\ WF_workerVars(Works) /\ WF_workerVars(Sweeps) /\ WF_workerVars(\E r \in Run : Ages(r))
-----------------------------------------------------------------------------
Frame == {Output} \cup {Exit(s, c, t) : s \in {"ok", "timeout", "error"},
                          c \in {"null", "own", "signal", "docker"}, t \in BOOLEAN}

WorkerTypeOK ==
  /\ proc \in {"up", "closing", "down"} /\ (proc = "down" => Busy = {})
  /\ job \in [Run -> {"waiting", "active", "completed", "failed"}]
  /\ attempt \in [Run -> 0..Stalls]
  /\ \A r \in Run :
       /\ h[r].at \in {"idle", "creating", "copying", "running", "removing", "publishing",
                      "finally"}
       /\ h[r].sent \in 0..MAX_OUTPUT /\ h[r].reason \in {"none", "timeout", "output"}
       /\ box[r].state \in {"none", "created", "starting", "running", "refused"}
       /\ frames[r] \in Seq(Frame)
  /\ Cardinality(Busy) <= CONCURRENCY
  /\ kill \subseteq Run \X (0..Stalls) /\ sweep.ids \subseteq Run \X (0..Stalls)
  /\ excused \subseteq Run /\ left \subseteq Run /\ breaks \in 0..MaxBreaks

(* The exit frame is the last frame of its run, and the only one, unless the *)
(* runner died between publishing it and completing the job: BullMQ then     *)
(* has the run done again.                                                   *)
ExitEndsTheStream ==
  \A r \in Run \ excused : \A k \in 1..Len(frames[r]) :
    frames[r][k].type = "exit" => k = Len(frames[r])

(* A run whose output was cut is reported as truncated, not as a timeout,    *)
(* however soon after the cut its timer fires; a run is reported with its    *)
(* own exit code only if its program ended by itself and all that it printed *)
(* was forwarded; and a run reported as failed has left no container of its  *)
(* attempt behind, but one that docker would not remove.                     *)
ReportsAreTrue ==
  \A r \in Run : h[r].at = "publishing" =>
    LET f == h[r].result[1] IN
    /\ h[r].cut => f.status = "ok" /\ f.truncated
    /\ f.code = "own" => box[r].end = "own" /\ ~h[r].cut
    /\ f.status = "error" => box[r].state = "none" \/ box[r].by # attempt[r] \/ r \in left

(* A container without a handler is one whose runner died or that docker     *)
(* would not remove: no path out of a handler forgets it.                    *)
HandlersCleanUp ==
  \A r \in Run : Exists(r) /\ h[r].at \in {"idle", "publishing", "finally"}
    => r \in excused \cup left

(* The reaper takes nothing from a run within its ten seconds, however long  *)
(* its listing and its inspection took.                                      *)
LiveRunsAreSpared ==
  [][\A r \in Run : SweepRemoves /\ box'[r] # box[r] /\ r \in Busy
                      /\ Present(Own(r)) => ~h[r].timer]_workerVars

(* A program no kill will reach: the timer fired before the listener was     *)
(* there, or the kill came before the daemon had started the container.      *)
OutOfReach(r) ==
  h[r].at = "running" /\ box[r].state = "running" /\ h[r].reason # "none" /\ kill = {}

(* A run that was taken is reported in the end, unless its runner died or    *)
(* Redis would not take the report; or a shutdown waits for a program that   *)
(* is out of reach, with the reaper stopped.                                 *)
RunsAreReported ==
  []<>(\/ \A r \in Run : job[r] # "waiting" /\ r \notin excused
                           => frames[r] # << >> /\ Last(frames[r]).type = "exit"
       \/ proc = "closing" /\ \E q \in Run : OutOfReach(q))

(* No container stays for ever, whatever died while it was there.            *)
ContainersGo ==
  []<>(\/ \A r \in Run : ~Exists(r)
       \/ proc = "closing" /\ \E q \in Run : OutOfReach(q))

(* What index.ts says of the shutdown: the ten seconds of the run bound it.  *)
ShutdownEnds == proc = "closing" ~> proc # "closing"
=============================================================================
