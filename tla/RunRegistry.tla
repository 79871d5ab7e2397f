---------------------------- MODULE RunRegistry ----------------------------
(***************************************************************************)
(* The runs one server instance has in flight: startRun's last two awaits  *)
(* (execution/service.ts), the registry of subscriptions and buffered      *)
(* frames (registry.ts), the SSE responses (stream.ts, routes.ts), and a   *)
(* runner publishing on each run's channel (apps/runner/src/worker.ts).    *)
(* Redis Pub/Sub keeps the order of a channel and forgets what nobody is   *)
(* subscribed to.                                                          *)
(*                                                                         *)
(* Frames are their positions on the channel; a stretch of JavaScript      *)
(* between two awaits is one step.  A watcher is one SSE request.          *)
(***************************************************************************)
EXTENDS Naturals, Sequences, FiniteSets, Functions

CONSTANTS
  Job,           \* runs a user asks for
  Watcher,       \* stream requests
  NoWatcher,     \* sink: null, and a request not made yet
  MaxRuns,       \* MAX_ACTIVE_RUNS
  BufferLimit,   \* MAX_OUTPUT_BYTES, in frames
  MaxOutput,     \* bound on the output frames of each run
  RedisFails     \* a SUBSCRIBE or an enqueue may fail

ASSUME RunRegistryAssumption ==
  /\ NoWatcher \notin Watcher \cup Job
  /\ MaxRuns \in Nat \ {0} /\ BufferLimit \in Nat \ {0}
  /\ MaxOutput \in [Job -> Nat]
  /\ RedisFails \in BOOLEAN

VARIABLES
  request,     \* where startRun is
  subscriber,  \* the run's subscriber connection
  entries,     \* the runs in the registry
  buffered,    \* entry.buffered
  sink,        \* entry.sink
  terminal,    \* entry.terminal
  timer,       \* entry.timer is armed
  queueJob,    \* the job: on the queue or in the runner, or over
  sent,        \* frames published so far
  exitAt,      \* which of them is the exit frame; 0 while there is none
  taken,       \* frames the subscriber has handed over, or nobody ever will
  watching,    \* the run a stream request is for
  stream,      \* its response
  got,         \* the frames its client has received
  expired      \* history: whether the entry was closed, and on which side of
               \* its exit frame

entryVars == <<entries, buffered, sink, terminal, timer>>
runVars == <<queueJob, sent, exitAt>>
clientVars == <<watching, stream, got>>
vars == <<request, subscriber, entryVars, runVars, taken, clientVars, expired>>

Request == {"new", "connecting", "enqueueing", "accepted", "refused", "failed"}
Subscriber == {"none", "connecting", "on", "off"}
JobState == {"none", "queued", "over"}
(* "left": the client is gone and its close event on the way; "gone": that   *)
(* event came before the stream listened for it.                             *)
Stream == {"none", "open", "ended", "left", "gone", "closed"}
Position == Nat \ {0}

Init ==
  /\ request = [j \in Job |-> "new"]
  /\ subscriber = [j \in Job |-> "none"]
  /\ entries = {}
  /\ buffered = [j \in Job |-> <<>>]
  /\ sink = [j \in Job |-> NoWatcher]
  /\ terminal = [j \in Job |-> FALSE]
  /\ timer = [j \in Job |-> FALSE]
  /\ queueJob = [j \in Job |-> "none"]
  /\ sent = [j \in Job |-> 0] /\ exitAt = [j \in Job |-> 0] /\ taken = [j \in Job |-> 0]
  /\ watching = [w \in Watcher |-> NoWatcher]
  /\ stream = [w \in Watcher |-> "none"]
  /\ got = [w \in Watcher |-> <<>>]
  /\ expired = [j \in Job |-> "no"]
-----------------------------------------------------------------------------
(* registry.open up to its await: the cap, then a connection and a timer. *)
Open(j) ==
  /\ request[j] = "new" /\ Cardinality(entries) < MaxRuns
  /\ request' = [request EXCEPT ![j] = "connecting"]
  /\ subscriber' = [subscriber EXCEPT ![j] = "connecting"]
  /\ timer' = [timer EXCEPT ![j] = TRUE]
  /\ UNCHANGED <<entries, buffered, sink, terminal, runVars, taken, clientVars, expired>>

Refuse(j) ==
  /\ request[j] = "new" /\ Cardinality(entries) >= MaxRuns
  /\ request' = [request EXCEPT ![j] = "refused"]
  /\ UNCHANGED <<subscriber, entryVars, runVars, taken, clientVars, expired>>

(* The SUBSCRIBE is acknowledged: the entry is registered, the job added. *)
Subscribed(j) ==
  /\ request[j] = "connecting"
  /\ request' = [request EXCEPT ![j] = "enqueueing"]
  /\ subscriber' = [subscriber EXCEPT ![j] = "on"]
  /\ entries' = entries \cup {j}
  /\ UNCHANGED <<buffered, sink, terminal, timer, runVars, taken, clientVars, expired>>

(* It is not: open() throws, and neither connection nor timer is touched. *)
SubscribeFails(j) ==
  /\ RedisFails /\ request[j] = "connecting"
  /\ request' = [request EXCEPT ![j] = "failed"]
  /\ UNCHANGED <<subscriber, entryVars, runVars, taken, clientVars, expired>>

(* remove(): off the map, no timer, no sink. *)
SinkDropped(j) == NoWatcher
RemoveEntry(j) ==
  /\ entries' = entries \ {j}
  /\ timer' = [timer EXCEPT ![j] = FALSE]
  /\ sink' = [sink EXCEPT ![j] = SinkDropped(j)]

(* releaseSubscriber(): frames still on their way find no sink and no entry. *)
LeftOpen(j) == UNCHANGED <<subscriber, taken>>
Release(j) ==
  /\ subscriber' = [subscriber EXCEPT ![j] = "off"]
  /\ taken' = [taken EXCEPT ![j] = sent[j]]

(* close(): both halves, for an entry that is still there. *)
CloseEntry(j) ==
  /\ RemoveEntry(j)
  /\ IF j \in entries THEN Release(j) ELSE UNCHANGED <<subscriber, taken>>
  /\ expired' = [expired EXCEPT ![j] =
       IF j \notin entries THEN @ ELSE IF terminal[j] THEN "after" ELSE "before"]
  /\ UNCHANGED <<buffered, terminal>>

(* The queue has the job; its answer is not back yet. *)
WhileConnecting(j) == request[j] \in {"connecting", "enqueueing"}
AfterSubscribe(j) == request[j] = "enqueueing"

Enqueue(j) ==
  /\ AfterSubscribe(j) /\ queueJob[j] = "none"
  /\ queueJob' = [queueJob EXCEPT ![j] = "queued"]
  /\ UNCHANGED <<request, subscriber, entryVars, sent, exitAt, taken, clientVars, expired>>

Accept(j) ==
  /\ request[j] = "enqueueing" /\ queueJob[j] # "none"
  /\ request' = [request EXCEPT ![j] = "accepted"]
  /\ UNCHANGED <<subscriber, entryVars, runVars, taken, clientVars, expired>>

(* The enqueue rejects, whether or not the queue has the job. *)
EnqueueFails(j) ==
  /\ RedisFails /\ request[j] = "enqueueing"
  /\ request' = [request EXCEPT ![j] = "failed"]
  /\ CloseEntry(j)
  /\ UNCHANGED <<runVars, clientVars>>

(* ENTRY_TTL_MS after open().  A SUBSCRIBE is answered sooner than that. *)
Expire(j) ==
  /\ timer[j] /\ request[j] # "connecting"
  /\ CloseEntry(j)
  /\ UNCHANGED <<request, runVars, clientVars>>
-----------------------------------------------------------------------------
(* The runner: output frames, then one exit frame -- unless it dies, or its *)
(* last publish fails.                                                      *)
(* A frame nobody is subscribed for is gone. *)
Publish(j) ==
  /\ sent' = [sent EXCEPT ![j] = @ + 1]
  /\ taken' = [taken EXCEPT ![j] = IF subscriber[j] = "on" THEN @ ELSE sent[j] + 1]

PrintOutput(j) ==
  /\ queueJob[j] = "queued" /\ sent[j] < MaxOutput[j]
  /\ Publish(j)
  /\ UNCHANGED <<request, subscriber, entryVars, queueJob, exitAt, clientVars, expired>>

PublishExit(j) ==
  /\ queueJob[j] = "queued"
  /\ Publish(j)
  /\ exitAt' = [exitAt EXCEPT ![j] = sent[j] + 1]
  /\ queueJob' = [queueJob EXCEPT ![j] = "over"]
  /\ UNCHANGED <<request, subscriber, entryVars, clientVars, expired>>

Die(j) ==
  /\ queueJob[j] = "queued"
  /\ queueJob' = [queueJob EXCEPT ![j] = "over"]
  /\ UNCHANGED <<request, subscriber, entryVars, sent, exitAt, taken, clientVars, expired>>
-----------------------------------------------------------------------------
(* send(): the response of w takes frames, and ends with the exit frame. A  *)
(* client that has gone receives nothing.                                   *)
Send(w, j, frames) ==
  IF stream[w] \in {"left", "gone"} THEN UNCHANGED <<stream, got>>
  ELSE /\ got' = [got EXCEPT ![w] = @ \o frames]
       /\ stream' = [stream EXCEPT ![w] =
            IF exitAt[j] \in Range(frames) THEN "ended" ELSE "open"]

(* An entry may go at its exit frame when somebody was given that frame.    *)
Drained(j) == sink[j] # NoWatcher

(* receive(), a frame that is not the last. *)
Keep(j, frame) ==
  IF sink[j] # NoWatcher
  THEN Send(sink[j], j, <<frame>>) /\ UNCHANGED buffered
  ELSE /\ buffered' = [buffered EXCEPT ![j] =
            IF Len(@) < BufferLimit THEN Append(@, frame) ELSE @]
       /\ UNCHANGED <<stream, got>>

ReceiveOutput(j) ==
  LET frame == taken[j] + 1 IN
  /\ subscriber[j] = "on" /\ taken[j] < sent[j] /\ frame # exitAt[j]
  /\ taken' = [taken EXCEPT ![j] = frame]
  /\ Keep(j, frame)
  /\ UNCHANGED <<request, subscriber, entries, sink, terminal, timer, runVars, watching, expired>>

(* receive(), the exit frame: the subscriber goes, and the entry with it if *)
(* a client has had everything.                                             *)
ReceiveExit(j) ==
  LET frame == taken[j] + 1 IN
  /\ subscriber[j] = "on" /\ taken[j] < sent[j] /\ frame = exitAt[j]
  /\ Keep(j, frame)
  /\ terminal' = [terminal EXCEPT ![j] = TRUE]
  /\ Release(j)
  /\ IF Drained(j) THEN RemoveEntry(j) ELSE UNCHANGED <<entries, timer, sink>>
  /\ UNCHANGED <<request, runVars, watching, expired>>
-----------------------------------------------------------------------------
(* attach(): the newest response is the sink, and gets what was buffered.   *)
(* Its client may have gone while the route checked the role.               *)
ReplayNothing(j) == <<>>
Replay(j) == buffered[j]

BufferKept(j) == buffered[j]
BufferReset(j) == <<>>

ClockRuns(j) == timer[j]

Attach(w, j) ==
  /\ request[j] = "accepted" /\ watching[w] = NoWatcher /\ j \in entries
  /\ watching' = [watching EXCEPT ![w] = j]
  /\ \/ Send(w, j, Replay(j))
     \/ stream' = [stream EXCEPT ![w] = "gone"] /\ UNCHANGED got
  /\ buffered' = [buffered EXCEPT ![j] = BufferReset(j)]
  /\ IF terminal[j] THEN RemoveEntry(j)
     ELSE /\ sink' = [sink EXCEPT ![j] = w]
          /\ timer' = [timer EXCEPT ![j] = ClockRuns(j)]
          /\ UNCHANGED entries
  /\ UNCHANGED <<request, subscriber, terminal, runVars, taken, expired>>

(* The client goes away; the server learns of it later. *)
Leave(w) ==
  /\ stream[w] = "open"
  /\ stream' = [stream EXCEPT ![w] = "left"]
  /\ UNCHANGED <<request, subscriber, entryVars, runVars, taken, watching, got, expired>>

(* The request's close event: detach(), whoever the sink is by now.  (After *)
(* a response has ended there is no entry left to detach from.)             *)
Detach(w) ==
  /\ stream[w] = "left"
  /\ stream' = [stream EXCEPT ![w] = "closed"]
  /\ sink' = [sink EXCEPT ![watching[w]] = NoWatcher]
  /\ UNCHANGED <<request, subscriber, entries, buffered, terminal, timer, runVars, taken,
                 watching, got, expired>>

JobStep(j) ==
  \/ Open(j) \/ Refuse(j) \/ Subscribed(j) \/ SubscribeFails(j)
  \/ Enqueue(j) \/ Accept(j) \/ EnqueueFails(j) \/ Expire(j)
  \/ PrintOutput(j) \/ PublishExit(j) \/ Die(j)
  \/ ReceiveOutput(j) \/ ReceiveExit(j)

WatcherStep(w) == (\E j \in Job : Attach(w, j)) \/ Leave(w) \/ Detach(w)

Next == (\E j \in Job : JobStep(j)) \/ (\E w \in Watcher : WatcherStep(w))

Spec == Init /\ [][Next]_vars

(* Redis answers, queued jobs are run and end (runWithLimits bounds them), *)
(* frames and close events arrive, timers fire.  Nobody has to ask for a    *)
(* run or a stream, or to leave one.                                        *)
Fairness ==
  /\ \A j \in Job :
       /\ WF_vars(Subscribed(j) \/ SubscribeFails(j))
       /\ WF_vars(Enqueue(j) \/ EnqueueFails(j)) /\ WF_vars(Accept(j) \/ EnqueueFails(j))
       /\ WF_vars(PublishExit(j) \/ Die(j))
       /\ WF_vars(ReceiveOutput(j) \/ ReceiveExit(j))
       /\ WF_vars(Expire(j))
  /\ \A w \in Watcher : WF_vars(Detach(w))

FairSpec == Spec /\ Fairness
-----------------------------------------------------------------------------
(* Shapes of all variables; an entry is on the clock, and a sink is an      *)
(* attached response of its run.                                            *)
TypeOK ==
  /\ request \in [Job -> Request]
  /\ subscriber \in [Job -> Subscriber]
  /\ entries \subseteq Job
  /\ buffered \in [Job -> Seq(Position)]
  /\ sink \in [Job -> Watcher \cup {NoWatcher}]
  /\ terminal \in [Job -> BOOLEAN] /\ timer \in [Job -> BOOLEAN]
  /\ queueJob \in [Job -> JobState]
  /\ sent \in [Job -> Nat] /\ exitAt \in [Job -> Nat] /\ taken \in [Job -> Nat]
  /\ \A j \in Job : taken[j] <= sent[j] /\ exitAt[j] <= sent[j]
  /\ watching \in [Watcher -> Job \cup {NoWatcher}]
  /\ stream \in [Watcher -> Stream]
  /\ got \in [Watcher -> Seq(Position)]
  /\ expired \in [Job -> {"no", "before", "after"}]
  /\ entries \subseteq {j \in Job : timer[j]}
  /\ \A j \in Job : sink[j] # NoWatcher => j \in entries /\ watching[sink[j]] = j

Watched(j) == \E w \in Watcher : watching[w] = j
Sole(w) == \A v \in Watcher \ {w} : watching[v] # watching[w]

(* A run that was accepted stays in the registry until somebody has asked   *)
(* for its stream, however fast it finished; only its TTL can take it away. *)
KeptForTheClient ==
  \A j \in Job :
    request[j] = "accepted" /\ j \notin entries => Watched(j) \/ expired[j] # "no"

(* ... and its output with it: nothing published before the first stream is *)
(* missing, up to the limit of the buffer.                                  *)
TheBeginningIsKept ==
  \A j \in entries : ~Watched(j) =>
    buffered[j] = [n \in 1..(IF taken[j] < BufferLimit THEN taken[j] ELSE BufferLimit) |-> n]

(* A client gets frames in the order of the channel, the exit frame last.   *)
StreamsAreInOrder ==
  \A w \in Watcher : \A m, n \in 1..Len(got[w]) :
    m < n => got[w][m] < got[w][n] /\ got[w][m] # exitAt[watching[w]]

(* No frame goes to two clients, or waits in the buffer after it went out.  *)
EachFrameOnce ==
  \A w \in Watcher : watching[w] # NoWatcher =>
    /\ Range(got[w]) \cap Range(buffered[watching[w]]) = {}
    /\ \A v \in Watcher \ {w} :
         watching[v] = watching[w] => Range(got[v]) \cap Range(got[w]) = {}

(* Slots and connections come back, whatever happens to the run, its        *)
(* watchers and its exit frame.                                             *)
SlotsComeBack == \A j \in Job : (j \in entries) ~> (j \notin entries)
SubscribersAreReleased == \A j \in Job : (subscriber[j] = "on") ~> (subscriber[j] = "off")

(* The exit frame was published, came, and found the buffer full.           *)
ExitDropped(j) ==
  /\ exitAt[j] # 0 /\ taken[j] = sent[j]
  /\ exitAt[j] \notin Range(buffered[j])
  /\ \A w \in Watcher : exitAt[j] \notin Range(got[w])

(* A client that stays, and is alone, sees its stream end, unless the entry *)
(* expired first or the exit frame did not fit the buffer.                  *)
SoleStreamEnds ==
  \A w \in Watcher : \A j \in Job :
    (stream[w] = "open" /\ watching[w] = j) ~>
      (stream[w] # "open" \/ ~Sole(w) \/ expired[j] = "before" \/ ExitDropped(j))

(* "A second watcher, or a client that comes back, still gets the ending":  *)
(* so does the newest response, if it stays.                                *)
Newest(w) ==
  \A v \in Watcher \ {w} : watching[v] = watching[w] => stream[v] = "closed"

SecondWatcherGetsTheEnding ==
  \A w \in Watcher : \A j \in Job :
    (stream[w] = "open" /\ watching[w] = j) ~>
      (stream[w] # "open" \/ ~Newest(w) \/ expired[j] = "before" \/ ExitDropped(j))

(* The cap "counts ACTIVE entries only", it is "never a quota on how many   *)
(* runs a project may perform": a refusal needs that many unfinished runs.  *)
CapCountsActive ==
  [][\A j \in Job : Refuse(j) =>
       Cardinality({k \in entries : ~terminal[k]}) >= MaxRuns]_vars
=============================================================================
