---------------------------- MODULE WriteBuffer ----------------------------
(***************************************************************************)
(* The write buffer of one document (persistence/buffer.ts), with what it  *)
(* drives: the append to the log, then the projection into File.content    *)
(* (materialize.ts), then a compaction (DocLog.tla models that one).       *)
(* Around it: the document being edited while a flush is under way, the    *)
(* forced flushes of eviction (leaveRoom) and of a code run (startRun,     *)
(* through flushAllRooms), the death of the process and the next opening.  *)
(*                                                                         *)
(* Edits are numbered in the order they reach the Y.Doc; a Yjs state, a    *)
(* merged update and a text are sets of edits.                             *)
(***************************************************************************)
EXTENDS Naturals, Sequences, FiniteSets, Functions

CONSTANTS
  MaxEdits,      \* bound on the edits of a behaviour
  FlushAt,       \* FLUSH_BYTES, counted in edits
  MaxFailures,   \* bound on failing database calls
  MaxCrashes     \* bound on process deaths

ASSUME WriteBufferAssumption ==
  MaxEdits \in Nat /\ FlushAt \in Nat \ {0} /\ MaxFailures \in Nat /\ MaxCrashes \in Nat

VARIABLES
  phase,      \* the room: "live", "evicting" (final flush), "closed"
  doc,        \* the Y.Doc
  edits,      \* how many edits were ever made
  buffered,   \* updates waiting for a flush
  timer,      \* the flush timer is armed
  chain,      \* batches whose writeBatch has not finished, the running one first
  stage,      \* where the running writeBatch is
  text,       \* the text it has read off the Y.Doc to materialize
  log,        \* DocUpdate rows, in id order
  content,    \* File.content
  attempted,  \* history: every edit that was ever put in a batch
  final,      \* history: what the forced flush of an eviction took
  run,        \* a startRun waiting for its flush
  faults      \* failures and crashes so far

db == <<log, content>>
bufferVars == <<phase, doc, edits, buffered, timer, chain, stage, text, log, content,
                attempted, final, run, faults>>

Edits == 1..MaxEdits
Stage == {"idle", "appending", "committed", "materializing", "compacting"}

(* A run waits until `ahead' more batches have finished; `wants' is what the *)
(* server's document held when it was asked for, `open' whether the room was *)
(* still in the registry.                                                    *)
Run == [waiting : BOOLEAN, ahead : Nat, wants : SUBSET Edits, open : BOOLEAN]
NoRun == [waiting |-> FALSE, ahead |-> 0, wants |-> {}, open |-> FALSE]

Logged == UNION Range(log)
InChain == UNION Range(chain)

BufferInit ==
  /\ phase = "live"
  /\ doc = {} /\ edits = 0
  /\ buffered = {} /\ timer = FALSE
  /\ chain = <<>> /\ stage = "idle" /\ text = {}
  /\ log = <<>> /\ content = {}
  /\ attempted = {} /\ final = {}
  /\ run = NoRun
  /\ faults = [failures |-> 0, crashes |-> 0]
-----------------------------------------------------------------------------
(* flush(): everything buffered becomes the last batch of the chain. *)
ChainedFirst(batch) == <<batch>> \o chain
Chained(batch) == Append(chain, batch)

TimerAfterFlush == FALSE

Capture(batch) ==
  /\ chain' = Chained(batch)
  /\ attempted' = attempted \cup batch
  /\ buffered' = {}
  /\ timer' = TimerAfterFlush

(* onUpdate: buffer, then flush at the byte limit or make sure a clock runs. *)
NeverArmed == timer
Armed == TRUE

Edit ==
  /\ phase = "live" /\ edits < MaxEdits
  /\ edits' = edits + 1
  /\ doc' = doc \cup {edits + 1}
  /\ LET waiting == buffered \cup {edits + 1} IN
       IF Cardinality(waiting) >= FlushAt
       THEN Capture(waiting)
       ELSE /\ buffered' = waiting
            /\ timer' = Armed
            /\ UNCHANGED <<chain, attempted>>
  /\ UNCHANGED <<phase, stage, text, db, run, final, faults>>

TimerFires ==
  /\ timer
  /\ Capture(buffered)
  /\ UNCHANGED <<phase, doc, edits, stage, text, db, run, final, faults>>

(* leaveRoom, last connection out: the room leaves the registry, nothing    *)
(* edits the Y.Doc any more and the final flush is started.                 *)
Evict ==
  /\ phase = "live"
  /\ phase' = "evicting"
  /\ Capture(buffered)
  /\ final' = buffered
  /\ UNCHANGED <<doc, edits, stage, text, db, run, faults>>

(* startRun: flushAllRooms flushes the rooms of the registry and waits. *)
EarlierBatches == Len(chain)
EarlierAndOwn == Len(chain) + 1

StartRun ==
  /\ ~run.waiting
  /\ IF phase = "live"
     THEN /\ Capture(buffered)
          /\ run' = [waiting |-> TRUE, ahead |-> EarlierAndOwn, wants |-> doc, open |-> TRUE]
     ELSE /\ run' = [waiting |-> TRUE, ahead |-> 0, wants |-> doc, open |-> FALSE]
          /\ UNCHANGED <<chain, attempted, buffered, timer>>
  /\ UNCHANGED <<phase, doc, edits, stage, text, db, final, faults>>

(* ... and then reads File.content. *)
RunReads ==
  /\ run.waiting /\ run.ahead = 0
  /\ run' = NoRun
  /\ UNCHANGED <<phase, doc, edits, buffered, timer, chain, stage, text, db,
                 attempted, final, faults>>
-----------------------------------------------------------------------------
(* The running writeBatch is over: the next one may start. *)
Finish ==
  /\ chain' = Tail(chain)
  /\ stage' = "idle"
  /\ text' = {}
  /\ run' = [run EXCEPT !.ahead = IF @ = 0 THEN 0 ELSE @ - 1]

CallFails == faults.failures < MaxFailures
             /\ faults' = [faults EXCEPT !.failures = @ + 1]

SkipEmpty ==
  /\ stage = "idle" /\ chain # <<>> /\ Head(chain) = {}
  /\ Finish
  /\ UNCHANGED <<phase, doc, edits, buffered, timer, db, attempted, final, faults>>

StartAppend ==
  /\ stage = "idle" /\ chain # <<>> /\ Head(chain) # {}
  /\ stage' = "appending"
  /\ UNCHANGED <<phase, doc, edits, buffered, timer, chain, text, db, attempted,
                 run, final, faults>>

(* The row is in the database; the answer is still on its way. *)
AppendCommits ==
  /\ stage = "appending"
  /\ stage' = "committed"
  /\ log' = Append(log, Head(chain))
  /\ UNCHANGED <<phase, doc, edits, buffered, timer, chain, text, content,
                 attempted, run, final, faults>>

(* writeBatch resumes: the text it projects is the Y.Doc's as it is now. *)
TextNow == doc

AppendReturns ==
  /\ stage = "committed"
  /\ stage' = "materializing"
  /\ text' = TextNow
  /\ UNCHANGED <<phase, doc, edits, buffered, timer, chain, db, attempted,
                 run, final, faults>>

(* The append rejects, whether or not the row was committed: the merged     *)
(* batch goes back to the buffer, and no timer is armed for it.             *)
RequeuedNothing == buffered
Requeued == Head(chain) \cup buffered

AppendFails ==
  /\ stage \in {"appending", "committed"} /\ CallFails
  /\ buffered' = Requeued
  /\ Finish
  /\ UNCHANGED <<phase, doc, edits, timer, db, attempted, final>>

(* materializeContent: best effort. *)
Materializes ==
  /\ stage = "materializing"
  /\ content' = text
  /\ stage' = "compacting"
  /\ UNCHANGED <<phase, doc, edits, buffered, timer, chain, text, log, attempted,
                 run, final, faults>>

MaterializeFails ==
  /\ stage = "materializing" /\ CallFails
  /\ stage' = "compacting"
  /\ UNCHANGED <<phase, doc, edits, buffered, timer, chain, text, db, attempted,
                 run, final>>

(* maybeCompact has returned or thrown; either way the batch is done. *)
Compacts ==
  /\ stage = "compacting"
  /\ Finish
  /\ UNCHANGED <<phase, doc, edits, buffered, timer, db, attempted, final, faults>>
-----------------------------------------------------------------------------
(* The final flush has resolved: detach, then destroy the Y.Doc. *)
DetachEarly == TRUE
Drained == chain = <<>>

ForgetRoom ==
  /\ phase' = "closed"
  /\ doc' = {} /\ buffered' = {} /\ timer' = FALSE /\ final' = {}

Detach ==
  /\ phase = "evicting" /\ Drained
  /\ ForgetRoom
  /\ UNCHANGED <<edits, chain, stage, text, db, attempted, run, faults>>

(* The process dies with whatever it had not written. *)
BufferCrash ==
  /\ phase # "closed" /\ faults.crashes < MaxCrashes
  /\ ForgetRoom
  /\ chain' = <<>> /\ stage' = "idle" /\ text' = {}
  /\ run' = NoRun
  /\ faults' = [faults EXCEPT !.crashes = @ + 1]
  /\ UNCHANGED <<edits, db, attempted>>

(* createRoom, by this process or the next: the log is all there is. *)
Reopen ==
  /\ phase = "closed"
  /\ phase' = "live"
  /\ doc' = Logged
  /\ UNCHANGED <<edits, buffered, timer, chain, stage, text, db, attempted,
                 run, final, faults>>

WriteBatch ==
  \/ SkipEmpty \/ StartAppend \/ AppendCommits \/ AppendReturns \/ AppendFails
  \/ Materializes \/ MaterializeFails \/ Compacts

BufferNext ==
  \/ Edit \/ TimerFires \/ Evict \/ StartRun \/ RunReads
  \/ WriteBatch \/ Detach \/ BufferCrash \/ Reopen

BufferSpec == BufferInit /\ [][BufferNext]_bufferVars

(* Timers fire, and every database call is answered, well or badly.  Users, *)
(* evictions, runs, crashes and reopenings owe nothing.                     *)
Fairness ==
  /\ WF_bufferVars(TimerFires)
  /\ WF_bufferVars(WriteBatch)
  /\ WF_bufferVars(Detach)
  /\ WF_bufferVars(RunReads)

BufferFairSpec == BufferSpec /\ Fairness
-----------------------------------------------------------------------------
(* Shapes of all variables; the timer only runs for something. *)
BufferTypeOK ==
  /\ phase \in {"live", "evicting", "closed"}
  /\ doc \subseteq Edits /\ edits \in 0..MaxEdits
  /\ buffered \subseteq Edits /\ timer \in BOOLEAN
  /\ chain \in Seq(SUBSET Edits) /\ stage \in Stage /\ text \subseteq Edits
  /\ log \in Seq(SUBSET Edits) /\ content \subseteq Edits
  /\ attempted \subseteq Edits /\ final \subseteq Edits
  /\ run \in Run
  /\ faults \in [failures : 0..MaxFailures, crashes : 0..MaxCrashes]
  /\ timer => phase = "live" /\ buffered # {}

(* While a room exists every edit of its document is in the log, in a batch *)
(* on its way there, or in the buffer: a failed append drops nothing.       *)
NothingDropped ==
  phase # "closed" => doc = Logged \cup InChain \cup buffered

(* An edit no flush has taken yet always has a clock running for it.        *)
NewEditsAreOnTheClock ==
  phase = "live" => (buffered \ attempted # {} => timer)

(* File.content never loses an edit the document still has, although it is  *)
(* written from a text read before the write.                               *)
ContentKeepsUp == [][content \cap doc \subseteq content']_bufferVars

(* No call has failed and no process has died so far.                       *)
Calm == faults = [failures |-> 0, crashes |-> 0]

(* Until a call fails, no edit reaches the log before an earlier one.       *)
RowsInOrder == Calm => \A e \in Logged, d \in doc : d < e => d \in Logged

(* The forced flush at eviction is enough, as long as no call fails: what   *)
(* it leaves behind is logged.                                              *)
EvictionKeepsAll == [][Detach /\ Calm => doc \subseteq Logged]_bufferVars

(* Every edit reaches the log, unless a call fails or its process dies.     *)
EveryEditIsLogged == \A e \in Edits : (e \in doc) ~> (e \in Logged \/ ~Calm)

(* What the log holds, File.content comes to hold, with the same exception. *)
ContentCatchesUp == \A e \in Edits : (e \in Logged) ~> (e \in content \/ ~Calm)

(* A run of a document that is open executes what was typed before it.      *)
OpenRoomsRunCurrentText ==
  [][RunReads /\ run.open /\ Calm => run.wants \subseteq content]_bufferVars

(* ... of any document, as startRun's comment has it: "running the version  *)
(* from two seconds ago is the most confusing bug this feature could ship,  *)
(* so force a flush before reading".                                        *)
RunsSeeCurrentText == [][RunReads => run.wants \subseteq content]_bufferVars

(* Nothing stays in the buffer: "a transient database failure should cost a *)
(* delay, not a paragraph".                                                 *)
BufferEmpties == \A e \in Edits : (e \in buffered) ~> (e \notin buffered)

(* File.content "may lag the log by one flush interval, and can never lead  *)
(* it".                                                                     *)
ContentNeverLeads == content \subseteq Logged

(* "The forced flush at eviction is the last chance": what an eviction      *)
(* throws away has at least been in its forced flush.                       *)
LostOnlyByForcedFlush == [][Detach => buffered \subseteq final]_bufferVars
=============================================================================
