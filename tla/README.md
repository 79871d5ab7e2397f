# Collab IDE: a TLA+ model

These modules model the parts of Collab IDE whose correctness depends on the
order in which things happen. On the server: the update log in PostgreSQL, the
write buffer in front of it, the registry of open documents, who may do what,
the files of a project, the registry of code runs. Between processes: the
document protocol between browser tabs and server instances, and the runner. In
the browser: the work area, the explorer and the search palette. TLC checks them
on small instances; TLAPS proves most of their invariants for every instance.

Paths below are relative to the repository root; `S/` stands for
`apps/server/src/modules/`, `R/` for `apps/runner/src/`, `W/` for
`apps/web/src/`.

## 1. The system

A browser edits a file through a Yjs document. One WebSocket per open file
connects it to a server instance; the instance keeps one *room* per document,
merges updates in memory, relays them to the other sockets of the room and, over
a Redis channel per document, to the other instances. Updates are buffered for
about two seconds, appended to a log in PostgreSQL, projected into
`File.content`, and now and then folded into a snapshot. A run of a program
flushes the buffers, reads the files from PostgreSQL, puts a job on a Redis queue
and streams what a separate runner process publishes back to the browser. Members
and files are changed over REST, and a change closes the sockets it concerns.

| Component | Source | State | Operations | Hard because | What makes it correct |
|---|---|---|---|---|---|
| Document store, compactor | `S/persistence/postgresDocStore.ts`, `compactor.ts` | `DocUpdate` rows, `DocSnapshot` row with its watermark | load, appendUpdate, writeSnapshot, readForCompaction, compact, countUpdates, deleteDoc | several instances on one log; ids become visible out of order; two-statement reads; crashes between steps | a committed update is never hidden below the watermark nor deleted unfolded |
| Write buffer, materialization | `S/persistence/buffer.ts`, `materialize.ts` | buffered updates, timer, promise chain | onUpdate, flush, writeBatch, detach | edits during an await; failures half way; eviction and runs forcing flushes | no edit dropped, all logged in order, `File.content` follows |
| Room registry | `S/collab/room.ts` | `rooms`, `pendingWrites`, `conns` | createRoom, joinRoom, leaveRoom, flushAllRooms, allRooms | joins racing evictions | one room per document, reopening sees everything |
| Sessions | `S/collab/syncHandler.ts`, `wsServer.ts` | sockets, roles fixed at join, early frames | handshake, handleConnection, handleMessage, disconnect* | sockets that close, and roles that change, during the awaits | a socket has its user's role or is being closed; nothing is lost in a handshake |
| Document bus | `S/redis/docBus.ts` | one handler per channel, two Redis connections | subscribeDoc, unsubscribeDoc, publishDoc | at-most-once frames; a dying room unsubscribing a new one | the handler is the current room's; no echo; instances differ by lost frames only |
| Run registry, stream | `S/execution/registry.ts`, `stream.ts`, `routes.ts` | an entry per run, its subscriber, buffer, sink, timer | open, receive, attach, detach, remove, close | frames before the stream, several watchers, TTL, the cap | nothing published is missed; a stream ends; slots come back |
| Run requests, queue | `S/execution/service.ts`, `queue.ts` | BullMQ job | startRun | partial failure between flush, subscribe and enqueue | subscribe precedes enqueue; a failed enqueue leaks nothing |
| Runner, sandbox | `R/worker.ts`, `R/sandbox/` | job, container, limits, sweep | handleRunJob, runWithLimits, runInContainer, reapStaleContainers, shutdown | timeout, output limit, exit and kill racing; deaths; redelivery | one true report, containers always go, live runs are spared |
| Projects, membership | `S/projects/` | projects, members | create, add, change role, remove, delete | check-then-act on the owner count | a project keeps an owner; sockets follow the role |
| Files | `S/files/` | rows with whole paths | create, move, delete, list | transactions that overlap; cascades; rooms of deleted files | parents exist, subtrees move whole, a deletion is complete |
| Auth | `S/auth/` | sessions | register, login, logout, assertProjectAccess | little | role checks on every request |
| Server process | `apps/server/src/index.ts`, `app.ts` | sockets, pools | start, shutdown | order of closing and flushing | what is buffered is written before exit |
| Browser provider | `W/features/collab/` | socket, Y.Doc, IndexedDB, retry timer | connect, handleMessage, handleClose, backoff, destroy | reconnects, offline edits | one socket, agreement, no retry of a refusal |
| Browser work area | `W/app/ProjectPage.tsx`, `W/features/editor/`, `W/features/projects/` | tabs, editor states, the view, the project's detail | open, select, close, reveal, refresh | states cached across documents; the page unmounts under them | what is kept is live, editable as the role allows |
| Browser run terminal | `W/features/terminal/` | state, EventSource | start, output, exit, close | the panel dies while a run is asked for | one stream, the panel's own |
| Browser explorer | `W/features/files/` | tree, dialogs, opened folders | create, move, delete, refresh | requests and fetches that cross, dialogs dismissed under way | one's change shows; tabs follow files |
| Browser search palette | `W/features/search/` | query, scan, cache, selection | type, scan, choose | workers of an old query; results arriving under the selection | one query per list, complete, genuine |
| Shared tables, shell, forms, tools | `packages/shared/src/`, `W/features/auth`, `loadtest/`, `scripts/` | view state | – | little | – |

`PROJECT.json` lists the components with their status and, under `hazards`, the
places in the code where these difficulties bite.

## 2. Modules

| Module | What it is |
|---|---|
| `DurableDoc` | abstract specification of the document store: what has been saved stays saved while the file exists |
| `DocLog` | the log of one document as several instances use it; implements `DurableDoc` |
| `WriteBuffer` | the buffer, flush chain and projection of one document, with eviction, runs, failures, crashes |
| `RoomRegistry` | the rooms of one document on one instance, and the bus handler |
| `RunRegistry` | the runs of one instance, from `startRun`'s subscription to the last frame of the last stream |
| `Access` | sessions, roles, membership requests and the sockets that were let in earlier |
| `DocSync` | one document in several tabs and on several instances: provider, protocol and bus |
| `RunWorker` | the runner: jobs, limits, docker, reaper, shutdown |
| `Paths`, `Trees`, `Subsequences` | paths of a project, the nested tree built of them, `Array.prototype.filter`: operators |
| `FileTree` | the requests that create, move and delete files, statement by statement |
| `OpenFiles`, `ProjectDetail`, `RunPanel` | the page's tabs (operators), its project detail, its run panel: parts of |
| `WorkArea` | the work area of a project's page |
| `Explorer` | the sidebar, its dialogs and the tabs that follow |
| `Match` | how a search matches and draws its matches: operators |
| `Search` | the search palette |
| `Filter`, `SearchHits` | the sidebar's filter: operators; and `Search` with it and with what a hit must be |
| `PersistenceProofs` | what is proved of `DocLog`, of its refinement of `DurableDoc`, and of `WriteBuffer` |
| `FilesAndRoomsProofs` | of `FileTree` and `RoomRegistry` |
| `AccessProofs`, `DocSyncProofs` | of `Access`, of `DocSync` |
| `RunProofs` | of `RunRegistry` and `RunWorker` |
| `TreeProofs` | of `Paths`, `Trees` and `Subsequences`, and the inductions all of the browser's proofs use |
| `PageProofs` | of `WorkArea` and `Explorer` |
| `SearchProofs` | of `Search`, `SearchHits` and the operators of `Match` and `Filter` |
| `MC…` | model values, initial data and symmetry for TLC |

The server's modules cut the editing path at its interfaces. `RoomRegistry` takes
a flush as one step that succeeds; `WriteBuffer` opens that step up, and takes
the append and the compaction as steps whose effect on the log is "one more
row"; `DocLog` opens those up and takes the rooms as "open" or "closed".
`DocSync` takes all of the server's side of a document as one room per instance,
and `Access` looks at the sockets of one room as their roles change. `FileTree`
has the deletion of a file above the room and log that `DocLog`'s `DeleteFile`
and `DeleteDoc` are about. `RunWorker` publishes what `RunRegistry` hands on.
In the browser `WorkArea` composes tabs, providers, detail and panel (a provider
is `DocSync`'s tab seen as none, waiting or ready); `Explorer` and `Search` have
the tabs too, and take the server's side of a request as one step.

### DocLog

A Yjs state is modelled as the set of updates applied to it, because the store
relies on nothing else (`applyUpdate` is idempotent and order-free). `rows` and
`snap` are the two tables, `nextId` the sequence of `DocUpdate.id`, `horizon` the
age cutoff of compaction. Each instance runs a sequential program counter:
`found`, `snapshotRead`, `seeding` for `createRoom` and `load()`; `appending`,
`appended`, `counted`, `candidate` for `appendUpdate` and `maybeCompact`. Each
database round trip is a step; what the code puts in one transaction
(`readForCompaction`, `compact`) is one step.

* An id is drawn before its row is visible (`BeginAppend`, `CommitAppend`), so
  rows appear out of order across instances. `Age` moves the cutoff forward but
  never past an INSERT still under way: that is the assumption `compactor.ts`
  states for `COMPACT_LAG_MS`, and the proof of `SafePruning` uses it and
  nothing else about time.
* `FailAppend` covers both a lost statement and a lost answer.
* `Crash` resets an instance at any point. `DeleteFile` and `DeleteDoc` are the
  two halves of a deletion; orphan rows may arrive after it.
* Every instance may find the document new: `Seed[i]` is the update by which room `i`
  inserts the file's text, and `SeedSnapshot` is the upsert of `writeSnapshot`, whatever
  is there by then. Two instances that both found nothing both seed, the second over the
  first, as `docs/REALTIME.md:493` records. `late` names the opens another's seed has
  overtaken: that race and no other is what `SeedsOnlyNewDocuments` excepts, and
  `DurableDoc` has `Reseed` for it.
* `Age` also waits while a first open is under way (`FirstOpen`): it is assumed that the
  upsert comes within `COMPACT_LAG_MS` of the read that found nothing. No code states
  this. Without it the upsert could replace a snapshot that a compaction has meanwhile
  made of the other room's rows, and they would be gone; with it those rows are still in
  the log. What the model does not show of a double seed: rows are counted as stored,
  but Yjs can integrate an edit next to the text of a replaced seed only once that seed
  comes back, with a tab of its room that connects again; then the text is there twice,
  which is the duplication `REALTIME.md` speaks of.

### WriteBuffer

Edits are numbered in the order they reach the document; merged updates, texts
and states are sets of edits. `chain` is the promise chain of `flush()`, its
head the running `writeBatch`, `stage` the await that one is suspended at.
`AppendCommits` and `AppendReturns` are separate because edits arrive between
them, and `AppendFails` may strike on either side of the commit. `text` is what
`writeBatch` read off the Y.Doc before the projection is written. `Evict`,
`Detach` and `Reopen` are the room's life cycle, `StartRun` and `RunReads` the
forced flush of a run and the read after it. `final`, `attempted` are history.

### RoomRegistry

JavaScript runs to the next `await`; every action is one such stretch.
`state[r]` follows a promise of the map through `createRoom` (`waiting` for the
previous room's write, `querying`, `loading`) and the room through `live`,
`evicting`, `destroyed`. `pc` and `target` are the connection handlers: where
each is and which promise it holds. Continuations are allowed in any order,
which includes every order the microtask queue produces. `Join` is the end of
`joinRoom`, which puts the connection into `conns` (`added`); `Attach` is
`handleConnection` resuming after it, with `attachRoomObservers`, the close listener and
the queued messages. Between the two another socket may be added, and the room has no
handler yet. `observed` and `handler` are the observers and the bus handler of
`attachRoomObservers` and `leaveRoom`. `CloseUnheard` is a socket that closes before the `close` listener
is attached, `OpenFails` a query of `createRoom` that throws. Room identities
are recycled once nothing refers to them (`Forgotten`), so behaviours are
unbounded although the instance is finite.

### RunRegistry

A frame is its position on the channel of its run: `sent` counts what the runner
has published, `taken` what the subscriber connection has handed to `receive`,
and a frame published while nobody is subscribed is counted as taken, since
nobody will ever see it. `exitAt` is the position of the exit frame. `request`
follows `startRun` through its last two awaits, the SUBSCRIBE and the enqueue;
`entries`, `buffered`, `sink`, `terminal` and `timer` are the fields of
`registry.ts`. `receive`, `attach`, `detach`, `remove` and `close` have no
await before their last statement and are one step each.

* `Enqueue` and `Accept` are separate because the runner may be done before the
  answer of the enqueue is back; `EnqueueFails` may strike on either side of it.
* A stream request `w` is one SSE response. `stream[w] = "left"` is a client that
  has gone while its `close` event is still on the way; `"gone"` is one whose event
  was emitted before `streamRun` listened for it (the route awaits a role check
  first). Frames written to either are lost.
* `detach` is called with a run, not with a response: `Detach` clears whatever
  sink the run has by then.
* `Die` is a runner that never publishes an exit frame: it crashed, or that
  publish failed (`publish` in `worker.ts` logs and goes on).
* The buffer's limit, bytes in the code, is counted in frames. An exit frame that
  finds it full is dropped like any other.
* `Expire` is the entry's TTL. It is assumed that a SUBSCRIBE is answered, one way
  or the other, within those two minutes.
* `QUIT` is one step with the call that issues it: `receive` on a released
  subscriber writes to an entry nobody can reach.
* `expired` is history.

### Access

A REST request is a row of database calls with an await after each: `Guard`
(`assertProjectAccess`), `Find` and `Count` (what `changeRole` and `removeMember`
look at), the write, then `Pass`, the walk of `disconnectProjectUser` or
`disconnectProject` over the open rooms. No lock spans two of them, so each is an
action. A socket reads its role once; `ReadAccess` and `Authorized` are the
database's half and the reply's half of that read, and `late` names the sockets
whose answer was under way while a commit and its whole pass went by. `FindFile`
and `Loaded` are the awaits of `joinRoom` in between. `Edit` is `handleMessage`
with its `canWrite`, `Close` the `close` event.

### DocSync

An edit is its author and its place among the author's edits. A Y.Doc is the set
of edits it was given and, like Yjs, shows and announces only those whose
predecessors it has (`Visible`). `up` and `down` are the frames of a socket in
each direction, `bus` those on their way to an instance. Frames of a
socket that is still being authorized (`early`) are kept and handled after the join, as
`handleConnection` does. `HandleOnline`, `Retry` and `Drop` are the provider's
`online` event, backoff timer and `close`; the close codes 4404 and 4409 end it.
`Subscribed` comes some time after the room is there, and a frame published before it
is `missed`, as one that Redis loses is. `untold` holds what a room had pending
when the edit that released it came from the socket itself: `broadcast` leaves
the origin out, so that tab is not sent them. `Revoke` closes the sockets of one instance,
the one the REST request reached (`disconnectProjectUser` walks its own rooms,
`REALTIME.md:487`); a tab connected elsewhere goes on until it reconnects and is `Refuse`d.

### RunWorker

`h[r].at` is the await `handleRunJob` is suspended at. Docker answers in its own
time: `Starts` (the runner's call) and `DaemonStarts` (its effect), the abort's
`kill` and `KillArrives` are separate, so an abort may come before the container
runs or after it exited. `TimerFires` may strike at any await of the run. `Dies`
takes handlers and timers, not containers; BullMQ then hands the job to another
attempt (`Stalled`, up to `maxStalledCount`). A sweep lists, inspects and removes
in three steps, with runs going on in between; `Ages` is a container passing the
sixty seconds of `maxAgeMs`. History: `excused` (runs whose runner died, or whose report
Redis did not take) and `left` (containers docker would not remove).

### FileTree

A request is a transaction at READ COMMITTED: each statement sees what is
committed when it starts and what its own transaction wrote; a row or a path
another transaction has written is waited for (`Waits`), and the unique index on
`(projectId, path)` is checked row by row. Two transactions that wait for each
other are `Deadlock`ed, one is refused. A move updates its rows one by one
(`UpdateOne`), in any order, since the query that lists them asks for none. Beside
the rows there are the room and log of one file, because `deleteFile` ends the first
and empties the second after its commit (`CloseRooms`, `PurgeLog`). History: `met`
(requests that overlapped another), `late` (sockets that joined while the last ones
were closing, or joined such a late one), `astray` (a log emptied under an open or
still-writing room).

### WorkArea, with OpenFiles, ProjectDetail and RunPanel

An action is an event and the commit it causes, effects included. `ProjectDetail`
is `useProjectDetail`: a refresh unmounts the page until *an* answer arrives, and
nothing orders the answers of refreshes that overlap (`crossing`). `view` is the
one CodeMirror view with the states it caches per tab: whether one is `kept`,
bound to a `live` provider, `readOnly`, and whether it has a `history` to undo.
`Commits` is React's commit: the view unmounts when the active tab's provider
has no document. `reveal` is a search result asked for, `jumps` how often each
was gone to. `RunPanel` is `useRun`: a POST under way when its panel dies still
answers into the dead panel's refs (`orphans`).

### Explorer

The server's rows, the tree as last fetched (`tree`, `shown`), fetches under way
(`gets`: a fetch is read at the server in one step and arrives in another) and
the three dialogs. A change is `Submit`ted, `Applied` at the server, `Answered`,
then its own fetch is awaited, and only with it come its effects on dialogs,
folders and tabs (`Finishes`). A dialog can be dismissed in between. `Foreign`
are changes by others, `Lost` an answer that never comes. A create dialog may be opened
while the tree loads (the header's button); the others are opened on a node of the tree.
The server applies a change in one step to a tidy tree: that a deletion which overlaps a
creation leaves an orphan row below its directory, with a tab of its own, is `FileTree`'s
and not seen here. History: `under` and
`swept` (what the page knew to be in a directory when its deletion was submitted, and
what the deletion took), `strayed` (files whose label the page had no cause to keep
right: moved by others, along with their directory, by one of two moves of the same
file or by one whose answer was lost, or opened under a path that was old already),
`shown`, `latest` and `crossed` (which fetch the tree is of, and whether answers
arrived out of order).

### Match and Search

A text is a sequence of characters; `matchPath`, `matchContent`, `snippet`,
`filterTree`, `Highlight` and the others are operators of the same names. `Lower`
gives the lower case of a character, of more than one character for some.
`Search` has the palette around them: `query` as typed and `debounced`, the scan
with its targets, cursor and workers (`scan.reading`), the `cache` of contents by
id and version, the listed results and the `selected` row. `scan` is the run of
the effect whose cleanup sets `cancelled`; reads of an earlier one that are still
under way are `stray`, each with the query it is for: they fill the cache, and the worker
that waited finds itself `Cancelled`. `Moves` has the arrows, Home and End, and the
pointer, which may come to any row.

## 3. Runs

All runs use TLC's breadth-first search over the complete state graph.

| Run | Checks | Instance | States |
|---|---|---|---|
| `log_safe` | nothing committed is hidden below the watermark (`SafePruning`); the seed goes into a document nothing is stored for, but for the simultaneous first open (`SeedsOnlyNewDocuments`); `DocLog` implements `DurableDoc` (`KeepsPromise`) | 2 instances, 2 payloads, ids up to 4, compaction after 1 row | 1,111,356 |
| `buffer` | no edit is dropped while its room exists (`NothingDropped`); and while no call fails and no process dies: rows are in order, an eviction saves everything, every edit is logged, runs of open documents read current text | 3 edits, flush threshold 3, 2 failing calls, 1 crash | 153,773 |
| `rooms` | one room of the document (`OneRoom`); a reopened document has every edit (`ReopenHasEverything`); the bus handler is the current room's from the first handler that resumes in it, however many were added before (`BusFollowsRoom`); a room whose sockets have all closed goes away (`EmptyRoomsGo`) | 3 sockets, 3 room identities, 1 edit, closing unheard and failing queries | 292,898 |
| `runs` | output from the first frame on is kept for the first stream (`TheBeginningIsKept`); each frame goes out once; subscribers are released; a stream that is alone ends | 2 runs (2 output frames, and none), 2 stream requests, 1 slot, a buffer of 2 frames, failing Redis calls | 121,485 |
| `access` | a socket whose role has changed is being closed, or a pass is still to come, but for the one race named (`SocketsFollowRoles`), and it does go (`OutOfDateSocketsGo`); the last owner goes only by a request that read another role, or another number of owners, than there are (`LastOwnerGoesByARace`) | 2 people, 2 overlapping requests of every kind, 1 socket, 1 write | 563,029 |
| `access_last_owner` | violation: a live project without an owner | same | – |
| `docsync` | a quiet socket's tab shows what its room shows (`QuietSocketsAgree`); rooms differ only by frames they missed (`OnlyMissedFramesDivide`); what was typed reaches the log (`TypingReachesTheLog`) | 2 tabs, 2 instances, 3 sockets, 2 edits (one typed offline), 1 thing that goes wrong | 457,066 |
| `worker` | reports are true (`ReportsAreTrue`); the reaper spares live runs (`LiveRunsAreSpared`); runs are reported (`RunsAreReported`) and containers go (`ContainersGo`) | 2 runs, 1 at a time, 1 chunk of output allowed, 1 redelivery, 1 thing that goes wrong | 796,728 |
| `files` | a request that meets no other orphans no row (`OrphansComeFromRaces`); a deletion empties room and log but for the races named (`DeletionsAreComplete`); a move that meets no other carries its subtree (`SubtreesMoveWhole`) | 2 requests of any kind over names a, b to depth 2, two directories and a file at first, 3 sockets | 266,897 |
| `work` | editor states are live and belong to open tabs (`StatesAreLive`), editable as the role allows (`EditableAsAllowed`); streams belong to the panel but for the race named (`StreamsBelongToThePanel`); undo history survives switching (`HistorySurvivesSwitching`) | 2 files, 2 runs, 3 loads of the project, 1 change of role, 1 search result | 1,106,606 |
| `explorer` | one's change shows (`YourChangesShow`); a deletion closes its tabs (`DeletedTabsClose`); tabs bear their files' paths but for the cases named (`LabelsFollowFiles`) | 2 changes, a directory with a file, 1 file or directory clicked and any tab closed, 1 change by others or lost answer | 1,408,362 |
| `search` | the lines of a list are of one query, of files as the page's tree has them, and of one text of each (`OneQueryPerList`); a finished search has missed nothing (`NothingIsMissed`); what is listed, filtered and marked is what was typed (`HitsAreGenuine`); the marked row stays (`SelectionStays`) | 5 nodes, 3 keystrokes, 2 workers, 2 openings; an edit, a fetch, and a deletion or a failing read | 126,741 |

Why the bounds are enough:

* The log: two instances suffice for every interleaving of an append with a
  compaction, or of two compactions, since a step touches the tables and one
  instance only, and two first opens are the race of the seeds; four ids allow an
  insert that becomes visible late with rows on both sides of it, and a second
  compaction over the first.
* The buffer: three edits let one be in the running batch, one in the chain and
  one in the buffer; two failures let a requeued batch fail again. A threshold of
  3 means edits usually wait for the timer, but can also trigger the flush by
  size. The proofs do not depend on any of these.
* The rooms: three sockets give a leaver, a joiner on the old promise and a
  joiner on the new one. A fourth identity would be used only while two sockets
  have yet to be told, on two different promises, that the file is missing and a
  third has meanwhile opened and left the document; the next join then waits until
  one of the two has been told, which the fairness of `JoinMissing` guarantees.
  The proofs cover any number of identities.
* The runs: with one slot the second run meets the cap; a buffer of two frames is
  filled by the output of the first, so that its exit frame may be the one that
  does not fit; two responses of one run replace each other's sink.
* Access: every check-then-act of the code is between two requests, or between a
  request and a socket; two requests and one socket of the second person are both.
  `Reader` and `Newcomer` keep the other combinations, which add none, out.
* DocSync: two tabs on one instance meet through a room, on two through the bus;
  a third socket lets a tab reconnect while its last one is still in use by the
  other's history. Two edits make a gap possible (the second before the first).
  One break is what the code claims to survive at a time.
* The runner: with two runs and one slot one waits behind the other, a sweep sees
  both, and a redelivered job meets its own old container. One chunk beyond
  `MAX_OUTPUT` is the cut.
* Files: two requests give every pair of kinds; two levels give a parent, a child
  and a move of one into the other, and a name on each side of the unique index.
  Three sockets are one on its way out, one that joins it, and one that joins that
  one. (Three requests, with one socket, pass as well; the proofs cover any number.)
* The page: two tabs are what switching needs; three loads allow two that cross.
  The panel's second run replaces the first.
* The explorer: two changes cross in their requests and in their fetches, and
  may be of one file, of a file and its directory, or open a second dialog of the
  same kind; the paths asked for, `b` and `b/a`, are one in the way of the other. One
  disturbance at a time.
* The search: two workers and three searchable files leave one file to whoever is
  first; queries of two letters are one that is too short and one that is not;
  the limits are set so that each is reached.

`CHECK_DEADLOCK FALSE` is set where behaviours end: when a bound or the requests
of the instance are used up. `SYMMETRY` is used for `files`, `work` and `explorer`,
whose runs check no liveness.

### The violation

`access_last_owner`: `docs/API.md` lists `LAST_OWNER` as what keeps a project from
losing its last owner. Two overlapping requests that take the role from one owner each
(the two demote each other, or one demotes himself and is demoting the other) both count
two (`service.ts:175`) before either writes: the project is left without one.
`LastOwnerGoesByARace` says that it takes such a race. Its proof showed that a count
of *none* passes as well: the code refuses at exactly one (`service.ts:175`, `:217`), so
in a project that three overlapping requests have left without owners a fourth that
read the role earlier is not refused.

### Stated, and left without a run

Each of these is a definition of the module and TLC finds it violated on the
instance of the module's run (or the same with fewer edits); they state what a
comment or document says, or what one would expect.

| Property | What happens |
|---|---|
| `DocLog!LoadReturnsEverything` | `load()` reads snapshot and tail in two statements (`postgresDocStore.ts:62`); a compaction by another instance in between leaves the answer without the rows it folded. The log itself is intact (`Durable`, proved); the opened document is not |
| `WriteBuffer!ContentNeverLeads` | the projection writes the document's text of *after* the append (`buffer.ts:85`), edits not yet logged included |
| `WriteBuffer!RunsSeeCurrentText` | a run does not wait for the final write of a room that is being evicted (`room.ts:208`) |
| `WriteBuffer!LostOnlyByForcedFlush` | a batch captured before the eviction and failing after it goes back to a buffer that is never flushed again (`buffer.ts:71`) |
| `WriteBuffer!BufferEmpties` | no timer is armed for a batch put back after a failure (`buffer.ts:74`) |
| `RoomRegistry!DestroyedWithTheLast` | a socket that closes before its listener is attached (`syncHandler.ts:260`) stays in `room.conns` for ever |
| `RunRegistry!SecondWatcherGetsTheEnding` | the `close` event of a first stream clears the sink of the second (`registry.ts:163`), which never ends |
| `RunRegistry!CapCountsActive` | `open()` counts every entry, finished runs nobody has streamed included (`registry.ts:70`) |
| `DocSync!ReconnectingRepairs` | a frame the bus lost is repaired when *its author's* tab reconnects, not by any reconnect: the tab that lacks it reconnects to a room that lacks it too (`docBus.ts:192`) |
| `RunWorker!ShutdownEnds` | a shutdown waits for a program whose abort was not heard, with the reaper stopped (`apps/runner/src/index.ts:48`) |
| `WorkArea!UndoHistorySurvives` | selecting a tab whose provider is not ready unmounts the one view and its cached states with it (`EditorPane.tsx:197`) |
| `WorkArea!OneRevealPerRequest` | a view that is mounted again goes to the last search result again (`CodeMirror.tsx:168`) |
| `Explorer!TabsFollowTheirFiles` | moving a directory renames its own tab only (`ProjectPage.tsx:227`); tabs of files in it keep the old path, and a run started from one sends a stale entrypoint |

Also stated and found to hold on those instances, in no run because a run's
budget is better spent otherwise: `WriteBuffer!ContentCatchesUp`,
`RoomRegistry!OnlyEvictionsDelay`, `RunRegistry!SlotsComeBack`,
`DocSync!OneSocketPerTab`, `Access!WritesAreLicensed`,
`FileTree!RequestsAreAnswered`, `WorkArea!JumpsAreAsked`,
`RunWorker!ExitEndsTheStream`, `RunWorker!HandlersCleanUp`, and every `TypeOK`.

### Observed while modelling

On the server:

* An error in `createRoom` is an unhandled rejection and ends the process, where
  `docs/REALTIME.md:446` says that the document refuses to open (`OpenFails`, then
  `Restart` in `RoomRegistry`).
* An exit frame that finds the run's buffer full is dropped, and a stream attached
  later never ends (`SoleStreamEnds` excepts it as `ExitDropped`). The run cap is
  compared before an await and the entry added after it, so simultaneous requests
  exceed it. A SUBSCRIBE that fails leaves its connection and timer behind.
* After a failed append a later batch of the chain is logged first, so row order
  is not edit order (harmless, as Yjs updates commute; `RowsInOrder` is stated for
  calm behaviours). A crash between append and projection leaves `File.content`
  behind until the next edit.
* `assertProjectAccess` failing with a database error is answered NotFound, which
  the browser treats as final.
* A row without its parent directory, once there, is carried along by later moves
  that meet nobody: what overlapping requests tore is not mended, and may reappear
  elsewhere (hence `OrphansComeFromRaces` compares a commit with the table before it).
* Moving a directory whose rows have meanwhile been deleted commits as if it had
  moved them. Only the new path is validated: descendants of a moved directory may
  become longer or deeper than the limits. A socket that joins while the last ones
  of a deleted file's room are closing stays in that room, which then lets others in
  (only the first one looks for the row); a last flush may follow `deleteDoc`
  (`service.ts:273`).
* The REST hooks close sockets of their own instance only: another instance's socket of a
  removed member goes on editing (`REALTIME.md:487`).

In the runner:

* An abort before `runInContainer` has attached its listener is never heard, and
  the kill of a container docker has not started yet is swallowed; the program
  then runs until the reaper's sixty seconds.
* A timer that fires while the container is being removed makes a run that was
  over a `timeout` (`limits.ts:93`).
* `docker start` being refused is reported as a run that ended with exit code 1,
  where `docker.ts:244` says it throws.
* A job redone after its runner died publishes frames after its exit frame, or
  fails on the name of its own old container.
* One container that vanishes between listing and inspecting fails the inspection
  of all of them, until the next sweep.

In the browser:

* A panel that unmounts while its run is being asked for leaves a stream open
  that nothing closes, where `useRun.ts:73` says a stream must never outlive the
  page (`StreamsBelongToThePanel` excepts it).
* Refreshes of the project that cross leave an editor editable under a label that
  says "Read only", or the reverse (`EditableAsAllowed` excepts `crossing`). Any
  change of a member or of the name takes the whole work area down and rebuilds it.
* A create or rename dialog dismissed while submitting is not cancelled: its
  success closes a second dialog of its kind, its refusal is silent. A request
  whose answer is lost fetches nothing, so its effect shows at the next change.
* During the palette's pause of 220 ms the rows mix names of the new query with
  lines of the old one, and choosing a line marks the new query at the old place.
* The contents cache is keyed by the tree's `updatedAt`: what others edit is read
  again only after the tree is fetched. "120+" is shown for exactly 120 lines, and
  the footer counts all files as read when a limit stopped the scan
  (`SearchPalette.tsx:362`).
* Letters that are longer in lower case shift the positions of a match, and may
  list one line more than once (`match.ts:210`).

## 4. Fairness

`DocLog`, `WorkArea`, `Explorer` and `Search` have none: they are checked for
safety only (a search's liveness was beyond TLC's time; that a search that goes
on has a read to wait for is part of `NothingIsMissed`). In `WriteBuffer` timers
fire, every database call is answered (well or badly), and continuations run;
edits, evictions, runs, crashes and reopenings are never owed. Failures are
bounded by `MaxFailures`, so weak fairness of `WriteBatch` does not let calls fail
for ever. In `RoomRegistry` queries are answered and continuations run; nobody
owes a connection, an edit or a close. That is what Node's event loop gives: a
ready continuation is run, a settled promise resumes its awaiters, an armed
`setTimeout` fires. In `RunRegistry` Redis answers, a queued job is run and ends
(`runWithLimits` bounds it; it may end without an exit frame), published frames
and `close` events arrive and the TTL fires; nobody owes a run, a stream or a
departure.

In `Access` the database answers requests and sockets, and a socket that was
asked to close does; in `FileTree` statements are answered. In `DocSync` something
of what is on its way arrives, retry timers among it, as long as anything is
(one weak fairness for all of it, which is weaker than one for each). In
`RunWorker` the runner and the daemon go on, time passes and the reaper's interval
comes round; a program need not end. That a runner which has died is started again
is an assumption about its operation, not something the repository arranges.

## 5. Proofs

All theorems hold for every value of the constants that satisfies the named
assumption of the module. Two components may share a module of proofs; where both
would use a name, one has it with a prefix (`FilesSpec`, `BufferInit`, `WorkerTypeOK`,
`explorerVars`).

**`PersistenceProofs`**, of the log (`DocLogAssumption`). The properties are not inductive by
themselves. The invariant `Inv` adds: the cutoff lies below every INSERT still
under way and at or above the watermark and every range a candidate would prune
(`IdBounds`, `CandidateSound`); a candidate is stale only in ways its
compare-and-set notices (`CandidateSound`); while a document is new instances only open it
(`NewDocument`); what a load has seen of the snapshot's existence is still so unless a
seed has overtaken it (`SnapshotSeen`); and as long as a first open is under way nothing
but seeds is in the snapshot, no row is old enough to be folded, and nobody holds a
candidate (`YoungLog`), so the upsert it may still make replaces seeds only. From it: `PruningIsSafe`, `NothingCommittedIsLost`,
`FoldIsExact`, `SeedingIsSafe`, `WatermarkAdvances` and the refinement
`LogKeepsPromise` (each step of `DocLog` is a `Save`, `Reseed`, `Delete`, `Forget` or
stutter of `DurableDoc`, with `saved` mapped to what a complete read rebuilds).

The same module, of the buffer (`WriteBufferAssumption`). `BufferInv` adds to the properties
what the stages of `writeBatch` mean: a batch past its append is in the log
(`RunningBatch`), the text it holds covers what `File.content` shows of the
document, and nothing shown, logged or typed is newer than the last edit (`Made`);
whatever is in the chain has been attempted; a closed room holds nothing
(`Closed`). From it:
`BufferDropsNothing`, `ClockRuns`, `ProjectionKeepsUp`.

Its second invariant, `CalmInv`, is about behaviours without a failure or a death:
the batches of the chain are disjoint, each older than the next, all older than the
buffer and younger than the log (`Ordered`); what the running batch has read of the
document is what the log will hold (`Projected`); the chain of an evicting room ends
with its whole document (`Flushed`); the flush a run waits for is at the place in the
chain the run counted, and what it wants is in the batches up to there
(`RunIsServed`). From it: `RowsGoInOrder`, `EvictionIsEnough`, `RunsAreCurrent`.

**`FilesAndRoomsProofs`**, of files (`FileTreeAssumption`: the tree at first is closed,
its ids and paths unique). Lemmas about paths (what lies below what, and what
`replacePathPrefix` does to it) come first. `FilesInv` has three parts. Of the table:
what each transaction would commit has unique keys (`Tables`), and no transaction
holds a row, or has put a path, that another one holds (`Locks`); so a commit keeps
the keys of the table *and* of every other transaction's view, in any order. Of a
request that has met no other (`MetOrAlone`): what it read is still so (`Knows`), in
particular that the directories above what it puts are there (`Creates`), that all of
a moved directory's subtree is among its targets (`Plan`) or a deleted one's among the
doomed (`DeletesTheTree`). Of deletions: what is deleted does not come back (`Gone`),
whence nobody enters a deleted file's room but by those already there, and with
nobody there its log stays empty (`Quiet`). From it: `FilesTypeCorrect`, `DeletionsEnd`,
and the action properties `OrphansNeedRaces` and `MovesKeepParents`.

The same module, of rooms (`RoomRegistryAssumption`). `Inv` names where things
are: the only promise under way or room alive is the map's (`Mapped`); `conns`
and the handlers' targets agree (`Members`); `pendingWrites` names the one room
being evicted, and the promise that waits, waits for it (`FinalWrites`); every
edit is in the live room, or in the log and the room being written
(`EditsAreSomewhere`); the bus handler, and that a room is `observed` as soon as one of its
connections is past `added` (`Handling`). It excludes by induction the
interleaving the code's comments are about: a second room loading before the
first has written. From it: `OneRoomPerDocument`, `ReopeningIsComplete`,
`HandlerIsTheRooms`.

**`RunProofs`**, of the registry (`RunRegistryAssumption`). `Inv` adds to the properties how
far a run can have come (`Life`: nothing is published, taken or buffered before
the SUBSCRIBE is acknowledged, an exit frame is the last), that an entry exists
from that acknowledgement on (`Kept`), and where frames are: what clients have is
older than what is buffered, which is no newer than what was taken
(`BufferInOrder`, `GotInOrder`, `GotOnce`). Each frame received is then newer than
all of those, and each replay older than all that follow. From it:
`RunsAreKept`, `BeginningsAreKept`, `OrderIsKept`, `FramesGoOutOnce`. This proves
for any number of runs and watchers what the comments of `registry.ts` argue for
subscribing before enqueueing and for keeping finished entries.

The same module, of the runner (`RunWorkerAssumption`: chunks are not empty).
`WorkerInv` is about each
run by itself, but for the one bound on how many are handled: a handler has a live
runner and an active job (`Lives`); no container, kill or sweep knows of an attempt
before its time (`Attempts`), and what a sweep has found stale belongs to no attempt
with a timer (`OldOnes`); the handler's flags, its code and its container go
together at each await (`Course`), which is where timeout, limit and exit race;
what is left behind is excused (`Leftovers`); and nothing is published after an exit
frame (`Stream`). From it: `ReportsAreCorrect`, `ExitIsLast`, `NothingForgotten`,
`LiveRunsSpared`.

**`AccessProofs`** (`AccessAssumption`: finitely many users). `Inv` says what a
request has found out by the time it is at each of its awaits (`RequestsKnow`: one
that is about to take the owner role away has counted, and not one), what a socket
has been told (`SocketsKnow`), and that a role which is no longer its user's has a
pass to come or was read late (`Fresh`). `Fresh` holds already of sockets that wait in
`joinRoom`: a pass visits those in rooms only, so the step to check is the end of a
pass while a socket is joining. From it: `RolesFollowed`, `LicensedWrites`,
`LastOwnerCounted`.

**`DocSyncProofs`** (`DocSyncAssumption`: a socket at least, finitely many tabs, one
edit at least; any numbers of instances and breakdowns, a bus that loses frames or
not). `Inv` adds three things. `SocketsOK`: tabs and sockets know of each other, frames
are on sockets in use, and an early socket still has a question to ask. `Synced`:
what one end of a joined socket lacks of the other is on its way, will be the answer
to a question that is on its way, or is an echo left out (`untold`). `Covered`: what a
room shows or is about to be told, each other room has, is about to be told, or has
missed. The steps that matter: a question in flight excuses any difference, because
its answer is computed when it is handled, after all frames before it; a frame that
fills a gap releases more than it carries, to all but the socket it came from; an
instance that loads from the log while others have rooms has missed what they had
not flushed. From it: `QuietTabsAgree`, `OnlyLossesDivide`, `OneSocket`.

**`TreeProofs`** (no assumption) has what the browser's proofs need of data. The
installed provers cannot use an induction theorem that takes a predicate, so a
predicate is made a *set*: `SetInduction` (a set of naturals with 0 and successors is
all of them), `FiniteInduction` (the same for finite sets), `SeqInduction` (for
sequences); `Recursion` gives a function on the naturals for any step that is itself a
function, and `Folding` what `FoldSet` computes. The recursive definitions of the model
are functions, never RECURSIVE operators, and each is proved equal to one of these.
On top of them: what lies below a path and what `replacePathPrefix` does to it, what
`Among` keeps of a sequence, and trees. `Nodes` visits depth first with a stack, so its
invariant is of a pair: what is out and what the stack still stands for (`WalkHolds`,
`WalkedOver`). From it: `TreeHasRows` (a set of rows with unique paths, nested and
flattened again, is what it was) and `SubtreeIs` (what `subtreeIds` collects are the
rows at and below the path, if no row lacks its parent).

**`PageProofs`**, of the work area (`WorkAreaAssumption`, `RunPanelAssumption`, and
those of the other parts). `Inv` adds to the properties that an answer which does not
cross another finds the page away (`DetailOK`), that providers and states are those of
open tabs of a page that is shown (`EditorsOK`), that the last answered jump is the
view's (`JumpsOK`), and that a panel asks for one run at a time and then follows it
(`PanelOK`). The effects of `Commits` are lemmas. From it: `LiveStates`,
`EditorsFollowTheRole`, `OneRunPerTerminal`, `HistorySurvives`, `JumpsAnswerRequests`.

The same module, of the explorer (`ExplorerAssumption`: finitely many rows and
changes, a tidy tree at first). `ExplorerInv` has four parts.

* `Types`: the server's rows stay unique and closed under parents through every
  create, move and delete (`CreatedIs`, `MovedIs`, `RemovedIs`), and every tree the
  page holds is one built of such rows.
* `Shows`: a fetch that has been read saw every change whose own fetch was asked no
  later, and, until answers cross, every change that is done (`Reads`). This is what
  `YourChangesShow` lacks: it looks at the tree on the screen only, and the next one
  is already on its way.
* `Labels`: a tab of a file that has not strayed bears the path the file has, or will
  have with the one move that is under way.
* `Deletions`: what the page knew to be beneath a directory is among the ids it noted
  to close (with `SubtreeIs`), and nothing of it is open once the deletion is done.

From it: `ExplorerTypes`, `YourChangesAreShown`, `TabsAreLabelled`, `DeletionsCloseTabs`.

**`SearchProofs`** (`SearchAssumption`, `MatchAssumption`). `SearchInv` has four parts:
what is fetched and cached was so at the server, which may have become newer since and
never older (`FetchedOK`, `CacheOK`); the workers take the targets in order, each for
itself (`InOrder`); of every target before the cursor that nobody is reading, the lines
of one text the file has had since are in the hits, and of all others none
(`Accounted`); what is published is a beginning of the hits, of the query that is wanted
(`ResultOK`). `Accounted` is the invariant that the limits complicate: a worker that
meets one stops, and the others finish the file they are at. `RowsInv` adds that the
rows are what `names` and `result` say, and grow at their end only while reads come
in. `SourcesInv` adds where lines come from: the targets are listed in the tree there is
now, and the hits in one file are matches in one text it has had since (`OneSource`): a
file is read once by a scan, and a cancelled scan's worker publishes nothing. From them:
`SearchTypes`, `ListsAreOfOneQuery`, `SearchMissesNothing`, `MarkedRowStays`.

The same module, of what the palette and the sidebar show (`HitsAreGenuine`, for every
query, text, tree and table of lower case, letters that are longer in lower case
included). Two more parts of the invariant tie the screen to the operators: `ListInv`
(the names listed are those of the tree and the query there are; the query is of
typeable characters; the tree is that of a closed table) and `HitsInv` (every hit is a
place of the query in a text its file has had, no two on one line when the texts are as
long in lower case). The rest is about the operators.

* A match of a path is greedy. The invariant of its walk is that no embedding of the
  query's first characters ends before where the walk is, so it fails only when there
  is none; the ranges are kept in order and apart, and spell what has been walked.
* Drawing cuts a text at ranges that may overlap or lie outside it; what has been drawn
  is always a beginning of the text (`DrawnIs`), so nothing is lost or repeated whatever
  the ranges are, and in order and apart they are all marked.
* A line that is found is clipped around the place: the range moves with what is cut
  off in front and with the mark put there for it.
* The filter is a recursion over nodes, so `ForestInduction` goes up from the deepest.
  `Over` (a function applied along a sequence, the results joined) commutes with
  `Among`, with itself and with concatenation. A node that does not match, and is in no
  directory that does, leaves exactly the rows of its children that were to be kept, and
  its own before them when there are any (`SievedNode`): two paths above one path are
  comparable (`Between`), so what is kept beneath it never comes from a match elsewhere.

From them: `PathsAreListed`, `TheFilterKeepsTheWay`, `SnippetsAreOfTheQuery`,
`NothingIsLostInDrawing` and, of all four, `WhatIsShownIsGenuine`.

Each of these invariants, and those of the other modules, was checked by TLC on the
instance of its run first (`ListInv` and `HitsInv`, which speak of any table and any
position, with the table of the tree's own rows and the positions of the text).

Proving changed what some properties say.

* That an orphan's parent path was taken away by overlapping requests is not so for
  three requests: a move that meets nobody carries an orphan elsewhere. A socket may be
  in a deleted file's room without having joined while another was closing: it may
  have joined one that had.
* A file opened from a tree that is out of date, while its move by the page is only
  `sent` or not the page's at all, gets a tab with a label that nothing will correct:
  `LabelsFollowFiles` was false of larger instances until `Select` counted such a file
  among the `strayed`.

The assumptions are as weak as the arguments allow. `IsFiniteSet(User)` and
`IsFiniteSet(Tab)` are needed since `Cardinality` means nothing otherwise; `Sock # {}`
and an edit to begin with because `Init` has a tab in the middle of a connection;
`Tidy(StartRows)` because the database has the unique index and the requests make
parents.

Only model-checked:

* All liveness, and what rests on ENABLED: outside the proof system.
* `WorkArea!TypeOK`, whose bounds on counters are the instance's.

Only proved, without a run of their own any more: the `TypeOK` of the proved
modules, `Durable`, `FoldCoversPrune`, `WatermarkNeverRegresses`, `NewEditsAreOnTheClock`,
`ContentKeepsUp`, `KeptForTheClient`, `StreamsAreInOrder`, `WritesAreLicensed`,
`OneSocketPerTab`, `ExitEndsTheStream`, `HandlersCleanUp`, `JumpsAreAsked`.

## 6. Not modelled

* The server's shutdown (`apps/server/src/index.ts:48`): `server.close()` waits for
  upgraded sockets that `wss.close()` does not end; `closeAll` of the run registry
  belongs to it. It is the one hard behaviour left.
* The 404 of an unknown run and the language and size limits of a run, which
  change no state; listing projects, reading a profile.
* The merge algorithm of Yjs (an update is an element of a set), awareness and
  presence, HTTP and cookie handling, password hashing, wording, logging, layout,
  themes, keyboard shortcuts and the order of siblings in a tree.
* The browser's shell, forms and lists (one request whose answer is drawn), and a
  change of project without an unmount. The load test, the seed script, build and
  deployment files: tools around the system.

Time is the order of events. Redis, PostgreSQL, Docker and BullMQ are modelled
only through what the code does with their answers.

## 7. What could be next

1. A composition in which `RoomRegistry`'s `Flush` and `Evicted` are refined by
   `WriteBuffer`.
2. The shutdown, modelled.
3. Liveness of a search, on a smaller instance than that of `search`.
