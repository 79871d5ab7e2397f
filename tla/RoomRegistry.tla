--------------------------- MODULE RoomRegistry ---------------------------
(***************************************************************************)
(* The rooms of one document on one server instance (collab/room.ts), with *)
(* what joins and leaves them (handleConnection, attachRoomObservers in    *)
(* syncHandler.ts) and the doc-bus handler that belongs to a room          *)
(* (redis/docBus.ts).  JavaScript runs to the next await without           *)
(* interruption: every action here is one such stretch, and continuations  *)
(* run in any order (a superset of the orders the microtask queue allows,  *)
(* which is what direct callers of joinRoom and leaveRoom can produce).    *)
(*                                                                         *)
(* The writes themselves succeed here; WriteBuffer.tla is about their      *)
(* failures, DocLog.tla about what load() reads.                           *)
(***************************************************************************)
EXTENDS Naturals, FiniteSets

CONSTANTS
  Conn,            \* sockets; one may come back once its connection is over
  RoomId,          \* identities of Room promises, recycled when forgotten
  NoRoom,          \* "undefined" in the map
  MaxEdits,        \* bound on the edits of a behaviour
  EarlyClose,      \* a socket may close before its close listener is attached
  OpenErrors       \* createRoom's queries may throw

ASSUME RoomRegistryAssumption ==
  /\ RoomId \subseteq Nat /\ NoRoom \notin RoomId
  /\ MaxEdits \in Nat
  /\ EarlyClose \in BOOLEAN /\ OpenErrors \in BOOLEAN

VARIABLES
  rooms,      \* rooms.get(docId): the promise the map holds
  state,      \* how far each promise, then its room, has come
  waitsFor,   \* the final write a createRoom waits for
  pending,    \* pendingWrites.get(docId): the room whose final write it is
  conns,      \* room.conns
  observed,   \* rooms whose observers are attached
  handler,    \* the room whose closure is the doc-bus handler
  has,        \* the edits in each room's Y.Doc
  stored,     \* the edits in the update log
  made,       \* history: edits made and not lost in a crash
  pc,         \* where each connection's handler is
  target,     \* the promise or room that handler holds on to
  open,       \* sockets that are open
  up          \* the process is running

vars == <<rooms, state, waitsFor, pending, conns, observed, handler, has, stored, made,
          pc, target, open, up>>
roomVars == <<rooms, state, waitsFor, pending, conns, observed, handler, has>>

Edits == 1..MaxEdits
Maybe(S) == S \cup {NoRoom}

(* "querying" and "loading" are createRoom's two reads; "live" is a resolved *)
(* room; "missing" a promise resolved to null.                               *)
State == {"none", "waiting", "querying", "loading", "live", "missing", "evicting",
          "destroyed"}
IsRoom == {"live", "evicting", "destroyed"}
PC == {"away", "authorizing", "joining", "added", "joined", "leaving"}

Init ==
  /\ rooms = NoRoom /\ pending = NoRoom /\ handler = NoRoom
  /\ state = [r \in RoomId |-> "none"]
  /\ waitsFor = [r \in RoomId |-> NoRoom]
  /\ conns = [r \in RoomId |-> {}]
  /\ observed = {}
  /\ has = [r \in RoomId |-> {}]
  /\ stored = {} /\ made = {}
  /\ pc = [c \in Conn |-> "away"]
  /\ target = [c \in Conn |-> NoRoom]
  /\ open = {}
  /\ up = TRUE
-----------------------------------------------------------------------------
(* A socket has passed the handshake: handleConnection asks for access. *)
Connect(c) ==
  /\ up /\ pc[c] = "away" /\ c \notin open
  /\ open' = open \cup {c}
  /\ pc' = [pc EXCEPT ![c] = "authorizing"]
  /\ UNCHANGED <<roomVars, stored, made, target, up>>

(* The handler is over and its socket gone. *)
Over(c) ==
  /\ pc' = [pc EXCEPT ![c] = "away"]
  /\ target' = [target EXCEPT ![c] = NoRoom]
  /\ open' = open \ {c}

Refuse(c) ==
  /\ pc[c] = "authorizing"
  /\ Over(c)
  /\ UNCHANGED <<roomVars, stored, made, up>>

(* A promise nothing refers to any more: its identity can be used again,    *)
(* the smallest first.                                                      *)
Forgotten(r) ==
  /\ state[r] \in {"none", "missing", "destroyed"}
  /\ rooms # r /\ pending # r
  /\ \A c \in Conn : target[c] # r
  /\ \A q \in RoomId : waitsFor[q] # r

Fresh(r) == Forgotten(r) /\ \A q \in RoomId : Forgotten(q) => r <= q

(* createRoom up to its first await: it finds a final write, or queries. *)
WriteIgnored(r) == NoRoom
WriteInFlight(r) == pending

(* joinRoom up to its await: the promise of the map, or a new one stored    *)
(* before anything is awaited.                                              *)
EnterMap(c) ==
  /\ pc' = [pc EXCEPT ![c] = "joining"]
  /\ IF rooms # NoRoom
     THEN /\ target' = [target EXCEPT ![c] = rooms]
          /\ UNCHANGED <<rooms, state, waitsFor, conns, observed, has>>
     ELSE \E r \in RoomId :
            /\ Fresh(r)
            /\ rooms' = r
            /\ target' = [target EXCEPT ![c] = r]
            /\ waitsFor' = [waitsFor EXCEPT ![r] = WriteInFlight(r)]
            /\ state' = [state EXCEPT ![r] =
                 IF WriteInFlight(r) = NoRoom THEN "querying" ELSE "waiting"]
            /\ conns' = [conns EXCEPT ![r] = {}]
            /\ observed' = observed \ {r}
            /\ has' = [has EXCEPT ![r] = {}]

Authorized(c) ==
  /\ pc[c] = "authorizing"
  /\ EnterMap(c)
  /\ UNCHANGED <<pending, handler, stored, made, open, up>>
-----------------------------------------------------------------------------
(* createRoom resumes once the previous room's final write is over ... *)
WriteOver(r) == state[waitsFor[r]] # "evicting"

WriteAwaited(r) ==
  /\ state[r] = "waiting" /\ WriteOver(r)
  /\ state' = [state EXCEPT ![r] = "querying"]
  /\ waitsFor' = [waitsFor EXCEPT ![r] = NoRoom]
  /\ UNCHANGED <<rooms, pending, conns, observed, handler, has, stored, made,
                 pc, target,
                 open, up>>

(* ... finds the File row, or not ... *)
QueryFile(r) ==
  /\ state[r] = "querying"
  /\ \E outcome \in {"missing", "loading"} : state' = [state EXCEPT ![r] = outcome]
  /\ UNCHANGED <<rooms, waitsFor, pending, conns, observed, handler, has,
                 stored, made, pc,
                 target, open, up>>

(* ... and builds the document from the log. *)
Load(r) ==
  /\ state[r] = "loading"
  /\ state' = [state EXCEPT ![r] = "live"]
  /\ has' = [has EXCEPT ![r] = stored]
  /\ UNCHANGED <<rooms, waitsFor, pending, conns, observed, handler, stored,
                 made, pc,
                 target, open, up>>

(* A query of createRoom throws.  The promise rejects, handleConnection     *)
(* rejects with it, nobody handles that, and Node ends the process.         *)
OpenFails(r) ==
  /\ OpenErrors /\ state[r] \in {"querying", "loading"}
  /\ up' = FALSE
  /\ rooms' = NoRoom /\ pending' = NoRoom /\ handler' = NoRoom
  /\ state' = [q \in RoomId |-> "none"]
  /\ waitsFor' = [q \in RoomId |-> NoRoom]
  /\ conns' = [q \in RoomId |-> {}]
  /\ observed' = {}
  /\ has' = [q \in RoomId |-> {}]
  /\ made' = stored
  /\ pc' = [c \in Conn |-> "away"]
  /\ target' = [c \in Conn |-> NoRoom]
  /\ open' = {}
  /\ UNCHANGED stored

Restart == ~up /\ up' = TRUE /\ UNCHANGED <<roomVars, stored, made, pc,
                                            target, open>>
-----------------------------------------------------------------------------
(* joinRoom resumes with a room: is it still the one in the map? *)
AnyRoomWillDo(c) == state[target[c]] # "missing"
StillMapped(c) == state[target[c]] # "missing" /\ rooms = target[c]

(* The connection is in, and handleConnection will resume. *)
Join(c) ==
  /\ pc[c] = "joining" /\ state[target[c]] \in IsRoom
  /\ StillMapped(c)
  /\ conns' = [conns EXCEPT ![target[c]] = @ \cup {c}]
  /\ pc' = [pc EXCEPT ![c] = "added"]
  /\ UNCHANGED <<rooms, state, waitsFor, pending, observed, handler, has, stored, made,
                 target, open, up>>

(* The first to resume attaches the observers and with them the bus handler; *)
(* each its close listener, late for a closed socket, and the edits that    *)
(* were queued during the awaits.                                           *)
OnlyMember(c) == conns[target[c]] = {c}
NotObserved(c) == target[c] \notin observed

Attach(c) ==
  /\ pc[c] = "added"
  /\ handler' = IF NotObserved(c) THEN target[c] ELSE handler
  /\ observed' = observed \cup {target[c]}
  /\ pc' = [pc EXCEPT ![c] = "joined"]
  /\ \E queued \in SUBSET (Edits \ made) :
       /\ made' = made \cup queued
       /\ has' = [has EXCEPT ![target[c]] = @ \cup queued]
  /\ UNCHANGED <<rooms, state, waitsFor, pending, conns, stored, target, open, up>>

(* It was evicted meanwhile: start over. *)
Rejoin(c) ==
  /\ pc[c] = "joining" /\ state[target[c]] \in IsRoom
  /\ ~StillMapped(c)
  /\ EnterMap(c)
  /\ UNCHANGED <<pending, handler, stored, made, open, up>>

(* Null: do not cache the miss, and close the socket. *)
JoinMissing(c) ==
  /\ pc[c] = "joining" /\ state[target[c]] = "missing"
  /\ rooms' = IF rooms = target[c] THEN NoRoom ELSE rooms
  /\ Over(c)
  /\ UNCHANGED <<state, waitsFor, pending, conns, observed, handler, has,
                 stored, made, up>>
-----------------------------------------------------------------------------
(* A message of a joined socket edits the Y.Doc of the room it holds. *)
Edit(c) ==
  /\ pc[c] = "joined" /\ c \in open
  /\ \E e \in Edits \ made :
       /\ made' = made \cup {e}
       /\ has' = [has EXCEPT ![target[c]] = @ \cup {e}]
  /\ UNCHANGED <<rooms, state, waitsFor, pending, conns, observed, handler,
                 stored, pc,
                 target, open, up>>

(* The write buffer's timer: a flush while the room lives. *)
Flush(r) ==
  /\ state[r] = "live" /\ ~(has[r] \subseteq stored)
  /\ stored' = stored \cup has[r]
  /\ UNCHANGED <<roomVars, made, pc, target, open, up>>

(* The socket closes.  A joined one has a listener: leaveRoom, up to its    *)
(* await of whatever promise the map holds.  Before that, nobody notices.   *)
CloseSocket(c) ==
  /\ pc[c] = "joined" /\ c \in open
  /\ open' = open \ {c}
  /\ pc' = [pc EXCEPT ![c] = IF rooms = NoRoom THEN "away" ELSE "leaving"]
  /\ target' = [target EXCEPT ![c] = rooms]
  /\ UNCHANGED <<roomVars, stored, made, up>>

CloseUnheard(c) ==
  /\ EarlyClose /\ pc[c] \in {"authorizing", "joining", "added"} /\ c \in open
  /\ open' = open \ {c}
  /\ UNCHANGED <<roomVars, stored, made, pc, target, up>>

(* room.conns once the connection is out of it. *)
OthersAndSelf(c) == conns[target[c]]
Others(c) == conns[target[c]] \ {c}

(* leaveRoom resumes: others are still there ... *)
Leave(c) ==
  /\ pc[c] = "leaving" /\ state[target[c]] \in IsRoom
  /\ Others(c) # {}
  /\ conns' = [conns EXCEPT ![target[c]] = Others(c)]
  /\ Over(c)
  /\ UNCHANGED <<rooms, state, waitsFor, pending, observed, handler, has,
                 stored, made, up>>

(* ... or it was the last: out of the map, off the bus, and the final write *)
(* registered before anything is awaited.                                   *)
HandlerKept(r) == handler
HandlerDropped(r) == NoRoom

LeaveLast(c) ==
  LET r == target[c] IN
  /\ pc[c] = "leaving" /\ state[r] \in IsRoom
  /\ Others(c) = {}
  /\ conns' = [conns EXCEPT ![r] = {}]
  /\ rooms' = IF rooms = r THEN NoRoom ELSE rooms
  /\ handler' = HandlerDropped(r)
  /\ state' = [state EXCEPT ![r] = "evicting"]
  /\ pending' = r
  /\ Over(c)
  /\ UNCHANGED <<waitsFor, observed, has, stored, made, up>>

(* The final write is over: unregister it, detach, destroy. *)
Evicted(r) ==
  /\ state[r] = "evicting"
  /\ stored' = stored \cup has[r]
  /\ pending' = IF pending = r THEN NoRoom ELSE pending
  /\ state' = [state EXCEPT ![r] = "destroyed"]
  /\ UNCHANGED <<rooms, waitsFor, conns, observed, handler, has, made, pc,
                 target, open, up>>

ConnStep(c) ==
  \/ Connect(c) \/ Refuse(c) \/ Authorized(c) \/ Join(c) \/ Rejoin(c) \/ JoinMissing(c)
  \/ Attach(c) \/ Edit(c) \/ CloseSocket(c) \/ CloseUnheard(c) \/ Leave(c) \/ LeaveLast(c)

RoomStep(r) ==
  \/ WriteAwaited(r) \/ QueryFile(r) \/ Load(r) \/ OpenFails(r) \/ Flush(r) \/ Evicted(r)

Next == (\E c \in Conn : ConnStep(c)) \/ (\E r \in RoomId : RoomStep(r)) \/ Restart

Spec == Init /\ [][Next]_vars

(* Queries are answered and continuations run; nobody has to connect, edit, *)
(* or close a socket.                                                       *)
Fairness ==
  /\ \A c \in Conn :
       WF_vars(Refuse(c) \/ Authorized(c) \/ Join(c) \/ Rejoin(c) \/ JoinMissing(c)
                 \/ Attach(c) \/ Leave(c) \/ LeaveLast(c))
  /\ \A r \in RoomId : WF_vars(WriteAwaited(r) \/ QueryFile(r) \/ Load(r) \/ Evicted(r))

FairSpec == Spec /\ Fairness
-----------------------------------------------------------------------------
(* Shapes of all variables; references are held while they are needed. *)
TypeOK ==
  /\ rooms \in Maybe(RoomId) /\ pending \in Maybe(RoomId) /\ handler \in Maybe(RoomId)
  /\ state \in [RoomId -> State]
  /\ waitsFor \in [RoomId -> Maybe(RoomId)]
  /\ conns \in [RoomId -> SUBSET Conn]
  /\ has \in [RoomId -> SUBSET Edits]
  /\ stored \subseteq Edits /\ made \subseteq Edits
  /\ pc \in [Conn -> PC]
  /\ target \in [Conn -> Maybe(RoomId)]
  /\ open \subseteq Conn
  /\ observed \subseteq RoomId
  /\ up \in BOOLEAN
  /\ \A r \in RoomId : state[r] = "waiting" <=> waitsFor[r] # NoRoom
  /\ \A c \in Conn : pc[c] \in {"joining", "added", "joined", "leaving"} <=> target[c] # NoRoom

(* Only the room of the map has connections: nobody is left editing a room  *)
(* that is being, or has been, torn down, and there are never two rooms.    *)
OneRoom ==
  \A r \in RoomId :
    /\ conns[r] # {} => rooms = r /\ state[r] = "live"
    /\ state[r] = "live" => rooms = r
    /\ state[r] \in {"waiting", "querying", "loading"} => rooms = r

(* A room that is open has every edit made in the rooms before it: loading  *)
(* waits for the final write of the one that was evicted.                   *)
ReopenHasEverything == \A r \in RoomId : state[r] = "live" => has[r] = made

(* The bus handler is the mapped room's: never a dying room's, and missing   *)
(* for a room somebody is in only until the first handleConnection resumes: *)
(* two sockets that are added to a cold room before either does must not    *)
(* leave it "with no observers and no fan-out at all" (syncHandler.ts:112). *)
BusFollowsRoom ==
  /\ handler # NoRoom => handler = rooms /\ state[handler] = "live"
  /\ \A r \in RoomId : handler = r \/ \A c \in conns[r] : pc[c] = "added"

(* Sockets that closed before their close listener was attached, and were   *)
(* joined all the same.                                                     *)
Zombies == {c \in Conn : pc[c] = "joined" /\ c \notin open}

(* Once nobody has a socket open the room goes, unless somebody opens one   *)
(* or a zombie holds it.                                                    *)
EmptyRoomsGo ==
  (rooms # NoRoom /\ open = {}) ~> (rooms = NoRoom \/ open # {} \/ Zombies # {})

(* Rooms are "destroyed when the last one leaves", with no exception.       *)
DestroyedWithTheLast == (rooms # NoRoom /\ open = {}) ~> (rooms = NoRoom \/ open # {})

(* A connection that was let in gets its answer; only a room being evicted  *)
(* can keep it waiting, and createRoom never waits for itself.              *)
OnlyEvictionsDelay ==
  \A c \in Conn : (pc[c] = "joining") ~>
    (pc[c] # "joining" \/ \E r \in RoomId : state[r] = "evicting")
=============================================================================
