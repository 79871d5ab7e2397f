------------------------------ MODULE Access ------------------------------
(***************************************************************************)
(* Who may do what to a project, and the sockets that were told so earlier *)
(* (modules/auth, modules/projects, the handshake in collab/wsServer.ts    *)
(* and the disconnect hooks in collab/syncHandler.ts).  One project, one   *)
(* document, one server instance.                                          *)
(*                                                                         *)
(* A REST request is a row of database calls with an await after each:     *)
(* guard, find, count, write, then the pass over the open rooms.  Nothing  *)
(* holds a lock between two of them, so every call is an action of its     *)
(* own.  A socket reads its role once; that read has a database half and   *)
(* a reply half, because a commit and its pass may fall between the two.   *)
(***************************************************************************)
EXTENDS Naturals, FiniteSets, Sequences

CONSTANTS
  User, Conn,          \* people, sockets
  Newcomer,            \* bound: the people who register, log out and log in
  Reader,              \* bound: the people who open the document
  MaxRequests,         \* bound: requests of a behaviour, numbered as they arrive
  MaxWrites            \* bound: accepted writes in a behaviour

ASSUME AccessAssumption ==
  /\ IsFiniteSet(User) /\ Newcomer \cup Reader \subseteq User
  /\ MaxRequests \in Nat /\ MaxWrites \in Nat

Slot == 1..MaxRequests

Role == {"VIEWER", "EDITOR", "OWNER"}
None == "none"
ROLE_RANK == [r \in Role |-> CASE r = "VIEWER" -> 0 [] r = "EDITOR" -> 1 [] r = "OWNER" -> 2]

Op == {"create", "delete", "add", "change", "remove"}
At == {"idle", "guard", "find", "count", "write", "pass", "done"}
SockAt == {"away", "reading", "answered", "joining", "joined", "closing"}

VARIABLES
  account,    \* users with a row in User
  session,    \* users whose browser holds a valid session cookie
  project,    \* the Project row: "new", "live" or "gone"
  role,       \* ProjectMember: the role of each user, None without a row
  req,        \* the requests
  sock,       \* the sockets
  conns,      \* room.conns
  room,       \* the document's promise in rooms: "none", "querying", "loading", "live"
  late,       \* history: sockets whose role was out of date when it was used
  writes      \* whose writes the room took, in order

vars == <<account, session, project, role, req, sock, conns, room, late, writes>>
rows == <<account, project, role>>

hasRole(actual, minimum) == actual # None /\ ROLE_RANK[actual] >= ROLE_RANK[minimum]
Members == {u \in User : role[u] # None}
Owners == {u \in User : role[u] = "OWNER"}
NoReq == [op |-> None, actor |-> None, target |-> None, as |-> None, at |-> "idle",
          saw |-> None, owners |-> {}]
NoSock == [at |-> "away", user |-> None, role |-> None, canWrite |-> FALSE]

(* A project other requests have left with some members and an owner, or    *)
(* none yet.                                                                *)
Init ==
  /\ \/ project = "new" /\ role = [u \in User |-> None]
     \/ project = "live" /\ role \in [User -> Role \cup {None}] /\ Owners # {}
  /\ account \in SUBSET User /\ User \ Newcomer \subseteq account /\ Members \subseteq account
  /\ session = account
  /\ req = [q \in Slot |-> NoReq]
  /\ sock = [c \in Conn |-> NoSock]
  /\ conns = {} /\ room = "none" /\ late = {}
  /\ writes = << >>
-----------------------------------------------------------------------------
(* Sessions. The token is a claim with seven days to live; the row decides.  *)
Authenticated(u) == u \in session /\ u \in account

(* The unique index on the address decides between two registrations.        *)
Register(u) ==
  /\ u \notin account
  /\ account' = account \cup {u} /\ session' = session \cup {u}
  /\ UNCHANGED <<project, role, req, sock, conns, room, late, writes>>

(* Logging out clears the cookie of one browser; running out does it for it. *)
EndSession(u) ==
  /\ u \in session \cap Newcomer /\ session' = session \ {u}
  /\ UNCHANGED <<rows, req, sock, conns, room, late, writes>>

(* The password is checked against the account's row. *)
Login(u) ==
  /\ u \in account \ session /\ session' = session \cup {u}
  /\ UNCHANGED <<rows, req, sock, conns, room, late, writes>>
-----------------------------------------------------------------------------
(* Requests. *)
(* A request goes on; what it has no more use for is forgotten. *)
Go(q, at) ==
  LET r == req[q]
      rest == CASE at = "done" -> NoReq
                [] at = "pass" -> [NoReq EXCEPT !.op = r.op, !.target = r.target]
                [] r.op = "remove" -> r
                [] OTHER -> [r EXCEPT !.actor = None]
  IN req' = [req EXCEPT ![q] = [rest EXCEPT !.at = at]]
Refused(q) == Go(q, "done") /\ UNCHANGED rows
OnlyRequests == UNCHANGED <<session, sock, conns, room, late, writes>>

(* requireAuth lets the request through. Creating has no project to guard.  *)
Request(q, op, actor, target, as) ==
  /\ req[q].at = "idle" /\ \A p \in 1..(q - 1) : req[p].at # "idle"
  /\ Authenticated(actor)
  /\ (op \in {"create", "delete"}) <=> (target = None)
  /\ (op \in {"add", "change"}) <=> (as # None)
  /\ req' = [req EXCEPT ![q] =
       [NoReq EXCEPT !.op = op, !.actor = actor, !.target = target, !.as = as,
                     !.at = IF op = "create" THEN "write" ELSE "guard"]]
  /\ OnlyRequests /\ UNCHANGED rows

(* requireProjectRole('OWNER'): a 404 or a 403 ends the request. *)
Guard(q) ==
  /\ req[q].at = "guard"
  /\ IF hasRole(role[req[q].actor], "OWNER")
       THEN Go(q, IF req[q].op = "delete" THEN "write" ELSE "find") /\ UNCHANGED rows
       ELSE Refused(q)
  /\ OnlyRequests

(* Whether the target's row stops the request at once. *)
Stops(q) ==
  LET r == req[q] IN
  CASE r.op = "add" -> r.target \notin account \/ role[r.target] # None
    [] r.op = "change" -> role[r.target] = None
    [] r.op = "remove" -> role[r.target] = None \/ r.target = r.actor

(* Whether it takes an owner away. *)
RemovesOnly(q, seen) == seen = "OWNER" /\ req[q].op = "remove"

Demotes(q, seen) ==
  /\ seen = "OWNER"
  /\ \/ req[q].op = "change" /\ req[q].as # "OWNER"
     \/ req[q].op = "remove"

Find(q) ==
  /\ req[q].at = "find"
  /\ IF Stops(q)
       THEN Refused(q)
       ELSE LET seen == role[req[q].target] IN
            /\ req' = [req EXCEPT ![q].saw = seen,
                         ![q].at = IF Demotes(q, seen) THEN "count" ELSE "write"]
            /\ UNCHANGED rows
  /\ OnlyRequests

Count(q) ==
  /\ req[q].at = "count"
  /\ IF Cardinality(Owners) = 1
       THEN Refused(q)
       ELSE req' = [req EXCEPT ![q].at = "write", ![q].owners = {Cardinality(Owners)}]
            /\ UNCHANGED rows
  /\ OnlyRequests

(* The statement that commits. Prisma throws when the row it updates or      *)
(* deletes is gone (P2025), when the one it creates exists (P2002) or when   *)
(* its project is gone (P2003).                                              *)
WriteCreate(q) ==
  /\ req[q].at = "write" /\ req[q].op = "create"
  /\ IF project = "new"
       THEN /\ project' = "live"
            /\ role' = [role EXCEPT ![req[q].actor] = "OWNER"]
            /\ Go(q, "done") /\ UNCHANGED account
       ELSE Refused(q)    \* it makes another project
  /\ OnlyRequests

WriteDelete(q) ==
  /\ req[q].at = "write" /\ req[q].op = "delete"
  /\ IF project = "live"
       THEN /\ project' = "gone" /\ role' = [u \in User |-> None]
            /\ Go(q, "pass") /\ UNCHANGED account
       ELSE Refused(q)
  /\ OnlyRequests

WriteAdd(q) ==
  /\ req[q].at = "write" /\ req[q].op = "add"
  /\ IF project = "live" /\ role[req[q].target] = None
       THEN /\ role' = [role EXCEPT ![req[q].target] = req[q].as]
            /\ Go(q, "done") /\ UNCHANGED <<account, project>>
       ELSE Refused(q)
  /\ OnlyRequests

WriteMember(q) ==
  /\ req[q].at = "write" /\ req[q].op \in {"change", "remove"}
  /\ IF role[req[q].target] # None
       THEN /\ role' = [role EXCEPT ![req[q].target] =
                          IF req[q].op = "change" THEN req[q].as ELSE None]
            /\ Go(q, "pass") /\ UNCHANGED <<account, project>>
       ELSE Refused(q)
  /\ OnlyRequests
-----------------------------------------------------------------------------
(* The pass: close what the request has just invalidated. allRooms awaits a  *)
(* room that is still loading, and the sockets waiting for it join first.    *)
DoomedWriters(q) ==
  IF req[q].op = "delete" THEN conns
  ELSE {c \in conns : sock[c].user = req[q].target /\ sock[c].canWrite}

Doomed(q) ==
  IF req[q].op = "delete" THEN conns
  ELSE {c \in conns : sock[c].user = req[q].target}

Closing(S) == [c \in Conn |-> IF c \in S /\ sock[c].at = "joined"
                                THEN [sock[c] EXCEPT !.at = "closing"] ELSE sock[c]]

PassOverOpenRooms(q) ==
  /\ req[q].at = "pass"
  /\ sock' = Closing(IF room = "live" THEN Doomed(q) ELSE {})
  /\ Go(q, "done")
  /\ UNCHANGED <<rows, session, conns, room, late, writes>>

Pass(q) ==
  /\ req[q].at = "pass" /\ room \in {"none", "live"}
  /\ sock' = Closing(Doomed(q))
  /\ Go(q, "done")
  /\ UNCHANGED <<rows, session, conns, room, late, writes>>

RequestStep(q) ==
  \/ \E op \in Op, a \in User, t \in User \cup {None}, as \in Role \cup {None} :
       Request(q, op, a, t, as)
  \/ Guard(q) \/ Find(q) \/ Count(q) \/ Pass(q)
  \/ WriteCreate(q) \/ WriteDelete(q) \/ WriteAdd(q) \/ WriteMember(q)
-----------------------------------------------------------------------------
(* Sockets. *)
OnlySockets == UNCHANGED <<rows, session, req, writes>>

(* An upgrade with the cookie of the browser; handshake finds its user. What  *)
(* it reads cannot change before it goes on: no account is ever deleted.      *)
Upgrade(c, u) ==
  /\ sock[c].at = "away" /\ u \in Reader /\ Authenticated(u)
  /\ sock' = [sock EXCEPT ![c] = [NoSock EXCEPT !.at = "reading", !.user = u]]
  /\ UNCHANGED <<conns, room, late>> /\ OnlySockets

(* assertProjectAccess, the database's half. *)
ReadAccess(c) ==
  /\ sock[c].at = "reading"
  /\ sock' = [sock EXCEPT ![c].at = "answered", ![c].role = role[sock[c].user]]
  /\ UNCHANGED <<conns, room, late>> /\ OnlySockets

(* A later change of its user's row is still to be followed by its pass.     *)
PassPending(u) ==
  \E q \in Slot : req[q].at = "pass" /\ (req[q].op = "delete" \/ req[q].target = u)

(* The reply: the role is kept for the life of the socket. A live room is    *)
(* joined at once, a missing one created.                                    *)
Authorized(c) ==
  /\ sock[c].at = "answered" /\ hasRole(sock[c].role, "VIEWER")
  /\ sock' = [sock EXCEPT ![c].at = IF room = "live" THEN "joined" ELSE "joining",
                          ![c].canWrite = hasRole(sock[c].role, "EDITOR")]
  /\ conns' = IF room = "live" THEN conns \cup {c} ELSE conns
  /\ room' = IF room = "none" THEN "querying" ELSE room
  /\ late' = IF sock[c].role # role[sock[c].user] /\ ~PassPending(sock[c].user)
               THEN late \cup {c} ELSE late
  /\ OnlySockets

NotAuthorized(c) ==
  /\ sock[c].at = "answered" /\ ~hasRole(sock[c].role, "VIEWER")
  /\ sock' = [sock EXCEPT ![c] = NoSock]
  /\ UNCHANGED <<conns, room, late>> /\ OnlySockets

Waiting == {c \in Conn : sock[c].at = "joining"}

(* createRoom's first read. Without the file there is no room, and every      *)
(* handler waiting for it is refused.                                         *)
FindFile(found) ==
  /\ room = "querying" /\ (found => project = "live")
  /\ room' = IF found THEN "loading" ELSE "none"
  /\ sock' = [c \in Conn |-> IF c \in Waiting /\ ~found THEN NoSock ELSE sock[c]]
  /\ late' = IF found THEN late ELSE late \ Waiting
  /\ UNCHANGED conns /\ OnlySockets

(* createRoom ends, and the handlers waiting for it join before anything else *)
(* that awaits the room.                                                      *)
Loaded ==
  /\ room = "loading" /\ room' = "live"
  /\ conns' = conns \cup Waiting
  /\ sock' = [c \in Conn |-> IF c \in Waiting THEN [sock[c] EXCEPT !.at = "joined"]
                                              ELSE sock[c]]
  /\ UNCHANGED late /\ OnlySockets

(* handleMessage: a VIEWER's write is dropped. A socket the server is closing *)
(* is still listened to until its close event.                                *)
Edit(c) ==
  /\ c \in conns /\ sock[c].canWrite
  /\ Len(writes) < MaxWrites
  /\ writes' = Append(writes, sock[c].user)
  /\ UNCHANGED <<rows, session, req, sock, conns, room, late>>

(* The close event: the last one out takes the room with it. *)
Close(c) ==
  /\ c \in conns
  /\ sock' = [sock EXCEPT ![c] = NoSock]
  /\ conns' = conns \ {c} /\ late' = late \ {c}
  /\ room' = IF conns = {c} THEN "none" ELSE room
  /\ OnlySockets

SocketStep(c) ==
  \/ \E u \in User : Upgrade(c, u)
  \/ ReadAccess(c) \/ Authorized(c) \/ NotAuthorized(c)
  \/ Edit(c) \/ Close(c)

Next ==
  \/ \E u \in User : Register(u) \/ EndSession(u) \/ Login(u)
  \/ \E q \in Slot : RequestStep(q)
  \/ \E c \in Conn : SocketStep(c)
  \/ (\E found \in BOOLEAN : FindFile(found)) \/ Loaded

(* The database answers and the socket library finishes a close it was asked *)
(* for; nobody is obliged to ask for anything.                               *)
Fairness ==
  /\ \A q \in Slot : WF_vars(Guard(q) \/ Find(q) \/ Count(q) \/ WriteCreate(q)
                             \/ WriteDelete(q) \/ WriteAdd(q) \/ WriteMember(q) \/ Pass(q))
  /\ \A c \in Conn : WF_vars(sock[c].at = "closing" /\ Close(c))
  /\ WF_vars((\E found \in BOOLEAN : FindFile(found)) \/ Loaded)

Spec == Init /\ [][Next]_vars /\ Fairness
-----------------------------------------------------------------------------
ReqRecord == [op : Op \cup {None}, actor : User \cup {None}, target : User \cup {None},
              as : Role \cup {None}, at : At, saw : Role \cup {None}, owners : SUBSET Nat]
SockRecord == [at : SockAt, user : User \cup {None}, role : Role \cup {None}, canWrite : BOOLEAN]

TypeOK ==
  /\ account \subseteq User /\ session \subseteq account
  /\ project \in {"new", "live", "gone"}
  /\ role \in [User -> Role \cup {None}] /\ Members \subseteq account
  /\ project # "live" => Members = {}
  /\ req \in [Slot -> ReqRecord] /\ sock \in [Conn -> SockRecord]
  /\ conns = {c \in Conn : sock[c].at \in {"joined", "closing"}}
  /\ \A c \in conns : sock[c].role \in Role
  /\ room \in {"none", "querying", "loading", "live"}
  /\ (conns # {} => room = "live") /\ (Waiting # {} => room \in {"querying", "loading"})
  /\ late \subseteq conns \cup Waiting
  /\ writes \in Seq(User) /\ Len(writes) <= MaxWrites

(* A live project always has an owner (API.md, LAST_OWNER).                 *)
AlwaysAnOwner == project = "live" => Owners # {}

(* What the count keeps of that: the last owner of a live project goes only *)
(* by a request that saw another role, or counted another number of owners, *)
(* than there are when it writes.                                           *)
LastOwnerGoesByARace ==
  [][(Owners # {} /\ Owners' = {} /\ project' = "live") =>
       \E q \in Slot : /\ req[q].at = "write" /\ req'[q].at = "pass"
                       /\ req[q].saw # "OWNER" \/ req[q].owners \notin {{}, {Cardinality(Owners)}}]_vars

(* Authorizing once is safe because of the pass: a socket whose role is not  *)
(* its user's is being closed, or the pass is still to come. Except for one  *)
(* whose answer was on its way while a commit and its whole pass went by.    *)
SocketsFollowRoles ==
  \A c \in conns : sock[c].at = "joined" /\ sock[c].role # role[sock[c].user]
                  => PassPending(sock[c].user) \/ c \in late

(* No write is taken of somebody who may not write, but through a socket that *)
(* is closing, that a pass is about to close, or whose role was late.         *)
WritesAreLicensed ==
  [][writes' # writes =>
       LET u == writes'[Len(writes')] IN
       \/ hasRole(role[u], "EDITOR") \/ PassPending(u)
       \/ \E c \in conns : sock[c].user = u /\ (sock[c].at = "closing" \/ c \in late)]_vars

(* A socket that is out of date is closed in the end, and so may come back    *)
(* with the role its user has.                                                *)
OutOfDateSocketsGo ==
  \A c \in Conn :
    (c \in conns \ late /\ sock[c].role # role[sock[c].user]) ~> (c \notin conns \/
       sock[c].role = role[sock[c].user])
=============================================================================
