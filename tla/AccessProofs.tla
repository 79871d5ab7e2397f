---------------------------- MODULE AccessProofs ----------------------------
(***************************************************************************)
(* Proofs about Access for any number of people, requests and sockets: an  *)
(* open socket has its user's role unless it is late or about to be        *)
(* closed, nobody else's writes are taken, and the last owner goes only by *)
(* a request that saw or counted otherwise.                                *)
(***************************************************************************)
EXTENDS Access, FiniteSetTheorems, TLAPS

Demoting(r) == r.op = "remove" \/ (r.op = "change" /\ r.as # "OWNER")

(* What a request has found out by the time it is where it is.             *)
Found(r) ==
  /\ r.at \in {"guard", "find", "count", "write", "pass"} /\ r.op \in {"add", "change", "remove"}
       => r.target \in User
  /\ r.at \in {"guard", "find", "count", "write"} /\ r.op \in {"add", "change"} => r.as \in Role
  /\ r.at = "guard" => r.actor \in User /\ r.op \in {"delete", "add", "change", "remove"}
  /\ r.at = "find" => r.op \in {"add", "change", "remove"}
  /\ r.at = "count" => r.op \in {"change", "remove"} /\ Demoting(r) /\ r.saw = "OWNER"
  /\ r.at = "write" =>
       /\ r.op = "create" => r.actor \in account
       /\ r.op = "add" => r.target \in account
       /\ Demoting(r) /\ r.saw = "OWNER" => r.owners \notin {{}, {1}}
  /\ r.at = "pass" => r.op \in {"delete", "change", "remove"}

RequestsKnow == \A q \in Slot : Found(req[q])

(* What a socket was told.                                                 *)
SocketsKnow ==
  \A c \in Conn :
    /\ sock[c].at # "away" => sock[c].user \in User
    /\ sock[c].at \in {"joining", "joined", "closing"} => sock[c].role \in Role
    /\ sock[c].canWrite => /\ sock[c].at \in {"joining", "joined", "closing"}
                           /\ hasRole(sock[c].role, "EDITOR")

(* A role that changed since is one a pass will deal with.                 *)
Fresh ==
  \A c \in Conn : sock[c].at \in {"joining", "joined"} /\ sock[c].role # role[sock[c].user]
                    => PassPending(sock[c].user) \/ c \in late

Inv == TypeOK /\ RequestsKnow /\ SocketsKnow /\ Fresh
-----------------------------------------------------------------------------
LEMMA InitInv == Init => Inv
<1> SUFFICES ASSUME Init PROVE Inv
  OBVIOUS
<1> USE AccessAssumption DEF Init
<1>1. NoReq \in ReqRecord /\ NoSock \in SockRecord
  BY DEF NoReq, NoSock, ReqRecord, SockRecord, Op, At, SockAt, None, Role
<1>2. /\ account \subseteq User /\ session \subseteq account
      /\ project \in {"new", "live", "gone"}
      /\ role \in [User -> Role \cup {None}] /\ Members \subseteq account
      /\ project # "live" => Members = {}
  BY DEF Members
<1>3. TypeOK
  BY <1>1, <1>2 DEF TypeOK, NoSock, Waiting
<1>4. RequestsKnow
  BY DEF RequestsKnow, Found, NoReq
<1>5. SocketsKnow /\ Fresh
  BY DEF SocketsKnow, Fresh, NoSock
<1> QED
  BY <1>3, <1>4, <1>5 DEF Inv

(* What goes on with a request is the request's own affair.                *)
LEMMA GoEffect ==
  ASSUME Inv, NEW q \in Slot, NEW at \in At, Go(q, at)
  PROVE  /\ req' \in [Slot -> ReqRecord] /\ req'[q].at = at
         /\ \A p \in Slot \ {q} : req'[p] = req[p]
         /\ at # "done" => req'[q].op = req[q].op /\ req'[q].target = req[q].target
         /\ at \notin {"done", "pass"} =>
              /\ req'[q].as = req[q].as /\ req'[q].saw = req[q].saw
              /\ req'[q].owners = req[q].owners
              /\ req[q].op = "remove" => req'[q].actor = req[q].actor
<1> DEFINE r == req[q]
           rest == CASE at = "done" -> NoReq
                     [] at = "pass" -> [NoReq EXCEPT !.op = r.op, !.target = r.target]
                     [] r.op = "remove" -> r
                     [] OTHER -> [r EXCEPT !.actor = None]
<1>1. r \in ReqRecord
  BY DEF Inv, TypeOK
<1>2. NoReq \in ReqRecord
  BY DEF NoReq, ReqRecord, Op, At, None, Role
<1>3. rest \in ReqRecord
  <2>1. [NoReq EXCEPT !.op = r.op, !.target = r.target] \in ReqRecord
    BY <1>1, <1>2 DEF ReqRecord
  <2>2. [r EXCEPT !.actor = None] \in ReqRecord
    BY <1>1 DEF ReqRecord
  <2> QED
    BY <1>1, <1>2, <2>1, <2>2
<1>4. [rest EXCEPT !.at = at] \in ReqRecord
  BY <1>3 DEF ReqRecord
<1>5. req' = [req EXCEPT ![q] = [rest EXCEPT !.at = at]]
  BY DEF Go
<1>6. /\ at # "done" => rest.op = r.op /\ rest.target = r.target
      /\ at \notin {"done", "pass"} =>
           /\ rest.as = r.as /\ rest.saw = r.saw /\ rest.owners = r.owners
           /\ r.op = "remove" => rest.actor = r.actor
  BY <1>1 DEF ReqRecord, NoReq
<1> HIDE DEF rest
<1>7. req' \in [Slot -> ReqRecord] /\ req'[q] = [rest EXCEPT !.at = at]
  BY <1>4, <1>5 DEF Inv, TypeOK
<1>8. \A p \in Slot \ {q} : req'[p] = req[p]
  BY <1>5 DEF Inv, TypeOK
<1> QED
  BY <1>3, <1>6, <1>7, <1>8 DEF ReqRecord

(* A request that is not at its pass does no harm by going on.             *)
LEMMA RequestMoves ==
  ASSUME Inv, NEW q \in Slot, req[q].at # "pass", UNCHANGED rows, OnlyRequests,
         req' \in [Slot -> ReqRecord], \A p \in Slot \ {q} : req'[p] = req[p],
         Found(req'[q])
  PROVE  Inv'
<1> USE DEF rows, OnlyRequests
<1>1. TypeOK'
  BY DEF Inv, TypeOK, Members, Waiting
<1>2. RequestsKnow'
  BY DEF Inv, RequestsKnow, Found, Demoting
<1>3. SocketsKnow'
  BY DEF Inv, SocketsKnow, hasRole
<1>4. \A u \in User : PassPending(u) => PassPending(u)'
  BY DEF PassPending
<1>5. Fresh'
  BY <1>4 DEF Inv, Fresh, SocketsKnow
<1> QED
  BY <1>1, <1>2, <1>3, <1>5 DEF Inv

LEMMA RequestInv ==
  ASSUME Inv, NEW q \in Slot, NEW op \in Op, NEW a \in User, NEW t \in User \cup {None},
         NEW as \in Role \cup {None}, Request(q, op, a, t, as)
  PROVE  Inv'
<1> DEFINE x == [NoReq EXCEPT !.op = op, !.actor = a, !.target = t, !.as = as,
                              !.at = IF op = "create" THEN "write" ELSE "guard"]
<1>1. /\ x.op = op /\ x.actor = a /\ x.target = t /\ x.as = as
      /\ x.at = IF op = "create" THEN "write" ELSE "guard"
  BY DEF NoReq
<1>2. x \in ReqRecord
  <2>1. NoReq \in ReqRecord
    BY DEF NoReq, ReqRecord, Op, At, None, Role
  <2> QED
    BY <2>1 DEF ReqRecord, At
<1>3. a \in account /\ (op \in {"add", "change"} => as \in Role)
               /\ (op \notin {"create", "delete"} => t \in User)
  BY DEF Request, Authenticated, None, Role
<1>4. req' = [req EXCEPT ![q] = x] /\ req[q].at = "idle" /\ UNCHANGED rows /\ OnlyRequests
  BY DEF Request
<1> HIDE DEF x
<1>5. req' \in [Slot -> ReqRecord] /\ req'[q] = x /\ \A p \in Slot \ {q} : req'[p] = req[p]
  BY <1>2, <1>4 DEF Inv, TypeOK
<1>6. Found(x)
  BY <1>1, <1>3 DEF Found, Demoting, Op
<1> QED
  BY <1>4, <1>5, <1>6, RequestMoves

LEMMA RefusedInv ==
  ASSUME Inv, NEW q \in Slot, req[q].at # "pass", Refused(q), OnlyRequests
  PROVE  Inv'
<1>1. Go(q, "done") /\ UNCHANGED rows /\ "done" \in At
  BY DEF Refused, At
<1>2. req' \in [Slot -> ReqRecord] /\ req'[q].at = "done" /\ \A p \in Slot \ {q} : req'[p] = req[p]
  BY <1>1, GoEffect
<1>3. Found(req'[q])
  BY <1>2 DEF Found
<1> QED
  BY <1>1, <1>2, <1>3, RequestMoves

LEMMA GuardInv == ASSUME Inv, NEW q \in Slot, Guard(q) PROVE Inv'
<1>1. CASE ~hasRole(role[req[q].actor], "OWNER")
  BY <1>1, RefusedInv DEF Guard
<1>2. CASE hasRole(role[req[q].actor], "OWNER")
  <2> DEFINE at == IF req[q].op = "delete" THEN "write" ELSE "find"
  <2>1. Go(q, at) /\ UNCHANGED rows /\ OnlyRequests /\ req[q].at = "guard" /\ at \in At
    BY <1>2 DEF Guard, At
  <2>2. req' \in [Slot -> ReqRecord] /\ \A p \in Slot \ {q} : req'[p] = req[p]
    BY <2>1, GoEffect
  <2>3. /\ req'[q].at = at /\ req'[q].op = req[q].op
        /\ req'[q].target = req[q].target /\ req'[q].as = req[q].as
    BY <2>1, GoEffect
  <2>4. Found(req[q])
    BY DEF Inv, RequestsKnow
  <2>5. Found(req'[q])
    BY <2>1, <2>3, <2>4 DEF Found, Demoting
  <2> QED
    BY <2>1, <2>2, <2>5, RequestMoves
<1> QED
  BY <1>1, <1>2

LEMMA FindInv == ASSUME Inv, NEW q \in Slot, Find(q) PROVE Inv'
<1> DEFINE seen == role[req[q].target]
           at == IF Demotes(q, seen) THEN "count" ELSE "write"
<1>1. CASE Stops(q)
  BY <1>1, RefusedInv DEF Find
<1>2. CASE ~Stops(q)
  <2>1. /\ req[q].at = "find" /\ UNCHANGED rows /\ OnlyRequests
        /\ req' = [req EXCEPT ![q].saw = seen, ![q].at = at]
    BY <1>2 DEF Find
  <2>2. req[q] \in ReqRecord /\ Found(req[q])
    BY DEF Inv, TypeOK, RequestsKnow
  <2>3. req[q].op \in {"add", "change", "remove"} /\ req[q].target \in User
    BY <2>1, <2>2 DEF Found
  <2>4. seen \in Role \cup {None}
    BY <2>3 DEF Inv, TypeOK
  <2>5. at \in At
    BY DEF At
  <2> HIDE DEF seen, at
  <2>6. [req[q] EXCEPT !.saw = seen, !.at = at] \in ReqRecord
    BY <2>2, <2>4, <2>5 DEF ReqRecord
  <2>7. req' \in [Slot -> ReqRecord] /\ \A p \in Slot \ {q} : req'[p] = req[p]
    BY <2>1, <2>6 DEF Inv, TypeOK
  <2>8. /\ req'[q].at = at /\ req'[q].saw = seen /\ req'[q].op = req[q].op
        /\ req'[q].target = req[q].target /\ req'[q].as = req[q].as
    BY <2>1, <2>2 DEF Inv, TypeOK, ReqRecord
  <2>9. req[q].op = "add" => req[q].target \in account
    BY <1>2, <2>3 DEF Stops
  <2>10. at = "count" => Demoting(req[q]) /\ seen = "OWNER"
    BY <2>3 DEF at, Demotes, Demoting
  <2>11. at # "count" => at = "write" /\ ~(Demoting(req[q]) /\ seen = "OWNER")
    BY <2>3 DEF at, Demotes, Demoting
  <2>12. at = "count" => req[q].op \in {"change", "remove"}
    BY <2>10 DEF Demoting
  <2>13. Found(req'[q])
    BY <2>1, <2>2, <2>3, <2>8, <2>9, <2>10, <2>11, <2>12 DEF Found, Demoting
  <2> QED
    BY <2>1, <2>7, <2>13, RequestMoves
<1> QED
  BY <1>1, <1>2

LEMMA OwnersFinite == Owners \subseteq User /\ IsFiniteSet(Owners) /\ Cardinality(Owners) \in Nat
  BY AccessAssumption, FS_Subset, FS_CardinalityType DEF Owners

LEMMA CountInv == ASSUME Inv, NEW q \in Slot, Count(q) PROVE Inv'
<1> DEFINE n == Cardinality(Owners)
<1>1. CASE n = 1
  BY <1>1, RefusedInv DEF Count
<1>2. CASE n # 1
  <2>1. /\ req[q].at = "count" /\ UNCHANGED rows /\ OnlyRequests
        /\ req' = [req EXCEPT ![q].at = "write", ![q].owners = {n}]
    BY <1>2 DEF Count
  <2>2. n \in Nat
    BY OwnersFinite
  <2> HIDE DEF n
  <2>3. req[q] \in ReqRecord /\ Found(req[q])
    BY DEF Inv, TypeOK, RequestsKnow
  <2>4. [req[q] EXCEPT !.at = "write", !.owners = {n}] \in ReqRecord
    BY <2>2, <2>3 DEF ReqRecord, At
  <2>5. req' \in [Slot -> ReqRecord] /\ \A p \in Slot \ {q} : req'[p] = req[p]
    BY <2>1, <2>4 DEF Inv, TypeOK
  <2>6. /\ req'[q].at = "write" /\ req'[q].owners = {n} /\ req'[q].op = req[q].op
        /\ req'[q].target = req[q].target /\ req'[q].as = req[q].as
    BY <2>1, <2>3 DEF Inv, TypeOK, ReqRecord
  <2>7. Found(req'[q])
    BY <1>2, <2>1, <2>3, <2>6 DEF Found, Demoting
  <2> QED
    BY <2>1, <2>5, <2>7, RequestMoves
<1> QED
  BY <1>1, <1>2

(* A commit leaves no socket behind: the roles it changed are nobody's so   *)
(* far, or its own pass is to come.                                         *)
LEMMA CommitMoves ==
  ASSUME Inv, NEW q \in Slot, req[q].at = "write", OnlyRequests, account' = account,
         project' \in {"new", "live", "gone"}, role' \in [User -> Role \cup {None}],
         Members' \subseteq account, project' # "live" => Members' = {},
         req' \in [Slot -> ReqRecord], \A p \in Slot \ {q} : req'[p] = req[p],
         Found(req'[q]),
         \A u \in User : role'[u] # role[u] =>
           role[u] = None \/ (req'[q].at = "pass" /\ (req'[q].op = "delete" \/ req'[q].target = u))
  PROVE  Inv'
<1> USE DEF OnlyRequests
<1>1. TypeOK'
  BY DEF Inv, TypeOK, Waiting
<1>2. RequestsKnow'
  BY DEF Inv, RequestsKnow, Found, Demoting
<1>3. SocketsKnow'
  BY DEF Inv, SocketsKnow, hasRole
<1>4. \A u \in User : PassPending(u) => PassPending(u)'
  BY DEF PassPending
<1>5. Fresh'
  <2>1. SUFFICES ASSUME NEW c \in Conn, sock[c].at \in {"joining", "joined"},
                        sock[c].role # role'[sock[c].user], c \notin late
        PROVE PassPending(sock[c].user)'
    BY DEF Fresh
  <2>2. sock[c].user \in User /\ sock[c].role # None
    BY <2>1 DEF Inv, SocketsKnow, Role, None
  <2>3. CASE role'[sock[c].user] = role[sock[c].user]
    BY <1>4, <2>1, <2>2, <2>3 DEF Inv, Fresh
  <2>4. CASE role[sock[c].user] = None
    BY <1>4, <2>1, <2>2, <2>4 DEF Inv, Fresh
  <2>5. CASE req'[q].at = "pass" /\ (req'[q].op = "delete" \/ req'[q].target = sock[c].user)
    BY <2>5 DEF PassPending
  <2> QED
    BY <2>2, <2>3, <2>4, <2>5
<1> QED
  BY <1>1, <1>2, <1>3, <1>5 DEF Inv

LEMMA WriteCreateInv == ASSUME Inv, NEW q \in Slot, WriteCreate(q) PROVE Inv'
<1>1. req[q].at = "write" /\ req[q].op = "create" /\ OnlyRequests
  BY DEF WriteCreate
<1>2. CASE project # "new"
  BY <1>1, <1>2, RefusedInv DEF WriteCreate
<1>3. CASE project = "new"
  <2>1. /\ project' = "live" /\ role' = [role EXCEPT ![req[q].actor] = "OWNER"]
        /\ Go(q, "done") /\ account' = account /\ "done" \in At
    BY <1>3 DEF WriteCreate, At
  <2>2. req[q].actor \in account
    BY <1>1 DEF Inv, RequestsKnow, Found
  <2>3. role \in [User -> Role \cup {None}] /\ Members = {} /\ account \subseteq User
    BY <1>3 DEF Inv, TypeOK
  <2>4. role' \in [User -> Role \cup {None}] /\ Members' \subseteq account
    BY <2>1, <2>2, <2>3 DEF Members, Role
  <2>5. \A u \in User : role[u] = None
    BY <2>3 DEF Members
  <2>6. /\ req' \in [Slot -> ReqRecord] /\ \A p \in Slot \ {q} : req'[p] = req[p]
        /\ Found(req'[q])
    BY <2>1, GoEffect DEF Found
  <2> QED
    BY <1>1, <2>1, <2>4, <2>5, <2>6, CommitMoves
<1> QED
  BY <1>2, <1>3

LEMMA WriteDeleteInv == ASSUME Inv, NEW q \in Slot, WriteDelete(q) PROVE Inv'
<1>1. req[q].at = "write" /\ req[q].op = "delete" /\ OnlyRequests
  BY DEF WriteDelete
<1>2. CASE project # "live"
  BY <1>1, <1>2, RefusedInv DEF WriteDelete
<1>3. CASE project = "live"
  <2>1. /\ project' = "gone" /\ role' = [u \in User |-> None]
        /\ Go(q, "pass") /\ account' = account /\ "pass" \in At
    BY <1>3 DEF WriteDelete, At
  <2>2. role' \in [User -> Role \cup {None}] /\ Members' = {}
    BY <2>1 DEF Members
  <2>3. /\ req' \in [Slot -> ReqRecord] /\ \A p \in Slot \ {q} : req'[p] = req[p]
        /\ req'[q].at = "pass" /\ req'[q].op = "delete"
    BY <1>1, <2>1, GoEffect
  <2>4. Found(req'[q])
    BY <2>3 DEF Found
  <2> QED
    BY <1>1, <2>1, <2>2, <2>3, <2>4, CommitMoves
<1> QED
  BY <1>2, <1>3

LEMMA WriteAddInv == ASSUME Inv, NEW q \in Slot, WriteAdd(q) PROVE Inv'
<1> DEFINE t == req[q].target
<1>1. req[q].at = "write" /\ req[q].op = "add" /\ OnlyRequests
  BY DEF WriteAdd
<1>2. CASE ~(project = "live" /\ role[t] = None)
  BY <1>1, <1>2, RefusedInv DEF WriteAdd
<1>3. CASE project = "live" /\ role[t] = None
  <2>1. /\ role' = [role EXCEPT ![t] = req[q].as]
        /\ Go(q, "done") /\ account' = account /\ project' = project /\ "done" \in At
    BY <1>3 DEF WriteAdd, At
  <2>2. t \in account /\ req[q].as \in Role
    BY <1>1 DEF Inv, RequestsKnow, Found
  <2>3. /\ role \in [User -> Role \cup {None}] /\ Members \subseteq account
        /\ account \subseteq User
    BY DEF Inv, TypeOK
  <2>4. role' \in [User -> Role \cup {None}] /\ Members' \subseteq account
    BY <2>1, <2>2, <2>3 DEF Members
  <2>5. \A u \in User : role'[u] # role[u] => role[u] = None
    BY <1>3, <2>1, <2>3
  <2>6. /\ req' \in [Slot -> ReqRecord] /\ \A p \in Slot \ {q} : req'[p] = req[p]
        /\ Found(req'[q])
    BY <2>1, GoEffect DEF Found
  <2> QED
    BY <1>1, <1>3, <2>1, <2>4, <2>5, <2>6, CommitMoves
<1> QED
  BY <1>2, <1>3

LEMMA WriteMemberInv == ASSUME Inv, NEW q \in Slot, WriteMember(q) PROVE Inv'
<1> DEFINE t == req[q].target
           as == IF req[q].op = "change" THEN req[q].as ELSE None
<1>1. req[q].at = "write" /\ req[q].op \in {"change", "remove"} /\ OnlyRequests
  BY DEF WriteMember
<1>2. CASE role[t] = None
  BY <1>1, <1>2, RefusedInv DEF WriteMember
<1>3. CASE role[t] # None
  <2>1. /\ role' = [role EXCEPT ![t] = as]
        /\ Go(q, "pass") /\ account' = account /\ project' = project /\ "pass" \in At
    BY <1>3 DEF WriteMember, At
  <2>2. t \in User /\ as \in Role \cup {None}
    BY <1>1 DEF Inv, RequestsKnow, Found
  <2>3. /\ role \in [User -> Role \cup {None}] /\ Members \subseteq account
        /\ project # "live" => Members = {}
    BY DEF Inv, TypeOK
  <2>4. t \in Members /\ project = "live"
    BY <1>3, <2>2, <2>3 DEF Inv, TypeOK, Members
  <2> HIDE DEF as
  <2>5. role' \in [User -> Role \cup {None}] /\ Members' \subseteq account
    BY <2>1, <2>2, <2>3, <2>4 DEF Members
  <2>6. /\ req' \in [Slot -> ReqRecord] /\ \A p \in Slot \ {q} : req'[p] = req[p]
        /\ req'[q].at = "pass" /\ req'[q].op = req[q].op /\ req'[q].target = t
    BY <2>1, GoEffect
  <2>7. Found(req'[q])
    BY <1>1, <2>2, <2>6 DEF Found
  <2>8. \A u \in User : role'[u] # role[u] => req'[q].target = u
    BY <2>1, <2>3, <2>6
  <2> QED
    BY <1>1, <2>1, <2>4, <2>5, <2>6, <2>7, <2>8, CommitMoves
<1> QED
  BY <1>2, <1>3

LEMMA PassInv == ASSUME Inv, NEW q \in Slot, Pass(q) PROVE Inv'
<1> DEFINE S == Doomed(q)
<1>1. /\ req[q].at = "pass" /\ room \in {"none", "live"} /\ sock' = Closing(S)
      /\ Go(q, "done") /\ UNCHANGED <<rows, session, conns, room, late, writes>> /\ "done" \in At
  BY DEF Pass, At
<1>2. /\ req' \in [Slot -> ReqRecord] /\ req'[q].at = "done"
      /\ \A p \in Slot \ {q} : req'[p] = req[p]
  BY <1>1, GoEffect
<1>3. S \subseteq conns
  BY DEF Doomed
<1>4. \A c \in Conn : \/ sock'[c] = sock[c] /\ ~(c \in S /\ sock[c].at = "joined")
                      \/ /\ c \in S /\ sock[c].at = "joined"
                         /\ sock'[c] = [sock[c] EXCEPT !.at = "closing"]
  BY <1>1 DEF Closing
<1>5. sock \in [Conn -> SockRecord]
  BY DEF Inv, TypeOK
<1>6. \A c \in Conn :
        /\ sock'[c] \in SockRecord /\ sock'[c].user = sock[c].user
        /\ sock'[c].role = sock[c].role /\ sock'[c].canWrite = sock[c].canWrite
        /\ sock'[c].at = IF c \in S /\ sock[c].at = "joined" THEN "closing" ELSE sock[c].at
  BY <1>4, <1>5 DEF SockRecord, SockAt
<1>7. sock' \in [Conn -> SockRecord]
  BY <1>1, <1>6 DEF Closing
<1> HIDE DEF S
<1>8. TypeOK'
  <2>1. Waiting' = Waiting
    BY <1>6 DEF Waiting
  <2>2. conns' = {c \in Conn : sock'[c].at \in {"joined", "closing"}}
    BY <1>1, <1>6 DEF Inv, TypeOK
  <2>3. \A c \in conns' : sock'[c].role \in Role
    BY <1>1, <1>6, <2>2 DEF Inv, TypeOK
  <2> QED
    BY <1>1, <1>2, <1>7, <2>1, <2>2, <2>3 DEF Inv, TypeOK, rows, Members
<1>9. RequestsKnow'
  BY <1>1, <1>2 DEF Inv, RequestsKnow, Found, Demoting, rows
<1>10. SocketsKnow'
  BY <1>6 DEF Inv, SocketsKnow, hasRole
<1>11. Fresh'
  <2>1. SUFFICES ASSUME NEW c \in Conn, sock'[c].at \in {"joining", "joined"},
                        sock[c].role # role[sock[c].user], c \notin late
        PROVE PassPending(sock[c].user)'
    BY <1>1, <1>6 DEF Fresh, PassPending, rows
  <2>2. sock[c].at = "joined" /\ c \notin S
    BY <1>1, <1>6, <2>1 DEF Inv, TypeOK, Waiting
  <2>3. c \in conns
    BY <2>2 DEF Inv, TypeOK
  <2>4. PICK p \in Slot : req[p].at = "pass" /\ (req[p].op = "delete" \/ req[p].target = sock[c].user)
    BY <2>1, <2>2 DEF Inv, Fresh, PassPending
  <2>5. p # q
    BY <2>2, <2>3, <2>4 DEF S, Doomed
  <2> QED
    BY <1>2, <1>6, <2>4, <2>5 DEF PassPending
<1> QED
  BY <1>8, <1>9, <1>10, <1>11 DEF Inv
-----------------------------------------------------------------------------
(* Sessions and sockets. *)
LEMMA SessionInv ==
  ASSUME Inv, NEW u \in User, Register(u) \/ EndSession(u) \/ Login(u) PROVE Inv'
<1> USE DEF Register, EndSession, Login, rows
<1>1. TypeOK'
  BY DEF Inv, TypeOK, Members, Waiting
<1>2. RequestsKnow'
  BY DEF Inv, RequestsKnow, Found, Demoting
<1>3. SocketsKnow'
  BY DEF Inv, SocketsKnow, hasRole
<1>4. Fresh'
  BY DEF Inv, Fresh, PassPending
<1> QED
  BY <1>1, <1>2, <1>3, <1>4 DEF Inv

(* A socket may do as it likes while requests and rows stand still, if it   *)
(* goes on knowing what it knew.                                            *)
LEMMA SocketMoves ==
  ASSUME Inv, UNCHANGED <<rows, session, req>>,
         sock' \in [Conn -> SockRecord],
         conns' = {c \in Conn : sock'[c].at \in {"joined", "closing"}},
         room' \in {"none", "querying", "loading", "live"},
         conns' # {} => room' = "live", Waiting' # {} => room' \in {"querying", "loading"},
         late' \subseteq conns' \cup Waiting',
         writes' \in Seq(User) /\ Len(writes') <= MaxWrites,
         SocketsKnow', Fresh'
  PROVE  Inv'
<1>1. TypeOK'
  BY DEF Inv, TypeOK, rows, Members, SocketsKnow
<1>2. RequestsKnow'
  BY DEF Inv, RequestsKnow, Found, Demoting, rows
<1> QED
  BY <1>1, <1>2 DEF Inv

LEMMA UpgradeInv ==
  ASSUME Inv, NEW c \in Conn, NEW u \in User, Upgrade(c, u) PROVE Inv'
<1> DEFINE x == [NoSock EXCEPT !.at = "reading", !.user = u]
<1>1. x.at = "reading" /\ x.user = u /\ ~x.canWrite /\ x \in SockRecord
  BY DEF NoSock, SockRecord, SockAt, Role, None
<1>2. /\ sock[c].at = "away" /\ sock' = [sock EXCEPT ![c] = x]
      /\ UNCHANGED <<rows, session, req, writes, conns, room, late>>
  BY DEF Upgrade, OnlySockets
<1> HIDE DEF x
<1>3. /\ sock' \in [Conn -> SockRecord] /\ sock'[c] = x
      /\ \A d \in Conn \ {c} : sock'[d] = sock[d]
  BY <1>1, <1>2 DEF Inv, TypeOK
<1>4. conns = {d \in Conn : sock'[d].at \in {"joined", "closing"}} /\ Waiting' = Waiting
  BY <1>1, <1>2, <1>3 DEF Inv, TypeOK, Waiting
<1>5. SocketsKnow'
  BY <1>1, <1>3 DEF Inv, SocketsKnow, hasRole
<1>6. Fresh'
  BY <1>1, <1>2, <1>3 DEF Inv, Fresh, PassPending, rows
<1> QED
  BY <1>2, <1>3, <1>4, <1>5, <1>6, SocketMoves DEF Inv, TypeOK

LEMMA ReadAccessInv == ASSUME Inv, NEW c \in Conn, ReadAccess(c) PROVE Inv'
<1>1. /\ sock[c].at = "reading"
      /\ sock' = [sock EXCEPT ![c].at = "answered", ![c].role = role[sock[c].user]]
      /\ UNCHANGED <<rows, session, req, writes, conns, room, late>>
  BY DEF ReadAccess, OnlySockets
<1>2. sock[c] \in SockRecord /\ sock[c].user \in User
  BY <1>1 DEF Inv, TypeOK, SocketsKnow
<1>3. role[sock[c].user] \in Role \cup {None}
  BY <1>2 DEF Inv, TypeOK
<1>4. [sock[c] EXCEPT !.at = "answered", !.role = role[sock[c].user]] \in SockRecord
  BY <1>2, <1>3 DEF SockRecord, SockAt
<1>5. /\ sock' \in [Conn -> SockRecord] /\ sock'[c].at = "answered"
      /\ sock'[c].user = sock[c].user /\ sock'[c].canWrite = sock[c].canWrite
      /\ \A d \in Conn \ {c} : sock'[d] = sock[d]
  BY <1>1, <1>2, <1>4 DEF Inv, TypeOK, SockRecord
<1>6. ~sock[c].canWrite
  BY <1>1 DEF Inv, SocketsKnow
<1>7. conns = {d \in Conn : sock'[d].at \in {"joined", "closing"}} /\ Waiting' = Waiting
  BY <1>1, <1>5 DEF Inv, TypeOK, Waiting
<1>8. SocketsKnow'
  BY <1>1, <1>2, <1>5, <1>6 DEF Inv, SocketsKnow, hasRole
<1>9. Fresh'
  BY <1>1, <1>5 DEF Inv, Fresh, PassPending, rows
<1> QED
  BY <1>1, <1>5, <1>7, <1>8, <1>9, SocketMoves DEF Inv, TypeOK

LEMMA AuthorizedInv == ASSUME Inv, NEW c \in Conn, Authorized(c) PROVE Inv'
<1> DEFINE at == IF room = "live" THEN "joined" ELSE "joining"
           may == hasRole(sock[c].role, "EDITOR")
<1>1. /\ sock[c].at = "answered" /\ hasRole(sock[c].role, "VIEWER")
      /\ sock' = [sock EXCEPT ![c].at = at, ![c].canWrite = may]
      /\ conns' = IF room = "live" THEN conns \cup {c} ELSE conns
      /\ room' = IF room = "none" THEN "querying" ELSE room
      /\ late' = IF sock[c].role # role[sock[c].user] /\ ~PassPending(sock[c].user)
                   THEN late \cup {c} ELSE late
      /\ UNCHANGED <<rows, session, req, writes>>
  BY DEF Authorized, OnlySockets
<1>2. sock[c] \in SockRecord /\ sock[c].user \in User
  BY <1>1 DEF Inv, TypeOK, SocketsKnow
<1>3. sock[c].role \in Role
  BY <1>1, <1>2 DEF hasRole, SockRecord
<1>4. at \in SockAt /\ may \in BOOLEAN
  BY DEF SockAt, hasRole
<1>5. at \in {"joined", "joining"} /\ (at = "joined" <=> room = "live")
  OBVIOUS
<1>6. room \in {"none", "querying", "loading", "live"}
  BY DEF Inv, TypeOK
<1> HIDE DEF at, may
<1>7. [sock[c] EXCEPT !.at = at, !.canWrite = may] \in SockRecord
  BY <1>2, <1>4 DEF SockRecord
<1>8. /\ sock' \in [Conn -> SockRecord] /\ sock'[c].at = at
      /\ sock'[c].user = sock[c].user /\ sock'[c].canWrite = may
      /\ sock'[c].role = sock[c].role
      /\ \A d \in Conn \ {c} : sock'[d] = sock[d]
  BY <1>1, <1>2, <1>7 DEF Inv, TypeOK, SockRecord
<1>9. conns' = {d \in Conn : sock'[d].at \in {"joined", "closing"}}
  BY <1>1, <1>5, <1>8 DEF Inv, TypeOK
<1>10. room' \in {"none", "querying", "loading", "live"} /\ (conns' # {} => room' = "live")
  BY <1>1, <1>6 DEF Inv, TypeOK
<1>11. Waiting' # {} => room' \in {"querying", "loading"}
  <2>1. CASE room = "live"
    BY <1>5, <1>8, <2>1 DEF Inv, TypeOK, Waiting
  <2>2. CASE room # "live"
    BY <1>1, <1>6, <2>2
  <2> QED
    BY <2>1, <2>2
<1>12. late' \subseteq conns' \cup Waiting'
  <2>1. c \in conns' \cup Waiting'
    BY <1>5, <1>8, <1>9 DEF Waiting
  <2>2. conns \cup Waiting \subseteq conns' \cup Waiting'
    BY <1>1, <1>8, <1>9, <2>1 DEF Inv, TypeOK, Waiting
  <2> QED
    BY <1>1, <2>1, <2>2 DEF Inv, TypeOK
<1>13. SocketsKnow'
  BY <1>2, <1>3, <1>5, <1>8 DEF Inv, SocketsKnow, hasRole, may
<1>14. \A u : PassPending(u)' <=> PassPending(u)
  BY <1>1 DEF PassPending
<1>15. Fresh'
  BY <1>1, <1>8, <1>14 DEF Inv, Fresh, rows
<1> QED
  BY <1>1, <1>8, <1>9, <1>10, <1>11, <1>12, <1>13, <1>15, SocketMoves DEF Inv, TypeOK

(* A socket goes: refused, or closed. *)
LEMMA SocketLeaves ==
  ASSUME Inv, NEW S \in SUBSET Conn, UNCHANGED <<rows, session, req, writes>>,
         sock' = [c \in Conn |-> IF c \in S THEN NoSock ELSE sock[c]],
         conns' = conns \ S, late' = late \ S,
         room' \in {"none", "querying", "loading", "live"},
         conns' # {} => room' = "live",
         {c \in Waiting : c \notin S} # {} => room' \in {"querying", "loading"}
  PROVE  Inv'
<1>1. NoSock \in SockRecord /\ NoSock.at = "away" /\ ~NoSock.canWrite
  BY DEF NoSock, SockRecord, SockAt, Role, None
<1>2. /\ sock' \in [Conn -> SockRecord]
      /\ \A c \in Conn : sock'[c] = IF c \in S THEN NoSock ELSE sock[c]
  BY <1>1 DEF Inv, TypeOK
<1>3. conns' = {c \in Conn : sock'[c].at \in {"joined", "closing"}}
  BY <1>1, <1>2 DEF Inv, TypeOK
<1>4. Waiting' = {c \in Waiting : c \notin S}
  BY <1>1, <1>2 DEF Waiting
<1>5. late' \subseteq conns' \cup Waiting'
  BY <1>4 DEF Inv, TypeOK
<1>6. SocketsKnow'
  BY <1>1, <1>2 DEF Inv, SocketsKnow, hasRole
<1>7. \A u : PassPending(u)' <=> PassPending(u)
  BY DEF PassPending
<1>8. Fresh'
  BY <1>1, <1>2, <1>7 DEF Inv, Fresh, rows
<1> QED
  BY <1>2, <1>3, <1>4, <1>5, <1>6, <1>8, SocketMoves DEF Inv, TypeOK

LEMMA NotAuthorizedInv == ASSUME Inv, NEW c \in Conn, NotAuthorized(c) PROVE Inv'
<1>1. /\ sock[c].at = "answered" /\ sock' = [sock EXCEPT ![c] = NoSock]
      /\ UNCHANGED <<rows, session, req, writes, conns, room, late>>
  BY DEF NotAuthorized, OnlySockets
<1>2. c \notin conns \cup Waiting /\ late \subseteq conns \cup Waiting
  BY <1>1 DEF Inv, TypeOK, Waiting
<1>3. conns' = conns \ {c} /\ late' = late \ {c}
  BY <1>1, <1>2
<1>4. sock' = [d \in Conn |-> IF d \in {c} THEN NoSock ELSE sock[d]]
  BY <1>1 DEF Inv, TypeOK
<1>5. {c} \in SUBSET Conn
  OBVIOUS
<1> QED
  BY <1>1, <1>3, <1>4, <1>5, SocketLeaves DEF Inv, TypeOK

LEMMA CloseInv == ASSUME Inv, NEW c \in Conn, Close(c) PROVE Inv'
<1>1. /\ c \in conns /\ sock' = [sock EXCEPT ![c] = NoSock]
      /\ conns' = conns \ {c} /\ late' = late \ {c}
      /\ room' = IF conns = {c} THEN "none" ELSE room
      /\ UNCHANGED <<rows, session, req, writes>>
  BY DEF Close, OnlySockets
<1>2. room = "live" /\ Waiting = {}
  BY <1>1 DEF Inv, TypeOK
<1>3. sock' = [d \in Conn |-> IF d \in {c} THEN NoSock ELSE sock[d]]
  BY <1>1 DEF Inv, TypeOK
<1>4. {c} \in SUBSET Conn /\ (conns' # {} => room' = "live")
  BY <1>1, <1>2
<1> QED
  BY <1>1, <1>2, <1>3, <1>4, SocketLeaves

LEMMA FindFileInv == ASSUME Inv, NEW found \in BOOLEAN, FindFile(found) PROVE Inv'
<1>1. /\ room = "querying" /\ room' = IF found THEN "loading" ELSE "none"
      /\ sock' = [c \in Conn |-> IF c \in Waiting /\ ~found THEN NoSock ELSE sock[c]]
      /\ late' = IF found THEN late ELSE late \ Waiting
      /\ UNCHANGED <<rows, session, req, writes, conns>>
  BY DEF FindFile, OnlySockets
<1>2. conns = {}
  BY <1>1 DEF Inv, TypeOK
<1> DEFINE S == IF found THEN {} ELSE Waiting
<1>3. S \in SUBSET Conn /\ late' = late \ S /\ conns' = conns \ S
  BY <1>1, <1>2 DEF Waiting
<1>4. sock' = [c \in Conn |-> IF c \in S THEN NoSock ELSE sock[c]]
  BY <1>1
<1>5. {c \in Waiting : c \notin S} # {} => room' \in {"querying", "loading"}
  BY <1>1
<1> HIDE DEF S
<1> QED
  BY <1>1, <1>2, <1>3, <1>4, <1>5, SocketLeaves

LEMMA LoadedInv == ASSUME Inv, Loaded PROVE Inv'
<1>1. /\ room = "loading" /\ room' = "live" /\ conns' = conns \cup Waiting
      /\ sock' = [c \in Conn |-> IF c \in Waiting THEN [sock[c] EXCEPT !.at = "joined"]
                                                  ELSE sock[c]]
      /\ UNCHANGED <<rows, session, req, writes, late>>
  BY DEF Loaded, OnlySockets
<1>2. sock \in [Conn -> SockRecord] /\ conns = {}
  BY <1>1 DEF Inv, TypeOK
<1>3. \A c \in Conn :
        /\ sock'[c] \in SockRecord /\ sock'[c].user = sock[c].user
        /\ sock'[c].role = sock[c].role /\ sock'[c].canWrite = sock[c].canWrite
        /\ sock'[c].at = IF sock[c].at = "joining" THEN "joined" ELSE sock[c].at
  BY <1>1, <1>2 DEF SockRecord, SockAt, Waiting
<1>4. sock' \in [Conn -> SockRecord]
  BY <1>1, <1>3
<1>5. conns' = {c \in Conn : sock'[c].at \in {"joined", "closing"}} /\ Waiting' = {}
  BY <1>1, <1>3 DEF Inv, TypeOK, Waiting
<1>6. SocketsKnow'
  BY <1>3 DEF Inv, SocketsKnow, hasRole
<1>7. \A u : PassPending(u)' <=> PassPending(u)
  BY <1>1 DEF PassPending
<1>8. Fresh'
  BY <1>1, <1>3, <1>7 DEF Inv, Fresh, rows
<1> QED
  BY <1>1, <1>2, <1>4, <1>5, <1>6, <1>8, SocketMoves DEF Inv, TypeOK

LEMMA EditInv == ASSUME Inv, NEW c \in Conn, Edit(c) PROVE Inv'
<1>1. /\ Len(writes) < MaxWrites /\ writes' = Append(writes, sock[c].user)
      /\ UNCHANGED <<rows, session, req, sock, conns, room, late>> /\ c \in conns
  BY DEF Edit
<1>2. sock[c].user \in User
  BY <1>1 DEF Inv, TypeOK, SocketsKnow
<1>3. writes' \in Seq(User) /\ Len(writes') <= MaxWrites
  BY <1>1, <1>2, AccessAssumption DEF Inv, TypeOK
<1>4. SocketsKnow' /\ Fresh' /\ Waiting' = Waiting
  BY <1>1 DEF Inv, SocketsKnow, Fresh, PassPending, rows, Waiting
<1> QED
  BY <1>1, <1>3, <1>4, SocketMoves DEF Inv, TypeOK
-----------------------------------------------------------------------------
LEMMA NextInv == Inv /\ [Next]_vars => Inv'
<1> SUFFICES ASSUME Inv, [Next]_vars PROVE Inv'
  OBVIOUS
<1>1. CASE UNCHANGED vars
  <2>1. TypeOK'
    BY <1>1 DEF Inv, TypeOK, vars, Members, Waiting
  <2>2. RequestsKnow' /\ SocketsKnow' /\ Fresh'
    BY <1>1 DEF Inv, vars, RequestsKnow, Found, SocketsKnow, Fresh, PassPending
  <2> QED
    BY <2>1, <2>2 DEF Inv
<1>2. CASE \E u \in User : Register(u) \/ EndSession(u) \/ Login(u)
  BY <1>2, SessionInv
<1>3. CASE \E q \in Slot : RequestStep(q)
  <2>1. PICK q \in Slot : RequestStep(q)
    BY <1>3
  <2>2. CASE \E op \in Op, a \in User, t \in User \cup {None}, as \in Role \cup {None} :
               Request(q, op, a, t, as)
    BY <2>2, RequestInv
  <2>3. CASE Guard(q) \/ Find(q) \/ Count(q)
    BY <2>3, GuardInv, FindInv, CountInv
  <2>4. CASE WriteCreate(q) \/ WriteDelete(q) \/ WriteAdd(q) \/ WriteMember(q)
    BY <2>4, WriteCreateInv, WriteDeleteInv, WriteAddInv, WriteMemberInv
  <2>5. CASE Pass(q)
    BY <2>5, PassInv
  <2> QED
    BY <2>1, <2>2, <2>3, <2>4, <2>5 DEF RequestStep
<1>4. CASE \E c \in Conn : SocketStep(c)
  <2>1. PICK c \in Conn : SocketStep(c)
    BY <1>4
  <2>2. CASE \E u \in User : Upgrade(c, u)
    BY <2>2, UpgradeInv
  <2>3. CASE ReadAccess(c) \/ Authorized(c) \/ NotAuthorized(c)
    BY <2>3, ReadAccessInv, AuthorizedInv, NotAuthorizedInv
  <2>4. CASE Edit(c) \/ Close(c)
    BY <2>4, EditInv, CloseInv
  <2> QED
    BY <2>1, <2>2, <2>3, <2>4 DEF SocketStep
<1>5. CASE (\E found \in BOOLEAN : FindFile(found)) \/ Loaded
  BY <1>5, FindFileInv, LoadedInv
<1> QED
  BY <1>1, <1>2, <1>3, <1>4, <1>5 DEF Next

LEMMA Always == Spec => []Inv
  BY InitInv, NextInv, PTL DEF Spec

(* Every variable keeps its type: what a request remembers and what a       *)
(* socket was told are what the modules' own types say, the connections are *)
(* the sockets that joined, and none is connected to a room that is not     *)
(* open (collab/roomManager.ts).                                            *)
THEOREM TypeCorrect == Spec => []TypeOK
<1>1. Inv => TypeOK
  BY DEF Inv
<1> QED
  BY <1>1, Always, PTL

(* A socket that is open has the role its user has, is about to be closed   *)
(* by the pass of a request that changed it (disconnectProjectUser,         *)
(* disconnectProject), or read its role while a commit and its pass went by.*)
THEOREM RolesFollowed == Spec => []SocketsFollowRoles
<1>1. Inv => SocketsFollowRoles
  BY DEF Inv, Fresh, SocketsFollowRoles, TypeOK
<1> QED
  BY <1>1, Always, PTL

(* handleMessage takes a write only of somebody who may write by now, whose *)
(* sockets a pass is about to close, or whose socket is closing or late.    *)
THEOREM LicensedWrites == Spec => WritesAreLicensed
<1>1. Inv /\ [Next]_vars =>
        [writes' # writes =>
           LET u == writes'[Len(writes')] IN
           \/ hasRole(role[u], "EDITOR") \/ PassPending(u)
           \/ \E c \in conns : sock[c].user = u /\ (sock[c].at = "closing" \/ c \in late)]_vars
  <2>1. SUFFICES ASSUME Inv, Next, writes' # writes
        PROVE  LET u == writes'[Len(writes')] IN
               \/ hasRole(role[u], "EDITOR") \/ PassPending(u)
               \/ \E c \in conns : sock[c].user = u /\ (sock[c].at = "closing" \/ c \in late)
    BY DEF vars
  <2>2. PICK c \in Conn : Edit(c)
    <3>1. \A u \in User : ~(Register(u) \/ EndSession(u) \/ Login(u))
      BY <2>1 DEF Register, EndSession, Login
    <3>2. \A q \in Slot : ~RequestStep(q)
      BY <2>1 DEF RequestStep, Request, Guard, Find, Count, Pass, WriteCreate, WriteDelete,
                  WriteAdd, WriteMember, OnlyRequests
    <3>3. \A c \in Conn : SocketStep(c) => Edit(c)
      BY <2>1 DEF SocketStep, Upgrade, ReadAccess, Authorized, NotAuthorized, Close, OnlySockets
    <3>4. ~((\E found \in BOOLEAN : FindFile(found)) \/ Loaded)
      BY <2>1 DEF FindFile, Loaded, OnlySockets
    <3> QED
      BY <2>1, <3>1, <3>2, <3>3, <3>4 DEF Next
  <2>3. c \in conns /\ sock[c].canWrite /\ writes' = Append(writes, sock[c].user)
    BY <2>2 DEF Edit
  <2>4. sock[c].user \in User /\ hasRole(sock[c].role, "EDITOR") /\ writes \in Seq(User)
    BY <2>1, <2>3 DEF Inv, SocketsKnow, TypeOK
  <2>5. writes'[Len(writes')] = sock[c].user
    BY <2>3, <2>4
  <2>6. CASE sock[c].at = "closing"
    BY <2>3, <2>5, <2>6
  <2>7. CASE sock[c].at = "joined"
    BY <2>1, <2>3, <2>4, <2>5, <2>7 DEF Inv, Fresh
  <2> QED
    BY <2>1, <2>3, <2>6, <2>7 DEF Inv, TypeOK
<1> QED
  BY <1>1, Always, PTL DEF Spec, WritesAreLicensed

(* The last owner of a live project goes only by a change or a removal that *)
(* saw another role, or counted another number of owners (countOwners), than *)
(* there are when its statement commits.                                     *)
THEOREM LastOwnerCounted == Spec => LastOwnerGoesByARace
<1>1. Inv /\ [Next]_vars =>
        [(Owners # {} /\ Owners' = {} /\ project' = "live") =>
           \E q \in Slot : /\ req[q].at = "write" /\ req'[q].at = "pass"
                           /\ req[q].saw # "OWNER"
                              \/ req[q].owners \notin {{}, {Cardinality(Owners)}}]_vars
  <2>1. SUFFICES ASSUME Inv, Next, Owners # {}, Owners' = {}, project' = "live"
        PROVE  \E q \in Slot : /\ req[q].at = "write" /\ req'[q].at = "pass"
                               /\ req[q].saw # "OWNER"
                                  \/ req[q].owners \notin {{}, {Cardinality(Owners)}}
    BY <2>1 DEF vars, Owners
  <2>2. PICK o \in User : role[o] = "OWNER"
    BY <2>1 DEF Owners
  <2>3. role'[o] # "OWNER"
    BY <2>1 DEF Owners
  <2>4. PICK q \in Slot : WriteMember(q)
    <3>1. \A u \in User : ~(Register(u) \/ EndSession(u) \/ Login(u))
      BY <2>2, <2>3 DEF Register, EndSession, Login, rows
    <3>2. ASSUME NEW q \in Slot, RequestStep(q) PROVE WriteMember(q)
      <4>1. ~WriteCreate(q)
        <5>1. project = "live"
          BY <2>1, <2>2 DEF Inv, TypeOK, Members, None
        <5> QED
          BY <2>2, <2>3, <5>1 DEF WriteCreate, Refused, rows
      <4>2. ~WriteDelete(q)
        BY <2>1, <2>2, <2>3 DEF WriteDelete, Refused, rows
      <4>3. ~WriteAdd(q)
        <5>1. role \in [User -> Role \cup {None}]
          BY <2>1 DEF Inv, TypeOK
        <5> QED
          BY <2>2, <2>3, <5>1 DEF WriteAdd, Refused, rows, None
      <4> QED
        BY <2>2, <2>3, <3>2, <4>1, <4>2, <4>3
           DEF RequestStep, Request, Guard, Find, Count, Pass, Refused, rows
    <3>3. \A c \in Conn : ~SocketStep(c)
      BY <2>2, <2>3 DEF SocketStep, Upgrade, ReadAccess, Authorized, NotAuthorized, Edit, Close,
                        OnlySockets, rows
    <3>4. ~((\E found \in BOOLEAN : FindFile(found)) \/ Loaded)
      BY <2>2, <2>3 DEF FindFile, Loaded, OnlySockets, rows
    <3> QED
      BY <2>1, <3>1, <3>2, <3>3, <3>4 DEF Next
  <2>5. /\ req[q].at = "write" /\ req[q].op \in {"change", "remove"} /\ Go(q, "pass")
        /\ role' = [role EXCEPT ![req[q].target] = IF req[q].op = "change" THEN req[q].as ELSE None]
    BY <2>2, <2>3, <2>4 DEF WriteMember, Refused, rows
  <2>6. req'[q].at = "pass"
    BY <2>1, <2>5, GoEffect DEF At
  <2>7. role \in [User -> Role \cup {None}] /\ req[q].target \in User
    BY <2>1, <2>5 DEF Inv, TypeOK, RequestsKnow, Found
  <2>8. o = req[q].target /\ (req[q].op = "change" => req[q].as # "OWNER")
    BY <2>2, <2>3, <2>5, <2>7
  <2>9. Owners = {o}
    BY <2>1, <2>2, <2>5, <2>7, <2>8 DEF Owners
  <2>10. Cardinality(Owners) = 1
    BY <2>9, FS_Singleton
  <2>11. Demoting(req[q])
    BY <2>5, <2>8 DEF Demoting
  <2>12. req[q].saw = "OWNER" => req[q].owners \notin {{}, {1}}
    BY <2>1, <2>5, <2>11 DEF Inv, RequestsKnow, Found
  <2> QED
    BY <2>5, <2>6, <2>10, <2>12
<1> QED
  BY <1>1, Always, PTL DEF Spec, LastOwnerGoesByARace
=============================================================================
