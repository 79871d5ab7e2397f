------------------------------ MODULE DocSync ------------------------------
(***************************************************************************)
(* One document in several browser tabs and on several server instances:   *)
(* the provider in the tab (features/collab/CollabProvider.ts), the        *)
(* protocol on the server (collab/syncHandler.ts) and the bus between the  *)
(* instances (redis/docBus.ts).                                            *)
(*                                                                         *)
(* An edit is its author and its place among the author's edits.  A Y.Doc  *)
(* is the set of edits it was given; like Yjs it shows, announces and      *)
(* counts in its state vector only those whose predecessors it has too,    *)
(* and keeps the others pending.  A socket loses what is in flight when it *)
(* ends, and both ends learn of it together (RoomRegistry is about the     *)
(* time between).  Rooms are loaded and evicted in one step here, and the  *)
(* text reaches the log by Flush (WriteBuffer and DocLog are about those). *)
(***************************************************************************)
EXTENDS Naturals, FiniteSets, Sequences, Functions

CONSTANTS
  Tab, Inst, Sock,     \* browser tabs, server instances, sockets (recycled)
  None, Seed,          \* no socket; the author of the text the file began with
  First, Home,         \* the tab opened first, and where its socket goes
  MaxEdits,            \* bound: edits in a behaviour, the one typed offline included
  MaxBreaks,           \* bound: crashes, drops, revocations, lost frames, reloads, networks
                       \* that come back
  BusLoses             \* whether Redis may lose a frame

ASSUME DocSyncAssumption ==
  /\ None \notin Sock /\ Sock # {} /\ Seed \notin Tab /\ First \in Tab /\ Home \in Inst
  /\ IsFiniteSet(Tab) /\ MaxEdits \in Nat \ {0} /\ MaxBreaks \in Nat /\ BusLoses \in BOOLEAN

VARIABLES
  tab,       \* the provider of each tab: status, ready, whether a retry is armed
  socket,    \* its this.socket
  doc,       \* its Y.Doc, which the browser's local store outlives
  peer,      \* the server's end of each socket: its tab, its instance, joined or not, and
             \* (history) what an observer did not send it back
  up, down,  \* what is on its way to the server and to the tab
  room,      \* the Y.Doc of each instance's room
  live,      \* the instances that have the room
  sub,       \* those whose SUBSCRIBE Redis has registered
  bus,       \* frames on their way to each instance
  log,       \* the edits in the update log
  allowed,   \* the tabs whose user may open the document
  missed,    \* history: edits no frame will bring to an instance any more
  breaks     \* how many things have gone wrong

vars == <<tab, socket, doc, peer, up, down, room, live, sub, bus, log, allowed,
          missed, breaks>>
tabVars == <<tab, socket, doc>>
roomVars == <<room, live, sub, bus, missed>>

Edit == (Tab \X (1..MaxEdits)) \cup {<<Seed, 1>>}
Visible(S) == {e \in S : \A k \in 1..e[2] : <<e[1], k>> \in S}
Everywhere == (UNION {doc[c] : c \in Tab}) \cup (UNION {room[i] : i \in Inst}) \cup log
Made(c) == Cardinality({e \in Everywhere : e[1] = c})

Step1(S) == [type |-> "step1", edits |-> Visible(S)]    \* "what I have"
Step2(S, m) == [type |-> "step2", edits |-> S \ m.edits]  \* "what you lack"
Update(S) == [type |-> "update", edits |-> S]

Free == [tab |-> None, inst |-> None, at |-> "free", untold |-> {}]
Fresh == CHOOSE s \in Sock : peer[s].at = "free"
Used(s) == peer[s].at # "free"
OpenSocks == {s \in Sock : peer[s].at \in {"early", "joined"}}
ConnsOf(i) == {s \in Sock : peer[s].at = "joined" /\ peer[s].inst = i}
MayBreak == breaks < MaxBreaks /\ breaks' = breaks + 1

(* One tab has been opened and typed into offline, and is trying again; the  *)
(* file is in the log and nobody else has opened it.                         *)
Init ==
  LET s1 == CHOOSE s \in Sock : TRUE IN
  /\ tab = [c \in Tab |-> IF c = First
                         THEN [status |-> "reconnecting", ready |-> TRUE, retry |-> FALSE]
                         ELSE [status |-> "away", ready |-> FALSE, retry |-> FALSE]]
  /\ socket = [c \in Tab |-> IF c = First THEN s1 ELSE None]
  /\ doc = [c \in Tab |-> IF c = First THEN {<<Seed, 1>>, <<c, 1>>} ELSE {}]
  /\ peer = [s \in Sock |-> IF s # s1 THEN Free ELSE
               [Free EXCEPT !.tab = First, !.inst = Home, !.at = "connecting"]]
  /\ up = [s \in Sock |-> << >>] /\ down = [s \in Sock |-> << >>]
  /\ room = [i \in Inst |-> {}] /\ live = {} /\ sub = {}
  /\ bus = [i \in Inst |-> << >>]
  /\ log = {<<Seed, 1>>} /\ allowed = Tab
  /\ missed = [i \in Inst |-> {}] /\ breaks = 0
-----------------------------------------------------------------------------
(* The server: what a change to a room sets off.                            *)

(* Local fan-out, never back to where the edits came from.                  *)
Broadcast(q, i, new, origin) ==
  [s \in Sock |-> IF new # {} /\ s \in ConnsOf(i) \ {origin} THEN Append(q[s], Update(new))
                                                          ELSE q[s]]

(* Then the publish, to the instances Redis knows of, or to nobody.         *)
PublishesLatest(i, new, S) ==
  /\ bus' = [j \in Inst |-> IF j \in S THEN << new >> ELSE bus[j]]
  /\ missed' = [j \in Inst |-> IF j \in live \ (S \cup {i}) THEN missed[j] \cup new
                                                          ELSE missed[j]]

Publishes(i, new, S) ==
  /\ bus' = [j \in Inst |-> IF j \in S THEN Append(bus[j], new) ELSE bus[j]]
  /\ missed' = [j \in Inst |-> IF j \in live \ (S \cup {i}) THEN missed[j] \cup new
                                                          ELSE missed[j]]

Publish(i, new) ==
  IF new = {} THEN UNCHANGED <<bus, missed, breaks>>
  ELSE \/ Publishes(i, new, sub \ {i}) /\ UNCHANGED breaks
       \/ BusLoses /\ sub \ {i} # {} /\ MayBreak /\ Publishes(i, new, {})

Gains(i, edits) == Visible(room[i] \cup edits) \ Visible(room[i])

(* handleMessage of one frame of a socket in a room. *)
ServerHandles(s) ==
  /\ peer[s].at = "joined" /\ up[s] # << >>
  /\ LET i == peer[s].inst
         m == Head(up[s]) IN
     IF m.type = "step1"
     THEN /\ down' = [down EXCEPT ![s] = Append(@, Step2(room[i], m))]
          /\ UNCHANGED <<room, bus, missed, breaks, peer>>
     ELSE /\ room' = [room EXCEPT ![i] = @ \cup m.edits]
          /\ down' = Broadcast(down, i, Gains(i, m.edits), s)
          /\ Publish(i, Gains(i, m.edits))
          /\ peer' = [peer EXCEPT ![s].untold = @ \cup (Gains(i, m.edits) \ m.edits)]
  /\ up' = [up EXCEPT ![s] = Tail(@)]
  /\ UNCHANGED <<tabVars, live, sub, log, allowed>>

(* A frame of the bus: the same observers, and no second publish. *)
BusDelivers(i) ==
  /\ bus[i] # << >>
  /\ LET new == Gains(i, Head(bus[i])) IN
     /\ room' = [room EXCEPT ![i] = @ \cup Head(bus[i])]
     /\ down' = Broadcast(down, i, new, None)
     /\ missed' = [j \in Inst |-> IF j \in live \ {i} THEN missed[j] \cup (new \ Head(bus[i]))
                                                      ELSE missed[j]]
  /\ bus' = [bus EXCEPT ![i] = Tail(@)]
  /\ UNCHANGED <<tabVars, peer, up, live, sub, log, allowed, breaks>>

(* The handshake and handleConnection are through: the first socket makes    *)
(* the room of what the log holds, and asks Redis for the channel without    *)
(* waiting. What came meanwhile has been kept.                               *)
Join(s) ==
  /\ peer[s].at = "early" /\ peer[s].tab \in allowed
  /\ LET i == peer[s].inst
         text == IF i \in live THEN room[i] ELSE log IN
     /\ peer' = [peer EXCEPT ![s].at = "joined"]
     /\ live' = live \cup {i} /\ room' = [room EXCEPT ![i] = text]
     /\ down' = [down EXCEPT ![s] = << Step1(text) >>]
     /\ missed' = IF i \in live THEN missed ELSE
          [missed EXCEPT ![i] = (UNION {room[j] \cup UNION Range(bus[j]) : j \in live}) \ log]
  /\ UNCHANGED <<tabVars, up, sub, bus, log, allowed, breaks>>

Subscribed(i) ==
  /\ i \in live \ sub
  /\ sub' = sub \cup {i}
  /\ UNCHANGED <<tabVars, peer, up, down, room, live, bus, missed, log, allowed, breaks>>

Flush(i) ==
  /\ i \in live /\ ~(Visible(room[i]) \subseteq log)
  /\ log' = log \cup Visible(room[i])
  /\ UNCHANGED <<tabVars, peer, up, down, roomVars, allowed, breaks>>

(* The sockets S are over, and the ones in opened begin. An instance without *)
(* sockets evicts its room, with a last flush; a crashed one just loses it.  *)
Deserted(S) == {i \in live : ConnsOf(i) \subseteq S}

Ends(S, crashed, opened) ==
  LET gone == Deserted(S) IN
  /\ peer' = [s \in Sock |-> IF s \in DOMAIN opened THEN opened[s]
                             ELSE IF s \in S THEN Free ELSE peer[s]]
  /\ up' = [s \in Sock |-> IF s \in S THEN << >> ELSE up[s]]
  /\ down' = [s \in Sock |-> IF s \in S THEN << >> ELSE down[s]]
  /\ live' = live \ gone /\ sub' = sub \ gone
  /\ room' = [i \in Inst |-> IF i \in gone THEN {} ELSE room[i]]
  /\ bus' = [i \in Inst |-> IF i \in gone THEN << >> ELSE bus[i]]
  /\ missed' = [i \in Inst |-> IF i \in gone THEN {} ELSE missed[i]]
  /\ log' = log \cup UNION {Visible(room[i]) : i \in gone \ crashed}
-----------------------------------------------------------------------------
(* The provider in the tab. *)

(* connect(): a socket to whichever instance the balancer picks. *)
Opening(c, i) == [s \in {Fresh} |-> [Free EXCEPT !.tab = c, !.inst = i, !.at = "connecting"]]

Connects(c, i, old) ==
  /\ \E s \in Sock : ~Used(s)
  /\ socket' = [socket EXCEPT ![c] = Fresh]
  /\ Ends({old}, {}, Opening(c, i))

(* The constructor. What the local store has makes the document ready (it is *)
(* there at once here; a slow store's text goes out like typing).            *)
OpenTab(c, i) ==
  /\ tab[c].status = "away"
  /\ tab' = [tab EXCEPT ![c] = [status |-> "connecting", ready |-> doc[c] # {},
                                retry |-> FALSE]]
  /\ Connects(c, i, None)
  /\ UNCHANGED <<doc, allowed, breaks>>

(* handleOpen: our state vector, whatever was typed meanwhile included. The  *)
(* server keeps it until the socket has joined.                              *)
Dropped(s, m) == up
Kept(s, m) == [up EXCEPT ![s] = Append(@, m)]

SocketOpens(c) ==
  /\ socket[c] # None /\ peer[socket[c]].at = "connecting"
  /\ peer' = [peer EXCEPT ![socket[c]].at = "early"]
  /\ up' = Kept(socket[c], Step1(doc[c]))
  /\ UNCHANGED <<tabVars, down, roomVars, log, allowed, breaks>>

(* handleMessage: any sync message will do for ready and synced. *)
NoAnswer(c, s, m) == up
Answer(c, s, m) == [up EXCEPT ![s] = Append(@, Step2(doc[c], m))]

TabHandles(c) ==
  /\ socket[c] # None /\ down[socket[c]] # << >>
  /\ LET s == socket[c]
         m == Head(down[s]) IN
     /\ IF m.type = "step1"
          THEN up' = Answer(c, s, m) /\ UNCHANGED doc
          ELSE doc' = [doc EXCEPT ![c] = @ \cup m.edits] /\ UNCHANGED up
     /\ down' = [down EXCEPT ![s] = Tail(@)]
  /\ tab' = [tab EXCEPT ![c].status = "synced", ![c].ready = TRUE]
  /\ UNCHANGED <<socket, peer, roomVars, log, allowed, breaks>>

(* handleDocUpdate: sent if the socket is open, kept in the document anyhow. *)
Type(c) ==
  /\ tab[c].ready /\ Cardinality(Everywhere \ {<<Seed, 1>>}) < MaxEdits
  /\ LET new == {<<c, Made(c) + 1>>} IN
     /\ doc' = [doc EXCEPT ![c] = @ \cup new]
     /\ up' = [s \in Sock |-> IF s = socket[c] /\ s \in OpenSocks
                                THEN Append(up[s], Update(new)) ELSE up[s]]
  /\ UNCHANGED <<tab, socket, peer, down, roomVars, log, allowed, breaks>>

(* handleClose: for good after a code that says so, else a retry is armed.   *)
Hears(S, terminal) ==
  /\ tab' = [c \in Tab |-> IF socket[c] \notin S THEN tab[c]
                           ELSE [tab[c] EXCEPT !.status = IF terminal THEN "closed"
                                                          ELSE "reconnecting",
                                               !.retry = ~terminal]]
  /\ socket' = [c \in Tab |-> IF socket[c] \in S THEN None ELSE socket[c]]
  /\ UNCHANGED doc

(* The timer fires. *)
Retry(c, i) ==
  /\ tab[c].retry
  /\ tab' = [tab EXCEPT ![c].retry = FALSE]
  /\ Connects(c, i, socket[c])
  /\ UNCHANGED <<doc, allowed, breaks>>

(* handleOnline: the network is back, so neither the timer nor an attempt    *)
(* under way is waited for.                                                  *)
HandleOnline(c, i) ==
  /\ tab[c].status = "reconnecting" /\ MayBreak
  /\ tab' = [tab EXCEPT ![c].retry = FALSE]
  /\ Connects(c, i, socket[c])
  /\ UNCHANGED <<doc, allowed>>

(* destroy(), and the store keeps the document. *)
CloseTab(c) ==
  /\ tab[c].status # "away" /\ MayBreak
  /\ tab' = [tab EXCEPT ![c] = [status |-> "away", ready |-> FALSE, retry |-> FALSE]]
  /\ socket' = [socket EXCEPT ![c] = None]
  /\ Ends({socket[c]}, {}, << >>)
  /\ UNCHANGED <<doc, allowed>>
-----------------------------------------------------------------------------
(* What befalls a socket. *)
Drop(s) ==
  /\ Used(s) /\ MayBreak
  /\ Hears({s}, FALSE) /\ Ends({s}, {}, << >>)
  /\ UNCHANGED allowed

Crash(i) ==
  LET S == {s \in Sock : Used(s) /\ peer[s].inst = i} IN
  /\ S # {} /\ MayBreak
  /\ Hears(S, FALSE) /\ Ends(S, {i}, << >>)
  /\ UNCHANGED allowed

(* The document is taken from a user: 4409 for the sockets in the room of    *)
(* the instance that is asked, and no other's (REALTIME.md:487) ...          *)
Revoke(c, i) ==
  /\ c \in allowed /\ MayBreak
  /\ allowed' = allowed \ {c}
  /\ LET S == {s \in ConnsOf(i) : peer[s].tab = c} IN
     Hears(S, TRUE) /\ Ends(S, {}, << >>)

(* ... and 4404 for the ones that come later. *)
Refuse(s) ==
  /\ peer[s].at = "early" /\ peer[s].tab \notin allowed
  /\ Hears({s}, TRUE) /\ Ends({s}, {}, << >>)
  /\ UNCHANGED <<allowed, breaks>>
-----------------------------------------------------------------------------
Arrives ==
  \/ \E s \in Sock : ServerHandles(s) \/ Join(s) \/ Refuse(s)
  \/ \E i \in Inst : BusDelivers(i) \/ Subscribed(i) \/ Flush(i)
  \/ \E c \in Tab : SocketOpens(c) \/ TabHandles(c) \/ \E i \in Inst : Retry(c, i)

Next ==
  \/ Arrives
  \/ \E s \in Sock : Drop(s)
  \/ \E i \in Inst : Crash(i)
  \/ \E c \in Tab : Type(c) \/ CloseTab(c)
  \/ \E c \in Tab, i \in Inst : OpenTab(c, i) \/ HandleOnline(c, i) \/ Revoke(c, i)

(* Something of what is on its way arrives, a timer among it, as long as     *)
(* anything is: nobody must type, and nothing must break.                    *)
Spec == Init /\ [][Next]_vars /\ WF_vars(Arrives)
-----------------------------------------------------------------------------
Message == [type : {"step1", "step2", "update"}, edits : SUBSET Edit]

TypeOK ==
  /\ tab \in [Tab -> [status : {"away", "connecting", "synced", "reconnecting", "closed"},
                      ready : BOOLEAN, retry : BOOLEAN]]
  /\ socket \in [Tab -> Sock \cup {None}]
  /\ doc \in [Tab -> SUBSET Edit]
  /\ peer \in [Sock -> [tab : Tab \cup {None}, inst : Inst \cup {None},
                       at : {"free", "connecting", "early", "joined"},
                       untold : SUBSET Edit]]
  /\ up \in [Sock -> Seq(Message)] /\ down \in [Sock -> Seq(Message)]
  /\ room \in [Inst -> SUBSET Edit] /\ live = {i \in Inst : ConnsOf(i) # {}}
  /\ sub \subseteq live
  /\ bus \in [Inst -> Seq(SUBSET Edit)] /\ \A i \in Inst : bus[i] # << >> => i \in sub
  /\ log \subseteq Edit /\ allowed \subseteq Tab
  /\ missed \in [Inst -> SUBSET Edit] /\ breaks \in 0..MaxBreaks

(* One socket per tab, and no retry under way while there is one: two would  *)
(* double every keystroke.                                                   *)
OneSocketPerTab ==
  /\ \A s \in Sock : Used(s) => socket[peer[s].tab] = s
  /\ \A c \in Tab : socket[c] # None => ~tab[c].retry

(* An edit, or one of its predecessors. *)
SinceOneOf(S, e) == \E k \in 1..e[2] : <<e[1], k>> \in S

(* When nothing is on its way on a socket in a room, its tab shows what the  *)
(* room shows: a handshake that overlaps edits and early frames loses        *)
(* nothing. But the tab that fills a room's gap is not sent the edits the    *)
(* room had pending: they come out in its own update, which is not echoed.   *)
QuietSocketsAgree ==
  \A s \in Sock : peer[s].at = "joined" /\ up[s] = << >> /\ down[s] = << >> =>
    LET i == peer[s].inst
        shown == Visible(doc[peer[s].tab]) IN
    /\ shown \subseteq room[i]
    /\ \A e \in Visible(room[i]) \ shown : SinceOneOf(peer[s].untold, e)

(* Two rooms with nothing under way between them differ only by edits whose  *)
(* frame was lost, or came out before the room was subscribed, and by what   *)
(* the same authors typed after those.                                       *)
OnlyMissedFramesDivide ==
  (\A i \in Inst : bus[i] = << >>) =>
    \A i, j \in live : \A e \in Visible(room[j]) \ Visible(room[i]) : SinceOneOf(missed[i], e)

Typed(c) == {e \in doc[c] : e[1] = c}
Gone(c) == tab[c].status \in {"away", "closed"}

(* Whatever a tab has typed reaches the log in the end, whether the server   *)
(* crashed, the socket dropped or a frame was lost; unless the tab is closed *)
(* or shut out.                                                              *)
TypingReachesTheLog ==
  []<>(\A c \in Tab : Typed(c) \subseteq log \/ Gone(c))

(* What REALTIME.md says of a lost frame: the next reconnect repairs it.     *)
ReconnectingRepairs ==
  \A c \in Tab, a \in Tab : \A n \in 1..MaxEdits :
    (tab[c].status = "reconnecting" /\ \E i \in live : <<a, n>> \in Visible(room[i]))
      ~> (<<a, n>> \in doc[c] \/ tab[c].status \in {"away", "closed"})
=============================================================================
