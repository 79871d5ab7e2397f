--------------------------- MODULE DocSyncProofs ---------------------------
(***************************************************************************)
(* Proofs about DocSync for any tabs, instances and sockets, any number of *)
(* edits and of breaks: a tab whose socket is quiet shows what its room    *)
(* shows, and rooms differ by lost frames only.                            *)
(***************************************************************************)
EXTENDS DocSync, FiniteSetTheorems, TLAPS

(* What a queue of frames holds: a question, and edits.                     *)
Asks(q) == \E m \in Range(q) : m.type = "step1"
Carried(q) == UNION {m.edits : m \in {n \in Range(q) : n.type # "step1"}}

(* Tabs and sockets know of each other, and frames are on sockets in use.   *)
SocketsOK ==
  /\ \A s \in Sock : Used(s) => /\ peer[s].tab \in Tab /\ peer[s].inst \in Inst
                                /\ socket[peer[s].tab] = s
  /\ \A c \in Tab : /\ socket[c] # None => Used(socket[c]) /\ peer[socket[c]].tab = c
                    /\ tab[c].status = "away" \/ tab[c].retry => socket[c] = None
                    /\ tab[c].retry => tab[c].status = "reconnecting"
  /\ \A s \in Sock : /\ peer[s].at \in {"free", "connecting"} => up[s] = << >>
                     /\ peer[s].at # "joined" => down[s] = << >>
                     /\ peer[s].at = "early" => Asks(up[s])

(* What one end of a socket lacks of the other is on its way, or will be     *)
(* the answer to a question that is, or was an echo left out.               *)
Synced ==
  \A s \in Sock : Used(s) =>
    LET d == doc[peer[s].tab]
        r == room[peer[s].inst] IN
    /\ \A m \in Range(up[s]) : m.edits \subseteq d
    /\ peer[s].at = "joined" =>
         /\ \A m \in Range(down[s]) : m.edits \subseteq r
         /\ Asks(down[s]) \/ d \subseteq r \cup Carried(up[s])
         /\ Asks(up[s]) \/ Visible(r) \subseteq d \cup Carried(down[s]) \cup peer[s].untold

(* What a room shows, and what it is about to be told, has reached every     *)
(* other room, is on its way there, or has been missed.                      *)
InBus(i) == UNION Range(bus[i])
Known(i) == room[i] \cup InBus(i) \cup missed[i]
Covered ==
  \A i \in live : /\ log \subseteq Known(i)
                  /\ \A j \in live : Visible(room[j]) \cup InBus(j) \subseteq Known(i)

Inv == TypeOK /\ SocketsOK /\ Synced /\ Covered
-----------------------------------------------------------------------------
(* Queues.                                                                  *)
LEMMA RangeAppend ==
  ASSUME NEW S, NEW q \in Seq(S), NEW m \in S
  PROVE  /\ Append(q, m) \in Seq(S) /\ Append(q, m) # << >>
         /\ Range(Append(q, m)) = Range(q) \cup {m}
<1>1. /\ Append(q, m) \in Seq(S) /\ Append(q, m) # << >>
      /\ DOMAIN Append(q, m) = 1..(Len(q) + 1) /\ DOMAIN q = 1..Len(q)
      /\ Len(q) \in Nat
  OBVIOUS
<1>2. /\ \A k \in 1..Len(q) : Append(q, m)[k] = q[k]
      /\ Append(q, m)[Len(q) + 1] = m
  OBVIOUS
<1> QED
  BY <1>1, <1>2 DEF Range

LEMMA RangeTail ==
  ASSUME NEW S, NEW q \in Seq(S), q # << >>
  PROVE  /\ Tail(q) \in Seq(S) /\ Head(q) \in S
         /\ Range(q) = {Head(q)} \cup Range(Tail(q))
<1>1. /\ Tail(q) \in Seq(S) /\ Head(q) \in S /\ Head(q) = q[1]
      /\ DOMAIN q = 1..Len(q) /\ Len(q) \in Nat \ {0}
      /\ DOMAIN Tail(q) = 1..(Len(q) - 1)
      /\ \A k \in 1..(Len(q) - 1) : Tail(q)[k] = q[k + 1]
  OBVIOUS
<1>2. ASSUME NEW k \in 1..Len(q) PROVE q[k] \in {Head(q)} \cup Range(Tail(q))
  <2>1. CASE k = 1
    BY <1>1, <2>1
  <2>2. CASE k # 1
    <3>1. k - 1 \in 1..(Len(q) - 1) /\ Tail(q)[k - 1] = q[k]
      BY <1>1, <2>2
    <3> QED
      BY <1>1, <3>1 DEF Range
  <2> QED
    BY <2>1, <2>2
<1>3. ASSUME NEW k \in 1..(Len(q) - 1) PROVE Tail(q)[k] \in Range(q)
  BY <1>1 DEF Range
<1>4. Head(q) \in Range(q)
  BY <1>1 DEF Range
<1> QED
  BY <1>1, <1>2, <1>3, <1>4 DEF Range

LEMMA Empty == Range(<< >>) = {} /\ ~Asks(<< >>) /\ Carried(<< >>) = {}
  BY DEF Range, Asks, Carried

(* A frame that is put in a queue, and one that is taken out.               *)
LEMMA FrameIn ==
  ASSUME NEW q \in Seq(Message), NEW m \in Message
  PROVE  /\ Append(q, m) \in Seq(Message) /\ Append(q, m) # << >>
         /\ Range(Append(q, m)) = Range(q) \cup {m}
         /\ Asks(Append(q, m)) <=> Asks(q) \/ m.type = "step1"
         /\ m.type = "step1" => Carried(Append(q, m)) = Carried(q)
         /\ m.type # "step1" => Carried(Append(q, m)) = Carried(q) \cup m.edits
<1>1. /\ Append(q, m) \in Seq(Message) /\ Append(q, m) # << >>
      /\ Range(Append(q, m)) = Range(q) \cup {m}
  BY RangeAppend
<1> QED
  BY <1>1 DEF Asks, Carried

LEMMA FrameOut ==
  ASSUME NEW q \in Seq(Message), q # << >>
  PROVE  /\ Tail(q) \in Seq(Message) /\ Head(q) \in Message
         /\ Range(q) = Range(Tail(q)) \cup {Head(q)}
         /\ Asks(q) <=> Asks(Tail(q)) \/ Head(q).type = "step1"
         /\ Head(q).type = "step1" => Carried(q) = Carried(Tail(q))
         /\ Head(q).type # "step1" => Carried(q) = Carried(Tail(q)) \cup Head(q).edits
<1>1. /\ Tail(q) \in Seq(Message) /\ Head(q) \in Message
      /\ Range(q) = Range(Tail(q)) \cup {Head(q)}
  BY RangeTail
<1> QED
  BY <1>1 DEF Asks, Carried

LEMMA Frames ==
  ASSUME NEW S \in SUBSET Edit
  PROVE  /\ Step1(S) \in Message /\ Step1(S).type = "step1" /\ Step1(S).edits = Visible(S)
         /\ Update(S) \in Message /\ Update(S).type # "step1" /\ Update(S).edits = S
         /\ \A m \in Message : /\ Step2(S, m) \in Message /\ Step2(S, m).type # "step1"
                               /\ Step2(S, m).edits = S \ m.edits
  BY DEF Step1, Step2, Update, Message, Visible
-----------------------------------------------------------------------------
(* What a Y.Doc shows.                                                      *)
LEMMA Shows ==
  ASSUME NEW S \in SUBSET Edit
  PROVE  /\ Visible(S) \subseteq S
         /\ \A T : Visible(S) \subseteq Visible(S \cup T)
         /\ \A e \in Visible(S) : \A k \in 1..e[2] : <<e[1], k>> \in Visible(S)
<1>1. Visible(S) \subseteq S /\ \A T : Visible(S) \subseteq Visible(S \cup T)
  BY DEF Visible
<1>2. ASSUME NEW e \in Visible(S), NEW k \in 1..e[2]
      PROVE  <<e[1], k>> \in Visible(S)
  <2>1. e \in S /\ e[2] \in Nat /\ \A n \in 1..e[2] : <<e[1], n>> \in S
    BY DocSyncAssumption DEF Visible, Edit
  <2>2. \A n \in 1..k : n \in 1..e[2]
    BY <2>1
  <2> QED
    BY <2>1, <2>2 DEF Visible
<1> QED
  BY <1>1, <1>2

(* What one document shows and another does not, the other lacks, itself or  *)
(* a predecessor that is shown too.                                         *)
LEMMA Lacks ==
  ASSUME NEW S \in SUBSET Edit, NEW T, NEW e \in Visible(S) \ Visible(T)
  PROVE  \E k \in 1..e[2] : <<e[1], k>> \in Visible(S) \ T
<1>1. e[2] \in 1..e[2] /\ <<e[1], e[2]>> = e
  BY Shows, DocSyncAssumption DEF Edit
<1>2. e \in T => \E k \in 1..e[2] : <<e[1], k>> \notin T
  BY DEF Visible
<1> QED
  BY <1>1, <1>2, Shows
-----------------------------------------------------------------------------
TabRecord == [status : {"away", "connecting", "synced", "reconnecting", "closed"},
              ready : BOOLEAN, retry : BOOLEAN]
PeerRecord == [tab : Tab \cup {None}, inst : Inst \cup {None},
               at : {"free", "connecting", "early", "joined"}, untold : SUBSET Edit]

LEMMA FreeIs == Free \in PeerRecord /\ Free.at = "free"
  BY DEF Free, PeerRecord

LEMMA InitInv == Init => Inv
<1> SUFFICES ASSUME Init PROVE Inv
  OBVIOUS
<1> DEFINE s1 == CHOOSE s \in Sock : TRUE
           opening == [Free EXCEPT !.tab = First, !.inst = Home, !.at = "connecting"]
<1>1. s1 \in Sock /\ First \in Tab /\ Home \in Inst /\ None \notin Sock
  BY DocSyncAssumption
<1>2. opening \in PeerRecord /\ opening.tab = First /\ opening.inst = Home /\ opening.at = "connecting"
  BY <1>1 DEF Free, PeerRecord
<1>3. /\ peer = [s \in Sock |-> IF s # s1 THEN Free ELSE opening]
      /\ socket = [c \in Tab |-> IF c = First THEN s1 ELSE None]
      /\ tab = [c \in Tab |-> IF c = First
                 THEN [status |-> "reconnecting", ready |-> TRUE, retry |-> FALSE]
                 ELSE [status |-> "away", ready |-> FALSE, retry |-> FALSE]]
      /\ up = [s \in Sock |-> << >>] /\ down = [s \in Sock |-> << >>]
      /\ live = {} /\ sub = {} /\ bus = [i \in Inst |-> << >>]
  BY DEF Init
<1> HIDE DEF s1, opening
<1>4. /\ peer \in [Sock -> PeerRecord] /\ peer[s1] = opening
      /\ \A s \in Sock : peer[s].at = IF s = s1 THEN "connecting" ELSE "free"
  BY <1>1, <1>2, <1>3, FreeIs
<1>5. TypeOK
  <2>1. tab \in [Tab -> TabRecord]
    BY <1>3 DEF TabRecord
  <2>2. /\ doc \in [Tab -> SUBSET Edit] /\ room \in [Inst -> SUBSET Edit] /\ log \subseteq Edit
        /\ missed \in [Inst -> SUBSET Edit] /\ breaks \in 0..MaxBreaks /\ allowed \subseteq Tab
    BY DocSyncAssumption DEF Init, Edit
  <2>3. \A i \in Inst : ConnsOf(i) = {}
    BY <1>4 DEF ConnsOf
  <2>4. up \in [Sock -> Seq(Message)] /\ down \in [Sock -> Seq(Message)]
    <3>1. << >> \in Seq(Message)
      OBVIOUS
    <3> QED
      BY <1>3, <3>1
  <2>5. bus \in [Inst -> Seq(SUBSET Edit)] /\ \A i \in Inst : bus[i] = << >>
    <3>1. << >> \in Seq(SUBSET Edit)
      OBVIOUS
    <3> QED
      BY <1>3, <3>1
  <2> QED
    BY <1>1, <1>3, <1>4, <2>1, <2>2, <2>3, <2>4, <2>5 DEF TypeOK, TabRecord, PeerRecord
<1>6. SocketsOK
  BY <1>1, <1>2, <1>3, <1>4 DEF SocketsOK, Used
<1>7. Synced
  BY <1>3, <1>4, Empty DEF Synced, Used
<1>8. Covered
  BY <1>3 DEF Covered
<1> QED
  BY <1>5, <1>6, <1>7, <1>8 DEF Inv

LEMMA Now ==
  ASSUME Inv
  PROVE  /\ tab \in [Tab -> TabRecord] /\ peer \in [Sock -> PeerRecord]
         /\ \A s \in Sock : peer[s].at = "joined" => peer[s].inst \in live
         /\ up \in [Sock -> Seq(Message)] /\ down \in [Sock -> Seq(Message)]
         /\ live \subseteq Inst /\ sub \subseteq live
         /\ \A i \in live : ConnsOf(i) # {}
         /\ \A i \in Inst : InBus(i) \subseteq Edit
<1>1. \A i \in Inst : InBus(i) \subseteq Edit
  <2> SUFFICES ASSUME NEW i \in Inst PROVE InBus(i) \subseteq Edit
    OBVIOUS
  <2>1. bus[i] \in Seq(SUBSET Edit)
    BY DEF Inv, TypeOK
  <2>2. \A k \in DOMAIN bus[i] : bus[i][k] \subseteq Edit
    BY <2>1
  <2> QED
    BY <2>2 DEF InBus, Range
<1>2. \A s \in Sock : peer[s].at = "joined" => peer[s].inst \in live
  BY DEF Inv, TypeOK, SocketsOK, Used, ConnsOf
<1> QED
  BY <1>1, <1>2 DEF Inv, TypeOK, TabRecord, PeerRecord
-----------------------------------------------------------------------------
(* Sockets that end, and the one, if any, that begins for a tab.            *)
Begins(S, opened, fresh, opening) ==
  \/ opened = << >> /\ fresh \notin Sock
  \/ /\ fresh \in Sock \ S /\ ~Used(fresh) /\ opened = [s \in {fresh} |-> opening]
     /\ opening \in PeerRecord /\ opening.at = "connecting"
     /\ opening.tab \in Tab /\ opening.inst \in Inst

TabsFollow(S, fresh, opening) ==
  /\ tab' \in [Tab -> TabRecord] /\ socket' \in [Tab -> Sock \cup {None}]
  /\ \A c \in Tab :
       /\ IF fresh \in Sock /\ c = opening.tab
          THEN /\ socket[c] \in S \cup {None} /\ socket'[c] = fresh
               /\ tab'[c].status # "away" /\ ~tab'[c].retry
          ELSE socket'[c] = IF socket[c] \in S THEN None ELSE socket[c]
       /\ tab'[c].status = "away" \/ tab'[c].retry => socket'[c] = None
       /\ tab'[c].retry => tab'[c].status = "reconnecting"

LEMMA EndsInv ==
  ASSUME Inv, NEW S, NEW crashed, NEW opened, NEW fresh, NEW opening,
         Ends(S, crashed, opened), Begins(S, opened, fresh, opening),
         TabsFollow(S, fresh, opening),
         doc' = doc, allowed' \subseteq Tab, breaks' \in 0..MaxBreaks
  PROVE  Inv'
<1> USE DEF Begins, TabsFollow
<1> DEFINE gone == Deserted(S)
<1>1. /\ \A s \in Sock : peer'[s] = IF s = fresh THEN opening ELSE IF s \in S THEN Free ELSE peer[s]
      /\ peer' \in [Sock -> PeerRecord]
      /\ \A s \in Sock : up'[s] = IF s \in S THEN << >> ELSE up[s]
      /\ \A s \in Sock : down'[s] = IF s \in S THEN << >> ELSE down[s]
      /\ live' = live \ gone /\ sub' = sub \ gone
      /\ room' = [i \in Inst |-> IF i \in gone THEN {} ELSE room[i]]
      /\ bus' = [i \in Inst |-> IF i \in gone THEN << >> ELSE bus[i]]
      /\ missed' = [i \in Inst |-> IF i \in gone THEN {} ELSE missed[i]]
      /\ log' = log \cup UNION {Visible(room[i]) : i \in gone \ crashed}
  <2>1. \A s \in Sock : s \in DOMAIN opened <=> s = fresh
    OBVIOUS
  <2>2. \A s \in Sock : s = fresh => opened[s] = opening /\ opening \in PeerRecord
    OBVIOUS
  <2>3. peer' = [s \in Sock |-> IF s = fresh THEN opening ELSE IF s \in S THEN Free ELSE peer[s]]
    BY <2>1, <2>2 DEF Ends
  <2>4. peer' \in [Sock -> PeerRecord]
    BY <2>2, <2>3, Now, FreeIs
  <2> QED
    BY <2>3, <2>4 DEF Ends
<1>2. gone \subseteq live /\ \A i \in live : i \in gone <=> ConnsOf(i) \subseteq S
  BY DEF Deserted
<1> HIDE DEF gone
<1>3. \A s \in Sock : Used(s)' /\ s # fresh => s \notin S /\ peer'[s] = peer[s] /\ Used(s)
                                               /\ up'[s] = up[s] /\ down'[s] = down[s]
  BY <1>1, FreeIs DEF Used
<1>4. fresh \in Sock => /\ peer'[fresh] = opening /\ up'[fresh] = << >> /\ down'[fresh] = << >>
                        /\ opening.at = "connecting" /\ opening.tab \in Tab /\ opening.inst \in Inst
                        /\ opening \in PeerRecord /\ fresh \notin S /\ ~Used(fresh)
  BY <1>1 DEF Inv, SocketsOK, Used
<1>5. \A i \in Inst : ConnsOf(i)' = ConnsOf(i) \ S
  BY <1>1, <1>4, FreeIs DEF ConnsOf, Used
<1>6. \A s \in Sock : peer'[s].at = "joined" =>
        /\ s # fresh /\ peer'[s] = peer[s] /\ peer[s].inst \in live' /\ peer[s].inst \in Inst
        /\ room'[peer[s].inst] = room[peer[s].inst]
  BY <1>1, <1>2, <1>3, <1>4, Now DEF Used, ConnsOf
<1>7. log' \subseteq Edit
  <2>1. \A i \in Inst : Visible(room[i]) \subseteq Edit
    BY Shows DEF Inv, TypeOK
  <2>2. gone \subseteq Inst /\ log \subseteq Edit
    BY <1>2 DEF Inv, TypeOK
  <2> QED
    BY <1>1, <2>1, <2>2
<1>8. live' = {i \in Inst : ConnsOf(i)' # {}}
  <2>1. live = {i \in Inst : ConnsOf(i) # {}} /\ live' = live \ gone
    BY <1>1 DEF Inv, TypeOK
  <2>2. \A i \in Inst : ConnsOf(i)' # {} <=> ~(ConnsOf(i) \subseteq S)
    BY <1>5
  <2> QED
    BY <1>2, <2>1, <2>2
<1>9. TypeOK'
  <2>1. up' \in [Sock -> Seq(Message)] /\ down' \in [Sock -> Seq(Message)]
    <3>1. << >> \in Seq(Message)
      OBVIOUS
    <3> QED
      BY <3>1, Now DEF Ends
  <2>2. room' \in [Inst -> SUBSET Edit] /\ missed' \in [Inst -> SUBSET Edit] /\ sub' \subseteq live'
    BY <1>1 DEF Inv, TypeOK
  <2>3. bus' \in [Inst -> Seq(SUBSET Edit)] /\ \A i \in Inst : bus'[i] # << >> => i \in sub'
    <3>1. << >> \in Seq(SUBSET Edit)
      OBVIOUS
    <3>2. bus' \in [Inst -> Seq(SUBSET Edit)]
      BY <1>1, <3>1 DEF Inv, TypeOK
    <3> QED
      BY <1>1, <3>2 DEF Inv, TypeOK
  <2>4. doc' \in [Tab -> SUBSET Edit]
    BY DEF Inv, TypeOK
  <2>5. live' = {i \in Inst : ConnsOf(i) # {}}'
    BY <1>8
  <2> QED
    BY <1>1, <1>7, <2>1, <2>2, <2>3, <2>4, <2>5 DEF TypeOK, TabRecord, PeerRecord
<1>10. SocketsOK'
  <2>1. ASSUME NEW s \in Sock, Used(s)'
        PROVE  peer'[s].tab \in Tab /\ peer'[s].inst \in Inst /\ socket'[peer'[s].tab] = s
    <3>1. CASE s = fresh
      BY <1>4, <3>1
    <3>2. CASE s # fresh
      <4>1. /\ peer'[s] = peer[s] /\ s \notin S
            /\ peer[s].tab \in Tab /\ peer[s].inst \in Inst /\ socket[peer[s].tab] = s
        BY <1>3, <2>1, <3>2 DEF Inv, SocketsOK
      <4>2. ~(fresh \in Sock /\ peer[s].tab = opening.tab)
        BY <4>1, DocSyncAssumption
      <4> QED
        BY <4>1, <4>2
    <3> QED
      BY <3>1, <3>2
  <2>2. ASSUME NEW c \in Tab, socket'[c] # None
        PROVE  peer'[socket'[c]].at # "free" /\ peer'[socket'[c]].tab = c
    <3>1. CASE fresh \in Sock /\ c = opening.tab
      <4>1. socket'[c] = fresh
        BY <3>1
      <4> QED
        BY <1>4, <3>1, <4>1
    <3>2. CASE ~(fresh \in Sock /\ c = opening.tab)
      <4>1. /\ socket'[c] = socket[c] /\ socket[c] \notin S /\ Used(socket[c])
            /\ peer[socket[c]].tab = c /\ socket[c] \in Sock
        BY <2>2, <3>2 DEF Inv, SocketsOK, TypeOK
      <4>2. peer'[socket[c]] = peer[socket[c]]
        BY <1>1, <1>4, <4>1
      <4> QED
        BY <4>1, <4>2 DEF Used
    <3> QED
      BY <3>1, <3>2
  <2>3. ASSUME NEW s \in Sock
        PROVE  /\ peer'[s].at \in {"free", "connecting"} => up'[s] = << >>
               /\ peer'[s].at # "joined" => down'[s] = << >>
               /\ peer'[s].at = "early" => Asks(up'[s])
    BY <1>1, <1>4, FreeIs DEF Inv, SocketsOK
  <2> QED
    <3>1. \A c \in Tab : /\ tab'[c].status = "away" \/ tab'[c].retry => socket'[c] = None
                         /\ tab'[c].retry => tab'[c].status = "reconnecting"
      OBVIOUS
    <3> QED
      BY <2>1, <2>2, <2>3, <3>1 DEF SocketsOK, Used
<1>11. Synced'
  <2>1. ASSUME NEW s \in Sock, Used(s)'
        PROVE  \A m \in Range(up'[s]) : m.edits \subseteq doc[peer'[s].tab]
    <3>1. CASE s = fresh
      BY <1>4, <3>1, Empty
    <3>2. CASE s # fresh
      BY <1>3, <2>1, <3>2 DEF Inv, Synced
    <3> QED
      BY <3>1, <3>2
  <2>2. ASSUME NEW s \in Sock, peer'[s].at = "joined"
        PROVE  LET d == doc[peer'[s].tab]
                   r == room'[peer'[s].inst] IN
               /\ \A m \in Range(down'[s]) : m.edits \subseteq r
               /\ Asks(down'[s]) \/ d \subseteq r \cup Carried(up'[s])
               /\ Asks(up'[s]) \/ Visible(r) \subseteq d \cup Carried(down'[s]) \cup peer'[s].untold
    <3>1. /\ peer'[s] = peer[s] /\ room'[peer[s].inst] = room[peer[s].inst] /\ Used(s)
          /\ up'[s] = up[s] /\ down'[s] = down[s]
      BY <1>3, <1>6, <2>2 DEF Used
    <3> QED
      BY <2>2, <3>1 DEF Inv, Synced
  <2> QED
    BY <2>1, <2>2 DEF Synced, Used
<1>12. Covered'
  <2>1. \A i \in live' : i \in live /\ room'[i] = room[i] /\ InBus(i)' = InBus(i) /\ Known(i)' = Known(i)
    BY <1>1, Now DEF InBus, Known
  <2>2. \A i \in live : log' \subseteq Known(i)
    BY <1>1, <1>2 DEF Inv, Covered
  <2>3. ASSUME NEW i \in live'
        PROVE  log' \subseteq Known(i)'
    BY <2>1, <2>2, <2>3
  <2>4. ASSUME NEW i \in live', NEW j \in live'
        PROVE  Visible(room'[j]) \cup InBus(j)' \subseteq Known(i)'
    BY <2>1, <2>4 DEF Inv, Covered
  <2> QED
    BY <2>3, <2>4 DEF Covered
<1> QED
  BY <1>9, <1>10, <1>11, <1>12 DEF Inv

LEMMA Breaks == Inv /\ (MayBreak \/ UNCHANGED breaks) => breaks' \in 0..MaxBreaks
  BY DocSyncAssumption DEF Inv, TypeOK, MayBreak

LEMMA ConnectsInv ==
  ASSUME Inv, NEW c \in Tab, NEW i \in Inst, Connects(c, i, socket[c]),
         tab' \in [Tab -> TabRecord], \A d \in Tab \ {c} : tab'[d] = tab[d],
         tab'[c].status # "away", ~tab'[c].retry,
         doc' = doc, allowed' = allowed, MayBreak \/ UNCHANGED breaks
  PROVE  Inv'
<1> DEFINE fresh == Fresh
           opening == [Free EXCEPT !.tab = c, !.inst = i, !.at = "connecting"]
           S == {socket[c]}
<1>1. fresh \in Sock /\ ~Used(fresh)
  BY DEF Connects, Used, Fresh
<1>2. opening \in PeerRecord /\ opening.tab = c /\ opening.inst = i /\ opening.at = "connecting"
  BY DEF Free, PeerRecord
<1>3. fresh \in Sock \ S
  BY <1>1, DocSyncAssumption DEF Inv, SocketsOK
<1>4. socket' = [socket EXCEPT ![c] = fresh] /\ Ends(S, {}, [s \in {fresh} |-> opening])
  BY DEF Connects, Opening
<1> HIDE DEF fresh, opening
<1>5. socket \in [Tab -> Sock \cup {None}] /\ socket' \in [Tab -> Sock \cup {None}]
  BY <1>1, <1>4 DEF Inv, TypeOK
<1>6. TabsFollow(S, fresh, opening)
  <2>1. \A d \in Tab \ {c} : socket[d] \in S => socket[d] = None
    BY DEF Inv, SocketsOK
  <2>2. /\ \A d \in Tab \ {c} : socket'[d] = socket[d] /\ tab'[d] = tab[d]
        /\ socket'[c] = fresh /\ c = opening.tab
    BY <1>2, <1>4, <1>5
  <2> QED
    BY <1>1, <1>5, <2>1, <2>2 DEF TabsFollow, Inv, SocketsOK
<1>7. Begins(S, [s \in {fresh} |-> opening], fresh, opening)
  BY <1>1, <1>2, <1>3 DEF Begins
<1>8. allowed' \subseteq Tab /\ breaks' \in 0..MaxBreaks
  BY Breaks DEF Inv, TypeOK
<1> HIDE DEF S
<1> QED
  BY <1>4, <1>6, <1>7, <1>8, EndsInv

LEMMA NoneOpens ==
  ASSUME Inv, NEW S, NEW crashed, Ends(S, crashed, << >>),
         tab' \in [Tab -> TabRecord], socket' \in [Tab -> Sock \cup {None}],
         \A c \in Tab : socket'[c] = IF socket[c] \in S THEN None ELSE socket[c],
         \A c \in Tab : /\ tab'[c].status = "away" \/ tab'[c].retry => socket'[c] = None
                        /\ tab'[c].retry => tab'[c].status = "reconnecting",
         doc' = doc, allowed' \subseteq Tab, MayBreak \/ UNCHANGED breaks
  PROVE  Inv'
<1>1. Begins(S, << >>, None, Free)
  BY DocSyncAssumption DEF Begins
<1>2. TabsFollow(S, None, Free)
  BY DocSyncAssumption DEF TabsFollow
<1>3. breaks' \in 0..MaxBreaks
  BY Breaks
<1> QED
  BY <1>1, <1>2, <1>3, EndsInv

LEMMA HearsInv ==
  ASSUME Inv, NEW S \in SUBSET Sock, NEW crashed, NEW terminal \in BOOLEAN,
         Hears(S, terminal), Ends(S, crashed, << >>), allowed' \subseteq Tab,
         MayBreak \/ UNCHANGED breaks
  PROVE  Inv'
<1>1. /\ tab' = [c \in Tab |-> IF socket[c] \notin S THEN tab[c]
                               ELSE [tab[c] EXCEPT !.status = IF terminal THEN "closed"
                                                              ELSE "reconnecting",
                                                   !.retry = ~terminal]]
      /\ socket' = [c \in Tab |-> IF socket[c] \in S THEN None ELSE socket[c]]
      /\ doc' = doc
  BY DEF Hears
<1>2. tab' \in [Tab -> TabRecord]
  BY <1>1, Now DEF TabRecord
<1>3. socket' \in [Tab -> Sock \cup {None}]
  BY <1>1 DEF Inv, TypeOK
<1>4. ASSUME NEW c \in Tab
      PROVE  /\ tab'[c].status = "away" \/ tab'[c].retry => socket'[c] = None
             /\ tab'[c].retry => tab'[c].status = "reconnecting"
  <2>1. tab[c] \in TabRecord
    BY Now
  <2>2. CASE socket[c] \notin S
    BY <1>1, <2>2 DEF Inv, SocketsOK
  <2>3. CASE socket[c] \in S /\ terminal
    BY <1>1, <2>1, <2>3 DEF TabRecord
  <2>4. CASE socket[c] \in S /\ ~terminal
    BY <1>1, <2>1, <2>4 DEF TabRecord
  <2> QED
    BY <2>2, <2>3, <2>4
<1> QED
  BY <1>1, <1>2, <1>3, <1>4, NoneOpens

LEMMA SocketsEndInv ==
  ASSUME Inv, \/ \E s \in Sock : Drop(s) \/ Refuse(s)
              \/ \E i \in Inst : Crash(i)
              \/ \E c \in Tab, i \in Inst : Revoke(c, i)
  PROVE  Inv'
<1>0. allowed \subseteq Tab
  BY DEF Inv, TypeOK
<1>1. ASSUME NEW s \in Sock, Drop(s) PROVE Inv'
  BY <1>0, <1>1, HearsInv DEF Drop
<1>2. ASSUME NEW s \in Sock, Refuse(s) PROVE Inv'
  BY <1>0, <1>2, HearsInv DEF Refuse
<1>3. ASSUME NEW i \in Inst, Crash(i) PROVE Inv'
  BY <1>0, <1>3, HearsInv DEF Crash
<1>4. ASSUME NEW c \in Tab, NEW i \in Inst, Revoke(c, i) PROVE Inv'
  BY <1>0, <1>4, HearsInv DEF Revoke, ConnsOf
<1> QED
  BY <1>1, <1>2, <1>3, <1>4

LEMMA TabsConnectInv ==
  ASSUME Inv, NEW c \in Tab, NEW i \in Inst, OpenTab(c, i) \/ Retry(c, i) \/ HandleOnline(c, i)
  PROVE  Inv'
<1>1. tab \in [Tab -> TabRecord]
  BY Now
<1>2. CASE OpenTab(c, i)
  <2>1. socket[c] = None
    BY <1>2 DEF OpenTab, Inv, SocketsOK
  <2>2. tab' = [tab EXCEPT ![c] = [status |-> "connecting", ready |-> doc[c] # {}, retry |-> FALSE]]
    BY <1>2 DEF OpenTab
  <2>3. /\ tab' \in [Tab -> TabRecord] /\ \A d \in Tab \ {c} : tab'[d] = tab[d]
        /\ tab'[c].status # "away" /\ ~tab'[c].retry
    BY <1>1, <2>2 DEF TabRecord
  <2> QED
    BY <1>2, <2>1, <2>3, ConnectsInv DEF OpenTab
<1>3. CASE Retry(c, i) \/ HandleOnline(c, i)
  <2>1. tab' = [tab EXCEPT ![c].retry = FALSE] /\ tab[c].status # "away"
    <3>1. tab[c].retry => tab[c].status # "away"
      BY DEF Inv, SocketsOK
    <3> QED
      BY <1>3, <3>1 DEF Retry, HandleOnline
  <2>3. /\ tab' \in [Tab -> TabRecord] /\ \A d \in Tab \ {c} : tab'[d] = tab[d]
        /\ tab'[c].status # "away" /\ ~tab'[c].retry
    BY <1>1, <2>1 DEF TabRecord
  <2> QED
    BY <1>3, <2>3, ConnectsInv DEF Retry, HandleOnline
<1> QED
  BY <1>2, <1>3

LEMMA CloseTabInv == ASSUME Inv, NEW c \in Tab, CloseTab(c) PROVE Inv'
<1> DEFINE S == {socket[c]}
<1>1. Ends(S, {}, << >>) /\ doc' = doc /\ allowed' \subseteq Tab /\ MayBreak
  BY DEF CloseTab, Inv, TypeOK
<1>2. /\ tab' = [tab EXCEPT ![c] = [status |-> "away", ready |-> FALSE, retry |-> FALSE]]
      /\ socket' = [socket EXCEPT ![c] = None]
  BY DEF CloseTab
<1>3. tab' \in [Tab -> TabRecord]
  BY <1>2, Now DEF TabRecord
<1>4. socket \in [Tab -> Sock \cup {None}] /\ socket' \in [Tab -> Sock \cup {None}]
  BY <1>2 DEF Inv, TypeOK
<1>5. \A d \in Tab : socket'[d] = IF socket[d] \in S THEN None ELSE socket[d]
  <2>1. \A d \in Tab \ {c} : socket[d] \in S => socket[d] = None
    BY DEF Inv, SocketsOK
  <2> QED
    BY <1>2, <1>4, <2>1
<1>6. \A d \in Tab : /\ tab'[d].status = "away" \/ tab'[d].retry => socket'[d] = None
                     /\ tab'[d].retry => tab'[d].status = "reconnecting"
  BY <1>2, <1>4 DEF Inv, SocketsOK, TypeOK
<1> HIDE DEF S
<1> QED
  BY <1>1, <1>3, <1>4, <1>5, <1>6, NoneOpens
-----------------------------------------------------------------------------
(* The tab's handlers: they touch a document and one queue at most.         *)
LEMMA SocketOpensInv == ASSUME Inv, NEW c \in Tab, SocketOpens(c) PROVE Inv'
<1> DEFINE s == socket[c]
           q == Append(up[s], Step1(doc[c]))
<1>1. /\ s \in Sock /\ peer[s].at = "connecting" /\ peer[s] \in PeerRecord
      /\ Used(s) /\ peer[s].tab = c
  BY Now DEF SocketOpens, Inv, TypeOK, SocketsOK
<1>2. /\ peer' = [peer EXCEPT ![s].at = "early"] /\ up' = [up EXCEPT ![s] = q]
      /\ UNCHANGED <<tab, socket, doc, down, room, live, sub, bus, missed, log, allowed, breaks>>
  BY DEF SocketOpens, Kept, tabVars, roomVars
<1>3. up[s] = << >> /\ up[s] \in Seq(Message) /\ doc[c] \in SUBSET Edit
  BY <1>1, Now DEF Inv, SocketsOK, TypeOK
<1>4. /\ q \in Seq(Message) /\ Asks(q)
      /\ \A m \in Range(q) : m.edits \subseteq doc[c]
  <2> DEFINE m == Step1(doc[c])
  <2>1. m \in Message /\ m.type = "step1" /\ m.edits \subseteq doc[c]
    BY <1>3, Frames, Shows
  <2> HIDE DEF m
  <2>2. Range(up[s]) = {}
    BY <1>3, Empty
  <2>3. /\ Append(up[s], m) \in Seq(Message) /\ Asks(Append(up[s], m))
        /\ Range(Append(up[s], m)) = Range(up[s]) \cup {m}
    BY <1>3, <2>1, FrameIn
  <2> QED
    BY <2>1, <2>2, <2>3 DEF m
<1> HIDE DEF q, s
<1>5. /\ peer' \in [Sock -> PeerRecord]
      /\ peer'[s].at = "early" /\ peer'[s].tab = peer[s].tab /\ peer'[s].inst = peer[s].inst
      /\ \A t \in Sock \ {s} : peer'[t] = peer[t]
  BY <1>1, <1>2, Now DEF PeerRecord
<1>6. up'[s] = q /\ \A t \in Sock \ {s} : up'[t] = up[t]
  BY <1>1, <1>2 DEF Inv, TypeOK
<1>7. \A i \in Inst : ConnsOf(i)' = ConnsOf(i)
  BY <1>1, <1>5 DEF ConnsOf
<1>8. TypeOK'
  <2>1. live' = {i \in Inst : ConnsOf(i)' # {}}
    BY <1>2, <1>7 DEF Inv, TypeOK
  <2>2. up' \in [Sock -> Seq(Message)] /\ down' \in [Sock -> Seq(Message)]
    BY <1>2, <1>4, Now
  <2> QED
    BY <1>2, <1>5, <2>1, <2>2 DEF Inv, TypeOK, PeerRecord
<1>9. SocketsOK'
  BY <1>1, <1>2, <1>4, <1>5, <1>6 DEF Inv, SocketsOK, Used
<1>10. Synced'
  BY <1>1, <1>2, <1>4, <1>5, <1>6 DEF Inv, Synced, Used
<1>11. Covered'
  BY <1>2 DEF Inv, Covered, Known, InBus
<1> QED
  BY <1>8, <1>9, <1>10, <1>11 DEF Inv

(* The shape of a step in which only tabs, documents and queues change.     *)
LEMMA QueuesInv ==
  ASSUME Inv, NEW s \in Sock,
         UNCHANGED <<socket, peer, live, sub, room, bus, missed, log, allowed, breaks>>,
         Used(s),
         tab' \in [Tab -> TabRecord],
         \A c \in Tab : tab'[c].retry = tab[c].retry,
         \A c \in Tab : tab'[c] = tab[c] \/ (c = peer[s].tab /\ tab'[c].status = "synced"),
         doc' \in [Tab -> SUBSET Edit],
         \A c \in Tab \ {peer[s].tab} : doc'[c] = doc[c],
         up' \in [Sock -> Seq(Message)], down' \in [Sock -> Seq(Message)],
         \A t \in Sock \ {s} : up'[t] = up[t] /\ down'[t] = down[t],
         peer[s].at = "early" => Asks(up'[s]),
         peer[s].at = "connecting" => up'[s] = << >>,
         peer[s].at # "joined" => down'[s] = << >>,
         \A m \in Range(up'[s]) : m.edits \subseteq doc'[peer[s].tab],
         peer[s].at = "joined" =>
           LET d == doc'[peer[s].tab]
               r == room[peer[s].inst] IN
           /\ \A m \in Range(down'[s]) : m.edits \subseteq r
           /\ Asks(down'[s]) \/ d \subseteq r \cup Carried(up'[s])
           /\ Asks(up'[s]) \/ Visible(r) \subseteq d \cup Carried(down'[s]) \cup peer[s].untold
  PROVE  Inv'
<1>1. peer[s].tab \in Tab /\ socket[peer[s].tab] = s
  BY DEF Inv, SocketsOK
<1>2. s # None
  BY DocSyncAssumption
<1>3. TypeOK'
  <2>1. \A i \in Inst : ConnsOf(i)' = ConnsOf(i)
    BY DEF ConnsOf
  <2>2. live' = {i \in Inst : ConnsOf(i)' # {}}
    BY <2>1 DEF Inv, TypeOK
  <2> QED
    BY <2>2 DEF Inv, TypeOK, TabRecord
<1>4. SocketsOK'
  <2>1. ASSUME NEW c \in Tab
        PROVE  /\ tab'[c].status = "away" \/ tab'[c].retry => socket[c] = None
               /\ tab'[c].retry => tab'[c].status = "reconnecting"
    <3>1. CASE tab'[c] = tab[c]
      BY <3>1 DEF Inv, SocketsOK
    <3>2. CASE c = peer[s].tab /\ tab'[c].status = "synced"
      BY <1>1, <1>2, <3>2 DEF Inv, SocketsOK
    <3> QED
      BY <3>1, <3>2
  <2>2. ASSUME NEW t \in Sock
        PROVE  /\ peer[t].at \in {"free", "connecting"} => up'[t] = << >>
               /\ peer[t].at # "joined" => down'[t] = << >>
               /\ peer[t].at = "early" => Asks(up'[t])
    BY DEF Inv, SocketsOK, Used
  <2> QED
    BY <2>1, <2>2 DEF Inv, SocketsOK, Used
<1>5. Synced'
  <2>1. ASSUME NEW t \in Sock, t # s, Used(t)
        PROVE  peer[t].tab \in Tab \ {peer[s].tab} /\ up'[t] = up[t] /\ down'[t] = down[t]
    BY <1>1, <2>1 DEF Inv, SocketsOK
  <2> QED
    BY <2>1 DEF Inv, Synced, Used
<1>6. Covered'
  BY DEF Inv, Covered, Known, InBus
<1> QED
  BY <1>3, <1>4, <1>5, <1>6 DEF Inv

LEMMA TabHandlesInv == ASSUME Inv, NEW c \in Tab, TabHandles(c) PROVE Inv'
<1> DEFINE s == socket[c]
           m == Head(down[s])
           d == doc[c]
           r == room[peer[s].inst]
<1>1. /\ s \in Sock /\ down[s] # << >> /\ Used(s) /\ peer[s].at = "joined" /\ peer[s].tab = c
  BY DEF TabHandles, Inv, TypeOK, SocketsOK
<1>2. /\ down' = [down EXCEPT ![s] = Tail(down[s])]
      /\ tab' = [tab EXCEPT ![c].status = "synced", ![c].ready = TRUE]
      /\ UNCHANGED <<socket, peer, live, sub, room, bus, missed, log, allowed, breaks>>
      /\ IF m.type = "step1" THEN up' = [up EXCEPT ![s] = Append(up[s], Step2(d, m))] /\ doc' = doc
         ELSE doc' = [doc EXCEPT ![c] = d \cup m.edits] /\ up' = up
  BY DEF TabHandles, Answer, roomVars
<1>3. /\ down[s] \in Seq(Message) /\ up[s] \in Seq(Message) /\ m \in Message /\ d \in SUBSET Edit
      /\ Tail(down[s]) \in Seq(Message) /\ m.edits \subseteq Edit
  BY <1>1, Now, FrameOut DEF Inv, TypeOK, Message
<1>4. /\ \A n \in Range(up[s]) : n.edits \subseteq d
      /\ \A n \in Range(down[s]) : n.edits \subseteq r
      /\ Asks(down[s]) \/ d \subseteq r \cup Carried(up[s])
      /\ Asks(up[s]) \/ Visible(r) \subseteq d \cup Carried(down[s]) \cup peer[s].untold
  BY <1>1 DEF Inv, Synced
<1>5. /\ Range(down[s]) = Range(Tail(down[s])) \cup {m}
      /\ Asks(down[s]) <=> Asks(Tail(down[s])) \/ m.type = "step1"
      /\ m.type = "step1" => Carried(down[s]) = Carried(Tail(down[s]))
      /\ m.type # "step1" => Carried(down[s]) = Carried(Tail(down[s])) \cup m.edits
  BY <1>1, <1>3, FrameOut
<1>6. /\ tab' \in [Tab -> TabRecord]
      /\ \A b \in Tab : tab'[b].retry = tab[b].retry
      /\ \A b \in Tab : tab'[b] = tab[b] \/ (b = peer[s].tab /\ tab'[b].status = "synced")
  BY <1>1, <1>2, Now DEF TabRecord
<1>7. /\ down'[s] = Tail(down[s]) /\ \A t \in Sock \ {s} : down'[t] = down[t]
      /\ down' \in [Sock -> Seq(Message)]
  BY <1>1, <1>2, <1>3, Now
<1> HIDE DEF s, m, d, r
<1>8. CASE m.type = "step1"
  <2> DEFINE a == Step2(d, m)
  <2>1. a \in Message /\ a.type # "step1" /\ a.edits = d \ m.edits
    BY <1>3, Frames
  <2> HIDE DEF a
  <2>2. /\ Append(up[s], a) \in Seq(Message)
        /\ Range(Append(up[s], a)) = Range(up[s]) \cup {a}
        /\ Asks(Append(up[s], a)) <=> Asks(up[s])
        /\ Carried(Append(up[s], a)) = Carried(up[s]) \cup (d \ m.edits)
    BY <1>3, <2>1, FrameIn
  <2>3. /\ up'[s] = Append(up[s], a) /\ \A t \in Sock \ {s} : up'[t] = up[t]
        /\ up' \in [Sock -> Seq(Message)]
    <3>1. up' = [up EXCEPT ![s] = Append(up[s], a)]
      BY <1>2, <1>8 DEF a
    <3> QED
      BY <1>1, <2>2, <3>1, Now
  <2>4. doc' = doc /\ doc'[peer[s].tab] = d /\ doc' \in [Tab -> SUBSET Edit]
    BY <1>1, <1>2, <1>8 DEF d, Inv, TypeOK
  <2>5. \A n \in Range(up'[s]) : n.edits \subseteq d
    BY <1>4, <2>1, <2>2, <2>3
  <2>6. m.edits \subseteq r
    BY <1>4, <1>5
  <2>7. /\ \A n \in Range(down'[s]) : n.edits \subseteq r
        /\ Asks(down'[s]) \/ d \subseteq r \cup Carried(up'[s])
        /\ Asks(up'[s]) \/ Visible(r) \subseteq d \cup Carried(down'[s]) \cup peer[s].untold
    BY <1>4, <1>5, <1>7, <1>8, <2>2, <2>3, <2>6
  <2> QED
    BY <1>1, <1>2, <1>3, <1>6, <1>7, <2>2, <2>3, <2>4, <2>5, <2>7, QueuesInv, Now DEF r
<1>9. CASE m.type # "step1"
  <2>1. /\ up' = up /\ doc' = [doc EXCEPT ![c] = d \cup m.edits]
    BY <1>2, <1>9
  <2>2. /\ doc' \in [Tab -> SUBSET Edit] /\ doc'[c] = d \cup m.edits
        /\ \A b \in Tab \ {c} : doc'[b] = doc[b]
    BY <1>3, <2>1 DEF Inv, TypeOK
  <2>3. m.edits \subseteq r
    BY <1>4, <1>5
  <2>4. /\ \A n \in Range(up'[s]) : n.edits \subseteq doc'[c]
        /\ \A n \in Range(down'[s]) : n.edits \subseteq r
        /\ Asks(down'[s]) \/ doc'[c] \subseteq r \cup Carried(up'[s])
        /\ Asks(up'[s]) \/ Visible(r) \subseteq doc'[c] \cup Carried(down'[s]) \cup peer[s].untold
    BY <1>4, <1>5, <1>7, <1>9, <2>1, <2>2, <2>3
  <2> QED
    BY <1>1, <1>2, <1>3, <1>6, <1>7, <2>1, <2>2, <2>4, QueuesInv, Now DEF r
<1> QED
  BY <1>8, <1>9

LEMMA NewEdit ==
  ASSUME Inv, NEW c \in Tab, Cardinality(Everywhere \ {<<Seed, 1>>}) < MaxEdits
  PROVE  <<c, Made(c) + 1>> \in Edit
<1> DEFINE mine == {e \in Everywhere : e[1] = c}
           typed == Everywhere \ {<<Seed, 1>>}
<1>1. Everywhere \subseteq Edit
  <2>1. /\ \A b \in Tab : doc[b] \subseteq Edit
        /\ \A i \in Inst : room[i] \subseteq Edit
        /\ log \subseteq Edit
    BY DEF Inv, TypeOK
  <2>2. UNION {doc[b] : b \in Tab} \subseteq Edit
    BY <2>1
  <2>3. UNION {room[i] : i \in Inst} \subseteq Edit
    BY <2>1
  <2> QED
    BY <2>1, <2>2, <2>3 DEF Everywhere
<1>2. IsFiniteSet(Edit)
  <2>0. 1 \in Int /\ MaxEdits \in Int
    BY DocSyncAssumption
  <2>1. IsFiniteSet(Tab) /\ IsFiniteSet(1..MaxEdits) /\ IsFiniteSet({<<Seed, 1>>})
    BY <2>0, FS_Interval, FS_Singleton, DocSyncAssumption
  <2>2. IsFiniteSet(Tab \X (1..MaxEdits))
    BY <2>1, FS_Product
  <2> QED
    BY <2>1, <2>2, FS_Union DEF Edit
<1>3. mine \subseteq typed
  BY DocSyncAssumption
<1>4. IsFiniteSet(typed)
  BY <1>1, <1>2, FS_Subset
<1>5. IsFiniteSet(mine) /\ Cardinality(mine) \in Nat /\ Cardinality(typed) \in Nat
      /\ Cardinality(mine) <= Cardinality(typed)
  BY <1>3, <1>4, FS_Subset, FS_CardinalityType
<1>6. Made(c) = Cardinality(mine)
  BY DEF Made
<1> HIDE DEF mine
<1>7. Made(c) + 1 \in 1..MaxEdits
  BY <1>5, <1>6, DocSyncAssumption
<1> QED
  BY <1>7 DEF Edit

LEMMA TypeInv == ASSUME Inv, NEW c \in Tab, Type(c) PROVE Inv'
<1> DEFINE new == {<<c, Made(c) + 1>>}
           s == socket[c]
<1>1. /\ doc' = [doc EXCEPT ![c] = doc[c] \cup new]
      /\ up' = [t \in Sock |-> IF t = s /\ t \in OpenSocks THEN Append(up[t], Update(new)) ELSE up[t]]
      /\ UNCHANGED <<tab, socket, peer, down, live, sub, room, bus, missed, log, allowed, breaks>>
  BY DEF Type, roomVars
<1>2. new \in SUBSET Edit
  BY NewEdit DEF Type
<1> HIDE DEF new, s
<1>3. /\ doc' \in [Tab -> SUBSET Edit] /\ doc'[c] = doc[c] \cup new
      /\ \A b \in Tab \ {c} : doc'[b] = doc[b]
  BY <1>1, <1>2 DEF Inv, TypeOK
<1> DEFINE m == Update(new)
<1>4. m \in Message /\ m.type # "step1" /\ m.edits = new
  BY <1>2, Frames
<1> HIDE DEF m
<1>5. /\ up' \in [Sock -> Seq(Message)]
      /\ \A t \in Sock : up'[t] = IF t = s /\ t \in OpenSocks THEN Append(up[t], m) ELSE up[t]
  <2>1. \A t \in Sock : Append(up[t], m) \in Seq(Message)
    BY <1>4, FrameIn, Now
  <2> QED
    BY <1>1, <2>1, Now DEF m
<1>6. CASE s = None
  <2>1. up' = up
    BY <1>5, <1>6, Now, DocSyncAssumption
  <2>2. \A t \in Sock : Used(t) => peer[t].tab \in Tab \ {c}
    BY <1>6, DocSyncAssumption DEF Inv, SocketsOK, s
  <2>3. TypeOK'
    <3>1. \A i \in Inst : ConnsOf(i)' = ConnsOf(i)
      BY <1>1 DEF ConnsOf
    <3>2. live' = {i \in Inst : ConnsOf(i)' # {}}
      BY <1>1, <3>1 DEF Inv, TypeOK
    <3> QED
      BY <1>1, <1>3, <1>5, <3>2 DEF Inv, TypeOK
  <2>4. SocketsOK'
    BY <1>1, <2>1 DEF Inv, SocketsOK, Used
  <2>5. Synced'
    BY <1>1, <1>3, <2>1, <2>2 DEF Inv, Synced, Used
  <2>6. Covered'
    BY <1>1 DEF Inv, Covered, Known, InBus
  <2> QED
    BY <2>3, <2>4, <2>5, <2>6 DEF Inv
<1>7. CASE s # None
  <2>1. s \in Sock /\ Used(s) /\ peer[s].tab = c
    BY <1>7 DEF Inv, TypeOK, SocketsOK, s
  <2>2. /\ \A n \in Range(up[s]) : n.edits \subseteq doc[c]
        /\ peer[s].at = "joined" =>
             LET r == room[peer[s].inst] IN
             /\ \A n \in Range(down[s]) : n.edits \subseteq r
             /\ Asks(down[s]) \/ doc[c] \subseteq r \cup Carried(up[s])
             /\ Asks(up[s]) \/ Visible(r) \subseteq doc[c] \cup Carried(down[s]) \cup peer[s].untold
    BY <2>1 DEF Inv, Synced
  <2>3. \A t \in Sock \ {s} : up'[t] = up[t] /\ down'[t] = down[t]
    BY <1>1, <1>5
  <2>4. /\ tab' \in [Tab -> TabRecord] /\ down' \in [Sock -> Seq(Message)]
        /\ \A b \in Tab : tab'[b] = tab[b]
    BY <1>1, Now
  <2>5. CASE s \in OpenSocks
    <3>1. up[s] \in Seq(Message)
      BY <2>1, Now
    <3>2. /\ Range(up'[s]) = Range(up[s]) \cup {m}
          /\ Asks(up'[s]) <=> Asks(up[s])
          /\ Carried(up'[s]) = Carried(up[s]) \cup new
      <4>1. up'[s] = Append(up[s], m)
        BY <1>5, <2>1, <2>5
      <4>2. /\ Range(Append(up[s], m)) = Range(up[s]) \cup {m}
            /\ Asks(Append(up[s], m)) <=> Asks(up[s])
            /\ Carried(Append(up[s], m)) = Carried(up[s]) \cup new
        BY <1>4, <3>1, FrameIn
      <4> QED
        BY <4>1, <4>2
    <3>3. peer[s].at # "connecting" /\ (peer[s].at = "early" => Asks(up'[s]))
          /\ (peer[s].at # "joined" => down'[s] = << >>)
      BY <1>1, <2>1, <2>5, <3>2 DEF Inv, SocketsOK, OpenSocks
    <3>4. \A n \in Range(up'[s]) : n.edits \subseteq doc'[c]
      BY <1>3, <1>4, <2>2, <3>2
    <3>5. peer[s].at = "joined" =>
            LET r == room[peer[s].inst] IN
            /\ \A n \in Range(down'[s]) : n.edits \subseteq r
            /\ Asks(down'[s]) \/ doc'[c] \subseteq r \cup Carried(up'[s])
            /\ Asks(up'[s]) \/ Visible(r) \subseteq doc'[c] \cup Carried(down'[s]) \cup peer[s].untold
      BY <1>1, <1>3, <2>2, <3>2
    <3> QED
      BY <1>1, <1>3, <1>5, <2>1, <2>3, <2>4, <3>3, <3>4, <3>5, QueuesInv
  <2>6. CASE s \notin OpenSocks
    <3>1. up'[s] = up[s] /\ peer[s].at = "connecting" /\ up[s] = << >> /\ down'[s] = << >>
      BY <1>1, <1>5, <2>1, <2>6, Now DEF OpenSocks, Used, PeerRecord, Inv, SocketsOK
    <3>2. \A n \in Range(up'[s]) : n.edits \subseteq doc'[c]
      BY <1>3, <2>2, <3>1
    <3> QED
      BY <1>1, <1>3, <1>5, <2>1, <2>3, <2>4, <3>1, <3>2, QueuesInv
  <2> QED
    BY <2>5, <2>6
<1> QED
  BY <1>6, <1>7
-----------------------------------------------------------------------------
(* The server.                                                              *)
LEMMA JoinInv == ASSUME Inv, NEW s \in Sock, NEW i, i = peer[s].inst, Join(s) PROVE Inv'
<1> DEFINE text == IF i \in live THEN room[i] ELSE log
           m == Step1(text)
           others == (UNION {room[j] : j \in live}) \cup (UNION {InBus(j) : j \in live})
<1>1. /\ peer[s].at = "early" /\ Used(s) /\ i \in Inst /\ peer[s].tab \in Tab
      /\ peer[s] \in PeerRecord /\ Asks(up[s])
  BY Now DEF Join, Used, Inv, SocketsOK
<1>2. /\ peer' = [peer EXCEPT ![s].at = "joined"]
      /\ live' = live \cup {i} /\ room' = [room EXCEPT ![i] = text]
      /\ down' = [down EXCEPT ![s] = << m >>]
      /\ UNCHANGED <<tab, socket, doc, up, sub, bus, log, allowed, breaks>>
  BY DEF Join, tabVars
<1>3. IF i \in live THEN missed' = missed ELSE missed' = [missed EXCEPT ![i] = others \ log]
  <2> DEFINE told == UNION {room[j] \cup UNION Range(bus[j]) : j \in live}
  <2>1. told = others
    BY DEF InBus
  <2>2. missed' = IF i \in live THEN missed ELSE [missed EXCEPT ![i] = told \ log]
    BY DEF Join
  <2> HIDE DEF told, others
  <2> QED
    BY <2>1, <2>2
<1>4. text \in SUBSET Edit /\ Visible(text) \subseteq text
  <2>1. text \in SUBSET Edit
    BY <1>1 DEF Inv, TypeOK
  <2> HIDE DEF text
  <2> QED
    BY <2>1, Shows
<1>5. m \in Message /\ m.type = "step1" /\ m.edits \subseteq text
  BY <1>4, Frames
<1>6. others \subseteq Edit
  <2>1. \A j \in live : room[j] \subseteq Edit /\ InBus(j) \subseteq Edit
    BY Now DEF Inv, TypeOK
  <2> QED
    BY <2>1
<1>7. \A j \in live : room[j] \subseteq others /\ InBus(j) \subseteq others
  OBVIOUS
<1>8. i \notin live => text = log /\ bus[i] = << >>
  BY <1>1 DEF Inv, TypeOK
<1>9. i \in live => text = room[i]
  OBVIOUS
<1> HIDE DEF text, m, others
<1>10. /\ << m >> \in Seq(Message) /\ Asks(<< m >>) /\ Range(<< m >>) = {m}
  <2>1. << m >> = Append(<< >>, m) /\ << >> \in Seq(Message)
    BY <1>5
  <2> QED
    BY <1>5, <2>1, FrameIn, Empty
<1>11. /\ peer' \in [Sock -> PeerRecord]
       /\ peer'[s].at = "joined" /\ peer'[s].tab = peer[s].tab /\ peer'[s].inst = i
       /\ \A t \in Sock \ {s} : peer'[t] = peer[t]
  BY <1>1, <1>2, Now DEF PeerRecord
<1>12. /\ down' \in [Sock -> Seq(Message)] /\ down'[s] = << m >>
       /\ \A t \in Sock \ {s} : down'[t] = down[t]
  BY <1>2, <1>10, Now
<1>13. /\ room' \in [Inst -> SUBSET Edit] /\ room'[i] = text
       /\ \A j \in Inst \ {i} : room'[j] = room[j]
  BY <1>1, <1>2, <1>4 DEF Inv, TypeOK
<1>14. /\ missed' \in [Inst -> SUBSET Edit]
       /\ \A j \in Inst \ {i} : missed'[j] = missed[j]
       /\ i \in live => missed'[i] = missed[i]
       /\ i \notin live => missed'[i] = others \ log
  <2>1. missed \in [Inst -> SUBSET Edit]
    BY DEF Inv, TypeOK
  <2>2. CASE i \in live
    BY <1>3, <2>1, <2>2
  <2>3. CASE i \notin live
    BY <1>1, <1>3, <1>6, <2>1, <2>3
  <2> QED
    BY <2>2, <2>3
<1>15. TypeOK'
  <2>1. \A j \in Inst : ConnsOf(j)' = IF j = i THEN ConnsOf(j) \cup {s} ELSE ConnsOf(j)
    BY <1>1, <1>11 DEF ConnsOf
  <2>2. live' = {j \in Inst : ConnsOf(j)' # {}}
    BY <1>1, <1>2, <2>1 DEF Inv, TypeOK
  <2> QED
    BY <1>2, <1>11, <1>12, <1>13, <1>14, <2>2 DEF Inv, TypeOK, PeerRecord
<1>16. SocketsOK'
  BY <1>1, <1>2, <1>11, <1>12 DEF Inv, SocketsOK, Used
<1>17. Synced'
  <2>1. ASSUME NEW t \in Sock \ {s}, peer[t].at = "joined"
        PROVE  room'[peer[t].inst] = room[peer[t].inst]
    BY <1>8, <1>9, <1>13, <2>1, Now
  <2>2. ASSUME NEW t \in Sock \ {s}, Used(t)
        PROVE  /\ peer'[t] = peer[t] /\ up'[t] = up[t] /\ down'[t] = down[t]
    BY <1>2, <1>11, <1>12
  <2>3. \A n \in Range(up'[s]) : n.edits \subseteq doc'[peer'[s].tab]
    BY <1>1, <1>2, <1>11 DEF Inv, Synced
  <2>4. /\ \A n \in Range(down'[s]) : n.edits \subseteq room'[i]
        /\ Asks(down'[s]) /\ Asks(up'[s])
    BY <1>1, <1>2, <1>5, <1>10, <1>12, <1>13
  <2>5. ASSUME NEW t \in Sock, Used(t)'
        PROVE  LET d == doc'[peer'[t].tab]
                   r == room'[peer'[t].inst] IN
               /\ \A n \in Range(up'[t]) : n.edits \subseteq d
               /\ peer'[t].at = "joined" =>
                    /\ \A n \in Range(down'[t]) : n.edits \subseteq r
                    /\ Asks(down'[t]) \/ d \subseteq r \cup Carried(up'[t])
                    /\ Asks(up'[t]) \/ Visible(r) \subseteq d \cup Carried(down'[t]) \cup peer'[t].untold
    <3>1. CASE t = s
      BY <1>11, <2>3, <2>4, <3>1
    <3>2. CASE t # s
      <4>1. /\ Used(t) /\ peer'[t] = peer[t] /\ up'[t] = up[t] /\ down'[t] = down[t] /\ doc' = doc
            /\ peer[t].at = "joined" => room'[peer[t].inst] = room[peer[t].inst]
        BY <1>2, <1>11, <2>1, <2>2, <2>5, <3>2 DEF Used
      <4> QED
        BY <4>1 DEF Inv, Synced
    <3> QED
      BY <3>1, <3>2
  <2> QED
    BY <2>5 DEF Synced, Used
<1>18. Covered'
  <2>1. \A j \in Inst : InBus(j)' = InBus(j)
    BY <1>2 DEF InBus
  <2>2. CASE i \in live
    <3>1. live' = live /\ log' = log
      BY <1>2, <2>2
    <3>2. \A j \in live : j \in Inst /\ room'[j] = room[j] /\ InBus(j)' = InBus(j) /\ missed'[j] = missed[j]
      BY <1>9, <1>13, <1>14, <2>1, <2>2, Now
    <3> QED
      BY <3>1, <3>2 DEF Inv, Covered, Known
  <2>3. CASE i \notin live
    <3>1. InBus(i) = {} /\ room'[i] = log /\ Visible(room'[i]) \subseteq log
      BY <1>4, <1>8, <1>13, <2>3, Empty DEF InBus
    <3>2. Known(i)' = log \cup others
      <4>1. missed'[i] = others \ log /\ InBus(i)' = {} /\ room'[i] = log
        BY <1>1, <1>14, <2>1, <2>3, <3>1
      <4> QED
        BY <4>1 DEF Known
    <3>3. \A j \in live : j # i /\ j \in Inst /\ room'[j] = room[j] /\ Known(j)' = Known(j)
      BY <1>13, <1>14, <2>1, <2>3, Now DEF Known
    <3>4. \A j \in live : Visible(room[j]) \subseteq others /\ InBus(j) \subseteq others
      BY <1>7, Now, Shows DEF Inv, TypeOK
    <3>5. \A j \in live' : j = i \/ j \in live
      BY <1>2
    <3>6. ASSUME NEW k \in live', NEW j \in live'
          PROVE  log \subseteq Known(k)' /\ Visible(room'[j]) \cup InBus(j) \subseteq Known(k)'
      <4>1. CASE k = i
        <5>1. CASE j = i
          BY <3>1, <3>2, <4>1, <5>1
        <5>2. CASE j # i
          <6>1. j \in live /\ room'[j] = room[j]
            BY <3>3, <3>5, <5>2
          <6>2. Visible(room'[j]) \subseteq others /\ InBus(j) \subseteq others
            BY <3>4, <6>1
          <6> QED
            BY <3>2, <4>1, <6>2
        <5> QED
          BY <5>1, <5>2
      <4>2. CASE k # i
        BY <3>1, <3>3, <3>5, <4>2 DEF Inv, Covered
      <4> QED
        BY <4>1, <4>2
    <3>7. log' = log /\ \A j \in live' : InBus(j)' = InBus(j)
      BY <1>1, <1>2, <2>1, Now
    <3> QED
      BY <3>6, <3>7 DEF Covered
  <2> QED
    BY <2>2, <2>3
<1> QED
  BY <1>15, <1>16, <1>17, <1>18 DEF Inv

LEMMA RoomRests == ASSUME Inv, NEW i \in Inst, Subscribed(i) \/ Flush(i) PROVE Inv'
<1>1. /\ UNCHANGED <<tab, socket, doc, peer, up, down, room, live, bus, missed, allowed, breaks>>
      /\ i \in live
      /\ \/ sub' = sub \cup {i} /\ log' = log
         \/ sub' = sub /\ log' = log \cup Visible(room[i])
  <2>1. CASE Subscribed(i)
    BY <2>1 DEF Subscribed, tabVars
  <2>2. CASE Flush(i)
    BY <2>2 DEF Flush, tabVars, roomVars
  <2> QED
    BY <2>1, <2>2
<1>2. Visible(room[i]) \subseteq Edit
  BY Shows DEF Inv, TypeOK
<1>3. TypeOK'
  <2>1. live' = {j \in Inst : ConnsOf(j)' # {}}
    BY <1>1 DEF Inv, TypeOK, ConnsOf
  <2> QED
    BY <1>1, <1>2, <2>1 DEF Inv, TypeOK
<1>4. SocketsOK' /\ Synced'
  BY <1>1 DEF Inv, SocketsOK, Synced, Used
<1>5. Covered'
  BY <1>1 DEF Inv, Covered, Known, InBus
<1> QED
  BY <1>3, <1>4, <1>5 DEF Inv

BusTyped == bus \in [Inst -> Seq(SUBSET Edit)] /\ \A j \in Inst : bus[j] # << >> => j \in sub

(* A room gains edits.                                                      *)
LEMMA GainsAre ==
  ASSUME Inv, NEW i \in Inst, NEW X \in SUBSET Edit
  PROVE  /\ Gains(i, X) \in SUBSET Edit /\ Gains(i, X) \subseteq room[i] \cup X
         /\ Visible(room[i] \cup X) = Visible(room[i]) \cup Gains(i, X)
<1>1. room[i] \in SUBSET Edit
  BY DEF Inv, TypeOK
<1>2. Visible(room[i] \cup X) \subseteq room[i] \cup X /\ Visible(room[i]) \subseteq Visible(room[i] \cup X)
  <2>1. room[i] \cup X \in SUBSET Edit
    BY <1>1
  <2> QED
    BY <1>1, <2>1, Shows
<1> QED
  BY <1>1, <1>2 DEF Gains

Tells(i, new, origin) ==
  /\ down' \in [Sock -> Seq(Message)]
  /\ \A t \in Sock :
       IF peer[t].at = "joined" /\ peer[t].inst = i /\ t # origin
       THEN /\ Asks(down'[t]) <=> Asks(down[t])
            /\ Carried(down'[t]) = Carried(down[t]) \cup new
            /\ \A n \in Range(down'[t]) : n \in Range(down[t]) \/ n.edits = new
       ELSE down'[t] = down[t]

(* Broadcast tells every joined socket of room i but the origin.             *)
LEMMA Told ==
  ASSUME Inv, NEW i, NEW new \in SUBSET Edit, NEW origin,
         down' = Broadcast(down, i, new, origin)
  PROVE  Tells(i, new, origin)
<1> DEFINE m == Update(new)
<1>1. m \in Message /\ m.type # "step1" /\ m.edits = new
  BY Frames
<1>2. \A t \in Sock : down'[t] = IF new # {} /\ t \in ConnsOf(i) \ {origin} THEN Append(down[t], m)
                                                                         ELSE down[t]
  BY DEF Broadcast
<1>3. down' = [t \in Sock |-> down'[t]]
  BY DEF Broadcast
<1> HIDE DEF m
<1>4. ASSUME NEW t \in Sock
      PROVE  /\ Append(down[t], m) \in Seq(Message)
             /\ Range(Append(down[t], m)) = Range(down[t]) \cup {m}
             /\ Asks(Append(down[t], m)) <=> Asks(down[t])
             /\ Carried(Append(down[t], m)) = Carried(down[t]) \cup new
  <2>1. down[t] \in Seq(Message)
    BY Now
  <2> QED
    BY <1>1, <2>1, FrameIn
<1>5. \A t \in Sock : down'[t] \in Seq(Message)
  BY <1>2, <1>4, Now
<1>6. down' \in [Sock -> Seq(Message)]
  BY <1>3, <1>5
<1>7. ASSUME NEW t \in Sock
      PROVE  IF peer[t].at = "joined" /\ peer[t].inst = i /\ t # origin
             THEN /\ Asks(down'[t]) <=> Asks(down[t])
                  /\ Carried(down'[t]) = Carried(down[t]) \cup new
                  /\ \A n \in Range(down'[t]) : n \in Range(down[t]) \/ n.edits = new
             ELSE down'[t] = down[t]
  <2>1. CASE new # {} /\ t \in ConnsOf(i) \ {origin}
    <3>1. down'[t] = Append(down[t], m)
      BY <1>2, <2>1
    <3> QED
      BY <1>1, <1>4, <2>1, <3>1 DEF ConnsOf
  <2>2. CASE ~(new # {} /\ t \in ConnsOf(i) \ {origin})
    <3>1. down'[t] = down[t]
      BY <1>2, <2>2
    <3> QED
      BY <2>2, <3>1 DEF ConnsOf
  <2> QED
    BY <2>1, <2>2
<1> QED
  BY <1>6, <1>7 DEF Tells

(* The other rooms know what they knew, and of the new edits too.           *)
LEMMA Spreads ==
  ASSUME Inv, NEW i \in live, NEW X \in SUBSET Edit, NEW new, new = Gains(i, X),
         room' = [room EXCEPT ![i] = room[i] \cup X], live' = live, log' = log,
         \A j \in live : InBus(j)' \subseteq InBus(j) \cup new,
         \A j \in live : Known(j) \subseteq Known(j)',
         \A j \in live \ {i} : new \subseteq Known(j)'
  PROVE  Covered'
<1>1. i \in Inst /\ live \subseteq Inst /\ room \in [Inst -> SUBSET Edit]
  BY Now DEF Inv, TypeOK
<1>2. /\ new \subseteq room[i] \cup X
      /\ Visible(room[i] \cup X) = Visible(room[i]) \cup new
  BY <1>1, GainsAre
<1>3. room'[i] = room[i] \cup X /\ \A j \in live \ {i} : room'[j] = room[j]
  BY <1>1
<1>4. \A j \in live : Visible(room'[j]) \subseteq Visible(room[j]) \cup new
  BY <1>2, <1>3
<1>5. \A j \in live : new \subseteq Known(j)'
  <2>1. new \subseteq Known(i)'
    BY <1>2, <1>3 DEF Known
  <2> QED
    BY <2>1
<1>6. \A k \in live : log \subseteq Known(k) /\ \A j \in live : Visible(room[j]) \cup InBus(j) \subseteq Known(k)
  BY DEF Inv, Covered
<1>7. \A k \in live : log \subseteq Known(k)'
  BY <1>6
<1>8. ASSUME NEW k \in live, NEW j \in live
      PROVE  Visible(room'[j]) \cup InBus(j)' \subseteq Known(k)'
  <2>1. Visible(room[j]) \cup InBus(j) \cup new \subseteq Known(k)'
    BY <1>5, <1>6
  <2> QED
    BY <1>4, <2>1
<1> QED
  BY <1>7, <1>8 DEF Covered

(* What room i is told by the socket s, if it is one.                        *)
Origin(s, i, X, new) ==
  s \in Sock =>
    /\ peer[s].at = "joined" /\ peer[s].inst = i /\ peer'[s].at = "joined"
    /\ peer'[s].inst = i /\ peer'[s].tab = peer[s].tab
    /\ \A m \in Range(up'[s]) : m.edits \subseteq doc[peer[s].tab]
    /\ Asks(down[s]) \/ doc[peer[s].tab] \subseteq room[i] \cup X \cup Carried(up'[s])
    /\ \/ Asks(up'[s])
       \/ Visible(room[i]) \cup new \subseteq
            doc[peer[s].tab] \cup Carried(down[s]) \cup peer'[s].untold

(* The shape of a step in which room i gains edits, from a socket or from   *)
(* the bus.                                                                 *)
LEMMA RoomGains ==
  ASSUME Inv, NEW i \in live, NEW X \in SUBSET Edit, NEW new, new = Gains(i, X), NEW s,
         UNCHANGED <<tab, socket, doc, live, sub, log, allowed>>,
         room' = [room EXCEPT ![i] = room[i] \cup X],
         down' = Broadcast(down, i, new, s),
         \A t \in Sock \ {s} : peer'[t] = peer[t] /\ up'[t] = up[t],
         peer' \in [Sock -> PeerRecord], up' \in [Sock -> Seq(Message)],
         BusTyped', missed' \in [Inst -> SUBSET Edit], breaks' \in 0..MaxBreaks, Covered',
         Origin(s, i, X, new)
  PROVE  Inv'
<1>1. i \in Inst /\ live \subseteq Inst /\ room \in [Inst -> SUBSET Edit]
  BY Now DEF Inv, TypeOK
<1>2. /\ new \in SUBSET Edit /\ new \subseteq room[i] \cup X
      /\ Visible(room[i] \cup X) = Visible(room[i]) \cup new
  BY <1>1, GainsAre
<1>3. /\ room' \in [Inst -> SUBSET Edit] /\ room'[i] = room[i] \cup X
      /\ \A j \in Inst \ {i} : room'[j] = room[j]
  BY <1>1
<1>4. /\ down' \in [Sock -> Seq(Message)]
      /\ \A t \in Sock :
           IF peer[t].at = "joined" /\ peer[t].inst = i /\ t # s
           THEN /\ Asks(down'[t]) <=> Asks(down[t])
                /\ Carried(down'[t]) = Carried(down[t]) \cup new
                /\ \A n \in Range(down'[t]) : n \in Range(down[t]) \/ n.edits = new
           ELSE down'[t] = down[t]
  <2>1. new \in SUBSET Edit
    BY <1>2
  <2>2. Tells(i, new, s)
    BY <2>1, Told, ZenonT(60)
  <2> QED
    BY <2>2, Zenon DEF Tells
<1>5. \A t \in Sock : /\ peer'[t].at = peer[t].at /\ peer'[t].inst = peer[t].inst
                      /\ peer'[t].tab = peer[t].tab
  BY DEF Origin
<1>6. TypeOK'
  <2>1. live' = {j \in Inst : ConnsOf(j)' # {}}
    <3>1. live = {j \in Inst : ConnsOf(j) # {}}
      BY DEF Inv, TypeOK
    <3>2. \A j \in Inst : ConnsOf(j)' = ConnsOf(j)
      BY <1>5 DEF ConnsOf
    <3> QED
      BY <3>1, <3>2
  <2> QED
    BY <1>3, <1>4, <2>1 DEF Inv, TypeOK, PeerRecord, BusTyped
<1>7. SocketsOK'
  <2>1. ASSUME NEW t \in Sock
        PROVE  /\ peer[t].at \in {"free", "connecting"} => up'[t] = << >>
               /\ peer[t].at # "joined" => down'[t] = << >>
               /\ peer[t].at = "early" => Asks(up'[t])
    <3>1. CASE peer[t].at = "joined"
      BY <3>1
    <3>2. CASE peer[t].at # "joined"
      <4>1. t # s
        BY <3>2 DEF Origin
      <4>2. up'[t] = up[t] /\ down'[t] = down[t]
        BY <1>4, <3>2, <4>1
      <4> QED
        BY <3>2, <4>2 DEF Inv, SocketsOK
    <3> QED
      BY <3>1, <3>2
  <2>2. \A t \in Sock : Used(t)' <=> Used(t)
    BY <1>5 DEF Used
  <2>3. ASSUME NEW t \in Sock, Used(t)
        PROVE  peer'[t].tab \in Tab /\ peer'[t].inst \in Inst /\ socket'[peer'[t].tab] = t
    <3>1. peer[t].tab \in Tab /\ peer[t].inst \in Inst /\ socket[peer[t].tab] = t
      BY <2>3 DEF Inv, SocketsOK
    <3> QED
      BY <1>5, <3>1
  <2>4. ASSUME NEW c \in Tab
        PROVE  (/\ socket[c] # None => Used(socket[c]) /\ peer[socket[c]].tab = c
                /\ tab[c].status = "away" \/ tab[c].retry => socket[c] = None
                /\ tab[c].retry => tab[c].status = "reconnecting")'
    <3>1. /\ socket[c] # None => Used(socket[c]) /\ peer[socket[c]].tab = c
          /\ tab[c].status = "away" \/ tab[c].retry => socket[c] = None
          /\ tab[c].retry => tab[c].status = "reconnecting"
      BY DEF Inv, SocketsOK
    <3>2. socket[c] # None => socket[c] \in Sock
      BY DEF Inv, TypeOK
    <3>3. socket[c] # None => Used(socket[c])' /\ peer'[socket[c]].tab = c
      BY <1>5, <2>2, <3>1, <3>2
    <3> QED
      BY <3>1, <3>3
  <2> QED
    <3>1. (\A t \in Sock : Used(t) => /\ peer[t].tab \in Tab /\ peer[t].inst \in Inst
                                     /\ socket[peer[t].tab] = t)'
      BY <2>2, <2>3
    <3>2. (\A t \in Sock : /\ peer[t].at \in {"free", "connecting"} => up[t] = << >>
                           /\ peer[t].at # "joined" => down[t] = << >>
                           /\ peer[t].at = "early" => Asks(up[t]))'
      BY <1>5, <2>1
    <3> QED
      BY <2>4, <3>1, <3>2, Zenon DEF SocketsOK
<1>8. Synced'
  <2> SUFFICES ASSUME NEW t \in Sock, Used(t)
               PROVE  LET d == doc[peer[t].tab]
                          r == room'[peer[t].inst] IN
                      /\ \A m \in Range(up'[t]) : m.edits \subseteq d
                      /\ peer[t].at = "joined" =>
                           /\ \A m \in Range(down'[t]) : m.edits \subseteq r
                           /\ Asks(down'[t]) \/ d \subseteq r \cup Carried(up'[t])
                           /\ \/ Asks(up'[t])
                              \/ Visible(r) \subseteq d \cup Carried(down'[t]) \cup peer'[t].untold
    BY <1>5 DEF Synced, Used
  <2>1. LET d == doc[peer[t].tab]
            r == room[peer[t].inst] IN
        /\ \A m \in Range(up[t]) : m.edits \subseteq d
        /\ peer[t].at = "joined" =>
             /\ \A m \in Range(down[t]) : m.edits \subseteq r
             /\ Asks(down[t]) \/ d \subseteq r \cup Carried(up[t])
             /\ Asks(up[t]) \/ Visible(r) \subseteq d \cup Carried(down[t]) \cup peer[t].untold
    BY DEF Inv, Synced
  <2>2. CASE t = s
    <3>1. down'[t] = down[t] /\ peer[t].at = "joined" /\ peer[t].inst = i
      BY <1>4, <2>2 DEF Origin
    <3> QED
      BY <1>2, <1>3, <2>1, <2>2, <3>1 DEF Origin
  <2>3. CASE t # s /\ peer[t].at = "joined" /\ peer[t].inst = i
    <3>1. peer'[t] = peer[t] /\ up'[t] = up[t] /\ room'[peer[t].inst] = room[i] \cup X
      BY <1>3, <2>3
    <3>2. /\ Asks(down'[t]) <=> Asks(down[t])
          /\ Carried(down'[t]) = Carried(down[t]) \cup new
          /\ \A n \in Range(down'[t]) : n \in Range(down[t]) \/ n.edits = new
      BY <1>4, <2>3
    <3>3. \A n \in Range(down'[t]) : n.edits \subseteq room[i] \cup X
      BY <1>2, <2>1, <2>3, <3>2
    <3>4. Asks(down'[t]) \/ doc[peer[t].tab] \subseteq room[i] \cup X \cup Carried(up'[t])
      BY <2>1, <2>3, <3>1, <3>2
    <3>5. \/ Asks(up'[t])
          \/ Visible(room[i] \cup X) \subseteq
               doc[peer[t].tab] \cup Carried(down'[t]) \cup peer'[t].untold
      BY <1>2, <2>1, <2>3, <3>1, <3>2
    <3> QED
      BY <2>1, <3>1, <3>3, <3>4, <3>5
  <2>4. CASE t # s /\ ~(peer[t].at = "joined" /\ peer[t].inst = i)
    <3>1. /\ peer'[t] = peer[t] /\ up'[t] = up[t] /\ down'[t] = down[t]
          /\ peer[t].at = "joined" => room'[peer[t].inst] = room[peer[t].inst]
      BY <1>1, <1>3, <1>4, <2>4, Now
    <3> QED
      BY <2>1, <3>1
  <2> QED
    BY <2>2, <2>3, <2>4
<1> QED
  BY <1>6, <1>7, <1>8 DEF Inv

(* What is published is on its way to a room, or has been missed there.     *)
LEMMA PublishesIs ==
  ASSUME Inv, sub' = sub, NEW i, NEW new \in SUBSET Edit, NEW S, S \subseteq sub \ {i},
         Publishes(i, new, S),
         \A j \in Inst : room[j] \subseteq room'[j]
  PROVE  /\ BusTyped' /\ missed' \in [Inst -> SUBSET Edit]
         /\ \A j \in live : InBus(j)' \subseteq InBus(j) \cup new
         /\ \A j \in live : Known(j) \subseteq Known(j)'
         /\ \A j \in live \ {i} : new \subseteq Known(j)'
<1>1. live \subseteq Inst /\ sub \subseteq live
  BY Now
<1>2. /\ bus' = [j \in Inst |-> IF j \in S THEN Append(bus[j], new) ELSE bus[j]]
      /\ missed' = [j \in Inst |-> IF j \in live \ (S \cup {i}) THEN missed[j] \cup new ELSE missed[j]]
  BY DEF Publishes
<1> DEFINE Frame == SUBSET Edit
<1>3. ASSUME NEW j \in Inst
      PROVE  /\ bus[j] \in Seq(Frame) /\ Append(bus[j], new) \in Seq(Frame)
             /\ Range(Append(bus[j], new)) = Range(bus[j]) \cup {new}
  <2>1. bus[j] \in Seq(Frame) /\ new \in Frame
    BY DEF Inv, TypeOK
  <2> HIDE DEF Frame
  <2> QED
    BY <2>1, RangeAppend
<1>4. bus' \in [Inst -> Seq(Frame)] /\ \A j \in Inst : bus'[j] # << >> => j \in sub
  <2> HIDE DEF Frame
  <2>1. bus' \in [Inst -> Seq(Frame)]
    BY <1>2, <1>3
  <2>2. \A j \in Inst : bus[j] # << >> => j \in sub
    BY DEF Inv, TypeOK
  <2> QED
    BY <1>2, <2>1, <2>2
<1>5. missed' \in [Inst -> SUBSET Edit]
  BY <1>2 DEF Inv, TypeOK
<1> HIDE DEF Frame
<1>6. ASSUME NEW j \in live
      PROVE  /\ InBus(j)' = IF j \in S THEN InBus(j) \cup new ELSE InBus(j)
             /\ missed[j] \subseteq missed'[j] /\ room[j] \subseteq room'[j]
             /\ j \notin S /\ j # i => new \subseteq missed'[j]
  <2>1. j \in Inst
    BY <1>1
  <2>2. CASE j \in S
    <3>1. bus'[j] = Append(bus[j], new) /\ missed'[j] = missed[j]
      BY <1>2, <2>1, <2>2
    <3>2. Range(bus'[j]) = Range(bus[j]) \cup {new}
      BY <1>3, <2>1, <3>1
    <3> QED
      BY <2>1, <2>2, <3>1, <3>2 DEF InBus
  <2>3. CASE j \notin S
    <3>1. bus'[j] = bus[j] /\ missed'[j] = IF j # i THEN missed[j] \cup new ELSE missed[j]
      BY <1>2, <2>1, <2>3
    <3> QED
      BY <2>1, <2>3, <3>1 DEF InBus
  <2> QED
    BY <2>2, <2>3
<1>7. ASSUME NEW j \in live
      PROVE  /\ InBus(j)' \subseteq InBus(j) \cup new /\ Known(j) \subseteq Known(j)'
             /\ j # i => new \subseteq Known(j)'
  <2>1. /\ InBus(j) \subseteq InBus(j)' /\ InBus(j)' \subseteq InBus(j) \cup new
        /\ j \in S => new \subseteq InBus(j)'
    BY <1>6
  <2> QED
    BY <1>6, <2>1 DEF Known
<1>8. BusTyped'
  BY <1>4 DEF Frame, BusTyped
<1> QED
  BY <1>5, <1>7, <1>8

LEMMA PublishIs ==
  ASSUME Inv, sub' = sub, NEW i, NEW new \in SUBSET Edit, Publish(i, new),
         \A j \in Inst : room[j] \subseteq room'[j]
  PROVE  /\ BusTyped' /\ missed' \in [Inst -> SUBSET Edit] /\ breaks' \in 0..MaxBreaks
         /\ \A j \in live : InBus(j)' \subseteq InBus(j) \cup new
         /\ \A j \in live : Known(j) \subseteq Known(j)'
         /\ \A j \in live \ {i} : new \subseteq Known(j)'
<1>1. CASE new = {}
  <2>1. UNCHANGED <<bus, missed, breaks>>
    BY <1>1 DEF Publish
  <2> QED
    BY <1>1, <2>1, Now, Breaks DEF Inv, TypeOK, InBus, Known, BusTyped
<1>2. CASE new # {} /\ Publishes(i, new, sub \ {i}) /\ UNCHANGED breaks
  <2>1. \A T : T = sub \ {i} => T \subseteq sub \ {i}
    OBVIOUS
  <2> QED
    BY <1>2, <2>1, Breaks, PublishesIs
<1>3. CASE new # {} /\ MayBreak /\ Publishes(i, new, {})
  BY <1>3, Breaks, PublishesIs
<1> QED
  BY <1>1, <1>2, <1>3 DEF Publish

LEMMA ServerHandlesInv == ASSUME Inv, NEW s \in Sock, ServerHandles(s) PROVE Inv'
<1> PICK i : i = peer[s].inst
  OBVIOUS
<1> DEFINE m == Head(up[s])
           d == doc[peer[s].tab]
<1>1. /\ peer[s].at = "joined" /\ up[s] # << >> /\ Used(s) /\ i \in live /\ i \in Inst
      /\ peer[s] \in PeerRecord /\ peer[s].tab \in Tab
  BY Now DEF ServerHandles, Used, Inv, SocketsOK
<1>2. /\ UNCHANGED <<tab, socket, doc, live, sub, log, allowed>>
      /\ up' = [up EXCEPT ![s] = Tail(up[s])]
  BY DEF ServerHandles, tabVars
<1>3. /\ up[s] \in Seq(Message) /\ down[s] \in Seq(Message) /\ room[i] \in SUBSET Edit
      /\ doc \in [Tab -> SUBSET Edit]
  BY <1>1, Now DEF Inv, TypeOK
<1>4. /\ Tail(up[s]) \in Seq(Message) /\ m \in Message
      /\ Range(up[s]) = Range(Tail(up[s])) \cup {m}
      /\ Asks(up[s]) <=> Asks(Tail(up[s])) \/ m.type = "step1"
      /\ m.type = "step1" => Carried(up[s]) = Carried(Tail(up[s]))
      /\ m.type # "step1" => Carried(up[s]) = Carried(Tail(up[s])) \cup m.edits
  BY <1>1, <1>3, FrameOut
<1>5. m.edits \in SUBSET Edit
  BY <1>4 DEF Message
<1>6. /\ up' \in [Sock -> Seq(Message)] /\ up'[s] = Tail(up[s])
      /\ \A t \in Sock \ {s} : up'[t] = up[t]
  BY <1>2, <1>4, Now
<1>7. /\ \A n \in Range(up[s]) : n.edits \subseteq d
      /\ \A n \in Range(down[s]) : n.edits \subseteq room[i]
      /\ Asks(down[s]) \/ d \subseteq room[i] \cup Carried(up[s])
      /\ Asks(up[s]) \/ Visible(room[i]) \subseteq d \cup Carried(down[s]) \cup peer[s].untold
  BY <1>1 DEF Inv, Synced
<1>8. IF m.type = "step1"
      THEN /\ down' = [down EXCEPT ![s] = Append(down[s], Step2(room[i], m))]
           /\ UNCHANGED <<room, bus, missed, breaks, peer>>
      ELSE /\ room' = [room EXCEPT ![i] = room[i] \cup m.edits]
           /\ down' = Broadcast(down, i, Gains(i, m.edits), s)
           /\ Publish(i, Gains(i, m.edits))
           /\ peer' = [peer EXCEPT ![s].untold = peer[s].untold \cup (Gains(i, m.edits) \ m.edits)]
  BY DEF ServerHandles
<1> HIDE DEF m, d
<1>9. CASE m.type = "step1"
  <2> DEFINE a == Step2(room[i], m)
  <2>1. a \in Message /\ a.type # "step1" /\ a.edits = room[i] \ m.edits
    <3> DEFINE r == room[i]
    <3>1. r \in SUBSET Edit /\ m \in Message
      BY <1>3, <1>4
    <3> HIDE DEF r
    <3>2. /\ Step2(r, m) \in Message /\ Step2(r, m).type # "step1"
          /\ Step2(r, m).edits = r \ m.edits
      BY <3>1, Frames
    <3> QED
      BY <3>2 DEF r
  <2>2. down' = [down EXCEPT ![s] = Append(down[s], a)] /\ UNCHANGED <<room, bus, missed, breaks, peer>>
    BY <1>8, <1>9
  <2> HIDE DEF a
  <2>3. /\ Append(down[s], a) \in Seq(Message)
        /\ Range(Append(down[s], a)) = Range(down[s]) \cup {a}
        /\ Asks(Append(down[s], a)) <=> Asks(down[s])
        /\ Carried(Append(down[s], a)) = Carried(down[s]) \cup (room[i] \ m.edits)
    BY <1>3, <2>1, FrameIn
  <2>4. /\ down' \in [Sock -> Seq(Message)] /\ down'[s] = Append(down[s], a)
        /\ \A t \in Sock \ {s} : down'[t] = down[t]
    BY <2>2, <2>3, Now
  <2>5. m.edits \subseteq d /\ Visible(room[i]) \subseteq room[i]
    BY <1>3, <1>4, <1>7, Shows
  <2>6. /\ \A n \in Range(up'[s]) : n.edits \subseteq d
        /\ \A n \in Range(down'[s]) : n.edits \subseteq room[i]
        /\ Asks(down'[s]) \/ d \subseteq room[i] \cup Carried(up'[s])
        /\ Visible(room[i]) \subseteq d \cup Carried(down'[s])
    BY <1>4, <1>6, <1>7, <1>9, <2>1, <2>3, <2>4, <2>5
  <2>7. /\ tab' \in [Tab -> TabRecord] /\ doc' \in [Tab -> SUBSET Edit]
        /\ doc'[peer[s].tab] = d /\ tab' = tab /\ doc' = doc
    BY <1>2, <1>3, Now DEF d
  <2>8. /\ peer[s].at = "joined" /\ peer[s].inst = i
        /\ UNCHANGED <<socket, peer, live, sub, room, bus, missed, log, allowed, breaks>>
        /\ \A t \in Sock \ {s} : up'[t] = up[t] /\ down'[t] = down[t]
    BY <1>1, <1>2, <1>6, <2>2, <2>4
  <2> QED
    BY <1>1, <1>6, <2>4, <2>6, <2>7, <2>8, QueuesInv
<1>10. CASE m.type # "step1"
  <2>0. PICK X \in SUBSET Edit : X = m.edits
    BY <1>5
  <2> PICK new : new = Gains(i, X)
    OBVIOUS
  <2>1. /\ room' = [room EXCEPT ![i] = room[i] \cup X]
        /\ down' = Broadcast(down, i, new, s) /\ Publish(i, new)
        /\ peer' = [peer EXCEPT ![s].untold = peer[s].untold \cup (new \ X)]
    BY <1>8, <1>10, <2>0
  <2>2. new \in SUBSET Edit
    <3>1. i \in Inst
      BY <1>1
    <3>2. Gains(i, X) \in SUBSET Edit
      BY <3>1, GainsAre
    <3> QED
      BY <3>2
  <2>3. \A j \in Inst : room[j] \subseteq room'[j]
    BY <1>1, <2>1 DEF Inv, TypeOK
  <2>4. /\ BusTyped' /\ missed' \in [Inst -> SUBSET Edit] /\ breaks' \in 0..MaxBreaks
        /\ \A j \in live : InBus(j)' \subseteq InBus(j) \cup new
        /\ \A j \in live : Known(j) \subseteq Known(j)'
        /\ \A j \in live \ {i} : new \subseteq Known(j)'
    BY <1>2, <2>1, <2>2, <2>3, PublishIs
  <2>5. Covered'
    BY <1>1, <1>2, <2>1, <2>4, Spreads
  <2>6. /\ peer' \in [Sock -> PeerRecord] /\ \A t \in Sock \ {s} : peer'[t] = peer[t]
        /\ peer'[s].at = "joined" /\ peer'[s].inst = i /\ peer'[s].tab = peer[s].tab
        /\ peer'[s].untold = peer[s].untold \cup (new \ X)
    BY <1>1, <2>1, <2>2, Now DEF PeerRecord
  <2>7. X \subseteq d
    BY <1>4, <1>7, <2>0
  <2>8. /\ \A n \in Range(up'[s]) : n.edits \subseteq d
        /\ Asks(down[s]) \/ d \subseteq room[i] \cup X \cup Carried(up'[s])
        /\ \/ Asks(up'[s])
           \/ Visible(room[i]) \cup new \subseteq d \cup Carried(down[s]) \cup peer'[s].untold
    BY <1>4, <1>6, <1>7, <1>10, <2>0, <2>6, <2>7
  <2> HIDE DEF d
  <2>9. Origin(s, i, X, new)
    BY <1>1, <2>6, <2>8 DEF d, Origin
  <2> QED
    BY <1>1, <1>2, <1>6, <2>1, <2>4, <2>5, <2>6, <2>9, RoomGains
<1> QED
  BY <1>9, <1>10

LEMMA BusDeliversInv == ASSUME Inv, NEW i \in Inst, BusDelivers(i) PROVE Inv'
<1> PICK X : X = Head(bus[i])
  OBVIOUS
<1> PICK new : new = Gains(i, X)
  OBVIOUS
<1>1. /\ bus[i] # << >> /\ i \in live /\ i \in sub
  BY Now DEF BusDelivers, Inv, TypeOK
<1>2. /\ UNCHANGED <<tab, socket, doc, live, sub, log, allowed>>
      /\ UNCHANGED <<peer, up, breaks>>
      /\ room' = [room EXCEPT ![i] = room[i] \cup X]
      /\ down' = Broadcast(down, i, new, None)
      /\ missed' = [j \in Inst |-> IF j \in live \ {i} THEN missed[j] \cup (new \ X) ELSE missed[j]]
      /\ bus' = [bus EXCEPT ![i] = Tail(bus[i])]
  BY DEF BusDelivers, tabVars
<1> DEFINE Frame == SUBSET Edit
<1>3. bus \in [Inst -> Seq(Frame)]
  BY DEF Inv, TypeOK
<1>4. X \in Frame /\ Tail(bus[i]) \in Seq(Frame) /\ Range(bus[i]) = {X} \cup Range(Tail(bus[i]))
  <2> HIDE DEF Frame
  <2> QED
    BY <1>1, <1>3, RangeTail
<1>5. /\ bus' \in [Inst -> Seq(Frame)] /\ bus'[i] = Tail(bus[i])
      /\ \A j \in Inst \ {i} : bus'[j] = bus[j]
  <2> HIDE DEF Frame
  <2> QED
    BY <1>2, <1>3, <1>4
<1>6. BusTyped'
  <2>1. \A j \in Inst : bus[j] # << >> => j \in sub
    BY DEF Inv, TypeOK
  <2> QED
    BY <1>1, <1>2, <1>5, <2>1 DEF BusTyped
<1>7. new \in SUBSET Edit
  BY <1>4, GainsAre
<1>8. /\ missed' \in [Inst -> SUBSET Edit]
      /\ \A j \in Inst : missed[j] \subseteq missed'[j]
      /\ \A j \in live \ {i} : new \ X \subseteq missed'[j]
  <2>1. missed \in [Inst -> SUBSET Edit] /\ live \subseteq Inst
    BY Now DEF Inv, TypeOK
  <2> QED
    BY <1>2, <1>7, <2>1
<1>9. /\ InBus(i) = X \cup InBus(i)'
      /\ \A j \in Inst \ {i} : InBus(j)' = InBus(j)
  BY <1>4, <1>5 DEF InBus
<1>10. \A j \in Inst : room[j] \subseteq room'[j]
  BY <1>2 DEF Inv, TypeOK
<1>11. X \subseteq room'[i]
  BY <1>2 DEF Inv, TypeOK
<1>12. \A j \in live : InBus(j)' \subseteq InBus(j) \cup new /\ Known(j) \subseteq Known(j)'
  <2>1. live \subseteq Inst
    BY Now
  <2> QED
    BY <1>8, <1>9, <1>10, <1>11, <2>1 DEF Known
<1>13. \A j \in live \ {i} : new \subseteq Known(j)'
  <2> SUFFICES ASSUME NEW j \in live \ {i} PROVE new \subseteq Known(j)'
    OBVIOUS
  <2>1. InBus(i) \subseteq Known(j)
    BY <1>1 DEF Inv, Covered
  <2>2. Known(j) \subseteq Known(j)' /\ missed'[j] \subseteq Known(j)'
    BY <1>12 DEF Known
  <2>3. new \ X \subseteq missed'[j] /\ X \subseteq InBus(i)
    BY <1>8, <1>9
  <2> QED
    BY <2>1, <2>2, <2>3
<1>14. Covered'
  BY <1>1, <1>2, <1>4, <1>12, <1>13, Spreads
<1>15. None \notin Sock /\ breaks' \in 0..MaxBreaks /\ peer' \in [Sock -> PeerRecord]
       /\ up' \in [Sock -> Seq(Message)]
  BY <1>2, Now, Breaks, DocSyncAssumption
<1>16. Origin(None, i, X, new)
  BY <1>15 DEF Origin
<1> QED
  BY <1>1, <1>2, <1>4, <1>6, <1>8, <1>14, <1>15, <1>16, RoomGains
-----------------------------------------------------------------------------
LEMMA NextInv == Inv /\ [Next]_vars => Inv'
<1> SUFFICES ASSUME Inv, [Next]_vars PROVE Inv'
  OBVIOUS
<1>1. CASE UNCHANGED vars
  <2>1. UNCHANGED <<tab, socket, doc, peer, up, down, room, live, sub, bus, log, allowed, missed, breaks>>
    BY <1>1 DEF vars
  <2>2. TypeOK'
    BY <2>1 DEF Inv, TypeOK, ConnsOf
  <2>3. SocketsOK' /\ Synced' /\ Covered'
    BY <2>1 DEF Inv, SocketsOK, Synced, Covered, Known, InBus, Used
  <2> QED
    BY <2>2, <2>3 DEF Inv
<1>2. ASSUME NEW s \in Sock, Join(s) PROVE Inv'
  <2>1. PICK i : i = peer[s].inst
    OBVIOUS
  <2> QED
    BY <1>2, <2>1, JoinInv
<1>3. CASE Arrives
  BY <1>2, <1>3, ServerHandlesInv, SocketsEndInv, BusDeliversInv, RoomRests, SocketOpensInv,
     TabHandlesInv, TabsConnectInv DEF Arrives
<1>4. CASE Next /\ ~Arrives
  BY <1>4, SocketsEndInv, TypeInv, CloseTabInv, TabsConnectInv DEF Next
<1> QED
  BY <1>1, <1>3, <1>4

THEOREM Invariance == Spec => []Inv
<1>1. Init => Inv
  BY InitInv
<1>2. Inv /\ [Next]_vars => Inv'
  BY NextInv
<1> QED
  BY <1>1, <1>2, PTL DEF Spec

(* Tabs, sockets, queues and rooms hold what their types say; the rooms are  *)
(* those of the instances with a joined socket, and nothing is on its way on *)
(* the bus to an instance that is not subscribed.                           *)
THEOREM TypeCorrect == Spec => []TypeOK
<1>1. Inv => TypeOK
  BY DEF Inv
<1> QED
  BY <1>1, Invariance, PTL

(* A tab never has two sockets, nor a retry armed besides the one it has,   *)
(* whatever the order of closes, timers and networks that come back.        *)
THEOREM OneSocket == Spec => []OneSocketPerTab
<1>1. Inv => OneSocketPerTab
  BY DEF Inv, SocketsOK, OneSocketPerTab
<1> QED
  BY <1>1, Invariance, PTL

(* A tab with nothing under way to or from its room shows what the room      *)
(* shows, but for what depends on edits it was not sent back.               *)
THEOREM QuietTabsAgree == Spec => []QuietSocketsAgree
<1>1. ASSUME Inv PROVE QuietSocketsAgree
  <2> SUFFICES ASSUME NEW s \in Sock, peer[s].at = "joined", up[s] = << >>, down[s] = << >>
               PROVE  /\ Visible(doc[peer[s].tab]) \subseteq room[peer[s].inst]
                      /\ \A e \in Visible(room[peer[s].inst]) \ Visible(doc[peer[s].tab]) :
                           SinceOneOf(peer[s].untold, e)
    BY DEF QuietSocketsAgree
  <2> DEFINE d == doc[peer[s].tab]
             r == room[peer[s].inst]
  <2>1. Used(s) /\ peer[s].tab \in Tab /\ peer[s].inst \in Inst
    BY <1>1 DEF Inv, SocketsOK, Used
  <2>2. d \in SUBSET Edit /\ r \in SUBSET Edit
    BY <1>1, <2>1 DEF Inv, TypeOK
  <2>3. d \subseteq r /\ Visible(r) \subseteq d \cup peer[s].untold
    BY <1>1, <2>1, Empty DEF Inv, Synced
  <2> HIDE DEF d, r
  <2>4. Visible(d) \subseteq r
    BY <2>2, <2>3, Shows
  <2>5. ASSUME NEW e \in Visible(r) \ Visible(d) PROVE SinceOneOf(peer[s].untold, e)
    <3>1. PICK k \in 1..e[2] : <<e[1], k>> \in Visible(r) \ d
      BY <2>2, Lacks
    <3> QED
      BY <2>3, <3>1 DEF SinceOneOf
  <2> QED
    BY <2>4, <2>5 DEF d, r
<1> QED
  BY <1>1, Invariance, PTL

(* When the bus is empty, what one room shows and another does not goes back *)
(* to a frame that never reached the other: Redis lost it, or it came out    *)
(* before the subscription, or only its first room had what it waited for.  *)
THEOREM OnlyLossesDivide == Spec => []OnlyMissedFramesDivide
<1>1. ASSUME Inv PROVE OnlyMissedFramesDivide
  <2> SUFFICES ASSUME \A i \in Inst : bus[i] = << >>, NEW i \in live, NEW j \in live,
                      NEW e \in Visible(room[j]) \ Visible(room[i])
               PROVE  SinceOneOf(missed[i], e)
    BY DEF OnlyMissedFramesDivide
  <2>1. i \in Inst /\ j \in Inst /\ room[j] \in SUBSET Edit
    BY <1>1, Now DEF Inv, TypeOK
  <2>2. InBus(i) = {}
    BY <2>1, Empty DEF InBus
  <2>3. Visible(room[j]) \subseteq room[i] \cup missed[i]
    BY <1>1, <2>2 DEF Inv, Covered, Known
  <2>4. PICK k \in 1..e[2] : <<e[1], k>> \in Visible(room[j]) \ room[i]
    BY <2>1, Lacks
  <2> QED
    BY <2>3, <2>4 DEF SinceOneOf
<1> QED
  BY <1>1, Invariance, PTL
=============================================================================
