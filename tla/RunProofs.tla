------------------------------ MODULE RunProofs ------------------------------
(***************************************************************************)
(* Proofs about runs.                                                      *)
(*                                                                         *)
(* RunRegistry, for any number of runs and stream requests and any bounds: *)
(* what a run publishes before its first stream is kept for it, and a      *)
(* stream gets frames in order, none of them twice.                        *)
(*                                                                         *)
(* RunWorker, for any number of jobs, any limits and any number of         *)
(* breakdowns: what a run's report says is so, its exit frame is the last  *)
(* one, its container is not forgotten, and the reaper leaves the runs     *)
(* that have time left alone.                                              *)
(***************************************************************************)
EXTENDS RunRegistry, RunWorker, SequenceTheorems, FiniteSetTheorems, TLAPS

(* The registry.                                                            *)
(* How far a run has come, on either side of Redis.                         *)
Life ==
  \A j \in Job :
    /\ request[j] \in {"new", "connecting"} =>
         /\ j \notin entries /\ queueJob[j] = "none" /\ subscriber[j] # "on"
         /\ buffered[j] = <<>> /\ taken[j] = 0 /\ ~terminal[j]
    /\ request[j] = "connecting" => timer[j]
    /\ j \in entries => subscriber[j] = "on" \/ terminal[j]
    /\ exitAt[j] # 0 => exitAt[j] = sent[j] /\ queueJob[j] = "over"
    /\ terminal[j] => exitAt[j] # 0

Streams ==
  \A w \in Watcher :
    /\ watching[w] = NoWatcher <=> stream[w] = "none"
    /\ watching[w] = NoWatcher => got[w] = <<>>

(* The entry is there from the acknowledgement of the SUBSCRIBE on.         *)
Kept ==
  \A j \in Job : request[j] \in {"enqueueing", "accepted"} =>
    j \in entries \/ Watched(j) \/ expired[j] # "no"

(* Clients have the older frames, the buffer newer ones.                    *)
Increasing(s) == \A m, n \in 1..Len(s) : m < n => s[m] < s[n]

BufferInOrder ==
  \A j \in Job :
    /\ Increasing(buffered[j])
    /\ \A n \in 1..Len(buffered[j]) : buffered[j][n] <= taken[j]
    /\ sink[j] # NoWatcher => buffered[j] = <<>>

GotInOrder ==
  \A w \in Watcher : watching[w] # NoWatcher =>
    /\ Increasing(got[w])
    /\ \A m \in 1..Len(got[w]) :
         /\ got[w][m] <= taken[watching[w]]
         /\ \A n \in 1..Len(buffered[watching[w]]) : got[w][m] < buffered[watching[w]][n]

GotOnce ==
  \A v, w \in Watcher :
    v # w /\ watching[v] = watching[w] /\ watching[w] # NoWatcher =>
      \A m \in 1..Len(got[v]), n \in 1..Len(got[w]) : got[v][m] # got[w][n]

Inv ==
  /\ TypeOK /\ Life /\ Streams /\ Kept /\ TheBeginningIsKept
  /\ BufferInOrder /\ GotInOrder /\ GotOnce
-----------------------------------------------------------------------------
LEMMA InitInv == Init => Inv
<1> SUFFICES ASSUME Init PROVE Inv
  OBVIOUS
<1> USE RunRegistryAssumption DEF Init
<1>1. TypeOK
  BY DEF TypeOK, Request, Subscriber, JobState, Stream
<1>2. Life /\ Streams /\ Kept /\ TheBeginningIsKept
  BY DEF Life, Streams, Kept, TheBeginningIsKept
<1>3. BufferInOrder /\ GotInOrder /\ GotOnce
  BY DEF BufferInOrder, GotInOrder, GotOnce, Increasing
<1> QED
  BY <1>1, <1>2, <1>3 DEF Inv

(* Lemma on sequences: a newer frame at the end keeps the order.            *)
LEMMA AppendNewer ==
  ASSUME NEW s \in Seq(Position), NEW x \in Position, NEW t, t = Append(s, x),
         \A n \in 1..Len(s) : s[n] < x
  PROVE  /\ t \in Seq(Position)
         /\ \A n \in 1..Len(t) : t[n] <= x
         /\ \A n \in 1..Len(t) : t[n] = x \/ (n \in 1..Len(s) /\ t[n] = s[n])
         /\ Increasing(s) => Increasing(t)
<1>1. /\ t \in Seq(Position) /\ Len(t) = Len(s) + 1 /\ Len(s) \in Nat
      /\ \A n \in 1..Len(s) : t[n] = s[n]
      /\ t[Len(s) + 1] = x
  OBVIOUS
<1>2. \A n \in 1..Len(s) : s[n] \in Nat
  BY DEF Position
<1>3. \A n \in 1..Len(t) : n \in 1..Len(s) \/ n = Len(s) + 1
  BY <1>1
<1>4. \A n \in 1..Len(t) : t[n] <= x
  BY <1>1, <1>2, <1>3 DEF Position
<1>5. Increasing(s) => Increasing(t)
  <2>1. SUFFICES ASSUME Increasing(s), NEW m \in 1..Len(t), NEW n \in 1..Len(t), m < n
        PROVE t[m] < t[n]
    BY DEF Increasing
  <2>2. m \in 1..Len(s)
    BY <1>1, <2>1
  <2>3. CASE n \in 1..Len(s)
    BY <1>1, <2>1, <2>2, <2>3 DEF Increasing
  <2>4. CASE n = Len(s) + 1
    BY <1>1, <2>2, <2>4
  <2> QED
    BY <1>3, <2>3, <2>4
<1>6. \A n \in 1..Len(t) : t[n] = x \/ (n \in 1..Len(s) /\ t[n] = s[n])
  <2>1. TAKE n \in 1..Len(t)
  <2>2. CASE n = Len(s) + 1
    BY <1>1, <2>2
  <2>3. CASE n \in 1..Len(s)
    BY <1>1, <2>3
  <2> QED
    BY <1>3, <2>2, <2>3
<1> QED
  BY <1>1, <1>4, <1>5, <1>6

(* Time passing on a channel disturbs no order ...                          *)
LEMMA StillInOrder ==
  ASSUME Inv, UNCHANGED <<buffered, watching, got>>,
         \A k \in Job : taken'[k] \in Nat /\ taken[k] <= taken'[k],
         \A k \in Job : sink'[k] # NoWatcher => sink[k] # NoWatcher
  PROVE  BufferInOrder' /\ GotInOrder' /\ GotOnce'
<1>1. \A k \in Job : taken[k] \in Nat
  BY DEF Inv, TypeOK
<1>2. \A k \in Job : \A n \in 1..Len(buffered[k]) : buffered[k][n] \in Nat
  BY DEF Inv, TypeOK, Position
<1>3. \A w \in Watcher : \A m \in 1..Len(got[w]) : got[w][m] \in Nat
  BY DEF Inv, TypeOK, Position
<1>4. \A w \in Watcher : watching[w] # NoWatcher => watching[w] \in Job
  BY DEF Inv, TypeOK
<1>5. BufferInOrder'
  <2>1. \A k \in Job : \A n \in 1..Len(buffered[k]) : buffered[k][n] <= taken'[k]
    BY <1>1, <1>2 DEF Inv, BufferInOrder
  <2> QED
    BY <2>1 DEF Inv, BufferInOrder, Increasing
<1>6. GotInOrder'
  <2>1. \A w \in Watcher : watching[w] # NoWatcher =>
          \A m \in 1..Len(got[w]) : got[w][m] <= taken'[watching[w]]
    BY <1>1, <1>3, <1>4 DEF Inv, GotInOrder
  <2> QED
    BY <2>1 DEF Inv, GotInOrder, Increasing
<1>7. GotOnce'
  BY DEF Inv, GotOnce
<1> QED
  BY <1>5, <1>6, <1>7

(* ... nor the beginning an entry keeps, while it gets no frame.            *)
LEMMA BeginningStays ==
  ASSUME Inv, UNCHANGED <<buffered, watching>>,
         \A k \in entries' : k \in entries /\ taken'[k] = taken[k]
  PROVE  TheBeginningIsKept'
<1>1. SUFFICES ASSUME NEW k \in entries', ~Watched(k)'
      PROVE (buffered[k] = [n \in 1..(IF taken[k] < BufferLimit THEN taken[k]
                                      ELSE BufferLimit) |-> n])'
  BY DEF TheBeginningIsKept
<1>2. k \in entries /\ ~Watched(k) /\ taken'[k] = taken[k]
  BY <1>1 DEF Watched
<1> QED
  BY <1>2 DEF Inv, TheBeginningIsKept

(* Steps that touch neither frames nor clients.                             *)
LEMMA RequestInv ==
  ASSUME Inv, NEW j \in Job,
         Open(j) \/ Refuse(j) \/ Subscribed(j) \/ SubscribeFails(j)
           \/ Enqueue(j) \/ Accept(j) \/ Die(j)
  PROVE  Inv'
<1> USE DEF Open, Refuse, Subscribed, SubscribeFails, Enqueue, AfterSubscribe, Accept, Die,
            entryVars, runVars, clientVars
<1>1. UNCHANGED <<buffered, sink, terminal, sent, exitAt, taken, watching, stream, got, expired>>
  OBVIOUS
<1>2. TypeOK'
  <2>1. /\ request' \in [Job -> Request] /\ subscriber' \in [Job -> Subscriber]
        /\ queueJob' \in [Job -> JobState] /\ timer' \in [Job -> BOOLEAN]
        /\ entries' \subseteq {k \in Job : timer'[k]} /\ entries \subseteq entries'
    <3>1. CASE Open(j)
      BY <3>1 DEF Inv, TypeOK, Life, Request, Subscriber, JobState
    <3>2. CASE Refuse(j)
      BY <3>2 DEF Inv, TypeOK, Life, Request, Subscriber, JobState
    <3>3. CASE Subscribed(j)
      BY <3>3 DEF Inv, TypeOK, Life, Request, Subscriber, JobState
    <3>4. CASE SubscribeFails(j)
      BY <3>4 DEF Inv, TypeOK, Life, Request, Subscriber, JobState
    <3>5. CASE Enqueue(j)
      BY <3>5 DEF Inv, TypeOK, Life, Request, Subscriber, JobState
    <3>6. CASE Accept(j)
      BY <3>6 DEF Inv, TypeOK, Life, Request, Subscriber, JobState
    <3>7. CASE Die(j)
      BY <3>7 DEF Inv, TypeOK, Life, Request, Subscriber, JobState
    <3> QED
      BY <3>1, <3>2, <3>3, <3>4, <3>5, <3>6, <3>7
  <2> QED
    BY <1>1, <2>1 DEF Inv, TypeOK
<1>3. Life'
  BY <1>1 DEF Inv, TypeOK, Life
<1>4. Streams' /\ BufferInOrder' /\ GotInOrder' /\ GotOnce'
  <2>1. \A k \in Job : taken[k] \in Nat /\ taken[k] <= taken'[k]
    BY <1>1 DEF Inv, TypeOK
  <2>2. BufferInOrder' /\ GotInOrder' /\ GotOnce'
    BY <1>1, <2>1, StillInOrder
  <2> QED
    BY <1>1, <2>2 DEF Inv, Streams
<1>5. Kept'
  BY <1>1 DEF Inv, TypeOK, Kept, Watched
<1>6. TheBeginningIsKept'
  <2>1. SUFFICES ASSUME NEW k \in entries', ~Watched(k)'
        PROVE (buffered[k] = [n \in 1..(IF taken[k] < BufferLimit THEN taken[k]
                                        ELSE BufferLimit) |-> n])'
    BY DEF TheBeginningIsKept
  <2>2. CASE k \in entries
    BY <1>1, <2>1, <2>2 DEF Inv, TheBeginningIsKept, Watched
  <2>3. CASE k \notin entries
    <3>1. k \in Job /\ request[k] = "connecting"
      BY <2>1, <2>3
    <3>2. buffered[k] = <<>> /\ taken[k] = 0
      BY <3>1 DEF Inv, Life
    <3> QED
      BY <1>1, <3>2, RunRegistryAssumption
  <2> QED
    BY <2>2, <2>3
<1> QED
  BY <1>2, <1>3, <1>4, <1>5, <1>6 DEF Inv

(* close(), whoever calls it.                                               *)
LEMMA CloseInv ==
  ASSUME Inv, NEW j \in Job, EnqueueFails(j) \/ Expire(j)
  PROVE  Inv'
<1> USE DEF EnqueueFails, Expire, CloseEntry, RemoveEntry, SinkDropped, Release, runVars, clientVars
<1>1. /\ UNCHANGED <<buffered, terminal, queueJob, sent, exitAt, watching, stream, got>>
      /\ entries' = entries \ {j}
      /\ timer' = [timer EXCEPT ![j] = FALSE] /\ sink' = [sink EXCEPT ![j] = NoWatcher]
      /\ request[j] # "connecting"
      /\ request' = request \/ request' = [request EXCEPT ![j] = "failed"]
      /\ IF j \in entries THEN Release(j) ELSE UNCHANGED <<subscriber, taken>>
      /\ expired' = [expired EXCEPT ![j] =
           IF j \notin entries THEN @ ELSE IF terminal[j] THEN "after" ELSE "before"]
  OBVIOUS
<1>a. /\ expired' \in [Job -> {"no", "before", "after"}]
      /\ j \in entries => expired'[j] # "no"
      /\ \A k \in Job : k # j => expired'[k] = expired[k]
      /\ j \notin entries => expired' = expired
  BY <1>1 DEF Inv, TypeOK
<1>2. \/ j \notin entries /\ UNCHANGED <<subscriber, taken>>
      \/ subscriber' = [subscriber EXCEPT ![j] = "off"] /\ taken' = [taken EXCEPT ![j] = sent[j]]
  BY <1>1
<1>3. \A k \in Job : taken[k] <= taken'[k] /\ (k # j => taken'[k] = taken[k])
  BY <1>2 DEF Inv, TypeOK
<1>4. TypeOK'
  <2>1. request' \in [Job -> Request]
    BY <1>1 DEF Inv, TypeOK, Request
  <2>2. /\ subscriber' \in [Job -> Subscriber] /\ taken' \in [Job -> Nat]
        /\ \A k \in Job : taken'[k] <= sent[k]
    <3>1. \A k \in Job : sent[k] \in Nat /\ taken[k] <= sent[k]
      BY DEF Inv, TypeOK
    <3>2. CASE UNCHANGED <<subscriber, taken>>
      BY <3>1, <3>2 DEF Inv, TypeOK
    <3>3. CASE /\ subscriber' = [subscriber EXCEPT ![j] = "off"]
               /\ taken' = [taken EXCEPT ![j] = sent[j]]
      BY <3>1, <3>3 DEF Inv, TypeOK, Subscriber
    <3> QED
      BY <1>2, <3>2, <3>3
  <2>3. /\ timer' \in [Job -> BOOLEAN] /\ sink' \in [Job -> Watcher \cup {NoWatcher}]
        /\ entries' \subseteq Job /\ entries' \subseteq {k \in Job : timer'[k]}
        /\ \A k \in Job : sink'[k] # NoWatcher => k \in entries' /\ watching[sink'[k]] = k
    BY <1>1 DEF Inv, TypeOK
  <2> QED
    BY <1>1, <1>a, <2>1, <2>2, <2>3 DEF Inv, TypeOK
<1>5. Life'
  BY <1>1, <1>2 DEF Inv, TypeOK, Life
<1>6. Streams'
  BY <1>1 DEF Inv, Streams
<1>7. Kept'
  BY <1>1, <1>a DEF Inv, TypeOK, Kept, Watched
<1>8. TheBeginningIsKept'
  BY <1>1, <1>3, BeginningStays DEF Inv, TypeOK
<1>9. BufferInOrder' /\ GotInOrder' /\ GotOnce'
  <2>1. \A k \in Job : taken'[k] \in Nat
    BY <1>4 DEF TypeOK
  <2>2. \A k \in Job : sink'[k] # NoWatcher => sink[k] # NoWatcher
    BY <1>1 DEF Inv, TypeOK
  <2> QED
    BY <1>1, <1>3, <2>1, <2>2, StillInOrder
<1> QED
  BY <1>4, <1>5, <1>6, <1>7, <1>8, <1>9 DEF Inv
-----------------------------------------------------------------------------
(* The runner publishes for an entry that is subscribed: nothing is lost.   *)
LEMMA PublishInv ==
  ASSUME Inv, NEW j \in Job, PrintOutput(j) \/ PublishExit(j)
  PROVE  Inv'
<1> USE DEF PrintOutput, PublishExit, Publish, entryVars, clientVars
<1>1. /\ UNCHANGED <<request, subscriber, entries, buffered, sink, terminal, timer>>
      /\ UNCHANGED <<watching, stream, got, expired>>
      /\ queueJob[j] = "queued" /\ sent' = [sent EXCEPT ![j] = @ + 1]
      /\ taken' = [taken EXCEPT ![j] = IF subscriber[j] = "on" THEN @ ELSE sent[j] + 1]
  OBVIOUS
<1>2. \/ UNCHANGED <<queueJob, exitAt>>
      \/ /\ exitAt' = [exitAt EXCEPT ![j] = sent[j] + 1]
         /\ queueJob' = [queueJob EXCEPT ![j] = "over"]
  OBVIOUS
<1>3. exitAt[j] = 0 /\ request[j] \notin {"new", "connecting"} /\ ~terminal[j]
  BY <1>1 DEF Inv, Life
<1>4. j \in entries => subscriber[j] = "on"
  BY <1>3 DEF Inv, Life
<1>5. \A k \in Job : /\ taken[k] \in Nat /\ taken'[k] \in Nat /\ taken[k] <= taken'[k]
                     /\ k \in entries => taken'[k] = taken[k]
  BY <1>1, <1>4 DEF Inv, TypeOK
<1>6. TypeOK'
  <2>1. \A k \in Job : sent[k] \in Nat /\ exitAt[k] \in Nat /\ taken[k] \in Nat
                      /\ taken[k] <= sent[k] /\ exitAt[k] <= sent[k]
    BY DEF Inv, TypeOK
  <2>2. /\ queueJob' \in [Job -> JobState] /\ sent' \in [Job -> Nat] /\ taken' \in [Job -> Nat]
        /\ \A k \in Job : taken'[k] <= sent'[k]
    BY <1>1, <1>2, <2>1 DEF Inv, TypeOK, JobState
  <2>3. exitAt' \in [Job -> Nat] /\ \A k \in Job : exitAt'[k] <= sent'[k]
    BY <1>1, <1>2, <2>1 DEF Inv, TypeOK
  <2> QED
    BY <1>1, <2>2, <2>3 DEF Inv, TypeOK
<1>7. Life'
  BY <1>1, <1>2, <1>3 DEF Inv, TypeOK, Life
<1>8. Streams' /\ Kept'
  BY <1>1 DEF Inv, Streams, Kept, Watched
<1>9. TheBeginningIsKept'
  BY <1>1, <1>5, BeginningStays DEF Inv, TypeOK
<1>10. BufferInOrder' /\ GotInOrder' /\ GotOnce'
  <2>1. \A k \in Job : taken'[k] \in Nat /\ taken[k] <= taken'[k]
    BY <1>5
  <2> QED
    BY <1>1, <2>1, StillInOrder
<1> QED
  BY <1>6, <1>7, <1>8, <1>9, <1>10 DEF Inv

(* A client goes, noticed or not.                                           *)
LEMMA ClientInv ==
  ASSUME Inv, NEW w \in Watcher, Leave(w) \/ Detach(w)
  PROVE  Inv'
<1> USE DEF Leave, Detach, entryVars, runVars
<1>1. /\ UNCHANGED <<request, subscriber, entries, buffered, terminal, timer, queueJob, sent, exitAt>>
      /\ UNCHANGED <<taken, watching, got, expired>>
  OBVIOUS
<1>2. watching[w] \in Job
  BY DEF Inv, TypeOK, Streams
<1>3. sink' = sink \/ sink' = [sink EXCEPT ![watching[w]] = NoWatcher]
  OBVIOUS
<1>4. /\ stream' \in [Watcher -> Stream]
      /\ \A v \in Watcher : stream'[v] = "none" <=> stream[v] = "none"
  <2>1. CASE Leave(w)
    BY <2>1 DEF Inv, TypeOK, Stream
  <2>2. CASE Detach(w)
    BY <2>2 DEF Inv, TypeOK, Stream
  <2> QED
    BY <2>1, <2>2
<1>5. TypeOK'
  <2>1. /\ sink \in [Job -> Watcher \cup {NoWatcher}]
        /\ \A j \in Job : sink[j] # NoWatcher => j \in entries /\ watching[sink[j]] = j
    BY DEF Inv, TypeOK
  <2>2. /\ sink' \in [Job -> Watcher \cup {NoWatcher}]
        /\ \A j \in Job : sink'[j] = sink[j] \/ sink'[j] = NoWatcher
    BY <1>2, <1>3, <2>1
  <2>3. \A j \in Job : sink'[j] # NoWatcher => j \in entries /\ watching[sink'[j]] = j
    BY <2>1, <2>2
  <2> QED
    BY <1>1, <1>4, <2>2, <2>3 DEF Inv, TypeOK
<1>6. Life' /\ Kept'
  BY <1>1 DEF Inv, Life, Kept, Watched
<1>7. Streams'
  BY <1>1, <1>4 DEF Inv, Streams
<1>8. TheBeginningIsKept'
  BY <1>1, BeginningStays
<1>9. BufferInOrder' /\ GotInOrder' /\ GotOnce'
  <2>1. \A k \in Job : taken[k] \in Nat /\ taken[k] <= taken[k]
    BY DEF Inv, TypeOK
  <2>2. \A k \in Job : sink'[k] # NoWatcher => sink[k] # NoWatcher
    BY <1>2, <1>3 DEF Inv, TypeOK
  <2> QED
    BY <1>1, <2>1, <2>2, StillInOrder
<1> QED
  BY <1>5, <1>6, <1>7, <1>8, <1>9 DEF Inv
-----------------------------------------------------------------------------
(* receive(), whichever frame: it is newer than everything before it.       *)
LEMMA ReceiveInOrder ==
  ASSUME Inv, NEW j \in Job, taken[j] < sent[j],
         taken' = [taken EXCEPT ![j] = taken[j] + 1],
         Keep(j, taken[j] + 1), UNCHANGED watching,
         \A k \in Job : sink'[k] # NoWatcher => sink[k] # NoWatcher
  PROVE  /\ buffered' \in [Job -> Seq(Position)]
         /\ got' \in [Watcher -> Seq(Position)] /\ stream' \in [Watcher -> Stream]
         /\ Streams' /\ BufferInOrder' /\ GotInOrder' /\ GotOnce'
<1> DEFINE frame == taken[j] + 1
<1>1. /\ frame \in Position /\ taken[j] \in Nat /\ j # NoWatcher
      /\ buffered \in [Job -> Seq(Position)] /\ got \in [Watcher -> Seq(Position)]
      /\ \A k \in Job : taken[k] \in Nat
      /\ \A w \in Watcher : watching[w] # NoWatcher => watching[w] \in Job
  BY RunRegistryAssumption DEF Inv, TypeOK, Position
<1>2. /\ \A k \in Job : taken'[k] \in Nat /\ taken[k] <= taken'[k]
      /\ taken'[j] = frame
  BY <1>1 DEF Inv, TypeOK
<1>3. /\ \A k \in Job : \A n \in 1..Len(buffered[k]) : buffered[k][n] \in Nat
      /\ \A v \in Watcher : \A m \in 1..Len(got[v]) : got[v][m] \in Nat
  BY <1>1 DEF Position
<1>4. \A v \in Watcher : watching[v] = j =>
        \A m \in 1..Len(got[v]) : got[v][m] < frame
  <2>1. \A v \in Watcher : watching[v] = j =>
          \A m \in 1..Len(got[v]) : got[v][m] <= taken[j]
    BY <1>1 DEF Inv, GotInOrder
  <2> QED
    BY <1>1, <1>3, <2>1
<1>5. CASE sink[j] # NoWatcher
  <2> DEFINE w == sink[j]
  <2>1. w \in Watcher /\ watching[w] = j /\ buffered' = buffered /\ buffered[j] = <<>>
    BY <1>5 DEF Inv, TypeOK, BufferInOrder, Keep
  <2>2. CASE stream[w] \in {"left", "gone"}
    <3>1. UNCHANGED <<got, stream>>
      BY <1>5, <2>2 DEF Keep, Send
    <3> QED
      BY <1>1, <1>2, <2>1, <3>1, StillInOrder DEF Inv, TypeOK, Streams
  <2>3. CASE stream[w] \notin {"left", "gone"}
    <3>1. /\ got' = [got EXCEPT ![w] = @ \o <<frame>>]
          /\ stream' = [stream EXCEPT ![w] = IF exitAt[j] \in Range(<<frame>>) THEN "ended" ELSE "open"]
      BY <1>5, <2>3 DEF Keep, Send
    <3>2. /\ got[w] \in Seq(Position) /\ got'[w] = Append(got[w], frame)
          /\ \A v \in Watcher \ {w} : got'[v] = got[v]
      BY <1>1, <2>1, <3>1
    <3>3. \A n \in 1..Len(got[w]) : got[w][n] < frame
      BY <1>4, <2>1
    <3>4. /\ got'[w] \in Seq(Position)
          /\ \A n \in 1..Len(got'[w]) : got'[w][n] <= frame
          /\ \A n \in 1..Len(got'[w]) :
               got'[w][n] = frame \/ (n \in 1..Len(got[w]) /\ got'[w][n] = got[w][n])
          /\ Increasing(got[w]) => Increasing(got'[w])
      <4> HIDE DEF frame, w
      <4> QED
        BY <1>1, <3>2, <3>3, AppendNewer
    <3>5. /\ got' \in [Watcher -> Seq(Position)] /\ stream' \in [Watcher -> Stream]
          /\ Streams'
      BY <1>1, <2>1, <3>1, <3>4, RunRegistryAssumption DEF Inv, TypeOK, Stream, Streams
    <3>6. BufferInOrder'
      <4>1. \A k \in Job : \A n \in 1..Len(buffered[k]) : buffered[k][n] <= taken[k]
        BY DEF Inv, BufferInOrder
      <4>2. \A k \in Job : \A n \in 1..Len(buffered[k]) : buffered[k][n] <= taken'[k]
        BY <1>1, <1>2, <1>3, <4>1
      <4> QED
        BY <2>1, <4>2 DEF Inv, BufferInOrder, Increasing
    <3>7. GotInOrder'
      <4>1. SUFFICES ASSUME NEW v \in Watcher, watching[v] # NoWatcher
            PROVE /\ Increasing(got'[v])
                  /\ \A m \in 1..Len(got'[v]) :
                       /\ got'[v][m] <= taken'[watching[v]]
                       /\ \A n \in 1..Len(buffered[watching[v]]) :
                            got'[v][m] < buffered[watching[v]][n]
        BY <2>1 DEF GotInOrder, Increasing
      <4>2. CASE v = w
        <5>1. Increasing(got[w])
          BY <4>1, <4>2 DEF Inv, GotInOrder
        <5> HIDE DEF frame, w
        <5> QED
          BY <1>2, <2>1, <3>4, <4>2, <5>1
      <4>3. CASE v # w
        <5>1. got'[v] = got[v] /\ watching[v] \in Job
          BY <1>1, <3>2, <4>1, <4>3
        <5>2. /\ Increasing(got[v])
              /\ \A m \in 1..Len(got[v]) :
                   /\ got[v][m] <= taken[watching[v]]
                   /\ \A n \in 1..Len(buffered[watching[v]]) :
                        got[v][m] < buffered[watching[v]][n]
          BY <4>1 DEF Inv, GotInOrder
        <5>3. \A m \in 1..Len(got[v]) : got[v][m] <= taken'[watching[v]]
          <6>1. \A m \in 1..Len(got[v]) : got[v][m] \in Nat
            BY <1>3
          <6>2. /\ taken[watching[v]] \in Nat /\ taken'[watching[v]] \in Nat
                /\ taken[watching[v]] <= taken'[watching[v]]
            BY <1>1, <1>2, <5>1
          <6> QED
            BY <5>2, <6>1, <6>2
        <5> QED
          BY <5>1, <5>2, <5>3
      <4> QED
        BY <4>2, <4>3
    <3>8. GotOnce'
      <4>1. \A v \in Watcher \ {w} : watching[v] = j =>
              \A m \in 1..Len(got[v]), n \in 1..Len(got'[w]) : got[v][m] # got'[w][n]
        <5>1. SUFFICES ASSUME NEW v \in Watcher \ {w}, watching[v] = j,
                              NEW m \in 1..Len(got[v]), NEW n \in 1..Len(got'[w])
              PROVE got[v][m] # got'[w][n]
          OBVIOUS
        <5>2. got[v][m] < frame /\ got[v][m] \in Nat
          BY <1>3, <1>4, <5>1
        <5>3. CASE got'[w][n] = frame
          BY <1>1, <5>2, <5>3
        <5>4. CASE n \in 1..Len(got[w]) /\ got'[w][n] = got[w][n]
          <6>1. v # w /\ watching[v] = watching[w] /\ watching[w] # NoWatcher
            BY <1>1, <2>1, <5>1
          <6>2. \A k \in 1..Len(got[v]), l \in 1..Len(got[w]) : got[v][k] # got[w][l]
            BY <2>1, <5>1, <6>1 DEF Inv, GotOnce
          <6> QED
            BY <5>1, <5>4, <6>2
        <5> QED
          BY <3>4, <5>3, <5>4
      <4>2. SUFFICES ASSUME NEW u \in Watcher, NEW v \in Watcher, u # v,
                            watching[u] = watching[v], watching[v] # NoWatcher,
                            NEW m \in 1..Len(got'[u]), NEW n \in 1..Len(got'[v])
            PROVE got'[u][m] # got'[v][n]
        BY DEF GotOnce
      <4> HIDE DEF frame, w
      <4>4. CASE u # w /\ v # w
        <5>1. got'[u] = got[u] /\ got'[v] = got[v]
          BY <3>2, <4>4
        <5> QED
          BY <4>2, <5>1 DEF Inv, GotOnce
      <4>5. CASE u = w
        <5>1. v \in Watcher \ {w} /\ watching[v] = j /\ got'[v] = got[v]
          BY <2>1, <3>2, <4>2, <4>5
        <5> QED
          BY <4>1, <4>5, <5>1
      <4>6. CASE v = w
        <5>1. u \in Watcher \ {w} /\ watching[u] = j /\ got'[u] = got[u]
          BY <2>1, <3>2, <4>2, <4>6
        <5> QED
          BY <4>1, <4>6, <5>1
      <4> QED
        BY <4>4, <4>5, <4>6
    <3> QED
      BY <1>1, <2>1, <3>5, <3>6, <3>7, <3>8
  <2> QED
    BY <2>2, <2>3
<1>6. CASE sink[j] = NoWatcher
  <2>1. /\ UNCHANGED <<stream, got>>
        /\ buffered' = [buffered EXCEPT ![j] =
             IF Len(@) < BufferLimit THEN Append(@, frame) ELSE @]
    BY <1>6 DEF Keep
  <2>2. \/ buffered' = buffered
        \/ buffered' = [buffered EXCEPT ![j] = Append(@, frame)]
    BY <1>1, <2>1
  <2>3. CASE buffered' = buffered
    BY <1>1, <1>2, <2>1, <2>3, StillInOrder DEF Inv, TypeOK, Streams
  <2>4. CASE buffered' = [buffered EXCEPT ![j] = Append(@, frame)]
    <3> DEFINE s == buffered[j]
    <3>1. /\ s \in Seq(Position) /\ buffered'[j] = Append(s, frame)
          /\ \A k \in Job \ {j} : buffered'[k] = buffered[k]
      BY <1>1, <2>4
    <3>2. \A n \in 1..Len(s) : s[n] < frame
      <4>1. \A n \in 1..Len(s) : s[n] <= taken[j]
        BY DEF Inv, BufferInOrder
      <4> QED
        BY <1>1, <1>3, <4>1
    <3>3. /\ buffered'[j] \in Seq(Position)
          /\ \A n \in 1..Len(buffered'[j]) : buffered'[j][n] <= frame
          /\ \A n \in 1..Len(buffered'[j]) :
               buffered'[j][n] = frame \/ (n \in 1..Len(s) /\ buffered'[j][n] = s[n])
          /\ Increasing(s) => Increasing(buffered'[j])
      <4> HIDE DEF frame, s
      <4> QED
        BY <1>1, <3>1, <3>2, AppendNewer
    <3>4. buffered' \in [Job -> Seq(Position)]
      BY <1>1, <2>4, <3>3
    <3>5. BufferInOrder'
      <4>1. SUFFICES ASSUME NEW k \in Job
            PROVE /\ Increasing(buffered'[k])
                  /\ \A n \in 1..Len(buffered'[k]) : buffered'[k][n] <= taken'[k]
                  /\ sink'[k] # NoWatcher => buffered'[k] = <<>>
        BY DEF BufferInOrder, Increasing
      <4>2. CASE k = j
        <5>1. Increasing(s) /\ sink'[j] = NoWatcher
          BY <1>6 DEF Inv, BufferInOrder
        <5> HIDE DEF frame, s
        <5> QED
          BY <1>2, <3>3, <4>2, <5>1
      <4>3. CASE k # j
        <5>1. buffered'[k] = buffered[k]
          BY <3>1, <4>3
        <5>2. /\ Increasing(buffered[k]) /\ (sink'[k] # NoWatcher => buffered[k] = <<>>)
              /\ \A n \in 1..Len(buffered[k]) : buffered[k][n] <= taken[k]
          BY DEF Inv, BufferInOrder
        <5>3. taken[k] \in Nat /\ taken'[k] \in Nat /\ taken[k] <= taken'[k]
          BY <1>1, <1>2
        <5>4. \A n \in 1..Len(buffered[k]) : buffered[k][n] <= taken'[k]
          BY <1>3, <5>2, <5>3
        <5> QED
          BY <5>1, <5>2, <5>4
      <4> QED
        BY <4>2, <4>3
    <3>6. GotInOrder'
      <4>1. SUFFICES ASSUME NEW v \in Watcher, watching[v] # NoWatcher, NEW m \in 1..Len(got[v])
            PROVE /\ got[v][m] <= taken'[watching[v]]
                  /\ \A n \in 1..Len(buffered'[watching[v]]) :
                       got[v][m] < buffered'[watching[v]][n]
        BY <2>1 DEF Inv, GotInOrder, Increasing
      <4>2. /\ watching[v] \in Job /\ got[v][m] \in Nat /\ got[v][m] <= taken[watching[v]]
            /\ \A n \in 1..Len(buffered[watching[v]]) : got[v][m] < buffered[watching[v]][n]
        BY <1>1, <1>3, <4>1 DEF Inv, GotInOrder
      <4>3. got[v][m] <= taken'[watching[v]]
        <5>1. /\ taken[watching[v]] \in Nat /\ taken'[watching[v]] \in Nat
              /\ taken[watching[v]] <= taken'[watching[v]]
          BY <1>1, <1>2, <4>2
        <5> QED
          BY <4>2, <5>1
      <4>4. CASE watching[v] = j
        <5>1. got[v][m] < frame
          BY <1>4, <4>1, <4>4
        <5> HIDE DEF frame
        <5>2. \A n \in 1..Len(buffered'[j]) : got[v][m] < buffered'[j][n]
          <6>1. SUFFICES ASSUME NEW n \in 1..Len(buffered'[j])
                PROVE got[v][m] < buffered'[j][n]
            OBVIOUS
          <6>2. CASE buffered'[j][n] = frame
            BY <5>1, <6>2
          <6>3. CASE n \in 1..Len(s) /\ buffered'[j][n] = s[n]
            BY <4>2, <4>4, <6>3
          <6> QED
            BY <3>3, <6>2, <6>3
        <5> QED
          BY <4>3, <4>4, <5>2
      <4>5. CASE watching[v] # j
        <5>1. buffered'[watching[v]] = buffered[watching[v]]
          BY <3>1, <4>2, <4>5
        <5> QED
          BY <4>2, <4>3, <5>1
      <4> QED
        BY <4>4, <4>5
    <3>7. Streams' /\ GotOnce'
      BY <2>1 DEF Inv, Streams, GotOnce
    <3> QED
      BY <1>1, <2>1, <3>4, <3>5, <3>6, <3>7 DEF Inv, TypeOK
  <2> QED
    BY <2>2, <2>3, <2>4
<1> QED
  BY <1>5, <1>6

(* ... and it lengthens the beginning of a run nobody watches yet.          *)
LEMMA ReceiveKeepsBeginning ==
  ASSUME Inv, NEW j \in Job, taken[j] < sent[j],
         taken' = [taken EXCEPT ![j] = taken[j] + 1],
         Keep(j, taken[j] + 1), UNCHANGED watching, entries' \subseteq entries
  PROVE  TheBeginningIsKept'
<1>1. SUFFICES ASSUME NEW k \in entries', ~Watched(k)'
      PROVE (buffered[k] = [n \in 1..(IF taken[k] < BufferLimit THEN taken[k]
                                      ELSE BufferLimit) |-> n])'
  BY DEF TheBeginningIsKept
<1>2. /\ k \in entries /\ k \in Job /\ ~Watched(k)
      /\ taken[k] \in Nat /\ BufferLimit \in Nat /\ buffered \in [Job -> Seq(Position)]
  BY <1>1, RunRegistryAssumption DEF Inv, TypeOK, Watched
<1>3. buffered[k] = [n \in 1..(IF taken[k] < BufferLimit THEN taken[k] ELSE BufferLimit) |-> n]
  BY <1>2 DEF Inv, TheBeginningIsKept
<1>4. CASE k = j
  <2>1. sink[j] = NoWatcher
    BY <1>2, <1>4 DEF Inv, TypeOK, Watched
  <2>2. /\ buffered'[j] = IF Len(buffered[j]) < BufferLimit
                          THEN Append(buffered[j], taken[j] + 1) ELSE buffered[j]
        /\ taken'[j] = taken[j] + 1
    BY <1>2, <2>1 DEF Keep, Inv, TypeOK
  <2>3. CASE taken[j] < BufferLimit
    <3>1. buffered[j] = [n \in 1..taken[j] |-> n] /\ Len(buffered[j]) = taken[j]
      BY <1>2, <1>3, <1>4, <2>3
    <3>2. buffered'[j] = Append(buffered[j], taken[j] + 1)
      BY <2>2, <2>3, <3>1
    <3>3. Append(buffered[j], taken[j] + 1) = [n \in 1..(taken[j] + 1) |-> n]
      BY <1>2, <1>4, <3>1
    <3>4. CASE taken[j] + 1 < BufferLimit
      BY <1>4, <2>2, <3>2, <3>3, <3>4
    <3>5. CASE taken[j] + 1 = BufferLimit
      BY <1>4, <2>2, <3>2, <3>3, <3>5
    <3> QED
      BY <1>2, <1>4, <2>3, <3>4, <3>5
  <2>4. CASE ~(taken[j] < BufferLimit)
    <3>1. buffered[j] = [n \in 1..BufferLimit |-> n] /\ Len(buffered[j]) = BufferLimit
      BY <1>2, <1>3, <1>4, <2>4
    <3>2. buffered'[j] = buffered[j] /\ ~(taken'[j] < BufferLimit)
      BY <1>2, <1>4, <2>2, <2>4, <3>1
    <3> QED
      BY <1>4, <3>1, <3>2
  <2> QED
    BY <2>3, <2>4
<1>5. CASE k # j
  <2>1. taken'[k] = taken[k] /\ buffered'[k] = buffered[k]
    BY <1>2, <1>5 DEF Keep, Inv, TypeOK
  <2> QED
    BY <1>3, <2>1
<1> QED
  BY <1>4, <1>5

LEMMA ReceiveOutputInv ==
  ASSUME Inv, NEW j \in Job, ReceiveOutput(j)
  PROVE  Inv'
<1>1. /\ taken[j] < sent[j] /\ subscriber[j] = "on" /\ Keep(j, taken[j] + 1)
      /\ taken' = [taken EXCEPT ![j] = taken[j] + 1]
      /\ UNCHANGED <<request, subscriber, entries, sink, terminal, timer>>
      /\ UNCHANGED <<queueJob, sent, exitAt, watching, expired>>
  BY DEF ReceiveOutput, runVars
<1>2. /\ buffered' \in [Job -> Seq(Position)]
      /\ got' \in [Watcher -> Seq(Position)] /\ stream' \in [Watcher -> Stream]
      /\ Streams' /\ BufferInOrder' /\ GotInOrder' /\ GotOnce'
  BY <1>1, ReceiveInOrder
<1>3. TheBeginningIsKept'
  BY <1>1, ReceiveKeepsBeginning
<1>4. TypeOK'
  <2>1. taken' \in [Job -> Nat] /\ \A k \in Job : taken'[k] <= sent[k]
    BY <1>1 DEF Inv, TypeOK
  <2> QED
    BY <1>1, <1>2, <2>1 DEF Inv, TypeOK
<1>5. Life'
  <2>1. request[j] \notin {"new", "connecting"}
    BY <1>1 DEF Inv, Life
  <2>2. \A k \in Job : k # j => buffered'[k] = buffered[k] /\ taken'[k] = taken[k]
    BY <1>1 DEF Inv, TypeOK, Keep
  <2> QED
    BY <1>1, <2>1, <2>2 DEF Inv, Life
<1>6. Kept'
  BY <1>1 DEF Inv, Kept, Watched
<1> QED
  BY <1>2, <1>3, <1>4, <1>5, <1>6 DEF Inv

(* The entry goes with its exit frame only if there is a sink to take it.   *)
LEMMA ReceiveExitInv ==
  ASSUME Inv, NEW j \in Job, ReceiveExit(j)
  PROVE  Inv'
<1>1. /\ taken[j] < sent[j] /\ subscriber[j] = "on" /\ Keep(j, taken[j] + 1)
      /\ taken[j] + 1 = exitAt[j]
      /\ taken' = [taken EXCEPT ![j] = sent[j]]
      /\ subscriber' = [subscriber EXCEPT ![j] = "off"]
      /\ terminal' = [terminal EXCEPT ![j] = TRUE]
      /\ UNCHANGED <<request, queueJob, sent, exitAt, watching, expired>>
  BY DEF ReceiveExit, Release, runVars
<1>2. \/ /\ sink[j] # NoWatcher
         /\ entries' = entries \ {j} /\ timer' = [timer EXCEPT ![j] = FALSE]
         /\ sink' = [sink EXCEPT ![j] = NoWatcher]
      \/ UNCHANGED <<entries, timer, sink>>
  BY DEF ReceiveExit, Drained, RemoveEntry, SinkDropped
<1>3. taken' = [taken EXCEPT ![j] = taken[j] + 1] /\ exitAt[j] # 0
  <2>1. taken[j] \in Nat
    BY DEF Inv, TypeOK
  <2>2. exitAt[j] # 0
    BY <1>1, <2>1
  <2>3. exitAt[j] = sent[j]
    BY <2>2 DEF Inv, Life
  <2> QED
    BY <1>1, <2>2, <2>3
<1>4. entries' \subseteq entries /\ \A k \in Job : sink'[k] # NoWatcher => sink[k] # NoWatcher
  BY <1>2 DEF Inv, TypeOK
<1>5. /\ buffered' \in [Job -> Seq(Position)]
      /\ got' \in [Watcher -> Seq(Position)] /\ stream' \in [Watcher -> Stream]
      /\ Streams' /\ BufferInOrder' /\ GotInOrder' /\ GotOnce'
  BY <1>1, <1>3, <1>4, ReceiveInOrder
<1>6. TheBeginningIsKept'
  BY <1>1, <1>3, <1>4, ReceiveKeepsBeginning
<1>7. TypeOK'
  <2>1. taken' \in [Job -> Nat] /\ \A k \in Job : taken'[k] <= sent[k]
    BY <1>1 DEF Inv, TypeOK
  <2>2. subscriber' \in [Job -> Subscriber] /\ terminal' \in [Job -> BOOLEAN]
    BY <1>1 DEF Inv, TypeOK, Subscriber
  <2>3. /\ timer' \in [Job -> BOOLEAN] /\ sink' \in [Job -> Watcher \cup {NoWatcher}]
        /\ entries' \subseteq Job /\ entries' \subseteq {k \in Job : timer'[k]}
        /\ \A k \in Job : sink'[k] # NoWatcher => k \in entries' /\ watching[sink'[k]] = k
    BY <1>2 DEF Inv, TypeOK
  <2> QED
    BY <1>1, <1>5, <2>1, <2>2, <2>3 DEF Inv, TypeOK
<1>8. Life'
  <2>1. request[j] \notin {"new", "connecting"}
    BY <1>1 DEF Inv, Life
  <2>2. \A k \in Job : k # j =>
          /\ buffered'[k] = buffered[k] /\ taken'[k] = taken[k] /\ timer'[k] = timer[k]
          /\ terminal'[k] = terminal[k] /\ subscriber'[k] = subscriber[k]
    BY <1>1, <1>2 DEF Inv, TypeOK, Keep
  <2>3. terminal'[j]
    BY <1>1 DEF Inv, TypeOK
  <2> QED
    BY <1>1, <1>3, <1>4, <2>1, <2>2, <2>3 DEF Inv, Life
<1>9. Kept'
  <2>1. j \in entries' \/ j \notin entries \/ Watched(j)
    BY <1>2 DEF Inv, TypeOK, Watched
  <2>2. \A k \in Job : k # j /\ k \in entries => k \in entries'
    BY <1>2
  <2> QED
    BY <1>1, <2>1, <2>2 DEF Inv, Kept, Watched
<1> QED
  BY <1>5, <1>6, <1>7, <1>8, <1>9 DEF Inv
-----------------------------------------------------------------------------
(* attach(): what was buffered goes out, older than anything still to come. *)
LEMMA AttachInv ==
  ASSUME Inv, NEW w \in Watcher, NEW j \in Job, Attach(w, j)
  PROVE  Inv'
<1>1. /\ request[j] = "accepted" /\ watching[w] = NoWatcher /\ j \in entries
      /\ watching' = [watching EXCEPT ![w] = j]
      /\ buffered' = [buffered EXCEPT ![j] = <<>>]
      /\ UNCHANGED <<request, subscriber, terminal, queueJob, sent, exitAt, taken, expired>>
  BY DEF Attach, BufferReset, runVars
<1>2. \/ /\ terminal[j] /\ entries' = entries \ {j}
         /\ timer' = [timer EXCEPT ![j] = FALSE] /\ sink' = [sink EXCEPT ![j] = NoWatcher]
      \/ sink' = [sink EXCEPT ![j] = w] /\ timer' = [timer EXCEPT ![j] = timer[j]]
           /\ entries' = entries
  BY DEF Attach, RemoveEntry, SinkDropped, ClockRuns
<1>3. /\ stream[w] = "none" /\ got[w] = <<>> /\ buffered[j] \in Seq(Position) /\ j # NoWatcher
      /\ got \in [Watcher -> Seq(Position)] /\ buffered \in [Job -> Seq(Position)]
      /\ watching \in [Watcher -> Job \cup {NoWatcher}]
      /\ \A x \in Watcher : watching[x] # NoWatcher => watching[x] \in Job
  BY <1>1, RunRegistryAssumption DEF Inv, TypeOK, Streams
<1>4. /\ \A v \in Watcher : watching'[v] = IF v = w THEN j ELSE watching[v]
      /\ \A k \in Job : buffered'[k] = IF k = j THEN <<>> ELSE buffered[k]
  BY <1>1, <1>3
<1>5. /\ got'[w] = buffered[j] \/ got'[w] = <<>>
      /\ \A v \in Watcher \ {w} : got'[v] = got[v]
      /\ got' \in [Watcher -> Seq(Position)]
      /\ stream' \in [Watcher -> Stream] /\ stream'[w] # "none"
      /\ \A v \in Watcher \ {w} : stream'[v] = stream[v]
  <2>1. CASE Send(w, j, Replay(j))
    <3>1. /\ got' = [got EXCEPT ![w] = @ \o buffered[j]]
          /\ stream' = [stream EXCEPT ![w] =
               IF exitAt[j] \in Range(buffered[j]) THEN "ended" ELSE "open"]
      BY <1>3, <2>1 DEF Send, Replay
    <3>2. <<>> \o buffered[j] = buffered[j]
      BY <1>3, ConcatEmptySeq
    <3>3. got' = [got EXCEPT ![w] = buffered[j]]
      BY <1>3, <3>1, <3>2
    <3> QED
      BY <1>3, <3>1, <3>3 DEF Inv, TypeOK, Stream
  <2>2. CASE stream' = [stream EXCEPT ![w] = "gone"] /\ UNCHANGED got
    BY <1>3, <2>2 DEF Inv, TypeOK, Stream
  <2> QED
    BY <2>1, <2>2 DEF Attach
<1>6. TypeOK'
  <2>1. /\ watching' \in [Watcher -> Job \cup {NoWatcher}]
        /\ buffered' \in [Job -> Seq(Position)]
    BY <1>1, <1>3
  <2>2. /\ timer' \in [Job -> BOOLEAN] /\ sink' \in [Job -> Watcher \cup {NoWatcher}]
        /\ entries' \subseteq Job /\ entries' \subseteq {k \in Job : timer'[k]}
    <3>1. \/ terminal[j] /\ timer' = [timer EXCEPT ![j] = FALSE] /\ entries' = entries \ {j}
          \/ timer' = timer /\ entries' = entries
      BY <1>2 DEF Inv, TypeOK
    <3>2. sink' \in [Job -> Watcher \cup {NoWatcher}]
      <4>1. sink \in [Job -> Watcher \cup {NoWatcher}]
        BY DEF Inv, TypeOK
      <4>2. sink' = [sink EXCEPT ![j] = NoWatcher] \/ sink' = [sink EXCEPT ![j] = w]
        BY <1>2
      <4> QED
        BY <4>1, <4>2
    <3>3. timer' \in [Job -> BOOLEAN] /\ entries' \subseteq Job
      BY <3>1 DEF Inv, TypeOK
    <3>4. entries' \subseteq {k \in Job : timer'[k]}
      BY <3>1 DEF Inv, TypeOK
    <3> QED
      BY <3>2, <3>3, <3>4
  <2>3. \A k \in Job : sink'[k] # NoWatcher => k \in entries' /\ watching'[sink'[k]] = k
    <3>1. SUFFICES ASSUME NEW k \in Job, sink'[k] # NoWatcher
          PROVE k \in entries' /\ watching'[sink'[k]] = k
      OBVIOUS
    <3>2. CASE k = j
      BY <1>1, <1>2, <1>4, <3>1, <3>2 DEF Inv, TypeOK
    <3>3. CASE k # j
      <4>1. sink'[k] = sink[k] /\ (k \in entries => k \in entries')
        BY <1>2, <3>3 DEF Inv, TypeOK
      <4>2. k \in entries /\ watching[sink[k]] = k /\ sink[k] \in Watcher
        BY <3>1, <4>1 DEF Inv, TypeOK
      <4>3. sink[k] # w
        BY <1>1, <4>2, RunRegistryAssumption
      <4> QED
        BY <1>4, <4>1, <4>2, <4>3
    <3> QED
      BY <3>2, <3>3
  <2> QED
    BY <1>1, <1>5, <2>1, <2>2, <2>3 DEF Inv, TypeOK
<1>7. Life'
  <2>1. \A k \in Job : k # j => timer'[k] = timer[k] /\ (k \in entries' <=> k \in entries)
    BY <1>2 DEF Inv, TypeOK
  <2>2. entries' \subseteq entries
    BY <1>2
  <2> QED
    BY <1>1, <1>4, <2>1, <2>2 DEF Inv, Life
<1>8. Streams'
  <2>1. SUFFICES ASSUME NEW v \in Watcher
        PROVE /\ watching'[v] = NoWatcher <=> stream'[v] = "none"
              /\ watching'[v] = NoWatcher => got'[v] = <<>>
    BY DEF Streams
  <2>2. CASE v = w
    BY <1>3, <1>4, <1>5, <2>2
  <2>3. CASE v # w
    <3>1. watching'[v] = watching[v] /\ stream'[v] = stream[v] /\ got'[v] = got[v]
      BY <1>4, <1>5, <2>3
    <3> QED
      BY <3>1 DEF Inv, Streams
  <2> QED
    BY <2>2, <2>3
<1>9. Kept'
  <2>1. Watched(j)'
    BY <1>4 DEF Watched
  <2>2. \A k \in Job : k # j /\ k \in entries => k \in entries'
    BY <1>2
  <2>3. \A k \in Job : Watched(k) => Watched(k)'
    BY <1>1, <1>4, RunRegistryAssumption DEF Watched
  <2> QED
    BY <1>1, <2>1, <2>2, <2>3 DEF Inv, Kept
<1>10. TheBeginningIsKept'
  <2>1. SUFFICES ASSUME NEW k \in entries', ~Watched(k)'
        PROVE (buffered[k] = [n \in 1..(IF taken[k] < BufferLimit THEN taken[k]
                                        ELSE BufferLimit) |-> n])'
    BY DEF TheBeginningIsKept
  <2>2. k # j /\ k \in entries /\ k \in Job
    BY <1>2, <1>4, <2>1 DEF Watched, Inv, TypeOK
  <2>3. ~Watched(k)
    BY <1>1, <1>4, <2>1, <2>2, RunRegistryAssumption DEF Watched
  <2> QED
    BY <1>1, <1>4, <2>2, <2>3 DEF Inv, TheBeginningIsKept
<1>11. /\ Increasing(buffered[j])
       /\ \A n \in 1..Len(buffered[j]) : buffered[j][n] <= taken[j]
       /\ Increasing(<<>>)
  BY DEF Inv, BufferInOrder, Increasing
<1>12. BufferInOrder'
  <2>1. SUFFICES ASSUME NEW k \in Job
        PROVE /\ Increasing(buffered'[k])
              /\ \A n \in 1..Len(buffered'[k]) : buffered'[k][n] <= taken[k]
              /\ sink'[k] # NoWatcher => buffered'[k] = <<>>
    BY <1>1 DEF BufferInOrder, Increasing
  <2>2. CASE k = j
    BY <1>4, <1>11, <2>2
  <2>3. CASE k # j
    <3>1. buffered'[k] = buffered[k] /\ sink'[k] = sink[k]
      BY <1>2, <1>4, <2>3 DEF Inv, TypeOK
    <3> QED
      BY <3>1 DEF Inv, BufferInOrder
  <2> QED
    BY <2>2, <2>3
<1>13. GotInOrder'
  <2>1. SUFFICES ASSUME NEW v \in Watcher, watching'[v] # NoWatcher
        PROVE /\ Increasing(got'[v])
              /\ \A m \in 1..Len(got'[v]) :
                   /\ got'[v][m] <= taken[watching'[v]]
                   /\ \A n \in 1..Len(buffered'[watching'[v]]) :
                        got'[v][m] < buffered'[watching'[v]][n]
    BY <1>1 DEF GotInOrder, Increasing
  <2>2. CASE v = w
    <3>1. watching'[v] = j /\ buffered'[j] = <<>>
      BY <1>4, <2>2
    <3> QED
      BY <1>5, <1>11, <2>2, <3>1
  <2>3. CASE v # w
    <3>1. got'[v] = got[v] /\ watching'[v] = watching[v] /\ watching[v] \in Job
      BY <1>3, <1>4, <1>5, <2>1, <2>3
    <3>2. /\ Increasing(got[v])
          /\ \A m \in 1..Len(got[v]) :
               /\ got[v][m] <= taken[watching[v]]
               /\ \A n \in 1..Len(buffered[watching[v]]) :
                    got[v][m] < buffered[watching[v]][n]
      BY <2>1, <3>1 DEF Inv, GotInOrder
    <3>3. buffered'[watching[v]] = <<>> \/ buffered'[watching[v]] = buffered[watching[v]]
      BY <1>4, <3>1
    <3> QED
      BY <3>1, <3>2, <3>3
  <2> QED
    BY <2>2, <2>3
<1>14. GotOnce'
  <2>1. \A v \in Watcher \ {w} : watching[v] = j =>
          \A m \in 1..Len(got[v]), n \in 1..Len(got'[w]) : got[v][m] # got'[w][n]
    <3>1. SUFFICES ASSUME NEW v \in Watcher \ {w}, watching[v] = j,
                          NEW m \in 1..Len(got[v]), NEW n \in 1..Len(got'[w])
          PROVE got[v][m] # got'[w][n]
      OBVIOUS
    <3>2. n \in 1..Len(buffered[j]) /\ got'[w][n] = buffered[j][n]
      BY <1>5, <3>1
    <3>3. got[v][m] < buffered[j][n]
      BY <1>3, <3>1, <3>2 DEF Inv, GotInOrder
    <3>4. got[v][m] \in Nat /\ buffered[j][n] \in Nat
      <4>1. got[v] \in Seq(Position)
        BY <1>3
      <4>2. got[v][m] \in Position
        BY <3>1, <4>1
      <4>3. buffered[j][n] \in Position
        BY <1>3, <3>2
      <4> QED
        BY <4>2, <4>3 DEF Position
    <3> QED
      BY <3>2, <3>3, <3>4
  <2>2. SUFFICES ASSUME NEW u \in Watcher, NEW v \in Watcher, u # v,
                        watching'[u] = watching'[v], watching'[v] # NoWatcher,
                        NEW m \in 1..Len(got'[u]), NEW n \in 1..Len(got'[v])
        PROVE got'[u][m] # got'[v][n]
    BY DEF GotOnce
  <2>3. CASE u # w /\ v # w
    <3>1. /\ got'[u] = got[u] /\ got'[v] = got[v]
          /\ watching'[u] = watching[u] /\ watching'[v] = watching[v]
      BY <1>4, <1>5, <2>3
    <3> QED
      BY <2>2, <3>1 DEF Inv, GotOnce
  <2>4. CASE u = w
    <3>1. v \in Watcher \ {w} /\ watching[v] = j /\ got'[v] = got[v]
      BY <1>4, <1>5, <2>2, <2>4
    <3> QED
      BY <2>1, <2>4, <3>1
  <2>5. CASE v = w
    <3>1. u \in Watcher \ {w} /\ watching[u] = j /\ got'[u] = got[u]
      BY <1>4, <1>5, <2>2, <2>5
    <3> QED
      BY <2>1, <2>5, <3>1
  <2> QED
    BY <2>3, <2>4, <2>5
<1> QED
  BY <1>6, <1>7, <1>8, <1>9, <1>10, <1>12, <1>13, <1>14 DEF Inv
-----------------------------------------------------------------------------
LEMMA NextInv == Inv /\ [Next]_vars => Inv'
<1> SUFFICES ASSUME Inv, [Next]_vars PROVE Inv'
  OBVIOUS
<1>1. CASE UNCHANGED vars
  <2>1. /\ UNCHANGED <<request, subscriber, entries, buffered, sink, terminal, timer>>
        /\ UNCHANGED <<queueJob, sent, exitAt, taken, watching, stream, got, expired>>
    BY <1>1 DEF vars, entryVars, runVars, clientVars
  <2>2. TypeOK' /\ Life'
    BY <2>1 DEF Inv, TypeOK, Life
  <2>3. Streams' /\ Kept' /\ TheBeginningIsKept'
    BY <2>1 DEF Inv, Streams, Kept, TheBeginningIsKept, Watched
  <2>4. BufferInOrder' /\ GotInOrder' /\ GotOnce'
    BY <2>1 DEF Inv, BufferInOrder, GotInOrder, GotOnce, Increasing
  <2> QED
    BY <2>2, <2>3, <2>4 DEF Inv
<1>2. ASSUME NEW j \in Job, JobStep(j) PROVE Inv'
  BY <1>2, RequestInv, CloseInv, PublishInv, ReceiveOutputInv, ReceiveExitInv DEF JobStep
<1>3. ASSUME NEW w \in Watcher, WatcherStep(w) PROVE Inv'
  BY <1>3, AttachInv, ClientInv DEF WatcherStep
<1> QED
  BY <1>1, <1>2, <1>3 DEF Next

(* Every reachable state of the registry satisfies the inductive invariant. *)
THEOREM Invariance == Spec => []Inv
<1>1. Init => Inv
  BY InitInv
<1>2. Inv /\ [Next]_vars => Inv'
  BY NextInv
<1> QED
  BY <1>1, <1>2, PTL DEF Spec

(* The registry's variables keep their types, an entry is always on the     *)
(* clock, and a sink is an attached response of its run.                    *)
THEOREM TypeCorrect == Spec => []TypeOK
<1>1. Inv => TypeOK
  BY DEF Inv
<1> QED
  BY <1>1, Invariance, PTL

(* An accepted run leaves the registry before anybody asked for its stream  *)
(* only through its TTL (attach() and receive() in registry.ts).            *)
THEOREM RunsAreKept == Spec => []KeptForTheClient
<1>1. Inv => KeptForTheClient
  BY DEF Inv, Kept, KeptForTheClient
<1> QED
  BY <1>1, Invariance, PTL

(* What a run published before its first stream waits for that stream, all  *)
(* of it up to the buffer's limit (push() in registry.ts).                  *)
THEOREM BeginningsAreKept == Spec => []TheBeginningIsKept
<1>1. Inv => TheBeginningIsKept
  BY DEF Inv
<1> QED
  BY <1>1, Invariance, PTL

(* A client gets the frames of its run in the order they were published,    *)
(* the exit frame last (attach(), receive()).                               *)
THEOREM OrderIsKept == Spec => []StreamsAreInOrder
<1>1. ASSUME Inv PROVE StreamsAreInOrder
  <2>1. SUFFICES ASSUME NEW w \in Watcher, NEW m \in 1..Len(got[w]), NEW n \in 1..Len(got[w]),
                        m < n
        PROVE got[w][m] < got[w][n] /\ got[w][m] # exitAt[watching[w]]
    BY DEF StreamsAreInOrder
  <2>2. watching[w] # NoWatcher /\ watching[w] \in Job
    BY <1>1, <2>1 DEF Inv, Streams, TypeOK
  <2>3. got[w][m] < got[w][n] /\ got[w][n] <= taken[watching[w]]
    BY <1>1, <2>1, <2>2 DEF Inv, GotInOrder, Increasing
  <2>4. got[w][m] \in Nat \ {0} /\ got[w][n] \in Nat
    BY <1>1, <2>1 DEF Inv, TypeOK, Position
  <2>5. /\ taken[watching[w]] \in Nat /\ sent[watching[w]] \in Nat
        /\ taken[watching[w]] <= sent[watching[w]]
        /\ exitAt[watching[w]] # 0 => exitAt[watching[w]] = sent[watching[w]]
    BY <1>1, <2>2 DEF Inv, TypeOK, Life
  <2> QED
    BY <2>3, <2>4, <2>5
<1> QED
  BY <1>1, Invariance, PTL

(* A frame goes to one client, and to that client once; what is in the      *)
(* buffer went to nobody.                                                   *)
THEOREM FramesGoOutOnce == Spec => []EachFrameOnce
<1>1. ASSUME Inv PROVE EachFrameOnce
  <2>1. SUFFICES ASSUME NEW w \in Watcher, watching[w] # NoWatcher
        PROVE /\ Range(got[w]) \cap Range(buffered[watching[w]]) = {}
              /\ \A v \in Watcher \ {w} :
                   watching[v] = watching[w] => Range(got[v]) \cap Range(got[w]) = {}
    BY DEF EachFrameOnce
  <2>2. /\ watching[w] \in Job /\ buffered[watching[w]] \in Seq(Position)
        /\ \A v \in Watcher : got[v] \in Seq(Position)
    BY <1>1, <2>1 DEF Inv, TypeOK
  <2>3. Range(got[w]) \cap Range(buffered[watching[w]]) = {}
    <3>1. \A m \in 1..Len(got[w]), n \in 1..Len(buffered[watching[w]]) :
            got[w][m] < buffered[watching[w]][n] /\ got[w][m] \in Nat
      BY <1>1, <2>1, <2>2 DEF Inv, GotInOrder, Position
    <3>2. \A m \in 1..Len(got[w]), n \in 1..Len(buffered[watching[w]]) :
            got[w][m] # buffered[watching[w]][n]
      BY <3>1
    <3> QED
      BY <2>2, <3>2 DEF Range
  <2>4. ASSUME NEW v \in Watcher \ {w}, watching[v] = watching[w]
        PROVE Range(got[v]) \cap Range(got[w]) = {}
    <3>1. \A m \in 1..Len(got[v]), n \in 1..Len(got[w]) : got[v][m] # got[w][n]
      BY <1>1, <2>1, <2>4 DEF Inv, GotOnce
    <3> QED
      BY <2>2, <3>1 DEF Range
  <2> QED
    BY <2>3, <2>4
<1> QED
  BY <1>1, Invariance, PTL
-----------------------------------------------------------------------------
(* The runner.                                                              *)
Place == {"idle", "creating", "copying", "running", "removing", "publishing", "finally"}
Code == {"null", "own", "signal", "docker"}
ExitFrame == {Exit(s, c, t) : s \in {"ok", "timeout", "error"}, c \in Code, t \in BOOLEAN}
Handler ==
  [at : Place, timer : BOOLEAN, reason : {"none", "timeout", "output"}, listening : BOOLEAN,
   killed : BOOLEAN, sent : 0..MAX_OUTPUT, cut : BOOLEAN, threw : BOOLEAN, code : Code,
   result : Seq(ExitFrame), terminalSent : BOOLEAN]
Container ==
  [state : {"none", "created", "starting", "running", "refused"}, by : 0..Stalls,
   old : BOOLEAN, end : {"none", "own", "signal", "docker"}]
Ids == Run \X (0..Stalls)

Typed ==
  /\ proc \in {"up", "closing", "down"}
  /\ job \in [Run -> {"waiting", "active", "completed", "failed"}]
  /\ attempt \in [Run -> 0..Stalls]
  /\ h \in [Run -> Handler] /\ box \in [Run -> Container]
  /\ kill \subseteq Ids
  /\ sweep \in [at : {"idle", "listed", "stale"}, ids : SUBSET Ids]
  /\ frames \in [Run -> Seq(Frame)]
  /\ excused \subseteq Run /\ left \subseteq Run /\ breaks \in 0..MaxBreaks

(* What holds of each run. A job is active while it has a handler, and one  *)
(* that lost its handler before the end lost its runner.                    *)
Lives(r) ==
  /\ h[r].at # "idle" => job[r] = "active" /\ proc # "down"
  /\ h[r].at = "idle" /\ job[r] = "active" => r \in excused

(* No container and no sweep knows of an attempt before its time.           *)
Swept(r) == {id \in sweep.ids : id[1] = r}

Attempts(r) ==
  /\ Exists(r) => box[r].by <= attempt[r]
  /\ \A id \in Swept(r) : id[2] <= attempt[r]
  /\ job[r] = "waiting" \/ h[r].at = "creating" => ~Present(Own(r)) /\ Own(r) \notin sweep.ids

(* What is old by now has no timer, and a sweep takes nothing else.         *)
OldOnes(r) ==
  /\ box[r].old /\ h[r].at # "idle" /\ Present(Own(r)) => ~h[r].timer
  /\ sweep.at = "stale" => \A id \in Swept(r) : Present(id) => box[r].old

Leftovers(r) ==
  /\ Exists(r) /\ h[r].at \in {"idle", "creating", "publishing", "finally"}
       => r \in excused \cup left
  /\ h[r].at = "publishing" => ~Present(Own(r)) \/ r \in left

(* How it has gone so far, by its handler's record and its container. *)
Course(x, b) ==
  /\ b.end = "own" => b.state = "none"
  /\ x.at = "idle" => ~x.timer
  /\ x.at \in {"idle", "creating", "copying"} => ~x.cut
  /\ x.at \in {"creating", "copying", "running"} => x.code = "null" /\ ~x.threw
  /\ x.at = "running" => /\ x.listening
                         /\ b.state \notin {"starting", "running"} => b.end # "none"
  /\ x.cut => x.reason = "output" /\ x.killed /\ ~x.threw
  /\ x.at = "removing" => /\ x.cut => x.code = "null"
                          /\ x.code = "own" => b.end = "own" /\ b.state = "none"
  /\ x.at = "publishing" =>
       /\ Len(x.result) = 1
       /\ x.cut => x.result[1].status = "ok" /\ x.result[1].truncated
       /\ x.result[1].code = "own" => b.end = "own" /\ b.state = "none" /\ ~x.cut

NoExit(s) == \A k \in 1..Len(s) : s[k].type # "exit"
ExitLast(s) == \A k \in 1..Len(s) : s[k].type = "exit" => k = Len(s)

Sends(r) ==
  r \notin excused =>
    /\ job[r] = "waiting" => frames[r] = << >>
    /\ h[r].at \in {"creating", "copying", "running", "removing", "publishing"} =>
         NoExit(frames[r])
    /\ h[r].at = "finally" => h[r].terminalSent
    /\ ExitLast(frames[r])

RunOK(r) ==
  Lives(r) /\ Attempts(r) /\ OldOnes(r) /\ Leftovers(r) /\ Course(h[r], box[r]) /\ Sends(r)

WorkerInv ==
  /\ Typed
  /\ IsFiniteSet(Busy) /\ Cardinality(Busy) <= CONCURRENCY
  /\ \A r \in Run : RunOK(r)
-----------------------------------------------------------------------------
LEMMA WorkerInitInv == WorkerInit => WorkerInv
<1> SUFFICES ASSUME WorkerInit PROVE WorkerInv
  OBVIOUS
<1> USE RunWorkerAssumption DEF WorkerInit
<1>1. Idle \in Handler /\ NoBox \in Container /\ Quiet \in [at : {"idle", "listed", "stale"}, ids : SUBSET Ids]
  BY DEF Idle, Handler, NoBox, Container, Quiet, Place, Code
<1>2. Typed
  BY <1>1 DEF Typed
<1>3. Busy = {}
  BY DEF Busy, Idle
<1>4. IsFiniteSet(Busy) /\ Cardinality(Busy) <= CONCURRENCY
  BY <1>3, FS_EmptySet
<1>5. \A r \in Run : RunOK(r)
  BY DEF RunOK, Lives, Attempts, Swept, OldOnes, Leftovers, Course, Sends, ExitLast, NoExit,
         Idle, NoBox, Quiet, Exists, Present, Own
<1> QED
  BY <1>2, <1>4, <1>5 DEF WorkerInv

(* A step of one run leaves what holds of the others alone.                 *)
LEMMA OtherRuns ==
  ASSUME WorkerInv, NEW r \in Run, UNCHANGED <<proc, sweep>>,
         \A q \in Run \ {r} : /\ h'[q] = h[q] /\ box'[q] = box[q] /\ job'[q] = job[q]
                              /\ attempt'[q] = attempt[q] /\ frames'[q] = frames[q],
         \A q \in Run \ {r} : (q \in excused' <=> q \in excused) /\ (q \in left' <=> q \in left)
  PROVE  \A q \in Run \ {r} : RunOK(q)'
<1> SUFFICES ASSUME NEW q \in Run \ {r} PROVE RunOK(q)'
  OBVIOUS
<1>1. RunOK(q)
  BY DEF WorkerInv
<1>2. Lives(q)' /\ Sends(q)' /\ Course(h'[q], box'[q])
  BY <1>1 DEF RunOK, Lives, Sends
<1>3. Attempts(q)' /\ OldOnes(q)' /\ Leftovers(q)'
  BY <1>1 DEF RunOK, Attempts, Swept, OldOnes, Leftovers, Exists, Present, Own
<1> QED
  BY <1>2, <1>3 DEF RunOK

(* Nobody takes a job: the handlers stay within their number.               *)
LEMMA NoMoreHandlers ==
  ASSUME WorkerInv, \A r \in Run : h[r].at = "idle" => h'[r].at = "idle"
  PROVE  IsFiniteSet(Busy') /\ Cardinality(Busy') <= CONCURRENCY
<1>1. Busy' \subseteq Busy /\ IsFiniteSet(Busy)
  BY DEF WorkerInv, Busy
<1>2. Cardinality(Busy') <= Cardinality(Busy) /\ IsFiniteSet(Busy')
  BY <1>1, FS_Subset
<1>3. Cardinality(Busy') \in Nat /\ Cardinality(Busy) \in Nat
  BY <1>1, <1>2, FS_CardinalityType
<1> QED
  BY <1>2, <1>3, RunWorkerAssumption DEF WorkerInv

LEMMA OneRun ==
  ASSUME WorkerInv, NEW r \in Run, NEW x \in Handler, NEW b \in Container,
         h' = [h EXCEPT ![r] = x], box' = [box EXCEPT ![r] = b],
         UNCHANGED <<proc, job, attempt, sweep, left>>,
         kill' \subseteq Ids, breaks' \in 0..MaxBreaks,
         frames' \in [Run -> Seq(Frame)],
         excused' = excused \/ excused' = excused \cup {r},
         \A q \in Run \ {r} : frames'[q] = frames[q],
         h[r].at = "idle" => x.at = "idle",
         RunOK(r)'
  PROVE  WorkerInv'
<1>1. /\ h' \in [Run -> Handler] /\ h'[r] = x /\ \A q \in Run \ {r} : h'[q] = h[q]
      /\ box' \in [Run -> Container] /\ \A q \in Run \ {r} : box'[q] = box[q]
  BY DEF WorkerInv, Typed
<1>2. Typed'
  BY <1>1 DEF WorkerInv, Typed
<1>3. \A q \in Run \ {r} : RunOK(q)'
  BY <1>1, OtherRuns
<1>4. IsFiniteSet(Busy') /\ Cardinality(Busy') <= CONCURRENCY
  BY <1>1, NoMoreHandlers
<1> QED
  BY <1>2, <1>3, <1>4 DEF WorkerInv

(* The handler goes on; its container, if any, stays as it is.              *)
LEMMA HandlerMoves ==
  ASSUME WorkerInv, NEW r \in Run, NEW x \in Handler, h' = [h EXCEPT ![r] = x],
         UNCHANGED <<proc, job, attempt, sweep, box, left, excused, breaks>>,
         kill' \subseteq Ids, frames' \in [Run -> Seq(Frame)],
         \A q \in Run \ {r} : frames'[q] = frames[q],
         h[r].at # "idle", x.at # "idle",
         x.timer => h[r].timer,
         x.at = "creating" => h[r].at = "creating",
         x.at \in {"publishing", "finally"} =>
           ~Exists(r) \/ h[r].at \in {"creating", "publishing", "finally"},
         x.at = "publishing" => ~Present(Own(r)) \/ h[r].at = "publishing",
         Course(x, box[r]), Sends(r)'
  PROVE  WorkerInv'
<1>1. h'[r] = x /\ RunOK(r)
  BY DEF WorkerInv, Typed
<1>2. Lives(r)'
  BY <1>1 DEF RunOK, Lives
<1>3. Attempts(r)'
  BY <1>1 DEF RunOK, Attempts, Swept, Exists, Present, Own
<1>4. OldOnes(r)'
  BY <1>1 DEF RunOK, OldOnes, Swept, Exists, Present, Own
<1>5. Leftovers(r)'
  BY <1>1 DEF RunOK, Leftovers, Exists, Present, Own
<1>6. RunOK(r)'
  BY <1>1, <1>2, <1>3, <1>4, <1>5 DEF RunOK
<1>7. box[r] \in Container /\ box' = [box EXCEPT ![r] = box[r]] /\ breaks' \in 0..MaxBreaks
  BY DEF WorkerInv, Typed
<1> QED
  BY <1>6, <1>7, OneRun

LEMMA OwnIsAnId == ASSUME WorkerInv, NEW r \in Run PROVE Own(r) \in Ids
  BY DEF WorkerInv, Typed, Own, Ids

LEMMA ResultIsAFrame == ASSUME NEW x \in Handler PROVE Result(x) \in ExitFrame
<1>1. \A s \in {"ok", "timeout", "error"}, c \in Code, t \in BOOLEAN : Exit(s, c, t) \in ExitFrame
  BY DEF ExitFrame
<1>2. (x.reason = "output") \in BOOLEAN /\ x.code \in Code /\ "null" \in Code
  BY DEF Handler, Code
<1> QED
  BY <1>1, <1>2 DEF Result

LEMMA ResultFields ==
  ASSUME NEW x \in Handler
  PROVE  /\ x.threw => Result(x).code = "null"
         /\ Result(x).code = "own" => x.code = "own" /\ ~x.threw
         /\ x.reason = "output" /\ ~x.threw => Result(x).status = "ok" /\ Result(x).truncated
<1>1. CASE x.threw
  BY <1>1 DEF Result, Exit
<1>2. CASE ~x.threw /\ x.reason = "timeout"
  BY <1>2 DEF Result, Exit
<1>3. CASE ~x.threw /\ x.reason # "timeout"
  BY <1>3 DEF Result, Exit
<1> QED
  BY <1>1, <1>2, <1>3

(* An abort adds a reason if there is none, and asks for a kill.            *)
LEMMA Aborts ==
  ASSUME WorkerInv, NEW r \in Run, NEW x \in Handler, NEW why \in {"timeout", "output"},
         AbortsWith(r, x, why)
  PROVE  \E y \in Handler :
           /\ h' = [h EXCEPT ![r] = y] /\ kill' \subseteq Ids
           /\ y.at = x.at /\ y.timer = x.timer /\ y.listening = x.listening
           /\ y.cut = x.cut /\ y.threw = x.threw /\ y.code = x.code /\ y.result = x.result
           /\ y.terminalSent = x.terminalSent
           /\ x.reason # "none" => y.reason = x.reason /\ y.killed = x.killed
           /\ x.reason = "none" => y.reason = why /\ y.killed = x.listening
<1>1. CASE x.reason # "none"
  BY <1>1 DEF AbortsWith, WorkerInv, Typed
<1>2. CASE x.reason = "none"
  <2> DEFINE y == [x EXCEPT !.reason = why, !.killed = x.listening]
  <2>1. y \in Handler
    BY DEF Handler
  <2>2. /\ y.at = x.at /\ y.timer = x.timer /\ y.listening = x.listening
        /\ y.cut = x.cut /\ y.threw = x.threw /\ y.code = x.code /\ y.result = x.result
        /\ y.terminalSent = x.terminalSent /\ y.reason = why /\ y.killed = x.listening
    BY DEF Handler
  <2>3. h' = [h EXCEPT ![r] = y] /\ kill' \subseteq kill \cup {Own(r)}
    BY <1>2 DEF AbortsWith
  <2>4. kill' \subseteq Ids
    BY <2>3, OwnIsAnId DEF WorkerInv, Typed
  <2> HIDE DEF y
  <2> QED
    BY <1>2, <2>1, <2>2, <2>3, <2>4
<1> QED
  BY <1>1, <1>2

LEMMA TimerFiresInv == ASSUME WorkerInv, NEW r \in Run, TimerFires(r) PROVE WorkerInv'
<1> DEFINE x == [h[r] EXCEPT !.timer = FALSE]
<1>1. /\ h[r].timer /\ AbortsWith(r, x, "timeout")
      /\ UNCHANGED <<proc, job, attempt, box, sweep, frames, excused, left, breaks>>
  BY DEF TimerFires
<1>2. h[r] \in Handler /\ RunOK(r)
  BY DEF WorkerInv, Typed
<1>3. /\ x \in Handler /\ x.at = h[r].at /\ ~x.timer /\ x.listening = h[r].listening
      /\ x.cut = h[r].cut /\ x.threw = h[r].threw /\ x.code = h[r].code
      /\ x.result = h[r].result /\ x.terminalSent = h[r].terminalSent
      /\ x.reason = h[r].reason /\ x.killed = h[r].killed
  BY <1>2 DEF Handler
<1> HIDE DEF x
<1>4. PICK y \in Handler :
        /\ h' = [h EXCEPT ![r] = y] /\ kill' \subseteq Ids
        /\ y.at = x.at /\ y.timer = x.timer /\ y.listening = x.listening
        /\ y.cut = x.cut /\ y.threw = x.threw /\ y.code = x.code /\ y.result = x.result
        /\ y.terminalSent = x.terminalSent
        /\ x.reason # "none" => y.reason = x.reason /\ y.killed = x.killed
        /\ x.reason = "none" => y.reason = "timeout" /\ y.killed = x.listening
  BY <1>1, <1>3, Aborts
<1>5. h[r].at # "idle"
  BY <1>1, <1>2 DEF RunOK, Course
<1>6. Course(y, box[r])
  BY <1>2, <1>3, <1>4 DEF RunOK, Course
<1>7. Sends(r)'
  <2>1. h'[r] = y
    BY <1>4 DEF WorkerInv, Typed
  <2> QED
    BY <1>1, <1>2, <1>3, <1>4, <2>1 DEF RunOK, Sends
<1>8. /\ y.at = "publishing" => ~Present(Own(r)) \/ h[r].at = "publishing"
      /\ y.at \in {"publishing", "finally"} =>
           ~Exists(r) \/ h[r].at \in {"creating", "publishing", "finally"}
  BY <1>3, <1>4
<1>9. frames' \in [Run -> Seq(Frame)] /\ (y.at = "creating" => h[r].at = "creating")
  BY <1>1, <1>3, <1>4 DEF WorkerInv, Typed
<1> QED
  BY <1>1, <1>3, <1>4, <1>5, <1>6, <1>7, <1>8, <1>9, HandlerMoves

LEMMA CreateFailsInv == ASSUME WorkerInv, NEW r \in Run, CreateFails(r) PROVE WorkerInv'
<1> DEFINE x == [h[r] EXCEPT !.threw = TRUE, !.timer = FALSE]
           y == [x EXCEPT !.at = "publishing", !.result = << Result(x) >>]
<1>1. /\ h[r].at = "creating" /\ h' = [h EXCEPT ![r] = y]
      /\ UNCHANGED <<proc, job, attempt, box, kill, sweep, frames, excused, left, breaks>>
  BY DEF CreateFails
<1>2. h[r] \in Handler /\ RunOK(r)
  BY DEF WorkerInv, Typed
<1>3. /\ x \in Handler /\ x.threw /\ ~x.timer /\ x.cut = h[r].cut /\ x.code = h[r].code
      /\ x.reason = h[r].reason
  BY <1>2 DEF Handler
<1>4. ~x.cut
  BY <1>1, <1>2, <1>3 DEF RunOK, Course
<1> HIDE DEF x
<1>5. Result(x) \in ExitFrame /\ Result(x).code = "null"
  BY <1>3, ResultIsAFrame, ResultFields
<1>6. << Result(x) >> \in Seq(ExitFrame) /\ Len(<< Result(x) >>) = 1 /\ << Result(x) >>[1] = Result(x)
  BY <1>5
<1>7. /\ y \in Handler /\ y.at = "publishing" /\ y.result = << Result(x) >>
      /\ ~y.timer /\ ~y.cut
  BY <1>3, <1>4, <1>6 DEF Handler, Place
<1> HIDE DEF y
<1>8. Course(y, box[r])
  BY <1>2, <1>5, <1>6, <1>7 DEF RunOK, Course
<1>9. Sends(r)'
  <2>1. h'[r] = y
    BY <1>1 DEF WorkerInv, Typed
  <2> QED
    BY <1>1, <1>2, <1>7, <2>1 DEF RunOK, Sends
<1>10. ~Present(Own(r))
  BY <1>1, <1>2 DEF RunOK, Attempts
<1>11. frames' \in [Run -> Seq(Frame)] /\ kill' \subseteq Ids
  BY <1>1 DEF WorkerInv, Typed
<1> QED
  BY <1>1, <1>7, <1>8, <1>9, <1>10, <1>11, HandlerMoves

LEMMA CopyFailsInv == ASSUME WorkerInv, NEW r \in Run, CopyFails(r) PROVE WorkerInv'
<1> DEFINE x == [h[r] EXCEPT !.threw = TRUE, !.at = AfterFailure]
           y == [x EXCEPT !.result = << Result(x) >>]
<1>1. /\ h[r].at = "copying" /\ h' = [h EXCEPT ![r] = y]
      /\ UNCHANGED <<proc, job, attempt, box, kill, sweep, frames, excused, left, breaks>>
  BY DEF CopyFails
<1>2. h[r] \in Handler /\ RunOK(r)
  BY DEF WorkerInv, Typed
<1>3. /\ x \in Handler /\ x.timer = h[r].timer /\ x.cut = h[r].cut /\ x.code = h[r].code
      /\ x.at = "removing"
  BY <1>2 DEF Handler, AfterFailure, Place
<1>4. ~x.cut /\ x.code = "null"
  BY <1>1, <1>2, <1>3 DEF RunOK, Course
<1> HIDE DEF x
<1>5. << Result(x) >> \in Seq(ExitFrame)
  BY <1>3, ResultIsAFrame
<1>6. /\ y \in Handler /\ y.at = "removing" /\ y.timer = h[r].timer /\ ~y.cut /\ y.code = "null"
  BY <1>3, <1>4, <1>5 DEF Handler
<1> HIDE DEF y
<1>7. Course(y, box[r])
  BY <1>2, <1>6 DEF RunOK, Course
<1>8. Sends(r)'
  <2>1. h'[r] = y
    BY <1>1 DEF WorkerInv, Typed
  <2> QED
    BY <1>1, <1>2, <1>6, <2>1 DEF RunOK, Sends
<1>9. frames' \in [Run -> Seq(Frame)] /\ kill' \subseteq Ids
  BY <1>1 DEF WorkerInv, Typed
<1> QED
  BY <1>1, <1>6, <1>7, <1>8, <1>9, HandlerMoves

LEMMA ClosesInv == ASSUME WorkerInv, NEW r \in Run, Closes(r) PROVE WorkerInv'
<1> DEFINE code == IF h[r].killed THEN "null" ELSE box[r].end
           y == [h[r] EXCEPT !.at = "removing", !.listening = FALSE, !.code = code]
<1>1. /\ h[r].at = "running" /\ box[r].state \notin {"starting", "running"}
      /\ h' = [h EXCEPT ![r] = y]
      /\ UNCHANGED <<proc, job, attempt, box, kill, sweep, frames, excused, left, breaks>>
  BY DEF Closes
<1>2. h[r] \in Handler /\ box[r] \in Container /\ RunOK(r)
  BY DEF WorkerInv, Typed
<1>3. code \in Code
  BY <1>1, <1>2 DEF RunOK, Course, Container, Code
<1>4. code = "own" => box[r].end = "own"
  OBVIOUS
<1>5. h[r].killed => code = "null"
  OBVIOUS
<1> HIDE DEF code
<1>6. /\ y \in Handler /\ y.at = "removing" /\ y.code = code /\ y.timer = h[r].timer
      /\ y.cut = h[r].cut /\ y.reason = h[r].reason /\ y.killed = h[r].killed
      /\ y.threw = h[r].threw
  BY <1>2, <1>3 DEF Handler, Place
<1> HIDE DEF y
<1>7. y.cut => y.code = "null"
  BY <1>2, <1>5, <1>6 DEF RunOK, Course
<1>8. Course(y, box[r])
  BY <1>1, <1>2, <1>4, <1>6, <1>7 DEF RunOK, Course
<1>9. Sends(r)'
  <2>1. h'[r] = y
    BY <1>1 DEF WorkerInv, Typed
  <2> QED
    BY <1>1, <1>2, <1>6, <2>1 DEF RunOK, Sends
<1>10. frames' \in [Run -> Seq(Frame)] /\ kill' \subseteq Ids
  BY <1>1 DEF WorkerInv, Typed
<1> QED
  BY <1>1, <1>6, <1>8, <1>9, <1>10, HandlerMoves

(* Lemmas on the frames: no exit frame but the one at the end.              *)
LEMMA AppendOutput ==
  ASSUME NEW s \in Seq(Frame), NoExit(s)
  PROVE  Append(s, Output) \in Seq(Frame) /\ NoExit(Append(s, Output)) /\ ExitLast(s)
  BY DEF NoExit, ExitLast, Output, Frame

LEMMA AppendExit ==
  ASSUME NEW s \in Seq(Frame), NEW f \in ExitFrame, NoExit(s)
  PROVE  Append(s, f) \in Seq(Frame) /\ ExitLast(Append(s, f))
<1>1. f \in Frame
  BY DEF Frame, ExitFrame, Code
<1> QED
  BY <1>1 DEF NoExit, ExitLast

LEMMA PrintsInv == ASSUME WorkerInv, NEW r \in Run, NEW n \in Chunks, Prints(r, n) PROVE WorkerInv'
<1> DEFINE printed == h[r].sent + n
           x == [h[r] EXCEPT !.sent = printed]
           cut == h[r].reason = "none"
           z == [h[r] EXCEPT !.sent = MAX_OUTPUT, !.cut = cut]
<1>1. /\ h[r].at = "running" /\ h[r].reason # "output"
      /\ IF printed <= MAX_OUTPUT THEN h' = [h EXCEPT ![r] = x] /\ UNCHANGED kill
         ELSE AbortsWith(r, z, "output")
      /\ frames' = IF h[r].sent < MAX_OUTPUT THEN [frames EXCEPT ![r] = Append(@, Output)]
                                             ELSE frames
      /\ UNCHANGED <<proc, job, attempt, box, sweep, excused, left, breaks>>
  BY DEF Prints
<1>2. h[r] \in Handler /\ RunOK(r) /\ frames \in [Run -> Seq(Frame)]
  BY DEF WorkerInv, Typed
<1>3. \E y \in Handler :
        /\ h' = [h EXCEPT ![r] = y] /\ kill' \subseteq Ids
        /\ y.at = "running" /\ y.timer = h[r].timer /\ y.listening
        /\ ~y.threw /\ y.code = "null"
        /\ y.cut => y.reason = "output" /\ y.killed
  <2>1. CASE printed <= MAX_OUTPUT
    <3>1. printed \in 0..MAX_OUTPUT
      BY <1>2, <2>1, RunWorkerAssumption DEF Handler
    <3> HIDE DEF printed
    <3>2. /\ x \in Handler /\ x.at = h[r].at /\ x.timer = h[r].timer
          /\ x.listening = h[r].listening /\ x.threw = h[r].threw /\ x.code = h[r].code
          /\ x.cut = h[r].cut /\ x.reason = h[r].reason /\ x.killed = h[r].killed
      BY <1>2, <3>1 DEF Handler
    <3> HIDE DEF x
    <3> QED
      BY <1>1, <1>2, <2>1, <3>2 DEF WorkerInv, Typed, RunOK, Course
  <2>2. CASE ~(printed <= MAX_OUTPUT)
    <3>0. cut \in BOOLEAN /\ (cut <=> h[r].reason = "none") /\ MAX_OUTPUT \in 0..MAX_OUTPUT
      BY RunWorkerAssumption
    <3> HIDE DEF cut
    <3>1. /\ z \in Handler /\ z.at = h[r].at /\ z.timer = h[r].timer
          /\ z.listening = h[r].listening /\ z.threw = h[r].threw /\ z.code = h[r].code
          /\ z.reason = h[r].reason /\ z.cut = cut
      BY <1>2, <3>0 DEF Handler
    <3> HIDE DEF z
    <3>2. PICK y \in Handler :
            /\ h' = [h EXCEPT ![r] = y] /\ kill' \subseteq Ids
            /\ y.at = z.at /\ y.timer = z.timer /\ y.listening = z.listening
            /\ y.cut = z.cut /\ y.threw = z.threw /\ y.code = z.code /\ y.result = z.result
            /\ y.terminalSent = z.terminalSent
            /\ z.reason # "none" => y.reason = z.reason /\ y.killed = z.killed
            /\ z.reason = "none" => y.reason = "output" /\ y.killed = z.listening
      BY <1>1, <2>2, <3>1, Aborts
    <3> QED
      BY <1>1, <1>2, <3>0, <3>1, <3>2 DEF RunOK, Course
  <2> QED
    BY <2>1, <2>2
<1>4. PICK y \in Handler :
        /\ h' = [h EXCEPT ![r] = y] /\ kill' \subseteq Ids
        /\ y.at = "running" /\ y.timer = h[r].timer /\ y.listening
        /\ ~y.threw /\ y.code = "null"
        /\ y.cut => y.reason = "output" /\ y.killed
  BY <1>3
<1>5. Course(y, box[r])
  BY <1>1, <1>2, <1>4 DEF RunOK, Course
<1>6. frames' \in [Run -> Seq(Frame)] /\ \A q \in Run \ {r} : frames'[q] = frames[q]
  BY <1>1, <1>2 DEF Frame
<1>7. Sends(r)'
  <2>1. h'[r] = y /\ (frames'[r] = frames[r] \/ frames'[r] = Append(frames[r], Output))
    BY <1>1, <1>2, <1>4 DEF WorkerInv, Typed
  <2>2. r \notin excused => NoExit(frames[r]) /\ job[r] = "active"
    BY <1>1, <1>2 DEF RunOK, Sends, Lives
  <2>3. r \notin excused => NoExit(frames'[r]) /\ ExitLast(frames'[r])
    BY <1>2, <1>6, <2>1, <2>2, AppendOutput DEF NoExit, ExitLast
  <2> QED
    BY <1>1, <1>4, <2>1, <2>2, <2>3 DEF Sends
<1> QED
  BY <1>1, <1>4, <1>5, <1>6, <1>7, HandlerMoves

(* One terminal frame a handler, unless Redis refuses it. *)
LEMMA SendsExitEffect ==
  ASSUME WorkerInv, NEW r \in Run, NEW f \in ExitFrame, SendsExit(r, f)
  PROVE  /\ breaks' \in 0..MaxBreaks /\ frames' \in [Run -> Seq(Frame)]
         /\ excused' = excused \/ excused' = excused \cup {r}
         /\ \A q \in Run \ {r} : frames'[q] = frames[q]
         /\ r \notin excused' =>
              /\ h[r].terminalSent => frames' = frames
              /\ NoExit(frames[r]) => ExitLast(frames'[r])
<1>1. frames \in [Run -> Seq(Frame)] /\ breaks \in 0..MaxBreaks
  BY DEF WorkerInv, Typed
<1>2. CASE h[r].terminalSent
  BY <1>1, <1>2 DEF SendsExit, NoExit, ExitLast
<1>3. CASE ~h[r].terminalSent /\ frames' = [frames EXCEPT ![r] = Append(@, f)]
                              /\ UNCHANGED <<excused, breaks>>
  <2>1. Append(frames[r], f) \in Seq(Frame)
    BY <1>1 DEF Frame, ExitFrame, Code
  <2>2. /\ frames' \in [Run -> Seq(Frame)] /\ frames'[r] = Append(frames[r], f)
        /\ \A q \in Run \ {r} : frames'[q] = frames[q]
    BY <1>1, <1>3, <2>1
  <2>3. NoExit(frames[r]) => ExitLast(frames'[r])
    BY <1>1, <2>2, AppendExit
  <2> QED
    BY <1>1, <1>3, <2>2, <2>3
<1>4. CASE ~h[r].terminalSent /\ MayBreak /\ excused' = excused \cup {r} /\ UNCHANGED frames
  BY <1>1, <1>4, RunWorkerAssumption DEF MayBreak
<1> QED
  BY <1>2, <1>3, <1>4 DEF SendsExit

LEMMA PublishesInv == ASSUME WorkerInv, NEW r \in Run, Publishes(r) PROVE WorkerInv'
<1> DEFINE y == [h[r] EXCEPT !.at = "finally", !.terminalSent = TRUE]
<1>1. /\ h[r].at = "publishing" /\ SendsExit(r, h[r].result[1]) /\ h' = [h EXCEPT ![r] = y]
      /\ UNCHANGED <<proc, job, attempt, box, kill, sweep, left>>
  BY DEF Publishes
<1>2. h[r] \in Handler /\ box[r] \in Container /\ RunOK(r)
  BY DEF WorkerInv, Typed
<1>3. h[r].result[1] \in ExitFrame
  BY <1>1, <1>2 DEF RunOK, Course, Handler
<1>4. /\ y \in Handler /\ y.at = "finally" /\ y.terminalSent /\ y.timer = h[r].timer
      /\ y.cut = h[r].cut /\ y.reason = h[r].reason /\ y.killed = h[r].killed
      /\ y.threw = h[r].threw
  BY <1>2 DEF Handler, Place
<1> HIDE DEF y
<1>5. /\ breaks' \in 0..MaxBreaks /\ frames' \in [Run -> Seq(Frame)]
      /\ excused' = excused \/ excused' = excused \cup {r}
      /\ \A q \in Run \ {r} : frames'[q] = frames[q]
      /\ r \notin excused' => (NoExit(frames[r]) => ExitLast(frames'[r]))
  BY <1>1, <1>3, SendsExitEffect
<1>6. h'[r] = y
  BY <1>1 DEF WorkerInv, Typed
<1>7. Lives(r)'
  BY <1>1, <1>2, <1>4, <1>6 DEF RunOK, Lives
<1>8. Attempts(r)' /\ OldOnes(r)'
  BY <1>1, <1>2, <1>4, <1>6 DEF RunOK, Lives, Attempts, OldOnes, Swept, Exists, Present, Own
<1>9. Leftovers(r)'
  BY <1>1, <1>2, <1>4, <1>5, <1>6 DEF RunOK, Leftovers, Exists, Present, Own
<1>10. Course(y, box[r])
  BY <1>2, <1>4 DEF RunOK, Course
<1>11. Sends(r)'
  BY <1>1, <1>2, <1>4, <1>5, <1>6 DEF RunOK, Sends, Lives
<1>12. RunOK(r)' /\ kill' \subseteq Ids /\ box' = [box EXCEPT ![r] = box[r]]
  BY <1>1, <1>6, <1>7, <1>8, <1>9, <1>10, <1>11 DEF RunOK, WorkerInv, Typed
<1> QED
  BY <1>1, <1>2, <1>4, <1>5, <1>12, OneRun

LEMMA RemovesInv == ASSUME WorkerInv, NEW r \in Run, Removes(r) PROVE WorkerInv'
<1> DEFINE y == [h[r] EXCEPT !.at = "publishing", !.timer = FALSE, !.result = << Result(h[r]) >>]
           f == Result(h[r])
<1>1. /\ h[r].at = "removing" /\ h' = [h EXCEPT ![r] = y]
      /\ \/ box' = [box EXCEPT ![r].state = "none"] /\ UNCHANGED <<left, breaks>>
         \/ Exists(r) /\ MayBreak /\ left' = left \cup {r} /\ UNCHANGED box
      /\ UNCHANGED <<proc, job, attempt, kill, sweep, frames, excused>>
  BY DEF Removes
<1>2. h[r] \in Handler /\ box[r] \in Container /\ RunOK(r)
  BY DEF WorkerInv, Typed
<1>3. f \in ExitFrame
  BY <1>2, ResultIsAFrame
<1>4. h[r].cut => f.status = "ok" /\ f.truncated
  <2>1. h[r].cut => h[r].reason = "output" /\ ~h[r].threw
    BY <1>2 DEF RunOK, Course
  <2> QED
    BY <1>2, <2>1, ResultFields
<1>5. f.code = "own" => h[r].code = "own"
  BY <1>2, ResultFields
<1>6. f.code = "own" => box[r].end = "own" /\ box[r].state = "none" /\ ~h[r].cut
  BY <1>1, <1>2, <1>5 DEF RunOK, Course
<1> HIDE DEF f
<1>7. << f >> \in Seq(ExitFrame) /\ Len(<< f >>) = 1 /\ << f >>[1] = f
  BY <1>3
<1>8. /\ y \in Handler /\ y.at = "publishing" /\ y.result = << f >> /\ ~y.timer
      /\ y.cut = h[r].cut /\ y.reason = h[r].reason /\ y.killed = h[r].killed
      /\ y.threw = h[r].threw
  BY <1>2, <1>7 DEF Handler, Place, f
<1> HIDE DEF y
<1>9. h' \in [Run -> Handler] /\ h'[r] = y /\ \A q \in Run \ {r} : h'[q] = h[q]
  BY <1>1, <1>8 DEF WorkerInv, Typed
<1>10. /\ box' \in [Run -> Container] /\ \A q \in Run \ {r} : box'[q] = box[q]
       /\ box'[r].by = box[r].by /\ box'[r].old = box[r].old /\ box'[r].end = box[r].end
       /\ box'[r].state = "none" \/ (box'[r].state = box[r].state /\ r \in left')
  <2>1. CASE box' = [box EXCEPT ![r].state = "none"]
    BY <1>2, <2>1 DEF WorkerInv, Typed, Container
  <2>2. CASE Exists(r) /\ MayBreak /\ left' = left \cup {r} /\ UNCHANGED box
    BY <2>2 DEF WorkerInv, Typed
  <2> QED
    BY <1>1, <2>1, <2>2
<1>11. /\ breaks' \in 0..MaxBreaks /\ left' \subseteq Run
       /\ \A q \in Run \ {r} : q \in left' <=> q \in left
  BY <1>1, RunWorkerAssumption DEF WorkerInv, Typed, MayBreak
<1>12. Typed'
  BY <1>1, <1>9, <1>10, <1>11 DEF WorkerInv, Typed
<1>13. \A q \in Run \ {r} : RunOK(q)'
  BY <1>1, <1>9, <1>10, <1>11, OtherRuns
<1>14. IsFiniteSet(Busy') /\ Cardinality(Busy') <= CONCURRENCY
  BY <1>1, <1>9, NoMoreHandlers
<1>15. RunOK(r)'
  <2>1. Lives(r)'
    BY <1>1, <1>2, <1>8, <1>9 DEF RunOK, Lives
  <2>2. Attempts(r)'
    BY <1>1, <1>2, <1>8, <1>9, <1>10 DEF RunOK, Lives, Attempts, Swept, Exists, Present, Own
  <2>3. OldOnes(r)'
    <3>1. \A id \in Swept(r) : id[1] = r
      BY DEF Swept
    <3>2. \A id \in Swept(r) : Present(id)' => Present(id)
      BY <1>10, <3>1 DEF Exists, Present
    <3> QED
      BY <1>1, <1>2, <1>8, <1>9, <1>10, <3>2 DEF RunOK, OldOnes, Swept
  <2>4. Leftovers(r)'
    BY <1>8, <1>9, <1>10 DEF Leftovers, Exists, Present, Own
  <2>5. Course(y, box'[r])
    <3>1. box'[r].end = "own" => box'[r].state = "none"
      BY <1>2, <1>10 DEF RunOK, Course
    <3>2. y.cut => y.reason = "output" /\ y.killed /\ ~y.threw
      BY <1>2, <1>8 DEF RunOK, Course
    <3> QED
      BY <1>4, <1>6, <1>7, <1>8, <1>10, <3>1, <3>2 DEF Course
  <2>6. Sends(r)'
    BY <1>1, <1>2, <1>8, <1>9 DEF RunOK, Sends
  <2> QED
    BY <1>9, <2>1, <2>2, <2>3, <2>4, <2>5, <2>6 DEF RunOK
<1> QED
  BY <1>12, <1>13, <1>14, <1>15 DEF WorkerInv

LEMMA FinishesInv == ASSUME WorkerInv, NEW r \in Run, Finishes(r) PROVE WorkerInv'
<1> DEFINE b == IF ~Exists(r) THEN NoBox ELSE box[r]
<1>1. /\ h[r].at = "finally" /\ SendsExit(r, failed) /\ h' = [h EXCEPT ![r] = Idle]
      /\ job' = [job EXCEPT ![r] = "completed"] /\ box' = Forgotten({r})
      /\ UNCHANGED <<proc, attempt, kill, sweep, left>>
  BY DEF Finishes
<1>2. RunOK(r) /\ box[r] \in Container
  BY DEF WorkerInv, Typed
<1>3. failed \in ExitFrame
  <2>1. \A s \in {"ok", "timeout", "error"}, c \in Code, t \in BOOLEAN : Exit(s, c, t) \in ExitFrame
    BY DEF ExitFrame
  <2> QED
    BY <2>1 DEF failed, Code
<1>4. /\ breaks' \in 0..MaxBreaks /\ frames' \in [Run -> Seq(Frame)]
      /\ excused' = excused \/ excused' = excused \cup {r}
      /\ \A q \in Run \ {r} : frames'[q] = frames[q]
      /\ r \notin excused' => (h[r].terminalSent => frames' = frames)
  BY <1>1, <1>3, SendsExitEffect
<1>5. /\ Idle \in Handler /\ Idle.at = "idle" /\ ~Idle.timer /\ ~Idle.cut
      /\ NoBox \in Container /\ NoBox.state = "none" /\ NoBox.end = "none"
  BY RunWorkerAssumption DEF Idle, Handler, NoBox, Container, Place, Code
<1>6. /\ h' \in [Run -> Handler] /\ h'[r] = Idle /\ \A q \in Run \ {r} : h'[q] = h[q]
      /\ job' \in [Run -> {"waiting", "active", "completed", "failed"}] /\ job'[r] = "completed"
      /\ \A q \in Run \ {r} : job'[q] = job[q]
  BY <1>1, <1>5 DEF WorkerInv, Typed
<1>7. /\ box' \in [Run -> Container] /\ \A q \in Run \ {r} : box'[q] = box[q]
      /\ box'[r] = NoBox \/ box'[r] = box[r]
  BY <1>1, <1>2, <1>5 DEF Forgotten, WorkerInv, Typed
<1>8. Typed'
  BY <1>1, <1>4, <1>6, <1>7 DEF WorkerInv, Typed
<1>9. \A q \in Run \ {r} : RunOK(q)'
  BY <1>1, <1>4, <1>6, <1>7, OtherRuns
<1>10. IsFiniteSet(Busy') /\ Cardinality(Busy') <= CONCURRENCY
  BY <1>1, <1>5, <1>6, NoMoreHandlers
<1>11. RunOK(r)'
  <2>1. Lives(r)'
    BY <1>5, <1>6 DEF Lives
  <2>2. Attempts(r)'
    BY <1>1, <1>2, <1>5, <1>6, <1>7 DEF RunOK, Attempts, Swept, Exists, Present, Own
  <2>3. OldOnes(r)'
    <3>1. \A id \in Swept(r) : Present(id)' => Present(id) /\ box'[r] = box[r]
      BY <1>5, <1>7 DEF Exists, Present, Swept
    <3> QED
      BY <1>1, <1>2, <1>5, <1>6, <1>7, <3>1 DEF RunOK, OldOnes, Swept
  <2>4. Leftovers(r)'
    BY <1>1, <1>2, <1>4, <1>5, <1>6, <1>7 DEF RunOK, Leftovers, Exists, Present, Own
  <2>5. Course(Idle, box'[r])
    BY <1>2, <1>5, <1>7 DEF RunOK, Course
  <2>6. Sends(r)'
    BY <1>1, <1>2, <1>4, <1>5, <1>6 DEF RunOK, Sends
  <2> QED
    BY <1>6, <2>1, <2>2, <2>3, <2>4, <2>5, <2>6 DEF RunOK
<1> QED
  BY <1>8, <1>9, <1>10, <1>11 DEF WorkerInv

LEMMA TakesInv == ASSUME WorkerInv, NEW r \in Run, Takes(r) PROVE WorkerInv'
<1> DEFINE x == [Idle EXCEPT !.at = "creating", !.timer = TRUE]
<1>1. /\ proc = "up" /\ job[r] = "waiting" /\ Cardinality(Busy) < CONCURRENCY
      /\ job' = [job EXCEPT ![r] = "active"] /\ h' = [h EXCEPT ![r] = x]
      /\ UNCHANGED <<proc, attempt, box, kill, sweep, frames, excused, left, breaks>>
  BY DEF Takes
<1>2. RunOK(r) /\ box[r] \in Container /\ h[r].at = "idle"
  BY <1>1 DEF WorkerInv, Typed, RunOK, Lives
<1>3. x \in Handler /\ x.at = "creating" /\ ~x.cut /\ x.code = "null" /\ ~x.threw
  <2>1. Idle \in Handler /\ ~Idle.cut /\ Idle.code = "null" /\ ~Idle.threw
    BY RunWorkerAssumption DEF Idle, Handler, Place, Code
  <2> QED
    BY <2>1 DEF Handler, Place
<1> HIDE DEF x
<1>4. /\ h' \in [Run -> Handler] /\ h'[r] = x /\ \A q \in Run \ {r} : h'[q] = h[q]
      /\ job' \in [Run -> {"waiting", "active", "completed", "failed"}] /\ job'[r] = "active"
      /\ \A q \in Run \ {r} : job'[q] = job[q]
  BY <1>1, <1>3 DEF WorkerInv, Typed
<1>5. Typed'
  BY <1>1, <1>4 DEF WorkerInv, Typed
<1>6. \A q \in Run \ {r} : RunOK(q)'
  BY <1>1, <1>4, OtherRuns
<1>7. IsFiniteSet(Busy') /\ Cardinality(Busy') <= CONCURRENCY
  <2>1. Busy' = Busy \cup {r}
    BY <1>3, <1>4 DEF Busy
  <2>2. IsFiniteSet(Busy) /\ Cardinality(Busy) \in Nat
    BY FS_CardinalityType DEF WorkerInv
  <2>3. IsFiniteSet(Busy') /\ Cardinality(Busy') <= Cardinality(Busy) + 1
    BY <2>1, <2>2, FS_AddElement
  <2>4. Cardinality(Busy') \in Nat
    BY <2>3, FS_CardinalityType
  <2> QED
    BY <1>1, <2>2, <2>3, <2>4, RunWorkerAssumption
<1>8. RunOK(r)'
  <2>1. Lives(r)'
    BY <1>1, <1>3, <1>4 DEF Lives
  <2>2. Attempts(r)' /\ ~Present(Own(r))'
    BY <1>1, <1>2 DEF RunOK, Attempts, Swept, Exists, Present, Own
  <2>3. OldOnes(r)'
    BY <1>1, <1>2, <2>2 DEF RunOK, OldOnes, Swept, Exists, Present
  <2>4. Leftovers(r)'
    BY <1>1, <1>2, <1>3, <1>4 DEF RunOK, Leftovers, Exists
  <2>5. Course(x, box[r])
    BY <1>2, <1>3 DEF RunOK, Course
  <2>6. Sends(r)'
    BY <1>1, <1>2, <1>3, <1>4 DEF RunOK, Sends, NoExit
  <2> QED
    BY <1>1, <1>4, <2>1, <2>2, <2>3, <2>4, <2>5, <2>6 DEF RunOK
<1> QED
  BY <1>5, <1>6, <1>7, <1>8 DEF WorkerInv

LEMMA CreatesInv == ASSUME WorkerInv, NEW r \in Run, Creates(r) PROVE WorkerInv'
<1> DEFINE y == [h[r] EXCEPT !.at = "copying"]
           b == [NoBox EXCEPT !.state = "created", !.by = attempt[r]]
<1>1. /\ h[r].at = "creating" /\ ~Exists(r) /\ h' = [h EXCEPT ![r] = y]
      /\ box' = [box EXCEPT ![r] = b]
      /\ UNCHANGED <<proc, job, attempt, kill, sweep, frames, excused, left, breaks>>
  BY DEF Creates
<1>2. h[r] \in Handler /\ box[r] \in Container /\ RunOK(r) /\ attempt[r] \in 0..Stalls
  BY DEF WorkerInv, Typed
<1>3. /\ y \in Handler /\ y.at = "copying" /\ y.timer = h[r].timer
      /\ y.cut = h[r].cut /\ y.reason = h[r].reason /\ y.killed = h[r].killed
      /\ y.threw = h[r].threw /\ y.code = h[r].code
  BY <1>2 DEF Handler, Place
<1>4. /\ b \in Container /\ b.state = "created" /\ b.by = attempt[r] /\ ~b.old /\ b.end = "none"
  <2>1. NoBox \in Container /\ ~NoBox.old /\ NoBox.end = "none"
    BY RunWorkerAssumption DEF NoBox, Container
  <2> QED
    BY <1>2, <2>1 DEF Container
<1> HIDE DEF y, b
<1>5. h'[r] = y /\ box'[r] = b
  BY <1>1 DEF WorkerInv, Typed
<1>6. Lives(r)'
  BY <1>1, <1>2, <1>3, <1>5 DEF RunOK, Lives
<1>7. Attempts(r)'
  BY <1>1, <1>2, <1>3, <1>4, <1>5 DEF RunOK, Lives, Attempts, Swept, Exists
<1>8. OldOnes(r)'
  <2>1. \A id \in Swept(r) : id # <<r, attempt[r]>>
    BY <1>1, <1>2 DEF RunOK, Attempts, Own, Swept
  <2>2. \A id \in Swept(r) : id = <<id[1], id[2]>> /\ id[1] = r
    BY DEF WorkerInv, Typed, Ids, Swept
  <2>3. \A id \in Swept(r) : ~Present(id)'
    BY <1>4, <1>5, <2>1, <2>2 DEF Present
  <2> QED
    BY <1>1, <1>4, <1>5, <2>3 DEF OldOnes, Swept
<1>9. Leftovers(r)' /\ Course(y, b)
  BY <1>1, <1>2, <1>3, <1>4, <1>5 DEF RunOK, Leftovers, Course
<1>10. Sends(r)'
  BY <1>1, <1>2, <1>3, <1>5 DEF RunOK, Sends, Lives
<1>11. RunOK(r)'
  BY <1>5, <1>6, <1>7, <1>8, <1>9, <1>10 DEF RunOK
<1>12. kill' \subseteq Ids /\ breaks' \in 0..MaxBreaks /\ frames' \in [Run -> Seq(Frame)]
  BY <1>1 DEF WorkerInv, Typed
<1> QED
  BY <1>1, <1>3, <1>4, <1>11, <1>12, OneRun

(* A container changes: it is its attempt's still, no younger, and there    *)
(* only if it was.                                                          *)
LEMMA ContainerMoves ==
  ASSUME WorkerInv, NEW r \in Run, NEW x \in Handler, NEW b \in Container,
         h' = [h EXCEPT ![r] = x], box' = [box EXCEPT ![r] = b],
         UNCHANGED <<proc, job, attempt, sweep, frames, excused, left, breaks>>,
         kill' \subseteq Ids,
         b.by = box[r].by, b.state # "none" => Exists(r), box[r].old => b.old,
         b.old => box[r].old \/ (h[r].at # "idle" /\ Present(Own(r)) => ~h[r].timer),
         x.at = h[r].at \/ (h[r].at = "copying" /\ x.at = "running"),
         x.timer = h[r].timer, x.terminalSent = h[r].terminalSent,
         Course(x, b)
  PROVE  WorkerInv'
<1>1. h'[r] = x /\ box'[r] = b /\ RunOK(r)
  BY DEF WorkerInv, Typed
<1>2. \A id : id[1] = r => (Present(id)' => Present(id))
  BY <1>1 DEF Present, Exists
<1>3. Own(r)' = Own(r) /\ Own(r)[1] = r
  BY DEF Own
<1>4. Present(Own(r))' => Present(Own(r))
  BY <1>1, <1>3 DEF Present, Exists, Own
<1>5. Lives(r)'
  BY <1>1 DEF RunOK, Lives
<1>6. Attempts(r)'
  BY <1>1, <1>3, <1>4 DEF RunOK, Attempts, Swept, Exists
<1>7. OldOnes(r)'
  BY <1>1, <1>2, <1>4 DEF RunOK, OldOnes, Swept
<1>8. Leftovers(r)'
  BY <1>1, <1>4 DEF RunOK, Leftovers, Exists
<1>9. Sends(r)'
  BY <1>1 DEF RunOK, Sends
<1>10. RunOK(r)'
  BY <1>1, <1>5, <1>6, <1>7, <1>8, <1>9 DEF RunOK
<1>11. frames' \in [Run -> Seq(Frame)] /\ breaks' \in 0..MaxBreaks
  BY DEF WorkerInv, Typed
<1> QED
  BY <1>10, <1>11, OneRun

LEMMA StartsInv == ASSUME WorkerInv, NEW r \in Run, Starts(r) PROVE WorkerInv'
<1> DEFINE y == [h[r] EXCEPT !.at = "running", !.listening = TRUE]
           b == [box[r] EXCEPT !.state = "starting"]
<1>1. /\ h[r].at = "copying" /\ box[r].state = "created" /\ h' = [h EXCEPT ![r] = y]
      /\ box' = [box EXCEPT ![r] = b]
      /\ UNCHANGED <<proc, job, attempt, kill, sweep, frames, excused, left, breaks>>
  BY DEF Starts
<1>2. h[r] \in Handler /\ box[r] \in Container /\ RunOK(r)
  BY DEF WorkerInv, Typed
<1>3. /\ y \in Handler /\ y.at = "running" /\ y.timer = h[r].timer /\ y.listening
      /\ y.cut = h[r].cut /\ y.threw = h[r].threw /\ y.code = h[r].code
      /\ y.terminalSent = h[r].terminalSent
  BY <1>2 DEF Handler, Place
<1>4. b \in Container /\ b.state = "starting" /\ b.by = box[r].by /\ b.old = box[r].old /\ b.end = box[r].end
  BY <1>2 DEF Container
<1> HIDE DEF y, b
<1>5. Course(y, b)
  BY <1>1, <1>2, <1>3, <1>4 DEF RunOK, Course
<1>6. kill' \subseteq Ids /\ Exists(r)
  BY <1>1 DEF WorkerInv, Typed, Exists
<1> QED
  BY <1>1, <1>3, <1>4, <1>5, <1>6, ContainerMoves

(* The daemon's part: the handler does not notice. *)
LEMMA DaemonMoves ==
  ASSUME WorkerInv, NEW r \in Run, NEW b \in Container, box' = [box EXCEPT ![r] = b],
         UNCHANGED <<DaemonOnly, sweep>>, kill' \subseteq Ids,
         b.by = box[r].by, b.state # "none" => Exists(r), box[r].old => b.old,
         b.old => box[r].old \/ (h[r].at # "idle" /\ Present(Own(r)) => ~h[r].timer),
         b.end = box[r].end \/ (Exists(r) /\ b.end # "none"),
         b.end = "own" => b.state = "none",
         b.state = box[r].state \/ Exists(r),
         h[r].at = "running" /\ b.state \notin {"starting", "running"} => b.end # "none"
  PROVE  WorkerInv'
<1>1. h[r] \in Handler /\ h' = [h EXCEPT ![r] = h[r]] /\ RunOK(r)
  BY DEF WorkerInv, Typed, DaemonOnly
<1>2. Course(h[r], b)
  BY <1>1 DEF RunOK, Course, Exists
<1> QED
  BY <1>1, <1>2, ContainerMoves DEF DaemonOnly

LEMMA GoneIs ==
  ASSUME WorkerInv, NEW r \in Run, NEW end \in {"own", "signal", "docker"}
  PROVE  \E b \in Container : /\ Gone(r, end) = [box EXCEPT ![r] = b]
                              /\ b.state = "none" /\ b.end = end
                              /\ b.by = box[r].by /\ b.old = box[r].old
<1> DEFINE b == [box[r] EXCEPT !.state = "none", !.end = end]
<1>1. box[r] \in Container
  BY DEF WorkerInv, Typed
<1>2. /\ b \in Container /\ b.state = "none" /\ b.end = end
      /\ b.by = box[r].by /\ b.old = box[r].old
  BY <1>1 DEF Container
<1>3. Gone(r, end) = [box EXCEPT ![r] = b]
  BY DEF Gone
<1> HIDE DEF b
<1> QED
  BY <1>2, <1>3

LEMMA DaemonInv ==
  ASSUME WorkerInv, NEW r \in Run,
         DaemonStarts(r) \/ DaemonRefuses(r) \/ KillArrives(r) \/ ProgramExits(r) \/ Ages(r)
  PROVE  WorkerInv'
<1>1. box[r] \in Container /\ RunOK(r) /\ kill \subseteq Ids
  BY DEF WorkerInv, Typed
<1>2. h[r].at = "running" /\ box[r].state \notin {"starting", "running"} => box[r].end # "none"
  BY <1>1 DEF RunOK, Course
<1>3. box[r].end = "own" => box[r].state = "none"
  BY <1>1 DEF RunOK, Course
<1>4. CASE DaemonStarts(r)
  <2> DEFINE b == [box[r] EXCEPT !.state = "running"]
  <2>1. /\ box[r].state = "starting" /\ box' = [box EXCEPT ![r] = b]
        /\ UNCHANGED <<DaemonOnly, sweep>> /\ UNCHANGED kill
    BY <1>4 DEF DaemonStarts
  <2>2. /\ b \in Container /\ b.state = "running" /\ b.by = box[r].by /\ b.old = box[r].old
        /\ b.end = box[r].end
    BY <1>1 DEF Container
  <2> HIDE DEF b
  <2> QED
    BY <1>1, <1>3, <2>1, <2>2, DaemonMoves DEF Exists
<1>5. CASE DaemonRefuses(r)
  <2> DEFINE b == [box[r] EXCEPT !.state = "refused", !.end = "docker"]
  <2>1. /\ box[r].state = "starting" /\ box' = [box EXCEPT ![r] = b]
        /\ UNCHANGED <<DaemonOnly, sweep>> /\ UNCHANGED kill
    BY <1>5 DEF DaemonRefuses
  <2>2. /\ b \in Container /\ b.state = "refused" /\ b.by = box[r].by /\ b.old = box[r].old
        /\ b.end = "docker"
    BY <1>1 DEF Container
  <2> HIDE DEF b
  <2> QED
    BY <1>1, <2>1, <2>2, DaemonMoves DEF Exists
<1>6. CASE KillArrives(r)
  <2>1. /\ UNCHANGED <<DaemonOnly, sweep>> /\ kill' \subseteq Ids
        /\ box' = box \/ (box[r].state = "running" /\ box' = Gone(r, "signal"))
    BY <1>1, <1>6 DEF KillArrives
  <2>2. CASE box' = box
    BY <1>1, <1>2, <1>3, <2>1, <2>2, DaemonMoves DEF Exists, WorkerInv, Typed
  <2>3. CASE box[r].state = "running" /\ box' = Gone(r, "signal")
    <3>1. PICK b \in Container : /\ Gone(r, "signal") = [box EXCEPT ![r] = b]
                                 /\ b.state = "none" /\ b.end = "signal"
                                 /\ b.by = box[r].by /\ b.old = box[r].old
      BY GoneIs
    <3> QED
      BY <2>1, <2>3, <3>1, DaemonMoves DEF Exists
  <2> QED
    BY <2>1, <2>2, <2>3
<1>7. CASE ProgramExits(r)
  <2>1. /\ box[r].state = "running" /\ UNCHANGED <<DaemonOnly, sweep>> /\ UNCHANGED kill
        /\ box' = Gone(r, "own")
    BY <1>7 DEF ProgramExits
  <2>2. PICK b \in Container : /\ Gone(r, "own") = [box EXCEPT ![r] = b]
                               /\ b.state = "none" /\ b.end = "own"
                               /\ b.by = box[r].by /\ b.old = box[r].old
    BY GoneIs
  <2> QED
    BY <1>1, <2>1, <2>2, DaemonMoves DEF Exists
<1>8. CASE Ages(r)
  <2> DEFINE b == [box[r] EXCEPT !.old = TRUE]
  <2>1. /\ Exists(r) /\ (r \in Busy /\ Present(Own(r)) => ~h[r].timer)
        /\ box' = [box EXCEPT ![r] = b] /\ UNCHANGED <<DaemonOnly, sweep>> /\ UNCHANGED kill
    BY <1>8 DEF Ages
  <2>2. /\ b \in Container /\ b.state = box[r].state /\ b.by = box[r].by /\ b.old
        /\ b.end = box[r].end
    BY <1>1 DEF Container
  <2>3. h[r].at # "idle" /\ Present(Own(r)) => ~h[r].timer
    BY <2>1 DEF Busy
  <2> HIDE DEF b
  <2> QED
    BY <1>1, <1>2, <1>3, <2>1, <2>2, <2>3, DaemonMoves
<1> QED
  BY <1>4, <1>5, <1>6, <1>7, <1>8

LEMMA StalledInv == ASSUME WorkerInv, NEW r \in Run, Stalled(r) PROVE WorkerInv'
<1>1. /\ job[r] = "active" /\ h[r].at = "idle"
      /\ \/ /\ attempt[r] < Stalls /\ job' = [job EXCEPT ![r] = "waiting"]
            /\ attempt' = [attempt EXCEPT ![r] = @ + 1]
         \/ job' = [job EXCEPT ![r] = "failed"] /\ UNCHANGED attempt
      /\ UNCHANGED <<proc, h, box, kill, sweep, frames, excused, left, breaks>>
  BY DEF Stalled, Busy
<1>2. /\ RunOK(r) /\ attempt \in [Run -> 0..Stalls] /\ box[r] \in Container /\ sweep.ids \subseteq Ids
      /\ job \in [Run -> {"waiting", "active", "completed", "failed"}]
  BY DEF WorkerInv, Typed
<1>3. r \in excused
  BY <1>1, <1>2 DEF RunOK, Lives
<1>4. /\ job' \in [Run -> {"waiting", "active", "completed", "failed"}] /\ job'[r] \in {"waiting", "failed"}
      /\ \A q \in Run \ {r} : job'[q] = job[q]
  BY <1>1, <1>2
<1>5. /\ attempt' \in [Run -> 0..Stalls] /\ \A q \in Run \ {r} : attempt'[q] = attempt[q]
      /\ attempt'[r] = attempt[r] + 1 \/ (attempt'[r] = attempt[r] /\ job'[r] = "failed")
  BY <1>1, <1>2, RunWorkerAssumption
<1>6. Typed'
  BY <1>1, <1>4, <1>5 DEF WorkerInv, Typed
<1>7. \A q \in Run \ {r} : RunOK(q)'
  BY <1>1, <1>4, <1>5, OtherRuns
<1>8. IsFiniteSet(Busy') /\ Cardinality(Busy') <= CONCURRENCY
  BY <1>1, NoMoreHandlers
<1>9. RunOK(r)'
  <2>1. Lives(r)' /\ Sends(r)' /\ Course(h'[r], box'[r])
    BY <1>1, <1>2, <1>3, <1>4 DEF RunOK, Lives, Sends
  <2>2. Attempts(r)'
    <3>1. /\ attempt[r] \in Nat /\ attempt'[r] \in Nat /\ attempt[r] <= attempt'[r]
          /\ box[r].by \in Nat
      BY <1>2, <1>5, RunWorkerAssumption DEF Container
    <3>2. \A id \in Swept(r) : id[2] \in Nat
      BY <1>2, RunWorkerAssumption DEF Swept, Ids
    <3>3. (Exists(r) => box[r].by <= attempt'[r]) /\ \A id \in Swept(r) : id[2] <= attempt'[r]
      BY <1>2, <3>1, <3>2 DEF RunOK, Attempts
    <3>4. CASE job'[r] = "waiting"
      <4>1. attempt'[r] = attempt[r] + 1
        BY <1>5, <3>4
      <4>2. Exists(r) => box[r].by # attempt'[r]
        BY <1>2, <3>1, <4>1 DEF RunOK, Attempts
      <4>3. <<r, attempt'[r]>> \notin sweep.ids
        <5>1. ASSUME <<r, attempt'[r]>> \in sweep.ids PROVE FALSE
          <6>1. <<r, attempt'[r]>> \in Swept(r)
            BY <5>1 DEF Swept
          <6>2. attempt'[r] <= attempt[r]
            BY <1>2, <6>1 DEF RunOK, Attempts
          <6> QED
            BY <3>1, <4>1, <6>2
        <5> QED
          BY <5>1
      <4> QED
        BY <1>1, <3>3, <4>2, <4>3 DEF Attempts, Swept, Exists, Present, Own
    <3>5. CASE job'[r] # "waiting"
      BY <1>1, <3>3, <3>5 DEF Attempts, Swept, Exists
    <3> QED
      BY <3>4, <3>5
  <2>3. OldOnes(r)'
    BY <1>1, <1>2 DEF RunOK, OldOnes, Swept, Exists, Present
  <2>4. Leftovers(r)'
    BY <1>1, <1>3 DEF Leftovers
  <2> QED
    BY <1>1, <2>1, <2>2, <2>3, <2>4 DEF RunOK
<1> QED
  BY <1>6, <1>7, <1>8, <1>9 DEF WorkerInv
-----------------------------------------------------------------------------
(* The reaper and the process. *)

(* A sweep that knows of no more than what there is, and takes no more than *)
(* what is old.                                                             *)
LEMMA SweepMoves ==
  ASSUME WorkerInv, UNCHANGED <<job, attempt, h, box, frames, excused, left>>,
         kill' \subseteq Ids, breaks' \in 0..MaxBreaks,
         proc' \in {"up", "closing", "down"}, proc' = "down" => Busy = {},
         sweep' \in [at : {"idle", "listed", "stale"}, ids : SUBSET Ids],
         \A id \in sweep'.ids : id \in sweep.ids \/ (id[1] \in Run /\ Present(id)),
         sweep'.at = "stale" => \A id \in sweep'.ids : Present(id) => box[id[1]].old
  PROVE  WorkerInv'
<1>1. Typed'
  BY DEF WorkerInv, Typed
<1>2. IsFiniteSet(Busy') /\ Cardinality(Busy') <= CONCURRENCY
  BY NoMoreHandlers
<1>3. ASSUME NEW r \in Run PROVE RunOK(r)'
  <2>1. RunOK(r) /\ box[r] \in Container
    BY DEF WorkerInv, Typed
  <2>2. Lives(r)' /\ Leftovers(r)' /\ Sends(r)' /\ Course(h'[r], box'[r])
    BY <2>1 DEF RunOK, Lives, Leftovers, Sends, Busy, Exists, Present, Own
  <2>3. \A id \in Swept(r)' : id \in Swept(r) \/ (id[1] = r /\ Present(id))
    BY DEF Swept
  <2>4. Attempts(r)'
    <3>1. \A id \in Swept(r)' : id[2] <= attempt[r]
      BY <2>1, <2>3 DEF RunOK, Attempts, Present
    <3>2. Own(r)[1] = r
      BY DEF Own
    <3>3. Own(r) \in sweep'.ids => Own(r) \in sweep.ids \/ Present(Own(r))
      BY <3>2, <2>3 DEF Swept
    <3> QED
      BY <2>1, <3>1, <3>3 DEF RunOK, Attempts, Exists, Present, Own
  <2>5. OldOnes(r)'
    BY <2>1 DEF RunOK, OldOnes, Swept, Exists, Present, Own
  <2> QED
    BY <2>2, <2>4, <2>5 DEF RunOK
<1> QED
  BY <1>1, <1>2, <1>3 DEF WorkerInv

LEMMA SweepInv ==
  ASSUME WorkerInv, SweepLists \/ SweepInspects \/ SweepFails
  PROVE  WorkerInv'
<1>1. /\ breaks \in 0..MaxBreaks /\ kill \subseteq Ids /\ proc \in {"up", "closing", "down"}
      /\ sweep \in [at : {"idle", "listed", "stale"}, ids : SUBSET Ids]
  BY DEF WorkerInv, Typed
<1>2. proc = "down" => Busy = {}
  BY DEF WorkerInv, RunOK, Lives, Busy
<1>3. CASE SweepLists
  <2>1. /\ sweep' = [at |-> "listed", ids |-> Listed]
        /\ UNCHANGED <<DaemonOnly, box, kill>>
    BY <1>3 DEF SweepLists
  <2>2. \A id \in Listed : id \in Ids /\ id[1] \in Run /\ Present(id)
    <3>1. \A r \in Run : box[r].by \in 0..Stalls
      BY DEF WorkerInv, Typed, Container
    <3> QED
      BY <3>1 DEF Listed, Ids, Present
  <2> QED
    BY <1>1, <1>2, <2>1, <2>2, SweepMoves DEF DaemonOnly
<1>4. CASE SweepInspects
  <2> DEFINE stale == IF \A id \in sweep.ids : Present(id) THEN StaleOf(sweep.ids) ELSE {}
  <2>1. /\ sweep' = IF stale = {} THEN Quiet ELSE [at |-> "stale", ids |-> stale]
        /\ UNCHANGED <<DaemonOnly, box, kill>>
    BY <1>4 DEF SweepInspects
  <2>2. \A id \in stale : id \in sweep.ids /\ box[id[1]].old
    BY DEF StaleOf
  <2> HIDE DEF stale
  <2> QED
    BY <1>1, <1>2, <2>1, <2>2, SweepMoves DEF DaemonOnly, Quiet
<1>5. CASE SweepFails
  <2>1. /\ sweep' = Quiet /\ breaks' \in 0..MaxBreaks
        /\ UNCHANGED <<proc, job, attempt, h, box, kill, frames, excused, left>>
    BY <1>1, <1>5, RunWorkerAssumption DEF SweepFails, MayBreak
  <2> QED
    BY <1>1, <1>2, <2>1, SweepMoves DEF Quiet
<1> QED
  BY <1>3, <1>4, <1>5

LEMMA ProcessInv == ASSUME WorkerInv, Shutdown \/ Stops \/ Boots PROVE WorkerInv'
<1>1. /\ breaks \in 0..MaxBreaks /\ kill \subseteq Ids
      /\ sweep \in [at : {"idle", "listed", "stale"}, ids : SUBSET Ids]
  BY DEF WorkerInv, Typed
<1>2. sweep.at = "stale" => \A id \in sweep.ids : Present(id) => box[id[1]].old
  BY DEF WorkerInv, Typed, Ids, RunOK, OldOnes, Swept
<1>3. /\ UNCHANGED <<job, attempt, h, box, kill, frames, excused, left>>
      /\ breaks' \in 0..MaxBreaks /\ sweep' \in {sweep, Quiet}
      /\ proc' \in {"up", "closing", "down"} /\ (proc' = "down" => Busy = {})
  BY <1>1, RunWorkerAssumption DEF Shutdown, Stops, Boots, MayBreak
<1> QED
  BY <1>1, <1>2, <1>3, SweepMoves DEF Quiet

LEMMA SweepRemovesInv == ASSUME WorkerInv, SweepRemoves PROVE WorkerInv'
<1>1. /\ sweep' = Quiet /\ UNCHANGED <<DaemonOnly, kill>>
      /\ box' = [r \in Run |->
           IF <<r, box[r].by>> \notin sweep.ids \/ ~Exists(r) THEN box[r]
           ELSE Gone(r, IF box[r].state = "running" THEN "signal" ELSE "docker")[r]]
  BY DEF SweepRemoves
<1>2. \A r \in Run :
        /\ box'[r] \in Container /\ box'[r].by = box[r].by /\ box'[r].old = box[r].old
        /\ \/ box'[r] = box[r]
           \/ Exists(r) /\ box'[r].state = "none" /\ box'[r].end \in {"signal", "docker"}
  <2>1. TAKE r \in Run
  <2>2. box[r] \in Container
    BY DEF WorkerInv, Typed
  <2>3. \A end \in {"own", "signal", "docker"} :
          /\ Gone(r, end)[r] \in Container /\ Gone(r, end)[r].by = box[r].by
          /\ Gone(r, end)[r].old = box[r].old /\ Gone(r, end)[r].state = "none"
          /\ Gone(r, end)[r].end = end
    BY <2>2, GoneIs DEF WorkerInv, Typed
  <2> QED
    BY <1>1, <2>2, <2>3
<1>3. Typed'
  <2>1. box' \in [Run -> Container]
    BY <1>1, <1>2
  <2> QED
    BY <1>1, <2>1 DEF WorkerInv, Typed, DaemonOnly, Quiet
<1>4. IsFiniteSet(Busy') /\ Cardinality(Busy') <= CONCURRENCY
  BY <1>1, NoMoreHandlers DEF DaemonOnly
<1>5. ASSUME NEW r \in Run PROVE RunOK(r)'
  <2>1. RunOK(r) /\ UNCHANGED <<job, attempt, h, proc, frames, excused, left>>
    BY <1>1 DEF WorkerInv, DaemonOnly
  <2>2. Own(r)' = Own(r) /\ (Exists(r)' => Exists(r)) /\ (Present(Own(r))' => Present(Own(r)))
    BY <1>2, <2>1 DEF Own, Exists, Present
  <2>3. Swept(r)' = {} /\ sweep'.at = "idle" /\ sweep'.ids = {}
    BY <1>1 DEF Swept, Quiet
  <2>4. Lives(r)' /\ Sends(r)'
    BY <2>1 DEF RunOK, Lives, Sends
  <2>5. Attempts(r)' /\ OldOnes(r)' /\ Leftovers(r)'
    BY <1>2, <2>1, <2>2, <2>3 DEF RunOK, Attempts, OldOnes, Leftovers
  <2>6. Course(h'[r], box'[r])
    BY <1>2, <2>1 DEF RunOK, Course, Exists
  <2> QED
    BY <2>4, <2>5, <2>6 DEF RunOK
<1> QED
  BY <1>3, <1>4, <1>5 DEF WorkerInv

LEMMA DiesInv == ASSUME WorkerInv, Dies PROVE WorkerInv'
<1>1. /\ proc' = "down" /\ sweep' = Quiet /\ h' = [r \in Run |-> Idle]
      /\ excused' = excused \cup Busy /\ box' = Forgotten(Busy) /\ MayBreak
      /\ UNCHANGED <<job, attempt, kill, frames, left>>
  BY DEF Dies
<1>2. /\ Idle \in Handler /\ Idle.at = "idle" /\ ~Idle.timer /\ ~Idle.cut
      /\ NoBox \in Container /\ NoBox.state = "none" /\ NoBox.end = "none"
  BY RunWorkerAssumption DEF Idle, Handler, NoBox, Container, Place, Code
<1>3. \A r \in Run : box'[r] \in Container /\ (box'[r] = box[r] \/ box'[r] = NoBox)
  BY <1>1, <1>2 DEF Forgotten, WorkerInv, Typed
<1>4. Typed'
  <2>1. box' \in [Run -> Container]
    BY <1>1, <1>3 DEF Forgotten
  <2>2. breaks' \in 0..MaxBreaks
    BY <1>1, RunWorkerAssumption DEF MayBreak, WorkerInv, Typed
  <2>3. Quiet \in [at : {"idle", "listed", "stale"}, ids : SUBSET Ids]
    BY DEF Quiet
  <2> QED
    BY <1>1, <1>2, <2>1, <2>2, <2>3 DEF WorkerInv, Typed, Busy
<1>5. IsFiniteSet(Busy') /\ Cardinality(Busy') <= CONCURRENCY
  BY <1>1, <1>2, NoMoreHandlers
<1>6. ASSUME NEW r \in Run PROVE RunOK(r)'
  <2>1. RunOK(r) /\ h'[r] = Idle
    BY <1>1 DEF WorkerInv
  <2>2. Own(r)' = Own(r) /\ (Exists(r)' => box'[r] = box[r])
    BY <1>1, <1>2, <1>3 DEF Own, Exists
  <2>3. Swept(r)' = {} /\ sweep'.at = "idle" /\ sweep'.ids = {}
    BY <1>1 DEF Swept, Quiet
  <2>4. Lives(r)' /\ Sends(r)'
    BY <1>1, <1>2, <2>1 DEF RunOK, Lives, Sends, Busy
  <2>5. Attempts(r)' /\ OldOnes(r)'
    <3>1. Present(Own(r))' => Present(Own(r))
      BY <2>2 DEF Present, Exists, Own
    <3> QED
      BY <1>1, <1>2, <2>1, <2>2, <2>3, <3>1 DEF RunOK, Attempts, OldOnes, Exists
  <2>7. Leftovers(r)'
    BY <1>1, <1>2, <2>1, <2>2 DEF RunOK, Leftovers, Exists, Busy
  <2>6. Course(h'[r], box'[r])
    BY <1>2, <1>3, <2>1 DEF RunOK, Course
  <2> QED
    BY <2>4, <2>5, <2>6, <2>7 DEF RunOK
<1> QED
  BY <1>4, <1>5, <1>6 DEF WorkerInv

LEMMA WorkerNextInv == WorkerInv /\ [WorkerNext]_workerVars => WorkerInv'
<1> SUFFICES ASSUME WorkerInv, [WorkerNext]_workerVars PROVE WorkerInv'
  OBVIOUS
<1>1. CASE UNCHANGED workerVars
  <2>1. Typed' /\ Busy' = Busy
    BY <1>1 DEF WorkerInv, Typed, workerVars, Busy
  <2>2. \A r \in Run : RunOK(r)'
    BY <1>1 DEF WorkerInv, workerVars, RunOK, Lives, Attempts, Swept, OldOnes, Leftovers, Sends,
                Exists, Present, Own
  <2> QED
    BY <2>1, <2>2 DEF WorkerInv
<1>2. CASE Works
  <2>1. ASSUME NEW r \in Run,
               \/ Takes(r) \/ CreateFails(r) \/ Creates(r) \/ CopyFails(r) \/ Starts(r) \/ Closes(r)
               \/ Removes(r) \/ Publishes(r) \/ Finishes(r) \/ TimerFires(r) \/ Stalled(r)
               \/ DaemonStarts(r) \/ DaemonRefuses(r) \/ KillArrives(r)
        PROVE  WorkerInv'
    BY <2>1, TakesInv, CreateFailsInv, CreatesInv, CopyFailsInv, StartsInv, ClosesInv, RemovesInv,
       PublishesInv, FinishesInv, TimerFiresInv, StalledInv, DaemonInv
  <2> QED
    BY <1>2, <2>1, ProcessInv DEF Works
<1>3. CASE Sweeps \/ SweepFails
  BY <1>3, SweepInv, SweepRemovesInv DEF Sweeps
<1>4. CASE Shutdown \/ Dies
  BY <1>4, ProcessInv, DiesInv
<1>5. CASE \E r \in Run : ProgramExits(r) \/ Ages(r) \/ \E n \in Chunks : Prints(r, n)
  BY <1>5, DaemonInv, PrintsInv
<1> QED
  BY <1>1, <1>2, <1>3, <1>4, <1>5 DEF WorkerNext

LEMMA Always == WorkerSpec => []WorkerInv
  BY WorkerInitInv, WorkerNextInv, PTL DEF WorkerSpec

(* Every variable keeps its type, no handler forwards more than MAX_OUTPUT, *)
(* and no more than CONCURRENCY jobs are handled at a time (worker.ts).     *)
THEOREM WorkerTypes == WorkerSpec => []WorkerTypeOK
<1>1. WorkerInv => WorkerTypeOK
  <2> SUFFICES ASSUME WorkerInv PROVE WorkerTypeOK
    OBVIOUS
  <2>1. \A r \in Run :
          /\ h[r].at \in {"idle", "creating", "copying", "running", "removing", "publishing",
                         "finally"}
          /\ h[r].sent \in 0..MAX_OUTPUT /\ h[r].reason \in {"none", "timeout", "output"}
          /\ box[r].state \in {"none", "created", "starting", "running", "refused"}
          /\ frames[r] \in Seq(Frame)
    BY DEF WorkerInv, Typed, Handler, Place, Container
  <2>2. proc = "down" => Busy = {}
    BY DEF WorkerInv, RunOK, Lives, Busy
  <2> QED
    BY <2>1, <2>2 DEF WorkerInv, Typed, WorkerTypeOK, Ids
<1> QED
  BY <1>1, Always, PTL

(* runWithLimits: a run that was cut is reported as truncated and not as a  *)
(* timeout, and the exit code of a report is one its program ended with.    *)
THEOREM ReportsAreCorrect == WorkerSpec => []ReportsAreTrue
<1>1. WorkerInv => ReportsAreTrue
  <2> SUFFICES ASSUME WorkerInv, NEW r \in Run, h[r].at = "publishing"
      PROVE  /\ h[r].cut => h[r].result[1].status = "ok" /\ h[r].result[1].truncated
             /\ h[r].result[1].code = "own" => box[r].end = "own" /\ ~h[r].cut
             /\ box[r].state = "none" \/ box[r].by # attempt[r] \/ r \in left
    BY DEF ReportsAreTrue
  <2>1. RunOK(r)
    BY DEF WorkerInv
  <2> QED
    BY <2>1 DEF RunOK, Course, Leftovers, Exists, Present, Own
<1> QED
  BY <1>1, Always, PTL

(* handleRunJob: nothing follows a run's exit frame, and there is but one.  *)
THEOREM ExitIsLast == WorkerSpec => []ExitEndsTheStream
<1>1. WorkerInv => ExitEndsTheStream
  BY DEF WorkerInv, RunOK, Sends, ExitLast, ExitEndsTheStream
<1> QED
  BY <1>1, Always, PTL

(* runInContainer: a container outlives its handler only if the runner died *)
(* or docker would not remove it.                                           *)
THEOREM NothingForgotten == WorkerSpec => []HandlersCleanUp
<1>1. WorkerInv => HandlersCleanUp
  BY DEF WorkerInv, RunOK, Leftovers, HandlersCleanUp
<1> QED
  BY <1>1, Always, PTL

(* sweepOnce: what is removed between the inspection and the removal of a   *)
(* sweep, however late that is, is no container of a run within its time.   *)
THEOREM LiveRunsSpared == WorkerSpec => LiveRunsAreSpared
<1>1. WorkerInv /\ [WorkerNext]_workerVars =>
        [\A r \in Run : SweepRemoves /\ box'[r] # box[r] /\ r \in Busy
                          /\ Present(Own(r)) => ~h[r].timer]_workerVars
  <2> SUFFICES ASSUME WorkerInv, NEW r \in Run, SweepRemoves, box'[r] # box[r], r \in Busy,
                      Present(Own(r))
      PROVE  ~h[r].timer
    BY DEF workerVars
  <2>1. RunOK(r) /\ box[r].by = attempt[r]
    BY DEF WorkerInv, Present, Own
  <2>2. <<r, box[r].by>> \in sweep.ids /\ sweep.at = "stale"
    BY DEF SweepRemoves
  <2>3. Own(r) \in Swept(r)
    BY <2>1, <2>2 DEF Own, Swept
  <2>4. box[r].old
    BY <2>1, <2>2, <2>3 DEF RunOK, OldOnes
  <2> QED
    BY <2>1, <2>4 DEF RunOK, OldOnes, Busy
<1> QED
  BY <1>1, Always, PTL DEF WorkerSpec, LiveRunsAreSpared
=============================================================================
