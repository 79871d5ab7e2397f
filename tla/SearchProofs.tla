---------------------------- MODULE SearchProofs ----------------------------
(***************************************************************************)
(* Proofs about the search palette (Search), for any project, texts and    *)
(* character tables, any number of workers and any limits: a list is of    *)
(* one query, a search that ends without a limit or an error has listed    *)
(* every file it meant to read, the marked row stays while results come    *)
(* in, and what is listed, filtered and drawn is genuine (SearchHits).     *)
(*                                                                         *)
(* The invariant has four parts: what the page has fetched and cached was  *)
(* so at the server and may have become older there, never newer           *)
(* (FetchedOK, CacheOK); the workers take the targets in order, each for   *)
(* itself (InOrder); of every target before the cursor that nobody is      *)
(* reading, one text's lines are in the hits, and of the others none       *)
(* (Accounted); and what is published is the beginning of the hits of the  *)
(* query that is wanted (ResultOK).  For what is shown it takes two more:  *)
(* the names are those of the tree and the query there are, and the tree   *)
(* is that of a closed table (ListInv); and every hit is a place of the    *)
(* query in a text its file has had, no two on one line (HitsInv).         *)
(***************************************************************************)
EXTENDS SearchHits, TreeProofs

(* The characters of texts, and what is found in them.                      *)

(* What is read off strings is a string, or a position.                     *)
LEMMA FlattenIs ==
  ASSUME NEW R, NEW s \in Seq(Seq(R))
  PROVE  FlattenSeq(s) \in Seq(R)
<1>1. Len(s) \in Nat /\ \A i \in 1..Len(s) : s[i] \in Seq(R)
  OBVIOUS
<1>2. CASE Len(s) = 0
  BY <1>2 DEF FlattenSeq
<1>3. CASE Len(s) # 0
  <2> DEFINE step == [a \in Nat \X Seq(R) |-> IF a[1] + 1 \in 1..Len(s) THEN a[2] \o s[a[1] + 1] ELSE a[2]]
             Is(f) == f = [i \in 1..Len(s) |-> IF i = 1 THEN s[i] ELSE f[i - 1] \o s[i]]
  <2>1. << >> \in Seq(R)
    OBVIOUS
  <2>2. \A i \in Nat, q \in Seq(R) :
          step[<<i, q>>] = IF i + 1 \in 1..Len(s) THEN q \o s[i + 1] ELSE q
    OBVIOUS
  <2>3. \A i \in 1..Len(s), q \in Seq(R) : q \o s[i] \in Seq(R)
    BY <1>1
  <2>4. step \in Steps(Seq(R))
    BY <2>3 DEF Steps
  <2> HIDE DEF step
  <2>5. PICK F : Recurs(F, Seq(R), << >>, step)
    BY <2>1, <2>4, Recursion
  <2>6. F \in [Nat -> Seq(R)] /\ F[0] = << >> /\ \A n \in Nat : F[n + 1] = step[<<n, F[n]>>]
    BY <2>5 DEF Recurs
  <2> DEFINE g == [i \in 1..Len(s) |-> F[i]]
  <2>7. Is(g)
    <3> SUFFICES ASSUME NEW i \in 1..Len(s)
                 PROVE  g[i] = IF i = 1 THEN s[i] ELSE g[i - 1] \o s[i]
      BY DOMAIN g = 1..Len(s)
    <3>1. i - 1 \in Nat /\ (i - 1) + 1 = i
      BY <1>1
    <3>2. F[(i - 1) + 1] = step[<<i - 1, F[i - 1]>>] /\ F[i - 1] \in Seq(R) /\ g[i] = F[i]
      BY <2>6, <3>1
    <3>5. F[i] = F[i - 1] \o s[i] /\ F[i - 1] \in Seq(R) /\ g[i] = F[i]
      BY <2>2, <3>1, <3>2
    <3>3. CASE i = 1
      <4>1. F[i - 1] = << >> /\ s[i] \in Seq(R)
        BY <2>6, <1>1, <3>3
      <4>2. << >> \o s[i] = s[i]
        BY <4>1
      <4> QED
        BY <3>5, <3>3, <4>1, <4>2
    <3>4. CASE i # 1
      <4>1. g[i - 1] = F[i - 1]
        BY <1>1, <3>4
      <4> QED
        BY <3>5, <3>4, <4>1
    <3> QED
      BY <3>3, <3>4
  <2> DEFINE f == CHOOSE f : Is(f)
  <2>8. Is(f)
    <3> HIDE DEF Is, g
    <3> QED
      BY <2>7, Zenon
  <2>9. FlattenSeq(s) = f[Len(s)]
    BY <1>3 DEF FlattenSeq
  <2> HIDE DEF f
  <2> DEFINE T == {i \in Nat : i \in 1..Len(s) => f[i] \in Seq(R)}
  <2>10. 0 \in T
    OBVIOUS
  <2>11. ASSUME NEW i \in Nat, i \in T PROVE i + 1 \in T
    <3> SUFFICES ASSUME i + 1 \in 1..Len(s) PROVE f[i + 1] \in Seq(R)
      OBVIOUS
    <3>1. f[i + 1] = IF i + 1 = 1 THEN s[i + 1] ELSE f[i] \o s[i + 1]
      <4>1. f[i + 1] = IF i + 1 = 1 THEN s[i + 1] ELSE f[(i + 1) - 1] \o s[i + 1]
        BY <2>8
      <4>2. (i + 1) - 1 = i
        OBVIOUS
      <4> QED
        BY <4>1, <4>2
    <3>2. i + 1 # 1 => i \in 1..Len(s)
      BY <1>1
    <3> QED
      BY <3>1, <3>2, <2>3, <2>11, <1>1
  <2> HIDE DEF T
  <2>12. Len(s) \in T
    BY <2>10, <2>11, <1>1, SetInduction
  <2> QED
    BY <2>9, <2>12, <1>1, <1>3 DEF T
<1> QED
  BY <1>2, <1>3

LEMMA LowerIs ==
  ASSUME NEW s \in Seq(Char)
  PROVE  toLowerCase(s) \in Seq(Char)
<1>1. DOMAIN s = 1..Len(s) /\ Len(s) \in Nat /\ \A i \in 1..Len(s) : Lower[s[i]] \in Seq(Char)
  BY MatchAssumption
<1>2. [i \in DOMAIN s |-> Lower[s[i]]] \in Seq(Seq(Char))
  BY <1>1
<1> QED
  BY <1>2, FlattenIs DEF toLowerCase

LEMMA IndexIs ==
  ASSUME NEW s \in Seq(Char), NEW part \in Seq(Char), NEW from \in Nat
  PROVE  indexOf(s, part, from) \in Nat
<1> DEFINE places == {i \in from..(Len(s) - Len(part) + 1) : SubSeq(s, i, i + Len(part) - 1) = part}
<1>1. places \subseteq Nat
  OBVIOUS
<1>2. places # {} => Min(places) \in Nat
  BY <1>1, MinIs
<1> QED
  BY <1>2 DEF indexOf

LEMMA TrimIs ==
  ASSUME NEW s \in Seq(Char)
  PROVE  trim(s) \in Seq(Char)
<1> DEFINE ink == {i \in DOMAIN s : s[i] # Space}
<1>1. ink \subseteq 1..Len(s) /\ Len(s) \in Nat
  OBVIOUS
<1>2. CASE ink = {}
  BY <1>2 DEF trim
<1>3. CASE ink # {}
  <2>1. IsFiniteSet(ink)
    BY <1>1, FS_Interval, FS_Subset
  <2> HIDE DEF ink
  <2>4. ink \subseteq Nat
    BY <1>1
  <2>2. Min(ink) \in ink /\ Max(ink) \in ink
    BY <1>3, <2>1, <2>4, MinIs, MaxIs
  <2>3. SubSeq(s, Min(ink), Max(ink)) \in Seq(Char)
    <3>1. Min(ink) \in 1..Len(s) /\ Max(ink) \in 1..Len(s)
      BY <1>1, <2>2
    <3> DEFINE a == Min(ink)
               b == Max(ink)
    <3> HIDE DEF a, b
    <3>2. SubSeq(s, a, b) \in Seq(Char)
      BY <3>1, SubSeqProperties DEF a, b
    <3> QED
      BY <3>2 DEF a, b
  <2> QED
    BY <2>3, <1>3 DEF trim, ink
<1> QED
  BY <1>2, <1>3

LEMMA LineEndIs ==
  ASSUME NEW content \in Seq(Char), NEW found \in Nat, Newline \in Char
  PROVE  LineEnd(content, found) \in Nat
<1>1. <<Newline>> \in Seq(Char)
  OBVIOUS
<1>2. indexOf(content, <<Newline>>, found) \in Nat
  BY <1>1, IndexIs
<1> QED
  BY <1>2 DEF LineEnd

(* What is found in a text.                                                 *)
LineMatches == {LineHit(t, f, l) : t \in Seq(Char), f \in Nat, l \in Nat}

LEMMA MatchesAre ==
  ASSUME NEW content \in Seq(Char), NEW asked \in Seq(Char), NEW limit \in Nat, Newline \in Char
  PROVE  matchContent(content, asked, limit) \in Seq(LineMatches)
<1> DEFINE haystack == toLowerCase(content)
           needle == toLowerCase(asked)
           V == [Nat -> Seq(LineMatches)]
           hit(c) == indexOf(haystack, needle, c)
           step == [a \in Nat \X V |-> [c \in Nat |->
                      IF hit(c) = 0 THEN << >>
                      ELSE <<LineHit(content, hit(c), Len(needle))>> \o a[2][LineEnd(content, hit(c)) + 1]]]
           base == [c \in Nat |-> << >>]
           Is(f) == f = [room \in 0..limit |-> [c \in Nat |->
                           IF room = 0 \/ hit(c) = 0 THEN << >>
                           ELSE <<LineHit(content, hit(c), Len(needle))>>
                                  \o f[room - 1][LineEnd(content, hit(c)) + 1]]]
<1>1. haystack \in Seq(Char) /\ needle \in Seq(Char)
  BY LowerIs
<1>2. \A c \in Nat : /\ hit(c) \in Nat
                     /\ LineEnd(content, hit(c)) + 1 \in Nat
                     /\ <<LineHit(content, hit(c), Len(needle))>> \in Seq(LineMatches)
  <2> SUFFICES ASSUME NEW c \in Nat
               PROVE  /\ hit(c) \in Nat
                      /\ LineEnd(content, hit(c)) + 1 \in Nat
                      /\ <<LineHit(content, hit(c), Len(needle))>> \in Seq(LineMatches)
    OBVIOUS
  <2>1. hit(c) \in Nat
    BY <1>1, IndexIs
  <2> HIDE DEF hit
  <2>2. LineEnd(content, hit(c)) \in Nat
    BY <2>1, LineEndIs
  <2>3. Len(needle) \in Nat
    BY <1>1
  <2> HIDE DEF needle
  <2>4. LineHit(content, hit(c), Len(needle)) \in LineMatches
    BY <2>1, <2>3 DEF LineMatches
  <2> QED
    BY <2>1, <2>2, <2>4
<1> HIDE DEF hit, needle, haystack
<1>3. base \in V
  OBVIOUS
<1>15. ASSUME NEW v \in V, NEW c \in Nat
       PROVE  <<LineHit(content, hit(c), Len(needle))>> \o v[LineEnd(content, hit(c)) + 1] \in Seq(LineMatches)
  <2> DEFINE one == <<LineHit(content, hit(c), Len(needle))>>
             rest == v[LineEnd(content, hit(c)) + 1]
  <2>1. one \in Seq(LineMatches) /\ rest \in Seq(LineMatches)
    BY <1>2
  <2> HIDE DEF one, rest
  <2>2. one \o rest \in Seq(LineMatches)
    BY <2>1
  <2> QED
    BY <2>2 DEF one, rest
<1>4. step \in Steps(V)
  <2> SUFFICES ASSUME NEW n \in Nat, NEW v \in V
               PROVE  [c \in Nat |-> IF hit(c) = 0 THEN << >>
                         ELSE <<LineHit(content, hit(c), Len(needle))>> \o v[LineEnd(content, hit(c)) + 1]] \in V
    BY DEF Steps
  <2>1. \A c \in Nat : <<LineHit(content, hit(c), Len(needle))>> \o v[LineEnd(content, hit(c)) + 1] \in Seq(LineMatches)
    BY <1>2, <1>15
  <2> QED
    BY <2>1
<1>5. \A n \in Nat, v \in V : step[<<n, v>>] = [c \in Nat |->
                      IF hit(c) = 0 THEN << >>
                      ELSE <<LineHit(content, hit(c), Len(needle))>> \o v[LineEnd(content, hit(c)) + 1]]
  OBVIOUS
<1> HIDE DEF step
<1>6. PICK F : Recurs(F, V, base, step)
  BY <1>3, <1>4, Recursion
<1>7. F \in [Nat -> V] /\ F[0] = base /\ \A n \in Nat : F[n + 1] = step[<<n, F[n]>>]
  BY <1>6 DEF Recurs
<1> DEFINE g == [room \in 0..limit |-> F[room]]
<1>8. Is(g)
  <2> SUFFICES ASSUME NEW room \in 0..limit
               PROVE  g[room] = [c \in Nat |->
                           IF room = 0 \/ hit(c) = 0 THEN << >>
                           ELSE <<LineHit(content, hit(c), Len(needle))>>
                                  \o g[room - 1][LineEnd(content, hit(c)) + 1]]
    BY DOMAIN g = 0..limit
  <2>1. CASE room = 0
    BY <1>7, <2>1
  <2>2. CASE room # 0
    <3>1. room - 1 \in Nat /\ (room - 1) + 1 = room /\ room - 1 \in 0..limit
      BY <2>2
    <3>2. F[room] = step[<<room - 1, F[room - 1]>>] /\ F[room - 1] \in V
      BY <1>7, <3>1
    <3>3. g[room] = F[room] /\ g[room - 1] = F[room - 1]
      BY <3>1
    <3> HIDE DEF g
    <3> QED
      BY <1>5, <2>2, <3>1, <3>2, <3>3, ZenonT(60)
  <2> QED
    BY <2>1, <2>2
<1> DEFINE f == CHOOSE f : Is(f)
<1>9. Is(f)
  <2> HIDE DEF Is, g
  <2> QED
    BY <1>8, Zenon
<1>10. asked # << >> => matchContent(content, asked, limit) = f[limit][1]
  BY DEF matchContent, hit, needle, haystack
<1> HIDE DEF f
<1> DEFINE T == {n \in Nat : n \in 0..limit => f[n] \in V}
<1>11. 0 \in T
  BY <1>9
<1>12. ASSUME NEW n \in Nat, n \in T PROVE n + 1 \in T
  <2> HIDE DEF V
  <2> SUFFICES ASSUME n + 1 \in 0..limit PROVE f[n + 1] \in V
    OBVIOUS
  <2>1. f[n] \in V
    BY <1>12
  <2> USE DEF V
  <2>2. f[n + 1] = [c \in Nat |-> IF hit(c) = 0 THEN << >>
                                  ELSE <<LineHit(content, hit(c), Len(needle))>>
                                         \o f[n][LineEnd(content, hit(c)) + 1]]
    <3>1. n + 1 # 0 /\ (n + 1) - 1 = n
      OBVIOUS
    <3> DEFINE E(m, a) == [c \in Nat |-> IF m = 0 \/ hit(c) = 0 THEN << >>
                             ELSE <<LineHit(content, hit(c), Len(needle))>>
                                    \o a[LineEnd(content, hit(c)) + 1]]
    <3>2. f = [room \in 0..limit |-> E(room, f[room - 1])]
      BY <1>9
    <3> HIDE DEF E
    <3>3. f[n + 1] = E(n + 1, f[n])
      BY <3>1, <3>2
    <3> QED
      BY <3>1, <3>3 DEF E
  <2>3. \A c \in Nat : <<LineHit(content, hit(c), Len(needle))>> \o f[n][LineEnd(content, hit(c)) + 1]
                         \in Seq(LineMatches)
    BY <1>15, <2>1
  <2> QED
    BY <2>2, <2>3
<1> HIDE DEF T
<1>13. limit \in T
  BY <1>11, <1>12, SetInduction
<1>14. f[limit][1] \in Seq(LineMatches)
  BY <1>13 DEF T
<1> QED
  BY <1>10, <1>14 DEF matchContent

-----------------------------------------------------------------------------
(* The hits of one file among all.                                         *)

(* What is kept of a sequence depends on its elements alone.                *)
LEMMA AmongSame ==
  ASSUME NEW R, NEW s \in Seq(R), NEW S, NEW U, ToSet(s) \cap S = ToSet(s) \cap U
  PROVE  Among(s, S) = Among(s, U)
<1> DEFINE T == {t \in Seq(R) : ToSet(t) \cap S = ToSet(t) \cap U => Among(t, S) = Among(t, U)}
<1>1. << >> \in T
  BY AmongNothing
<1>2. ASSUME NEW t \in Seq(R), NEW x \in R, t \in T PROVE Append(t, x) \in T
  <2> DEFINE t1 == Append(t, x)
  <2>1. t1 \in Seq(R) /\ ToSet(t1) = ToSet(t) \cup {x}
    BY AppendedSet
  <2>4. t1 = Append(t, x)
    OBVIOUS
  <2> HIDE DEF t1
  <2>2. /\ Among(t1, S) = IF x \in S THEN Append(Among(t, S), x) ELSE Among(t, S)
        /\ Among(t1, U) = IF x \in U THEN Append(Among(t, U), x) ELSE Among(t, U)
    BY <2>4, AmongStep, ZenonT(60)
  <2>3. ASSUME ToSet(t1) \cap S = ToSet(t1) \cap U PROVE Among(t1, S) = Among(t1, U)
    <3>1. (x \in S <=> x \in U) /\ ToSet(t) \cap S = ToSet(t) \cap U
      BY <2>1, <2>3
    <3>2. Among(t, S) = Among(t, U)
      BY <1>2, <3>1
    <3> QED
      BY <2>2, <3>1, <3>2
  <2> QED
    BY <2>1, <2>3 DEF t1
<1> HIDE DEF T
<1>3. s \in T
  BY <1>1, <1>2, SeqInduction
<1> QED
  BY <1>3 DEF T

AllHits == [node : FileRows, match : LineMatches, for : Seq(Char)]

LEMMA HitsAre ==
  ASSUME NEW s, s.query \in Seq(Char), NEW n \in FileRows, NEW text \in Seq(Char) \cup {NULL},
         Newline \in Char
  PROVE  /\ Hits(s, n, text) \in Seq(AllHits)
         /\ \A i \in DOMAIN Hits(s, n, text) :
              Hits(s, n, text)[i].node = n /\ Hits(s, n, text)[i].for = s.query
<1>1. CASE Hits(s, n, text) = << >>
  BY <1>1
<1>2. CASE Hits(s, n, text) # << >>
  <2> DEFINE found == matchContent(text, s.query, MAX_MATCHES_PER_FILE)
             h == [i \in DOMAIN found |-> [node |-> n, match |-> found[i], for |-> s.query]]
  <2>1. text \in Seq(Char) /\ Hits(s, n, text) = h
    BY <1>2 DEF Hits
  <2>2. found \in Seq(LineMatches)
    BY <2>1, MatchesAre, SearchAssumption
  <2> HIDE DEF found
  <2>3. h \in Seq(AllHits)
    <3>1. Len(found) \in Nat /\ DOMAIN found = 1..Len(found) /\ \A i \in 1..Len(found) : found[i] \in LineMatches
      BY <2>2
    <3>2. \A i \in 1..Len(found) : [node |-> n, match |-> found[i], for |-> s.query] \in AllHits
      BY <3>1 DEF AllHits
    <3> QED
      BY <3>1, <3>2
  <2> QED
    BY <2>1, <2>3
<1> QED
  BY <1>1, <1>2

OfFile(hits, id) == Among(hits, {h \in AllHits : h.node.id = id})

OfOneFile(hits, m) == \A i \in DOMAIN hits : hits[i].node.id = m

LEMMA OfFileGrows ==
  ASSUME NEW old \in Seq(AllHits), NEW new \in Seq(AllHits), NEW m, NEW id,
         OfOneFile(new, m)
  PROVE  /\ id = m => OfFile(Joined(old, new), id) = Joined(OfFile(old, id), new)
         /\ id # m => OfFile(Joined(old, new), id) = OfFile(old, id)
<1> DEFINE S == {h \in AllHits : h.node.id = id}
<1>1. Among(old \o new, S) = Among(old, S) \o Among(new, S) /\ Among(old, S) \in Seq(AllHits)
  <2> HIDE DEF S
  <2>1. Among(old \o new, S) = Among(old, S) \o Among(new, S)
    BY AmongConcat
  <2>2. Among(old, S) \in Seq(AllHits)
    BY AmongIs
  <2> QED
    BY <2>1, <2>2
<1>2. ToSet(new) \subseteq AllHits /\ \A h \in ToSet(new) : h.node.id = m
  BY ElementsOf DEF ToSet, OfOneFile
<1>3. CASE id = m
  <2>1. ToSet(new) \subseteq S
    BY <1>2, <1>3
  <2>2. Among(new, S) = new
    BY <2>1, AmongAll
  <2> QED
    BY <1>1, <1>3, <2>2 DEF OfFile, Joined
<1>4. CASE id # m
  <2>1. ToSet(new) \cap S = {}
    BY <1>2, <1>4
  <2>2. Among(new, S) = << >>
    BY <2>1, AmongAll
  <2>3. Among(old, S) \o << >> = Among(old, S)
    BY <1>1
  <2> QED
    BY <1>1, <1>4, <2>2, <2>3 DEF OfFile, Joined
<1> QED
  BY <1>3, <1>4

-----------------------------------------------------------------------------
(* The invariant, and what a change at the server leaves of it.             *)

(* A row as it was fetched, or is, with F the rows at the server: of a file  *)
(* of the project, and not newer than the server's.                         *)
Past(F, n) ==
  /\ n \in FileRows /\ (~n.isDir => n.ver \in DOMAIN Contents[n.id])
  /\ \E x \in Start : x.id = n.id /\ x.isDir = n.isDir
  /\ \A x \in F : x.id = n.id => n.ver <= x.ver

FilesOK(F) ==
  /\ IsFiniteSet(F) /\ Unique(F)
  /\ \A x \in F : Past(F, x)

FetchedOK(F, nodes) ==
  /\ nodes \in Seq(FileRows) /\ \A i \in DOMAIN nodes : Past(F, nodes[i])
  /\ \A i, j \in DOMAIN nodes : nodes[i].id = nodes[j].id => i = j

(* A text that a file has had since it was as a version says.               *)
Genuine(F, id, ver, text) ==
  \E v \in DOMAIN Contents[id] :
    /\ ver <= v /\ text = Contents[id][v]
    /\ \A x \in F : x.id = id => v <= x.ver

Keys(reads) == {Key(r.node) : r \in reads}

CacheOK(F, texts, keys) ==
  /\ \A c \in texts \cup keys : c.id \in FileIds /\ c.ver \in DOMAIN Contents[c.id]
  /\ \A c \in texts : Genuine(F, c.id, c.ver, c.text)
  /\ \A key \in keys : key.ver \in Nat /\ \A x \in F : x.id = key.id => key.ver <= x.ver

(* The targets are taken in order: those before the cursor have been read,   *)
(* but for one of each worker that is reading.                              *)
Busy(s) == {w \in Worker : s.reading[w] # NoRead}
Pending(s, n) == \E w \in Busy(s) : s.reading[w].node = n
Holds(F, s, w) ==
  LET r == s.reading[w] IN
  /\ \E k \in 1..(s.cursor - 1) : r.node = s.targets[k]
  /\ \/ r.how = "asked" /\ r.text = NULL
     \/ r.how = "cached" /\ r.text \in Seq(Char) /\ Genuine(F, r.node.id, r.node.ver, r.text)

InOrder(F, s) ==
  /\ s.cursor <= Len(s.targets) + 1
  /\ s.scanned + Cardinality(Busy(s)) + 1 = s.cursor
  /\ \A w \in Busy(s) : Holds(F, s, w)
  /\ \A v, w \in Busy(s) : s.reading[v].node = s.reading[w].node => v = w
  /\ Busy(s) # Worker => s.capped \/ s.cursor > Len(s.targets)

(* What is listed of a file is what was found in one of its texts, or the    *)
(* file is gone; of one that has not been read, nothing is.                 *)
Recorded(F, s, n) ==
  \/ \A x \in F : x.id # n.id
  \/ \E text \in Seq(Char) :
       Genuine(F, n.id, n.ver, text) /\ OfFile(s.hits, n.id) = Hits(s, n, text)
Accounted(F, s) ==
  \A k \in DOMAIN s.targets :
    IF k < s.cursor /\ ~Pending(s, s.targets[k]) THEN s.error \/ Recorded(F, s, s.targets[k])
    ELSE OfFile(s.hits, s.targets[k].id) = << >>

OfOneQuery(s) ==
  /\ \A i \in DOMAIN s.hits : s.hits[i].for = s.query
  /\ ~s.capped => Len(s.hits) < MAX_CONTENT_MATCHES

ReadStates == [node : FileRows \cup {NULL}, how : {"none", "asked", "cached"},
               text : Seq(Char) \cup {NULL}]
Scans == [on : BOOLEAN, query : Seq(Char), targets : Seq(FileRows), cursor : Nat \ {0},
          scanned : Nat, hits : Seq(AllHits), capped : BOOLEAN, error : BOOLEAN,
          skipped : Nat, partial : BOOLEAN, reading : [Worker -> ReadStates]]

ScanOK(F, s) ==
  /\ s \in Scans /\ FetchedOK(F, s.targets) /\ \A i \in DOMAIN s.targets : ~s.targets[i].isDir
  /\ InOrder(F, s) /\ Accounted(F, s) /\ OfOneQuery(s)

(* What has been published.                                                 *)
Shows(s, res) ==
  IF Returned(s) THEN res = Published(s, "done")
  ELSE /\ res.contentState = "searching"
       /\ \E k \in 0..Len(s.hits) : k <= MAX_CONTENT_MATCHES /\ res.contents = SubSeq(s.hits, 1, k)
ResultOK(s, res, text, mode) ==
  IF s.on THEN s.query = trim(text) /\ Wanted(mode, text) /\ Shows(s, res)
  ELSE s = NoScan /\ res = Idle

TextsOK == query \in Seq(Char) /\ debounced \in Seq(Char)

SearchInv ==
  /\ FilesOK(files) /\ FetchedOK(files, flattenTree(tree)) /\ CacheOK(files, cache, Keys(stray))
  /\ TextsOK /\ ScanOK(files, scan) /\ ResultOK(scan, result, debounced, palette)

(* Files only get newer, or go.                                             *)
Later(F, G) == \A y \in G : \E x \in F : x.id = y.id /\ x.ver <= y.ver

LEMMA PastStays ==
  ASSUME NEW F, NEW G, Later(F, G), FilesOK(F), FilesOK(G), NEW n, Past(F, n)
  PROVE  Past(G, n)
<1>1. ASSUME NEW y \in G, y.id = n.id PROVE n.ver <= y.ver
  <2>1. PICK x \in F : x.id = y.id /\ x.ver <= y.ver
    BY DEF Later
  <2>2. n.ver \in Nat /\ x.ver \in Nat /\ y.ver \in Nat /\ n.ver <= x.ver
    BY <1>1, <2>1 DEF Past, FilesOK, FileRows
  <2> QED
    BY <2>1, <2>2
<1> QED
  BY <1>1 DEF Past

LEMMA GenuineStays ==
  ASSUME NEW F, NEW G, Later(F, G), FilesOK(F), FilesOK(G), NEW id \in FileIds, NEW ver, NEW text,
         Genuine(F, id, ver, text)
  PROVE  Genuine(G, id, ver, text)
<1>1. PICK v \in DOMAIN Contents[id] : /\ ver <= v /\ text = Contents[id][v]
                                       /\ \A x \in F : x.id = id => v <= x.ver
  BY DEF Genuine
<1>2. v \in Nat
  <2>1. Contents[id] \in Seq(Seq(Char))
    BY SearchAssumption DEF FileIds
  <2> QED
    BY <2>1
<1>3. ASSUME NEW y \in G, y.id = id PROVE v <= y.ver
  <2>1. PICK x \in F : x.id = y.id /\ x.ver <= y.ver
    BY DEF Later
  <2>2. x.ver \in Nat /\ y.ver \in Nat /\ v <= x.ver
    BY <1>1, <1>3, <2>1 DEF Past, FilesOK, FileRows
  <2> QED
    BY <1>2, <2>1, <2>2
<1> QED
  BY <1>1, <1>3 DEF Genuine

LEMMA FileOf ==
  ASSUME NEW F, NEW n, Past(F, n), ~n.isDir
  PROVE  n.id \in FileIds
BY DEF Past, FileIds

LEMMA FilesStay ==
  ASSUME NEW F, NEW G, Later(F, G), FilesOK(F), FilesOK(G)
  PROVE  /\ \A nodes : FetchedOK(F, nodes) => FetchedOK(G, nodes)
         /\ \A texts, keys : CacheOK(F, texts, keys) => CacheOK(G, texts, keys)
         /\ \A s : ScanOK(F, s) => ScanOK(G, s)
<1>1. \A nodes : FetchedOK(F, nodes) => FetchedOK(G, nodes)
  BY PastStays DEF FetchedOK
<1>2. ASSUME NEW texts, NEW keys, CacheOK(F, texts, keys) PROVE CacheOK(G, texts, keys)
  <2>1. \A c \in texts : Genuine(G, c.id, c.ver, c.text)
    BY <1>2, GenuineStays DEF CacheOK
  <2>2. ASSUME NEW key \in keys, NEW y \in G, y.id = key.id PROVE key.ver <= y.ver
    <3>1. PICK x \in F : x.id = y.id /\ x.ver <= y.ver
      BY DEF Later
    <3>2. key.ver \in Nat /\ key.ver <= x.ver /\ x.ver \in Nat /\ y.ver \in Nat
      BY <1>2, <2>2, <3>1 DEF CacheOK, Past, FilesOK, FileRows
    <3> QED
      BY <3>1, <3>2
  <2> QED
    BY <1>2, <2>1, <2>2 DEF CacheOK
<1>3. ASSUME NEW s, ScanOK(F, s) PROVE ScanOK(G, s)
  <2>1. FetchedOK(F, s.targets) /\ FetchedOK(G, s.targets)
    BY <1>1, <1>3 DEF ScanOK
  <2>2. \A k \in DOMAIN s.targets : s.targets[k].id \in FileIds
    BY <1>3, <2>1, FileOf DEF ScanOK, FetchedOK
  <2>3. s.cursor \in Nat /\ s.cursor <= Len(s.targets) + 1 /\ s.targets \in Seq(FileRows)
    BY <1>3 DEF ScanOK, Scans, InOrder
  <2>4. ASSUME NEW w \in Busy(s) PROVE Holds(G, s, w)
    <3>1. Holds(F, s, w)
      BY <1>3, <2>4 DEF ScanOK, InOrder
    <3>2. PICK k \in 1..(s.cursor - 1) : s.reading[w].node = s.targets[k]
      BY <3>1 DEF Holds
    <3>3. s.reading[w].node.id \in FileIds
      <4>1. k \in DOMAIN s.targets
        BY <2>3
      <4> QED
        BY <2>2, <3>2, <4>1
    <3> QED
      BY <3>1, <3>3, GenuineStays DEF Holds
  <2>5. InOrder(G, s)
    BY <1>3, <2>4 DEF ScanOK, InOrder
  <2>6. ASSUME NEW k \in DOMAIN s.targets, Recorded(F, s, s.targets[k]) PROVE Recorded(G, s, s.targets[k])
    <3> DEFINE n == s.targets[k]
    <3>1. CASE \A x \in F : x.id # n.id
      BY <3>1 DEF Recorded, Later
    <3>2. CASE \E text \in Seq(Char) : Genuine(F, n.id, n.ver, text) /\ OfFile(s.hits, n.id) = Hits(s, n, text)
      <4>1. n.id \in FileIds
        BY <2>2
      <4> QED
        BY <3>2, <4>1, GenuineStays DEF Recorded
    <3> QED
      BY <2>6, <3>1, <3>2 DEF Recorded
  <2>7. Accounted(G, s)
    BY <1>3, <2>6 DEF ScanOK, Accounted
  <2> QED
    BY <1>3, <2>1, <2>5, <2>7 DEF ScanOK
<1> QED
  BY <1>1, <1>2, <1>3

-----------------------------------------------------------------------------
(* A scan that starts.                                                      *)

(* A read that is started.                                                  *)
LEMMA AskedIs ==
  ASSUME NEW n, Past(files, n), ~n.isDir, CacheOK(files, cache, Keys(stray))
  PROVE  /\ Asked(n) \in ReadStates /\ Asked(n) # NoRead /\ Asked(n).node = n
         /\ \/ Asked(n).how = "asked" /\ Asked(n).text = NULL
            \/ /\ Asked(n).how = "cached" /\ Asked(n).text \in Seq(Char)
               /\ Genuine(files, n.id, n.ver, Asked(n).text)
<1>1. n \in FileRows
  BY DEF Past
<1>2. CASE Cached(n) = {}
  <2>1. Asked(n) = [node |-> n, how |-> "asked", text |-> NULL]
    BY <1>2 DEF Asked
  <2> QED
    BY <1>1, <2>1 DEF ReadStates, NoRead
<1>3. CASE Cached(n) # {}
  <2> DEFINE c == CHOOSE c \in Cached(n) : TRUE
  <2>1. c \in cache /\ c.id = n.id /\ c.ver = n.ver
    BY <1>3 DEF Cached
  <2>2. Asked(n) = [node |-> n, how |-> "cached", text |-> c.text]
    BY <1>3 DEF Asked
  <2> HIDE DEF c
  <2>3. c.id \in FileIds /\ Genuine(files, n.id, n.ver, c.text)
    BY <2>1 DEF CacheOK
  <2>4. c.text \in Seq(Char)
    <3>1. Contents[n.id] \in Seq(Seq(Char))
      BY <2>1, <2>3, SearchAssumption DEF FileIds
    <3> QED
      BY <2>3, <3>1 DEF Genuine
  <2> QED
    BY <1>1, <2>2, <2>3, <2>4 DEF ReadStates, NoRead
<1> QED
  BY <1>2, <1>3

LEMMA NewlineIs == Newline \in Char
  BY MatchAssumption

LEMMA StartedIs ==
  ASSUME NEW nodes, FetchedOK(files, nodes), CacheOK(files, cache, Keys(stray)), NEW text \in Seq(Char)
  PROVE  /\ ScanOK(files, Started(text, nodes))
         /\ Started(text, nodes).on /\ Started(text, nodes).query = trim(text)
         /\ Started(text, nodes).hits = << >>
         /\ ToSet(Started(text, nodes).targets) \subseteq ToSet(nodes)
<1> DEFINE S == {n \in ToSet(nodes) : ~n.isDir /\ isContentSearchable(n.path)}
           candidates == Among(nodes, S)
           most == Min({MAX_FILES_SCANNED, Len(candidates)})
           targets == SubSeq(candidates, 1, most)
           over == Len(candidates) - Len(targets)
           first == Min({CONCURRENCY, Len(targets)})
           reading == [w \in Worker |-> IF w > Len(targets) THEN NoRead ELSE Asked(targets[w])]
           s == [NoScan EXCEPT !.on = TRUE, !.query = trim(text), !.targets = targets,
                    !.cursor = first + 1, !.skipped = over, !.partial = over > 0,
                    !.reading = reading]
<1>1. Started(text, nodes) = s
  BY DEF Started
<1>2. /\ nodes \in Seq(FileRows) /\ Distinct(nodes)
      /\ \A m, n \in ToSet(nodes) : Past(files, n) /\ (m.id = n.id => m = n)
  BY DEF FetchedOK, Distinct, ToSet
<1>3. /\ candidates \in Seq(FileRows) /\ Distinct(candidates)
      /\ ToSet(candidates) \subseteq ToSet(nodes) /\ \A n \in ToSet(candidates) : ~n.isDir
  <2>1. \A n \in S : ~n.isDir
    OBVIOUS
  <2> HIDE DEF S
  <2>2. candidates \in Seq(FileRows) /\ ToSet(candidates) = ToSet(nodes) \cap S
    BY <1>2, AmongIs
  <2>3. Distinct(candidates)
    BY <1>2, AmongDistinct
  <2> QED
    BY <2>1, <2>2, <2>3
<1> HIDE DEF candidates
<1>4. most \in Nat /\ most <= Len(candidates) /\ Len(candidates) \in Nat
  <2>1. Len(candidates) \in Nat /\ MAX_FILES_SCANNED \in Nat
    BY <1>3, SearchAssumption
  <2> QED
    BY <2>1, MaxOfTwo
<1> HIDE DEF most
<1>5. /\ targets \in Seq(FileRows) /\ Len(targets) = most /\ DOMAIN targets = 1..most
      /\ \A i \in 1..most : targets[i] = candidates[i]
  BY <1>3, <1>4
<1>6. \A i \in 1..most : /\ targets[i] \in FileRows /\ Past(files, targets[i]) /\ ~targets[i].isDir
                         /\ \A j \in 1..most : targets[i].id = targets[j].id => i = j
  <2>1. DOMAIN candidates = 1..Len(candidates) /\ \A i \in 1..most : i \in 1..Len(candidates)
    BY <1>3, <1>4
  <2>2. \A i \in 1..most : targets[i] \in ToSet(candidates)
    BY <1>5, <2>1 DEF ToSet
  <2>3. ASSUME NEW i \in 1..most, NEW j \in 1..most, targets[i].id = targets[j].id PROVE i = j
    <3>1. targets[i] = targets[j]
      BY <1>2, <1>3, <2>2, <2>3
    <3>2. candidates[i] = candidates[j]
      BY <1>5, <3>1
    <3> QED
      BY <1>3, <2>1, <3>2 DEF Distinct
  <2> QED
    BY <1>2, <1>3, <1>5, <2>2, <2>3
<1>6a. ToSet(targets) \subseteq ToSet(nodes)
  <2>1. DOMAIN candidates = 1..Len(candidates) /\ \A i \in 1..most : i \in 1..Len(candidates)
    BY <1>3, <1>4
  <2> HIDE DEF targets
  <2> QED
    BY <1>3, <1>5, <2>1 DEF ToSet
<1> HIDE DEF targets
<1>7. FetchedOK(files, targets) /\ \A i \in DOMAIN targets : ~targets[i].isDir
  BY <1>5, <1>6 DEF FetchedOK
<1>8. first \in Nat /\ first <= most /\ first <= CONCURRENCY /\ first \in {CONCURRENCY, most} /\ CONCURRENCY \in Nat \ {0}
  <2>1. CONCURRENCY \in Nat \ {0}
    BY SearchAssumption
  <2> QED
    BY <1>4, <1>5, <2>1, MaxOfTwo
<1> HIDE DEF first
<1>9. \A w \in Worker : w \in 1..most =>
        /\ reading[w] \in ReadStates /\ reading[w] # NoRead /\ reading[w].node = targets[w]
        /\ \/ reading[w].how = "asked" /\ reading[w].text = NULL
           \/ /\ reading[w].how = "cached" /\ reading[w].text \in Seq(Char)
              /\ Genuine(files, targets[w].id, targets[w].ver, reading[w].text)
  <2> SUFFICES ASSUME NEW w \in Worker, w \in 1..most
               PROVE  /\ Asked(targets[w]) \in ReadStates /\ Asked(targets[w]) # NoRead
                      /\ Asked(targets[w]).node = targets[w]
                      /\ \/ Asked(targets[w]).how = "asked" /\ Asked(targets[w]).text = NULL
                         \/ /\ Asked(targets[w]).how = "cached" /\ Asked(targets[w]).text \in Seq(Char)
                            /\ Genuine(files, targets[w].id, targets[w].ver, Asked(targets[w]).text)
    BY <1>4, <1>5
  <2> QED
    BY <1>6, AskedIs
<1>10. \A w \in Worker : w \notin 1..most => reading[w] = NoRead
  BY <1>4, <1>5, <1>8 DEF Worker
<1>11. NoRead \in ReadStates
  BY DEF ReadStates, NoRead
<1>12. reading \in [Worker -> ReadStates]
  <2>1. \A w \in Worker : reading[w] \in ReadStates
    BY <1>9, <1>10, <1>11
  <2>2. DOMAIN reading = Worker /\ reading = [w \in Worker |-> reading[w]]
    OBVIOUS
  <2> HIDE DEF reading
  <2> QED
    BY <2>1, <2>2
<1> HIDE DEF reading
<1>13. over \in Nat
  BY <1>4, <1>5
<1> HIDE DEF over
<1>14. /\ s.on /\ s.query = trim(text) /\ s.targets = targets /\ s.cursor = first + 1
       /\ s.scanned = 0 /\ s.hits = << >> /\ ~s.capped /\ ~s.error /\ s.reading = reading
  BY DEF NoScan
<1>15. s \in Scans
  <2>1. trim(text) \in Seq(Char) /\ << >> \in Seq(AllHits) /\ targets \in Seq(FileRows)
    BY TrimIs, <1>5
  <2> DEFINE partial == over > 0
             q == trim(text)
  <2>3. s = [NoScan EXCEPT !.on = TRUE, !.query = q, !.targets = targets, !.cursor = first + 1,
                           !.skipped = over, !.partial = partial, !.reading = reading]
    OBVIOUS
  <2>4. partial \in BOOLEAN /\ q \in Seq(Char)
    BY <2>1
  <2> HIDE DEF s, partial, q
  <2>2. s = [on |-> TRUE, query |-> q, targets |-> targets, cursor |-> first + 1,
             scanned |-> 0, skipped |-> over, partial |-> partial, hits |-> << >>,
             capped |-> FALSE, error |-> FALSE, reading |-> reading]
    BY <2>3 DEF NoScan
  <2> QED
    BY <1>8, <1>12, <1>13, <2>1, <2>2, <2>4 DEF Scans
<1> HIDE DEF s
<1>16. Busy(s) = 1..first
  BY <1>4, <1>8, <1>9, <1>10, <1>14 DEF Busy, Worker
<1>17. InOrder(files, s)
  <2>1. Cardinality(Busy(s)) = first
    BY <1>8, <1>16, FS_Interval
  <2>2. s.cursor <= Len(s.targets) + 1 /\ s.scanned + Cardinality(Busy(s)) + 1 = s.cursor
    BY <1>5, <1>8, <1>14, <2>1
  <2>3. ASSUME NEW w \in Busy(s) PROVE Holds(files, s, w) /\ s.reading[w].node = targets[w]
    <3>1. w \in Worker /\ w \in 1..most /\ w \in 1..(s.cursor - 1)
      BY <1>4, <1>8, <1>14, <1>16, <2>3 DEF Busy
    <3> QED
      BY <1>9, <1>14, <3>1 DEF Holds
  <2>4. \A v, w \in Busy(s) : s.reading[v].node = s.reading[w].node => v = w
    BY <1>4, <1>6, <1>8, <1>16, <2>3
  <2>5. Busy(s) # Worker => s.cursor > Len(s.targets)
    BY <1>4, <1>5, <1>8, <1>14, <1>16 DEF Worker
  <2> QED
    BY <2>2, <2>3, <2>4, <2>5 DEF InOrder
<1>18. Accounted(files, s)
  <2> SUFFICES ASSUME NEW k \in DOMAIN s.targets
               PROVE  /\ k < s.cursor => Pending(s, s.targets[k])
                      /\ OfFile(s.hits, s.targets[k].id) = << >>
    BY DEF Accounted
  <2>1. OfFile(s.hits, s.targets[k].id) = << >>
    BY <1>14, AmongNothing DEF OfFile
  <2>2. ASSUME k < s.cursor PROVE Pending(s, s.targets[k])
    <3>1. k \in 1..first /\ k \in Busy(s) /\ k \in 1..most
      BY <1>5, <1>8, <1>14, <1>16, <2>2
    <3> QED
      BY <1>9, <1>14, <3>1 DEF Pending, Busy
  <2> QED
    BY <2>1, <2>2
<1>19. OfOneQuery(s)
  BY <1>14, SearchAssumption DEF OfOneQuery
<1> QED
  BY <1>1, <1>7, <1>14, <1>15, <1>17, <1>18, <1>19, <1>6a DEF ScanOK

-----------------------------------------------------------------------------
(* A worker that goes on.                                                   *)

(* What a worker does with the answer to its read, up to its next one.       *)
Answers(s, w, text, failed) ==
  LET n == s.reading[w].node IN
  \/ text = NULL /\ (failed \/ \A x \in files : x.id # n.id)
  \/ text \in Seq(Char) /\ Genuine(files, n.id, n.ver, text)

LEMMA ReadIs ==
  ASSUME NEW s, NEW w \in Busy(s), NEW text, NEW failed \in BOOLEAN,
         CacheOK(files, cache, Keys(stray)), ScanOK(files, s), Answers(s, w, text, failed)
  PROVE  LET t == Scanned(s, w, text, failed) IN
         /\ ScanOK(files, t) /\ t.on = s.on /\ t.query = s.query
         /\ \E more \in Seq(AllHits) : t.hits = s.hits \o more
<1> DEFINE n == s.reading[w].node
           more == Hits(s, n, text)
           hits == s.hits \o more
           error == s.error \/ failed
           capped == s.capped \/ Len(hits) >= MAX_CONTENT_MATCHES
           skipped == IF text # NULL /\ (Len(text) > MAX_SEARCHABLE_BYTES \/ looksBinary(text))
                      THEN s.skipped + 1 ELSE s.skipped
           read == [s EXCEPT !.scanned = @ + 1, !.error = error, !.hits = hits,
                             !.skipped = skipped, !.capped = capped]
           ends == capped \/ s.cursor > Len(s.targets)
           next == IF ends THEN NoRead ELSE Asked(s.targets[s.cursor])
           cursor == IF ends THEN s.cursor ELSE s.cursor + 1
           t == Takes(read, w)
<1>1. /\ s \in Scans /\ w \in Worker /\ s.query \in Seq(Char) /\ s.targets \in Seq(FileRows)
      /\ s.cursor \in Nat \ {0} /\ s.scanned \in Nat /\ s.hits \in Seq(AllHits)
      /\ s.capped \in BOOLEAN /\ s.error \in BOOLEAN /\ s.skipped \in Nat
      /\ s.reading \in [Worker -> ReadStates] /\ s.on \in BOOLEAN /\ s.partial \in BOOLEAN
  BY DEF ScanOK, Scans, Busy
<1>2. /\ DOMAIN s.targets = 1..Len(s.targets) /\ Len(s.targets) \in Nat
      /\ s.cursor <= Len(s.targets) + 1
      /\ \A k \in 1..Len(s.targets) : s.targets[k] \in FileRows /\ Past(files, s.targets[k])
                                      /\ ~s.targets[k].isDir
      /\ \A k, j \in 1..Len(s.targets) : s.targets[k].id = s.targets[j].id => k = j
  BY <1>1 DEF ScanOK, FetchedOK, InOrder
<1>3. /\ Holds(files, s, w) /\ \A v \in Busy(s) : s.reading[v].node = n => v = w
      /\ \A v \in Busy(s) : Holds(files, s, v)
  BY DEF ScanOK, InOrder
<1>4. PICK at \in 1..(s.cursor - 1) : n = s.targets[at]
  BY <1>3 DEF Holds
<1>5. at \in 1..Len(s.targets) /\ n \in FileRows
  BY <1>1, <1>2, <1>4
<1>6. text \in Seq(Char) \cup {NULL}
  BY DEF Answers
<1>7. /\ more \in Seq(AllHits) /\ \A i \in DOMAIN more : more[i].node = n /\ more[i].for = s.query
  <2> HIDE DEF n
  <2> QED
    BY <1>1, <1>5, <1>6, HitsAre, NewlineIs
<1>8. Answers(s, w, text, failed) /\ Scanned(s, w, text, failed) = Takes(read, w)
  <2>1. Scanned(s, w, text, failed)
          = Takes([s EXCEPT !.scanned = @ + 1, !.error = @ \/ failed, !.hits = hits,
                        !.skipped = IF text # NULL /\ (Len(text) > MAX_SEARCHABLE_BYTES
                                                        \/ looksBinary(text))
                                    THEN @ + 1 ELSE @,
                        !.capped = @ \/ Len(hits) >= MAX_CONTENT_MATCHES], w)
    BY DEF Scanned
  <2> QED
    BY <2>1
<1>9. skipped \in Nat
  BY <1>1
<1> HIDE DEF skipped
<1>10. hits \in Seq(AllHits) /\ Len(hits) \in Nat /\ \A i \in DOMAIN hits : hits[i].for = s.query
  <2>1. \A i \in DOMAIN s.hits : s.hits[i].for = s.query
    BY DEF ScanOK, OfOneQuery
  <2> HIDE DEF more
  <2>2. /\ hits \in Seq(AllHits) /\ Len(hits) = Len(s.hits) + Len(more) /\ DOMAIN hits = 1..Len(hits)
        /\ Len(s.hits) \in Nat /\ Len(more) \in Nat
        /\ \A i \in 1..Len(hits) : hits[i] = IF i <= Len(s.hits) THEN s.hits[i] ELSE more[i - Len(s.hits)]
    BY <1>1, <1>7
  <2>3. DOMAIN s.hits = 1..Len(s.hits) /\ DOMAIN more = 1..Len(more)
    BY <1>1, <1>7
  <2>4. \A i \in DOMAIN hits : hits[i].for = s.query
    BY <1>7, <2>1, <2>2, <2>3
  <2> QED
    BY <2>2, <2>4
<1>11. \A id : OfFile(hits, id) = IF id = n.id THEN OfFile(s.hits, id) \o more ELSE OfFile(s.hits, id)
  <2> HIDE DEF more
  <2>1. \A i \in DOMAIN more : more[i].node.id = n.id
    BY <1>7
  <2>2. OfOneFile(more, n.id)
    BY <2>1 DEF OfOneFile
  <2>3. \A old, new \in Seq(AllHits) : \A m, id :
          OfOneFile(new, m) => OfFile(Joined(old, new), id)
                                = IF id = m THEN Joined(OfFile(old, id), new) ELSE OfFile(old, id)
    BY OfFileGrows
  <2> HIDE DEF n, more
  <2>4. \A id : OfFile(Joined(s.hits, more), id)
                  = IF id = n.id THEN Joined(OfFile(s.hits, id), more) ELSE OfFile(s.hits, id)
    BY <1>1, <1>7, <2>2, <2>3
  <2> QED
    BY <2>4 DEF Joined
<1> HIDE DEF hits
<1>12. capped \in BOOLEAN /\ error \in BOOLEAN /\ (~capped => Len(hits) < MAX_CONTENT_MATCHES)
  BY <1>1, <1>10, SearchAssumption
<1>13. s.error => error
  OBVIOUS
<1>14. failed => error
  OBVIOUS
<1>15. s.capped => capped
  OBVIOUS
<1> HIDE DEF capped, error
<1>16. ~ends => s.cursor \in 1..Len(s.targets)
  BY <1>1, <1>2
<1>17. ~ends => /\ next \in ReadStates /\ next # NoRead /\ next.node = s.targets[s.cursor]
                /\ \/ next.how = "asked" /\ next.text = NULL
                   \/ /\ next.how = "cached" /\ next.text \in Seq(Char)
                      /\ Genuine(files, next.node.id, next.node.ver, next.text)
  <2> SUFFICES ASSUME ~ends
               PROVE  LET a == Asked(s.targets[s.cursor]) IN
                      /\ a \in ReadStates /\ a # NoRead /\ a.node = s.targets[s.cursor]
                      /\ \/ a.how = "asked" /\ a.text = NULL
                         \/ /\ a.how = "cached" /\ a.text \in Seq(Char)
                            /\ Genuine(files, a.node.id, a.node.ver, a.text)
    OBVIOUS
  <2>1. Past(files, s.targets[s.cursor]) /\ ~s.targets[s.cursor].isDir
    BY <1>2, <1>16
  <2> QED
    BY <2>1, AskedIs
<1>18. next \in ReadStates /\ (ends => next = NoRead)
  BY <1>17 DEF ReadStates, NoRead
<1>19. /\ read \in Scans /\ read.on = s.on /\ read.query = s.query /\ read.targets = s.targets
       /\ read.cursor = s.cursor /\ read.scanned = s.scanned + 1 /\ read.hits = hits
       /\ read.capped = capped /\ read.error = error /\ read.reading = s.reading
  <2>1. /\ read.on = s.on /\ read.query = s.query /\ read.targets = s.targets
        /\ read.cursor = s.cursor /\ read.scanned = s.scanned + 1 /\ read.hits = hits
        /\ read.capped = capped /\ read.error = error /\ read.reading = s.reading
        /\ read.skipped = skipped /\ read.partial = s.partial
    BY <1>1 DEF Scans
  <2>2. read \in Scans
    <3> DEFINE scanned == s.scanned + 1
    <3>1. read = [s EXCEPT !.scanned = scanned, !.error = error, !.hits = hits,
                           !.skipped = skipped, !.capped = capped]
      OBVIOUS
    <3>2. scanned \in Nat
      BY <1>1
    <3> HIDE DEF read, scanned
    <3> QED
      BY <1>1, <1>9, <1>10, <1>12, <3>1, <3>2 DEF Scans
  <2> HIDE DEF read
  <2> QED
    BY <2>1, <2>2
<1> HIDE DEF read
<1>30. t = IF ends THEN [read EXCEPT !.reading[w] = next]
           ELSE [read EXCEPT !.cursor = cursor, !.reading[w] = next]
  <2>1. CASE ends
    BY <1>19, <2>1 DEF Takes
  <2>2. CASE ~ends
    <3>1. t = [read EXCEPT !.cursor = @ + 1, !.reading[w] = Asked(read.targets[read.cursor])]
      BY <1>19, <2>2 DEF Takes
    <3>2. next = Asked(read.targets[read.cursor]) /\ cursor = read.cursor + 1
      BY <1>19, <2>2
    <3> HIDE DEF next, cursor, t, ends
    <3> QED
      BY <2>2, <3>1, <3>2
  <2> QED
    BY <2>1, <2>2
<1> HIDE DEF next, t
<1>20. cursor \in Nat \ {0} /\ cursor <= Len(s.targets) + 1 /\ cursor >= s.cursor
       /\ cursor = (IF ends THEN s.cursor ELSE s.cursor + 1)
  BY <1>1, <1>2, <1>16
<1> HIDE DEF cursor
<1>22. /\ t \in Scans /\ t.on = s.on /\ t.query = s.query /\ t.targets = s.targets
       /\ t.cursor = cursor /\ t.scanned = s.scanned + 1 /\ t.hits = hits /\ t.capped = capped
       /\ t.error = error /\ t.reading = [s.reading EXCEPT ![w] = next]
  <2>1. CASE ends
    BY <1>1, <1>18, <1>19, <1>20, <1>30, <2>1 DEF Scans
  <2>2. CASE ~ends
    <3> HIDE DEF ends
    <3>1. t = [read EXCEPT !.cursor = cursor, !.reading[w] = next]
      BY <1>30, <2>2
    <3> QED
      BY <1>1, <1>18, <1>19, <1>20, <3>1 DEF Scans
  <2> QED
    BY <2>1, <2>2
<1>23. \A v \in Worker : t.reading[v] = IF v = w THEN next ELSE s.reading[v]
  BY <1>1, <1>22
<1>24. Busy(t) = IF ends THEN Busy(s) \ {w} ELSE Busy(s)
  BY <1>1, <1>17, <1>18, <1>23 DEF Busy
<1> HIDE DEF ends
<1>25. InOrder(files, t)
  <2>1. IsFiniteSet(Busy(s)) /\ w \in Busy(s)
    <3>1. IsFiniteSet(Worker)
      BY SearchAssumption, FS_Interval DEF Worker
    <3> QED
      BY <3>1, FS_Subset DEF Busy
  <2>2. Cardinality(Busy(s)) \in Nat /\ Cardinality(Busy(s) \ {w}) = Cardinality(Busy(s)) - 1
    BY <2>1, FS_CardinalityType, FS_RemoveElement
  <2>3. t.scanned + Cardinality(Busy(t)) + 1 = t.cursor
    <3>1. s.scanned + Cardinality(Busy(s)) + 1 = s.cursor
      BY DEF ScanOK, InOrder
    <3> QED
      <4>1. CASE ends
        <5>1. t.cursor = s.cursor /\ t.scanned = s.scanned + 1
          BY <1>20, <1>22, <4>1
        <5>2. Cardinality(Busy(t)) = Cardinality(Busy(s)) - 1
          BY <1>24, <2>2, <4>1
        <5> DEFINE c == Cardinality(Busy(s))
                   d == Cardinality(Busy(t))
        <5>3. c \in Nat /\ d = c - 1 /\ s.scanned + c + 1 = s.cursor
          BY <2>2, <3>1, <5>2
        <5> HIDE DEF c, d
        <5>5. s.scanned \in Nat /\ s.cursor \in Nat
          BY <1>1
        <5>4. t.scanned + d + 1 = t.cursor
          BY <5>1, <5>3, <5>5
        <5> QED
          BY <5>4 DEF d
      <4>2. CASE ~ends
        BY <1>1, <1>20, <1>22, <1>24, <2>2, <3>1, <4>2
      <4> QED
        BY <4>1, <4>2
  <2>4. ASSUME NEW v \in Busy(t) PROVE Holds(files, t, v)
    <3>1. CASE v = w
      <4>1. ~ends
        BY <1>24, <2>4, <3>1
      <4>2. t.reading[v] = next /\ next.node = t.targets[s.cursor] /\ s.cursor \in 1..(t.cursor - 1)
        BY <1>1, <1>16, <1>17, <1>20, <1>22, <1>23, <3>1, <4>1
      <4> QED
        BY <1>17, <4>1, <4>2 DEF Holds
    <3>2. CASE v # w
      <4>1. v \in Busy(s) /\ t.reading[v] = s.reading[v]
        BY <1>23, <1>24, <2>4, <3>2 DEF Busy
      <4>2. Holds(files, s, v)
        BY <1>3, <4>1
      <4>3. \A k \in 1..(s.cursor - 1) : k \in 1..(t.cursor - 1)
        BY <1>1, <1>20, <1>22
      <4> QED
        BY <1>22, <4>1, <4>2, <4>3 DEF Holds
    <3> QED
      BY <3>1, <3>2
  <2>5. ASSUME NEW u \in Busy(t), NEW v \in Busy(t), t.reading[u].node = t.reading[v].node
        PROVE  u = v
    <3>1. ASSUME NEW x \in Busy(t), NEW y \in Busy(t), x = w, y # w, t.reading[x].node = t.reading[y].node
          PROVE  FALSE
      <4>1. ~ends
        BY <1>24, <3>1
      <4>2. y \in Busy(s) /\ t.reading[y] = s.reading[y] /\ t.reading[x] = next
        BY <1>23, <1>24, <3>1 DEF Busy
      <4>3. PICK k \in 1..(s.cursor - 1) : s.reading[y].node = s.targets[k]
        BY <1>3, <4>2 DEF Holds
      <4>4. s.targets[s.cursor] = s.targets[k] /\ s.cursor \in 1..Len(s.targets) /\ k \in 1..Len(s.targets)
        BY <1>1, <1>2, <1>16, <1>17, <3>1, <4>1, <4>2, <4>3
      <4>5. s.cursor = k
        BY <1>2, <4>4
      <4> QED
        BY <1>1, <4>3, <4>5
    <3>2. CASE u # w /\ v # w
      <4>1. u \in Busy(s) /\ v \in Busy(s) /\ t.reading[u] = s.reading[u] /\ t.reading[v] = s.reading[v]
        BY <1>23, <1>24, <3>2 DEF Busy
      <4> QED
        BY <2>5, <4>1 DEF ScanOK, InOrder
    <3> QED
      BY <2>5, <3>1, <3>2
  <2>6. Busy(t) # Worker => t.capped \/ t.cursor > Len(t.targets)
    <3>1. CASE ends
      BY <1>20, <1>22, <3>1 DEF ends
    <3>2. CASE ~ends
      <4>1. Busy(t) = Busy(s) /\ ~s.capped /\ ~(s.cursor > Len(s.targets))
        BY <1>15, <1>24, <3>2 DEF ends
      <4> QED
        BY <4>1 DEF ScanOK, InOrder
    <3> QED
      BY <3>1, <3>2
  <2> QED
    BY <1>20, <1>22, <2>3, <2>4, <2>5, <2>6 DEF InOrder
<1>26. Accounted(files, t)
  <2> SUFFICES ASSUME NEW k \in 1..Len(s.targets)
               PROVE  LET m == s.targets[k] IN
                      IF k < cursor /\ ~Pending(t, m) THEN error \/ Recorded(files, t, m)
                      ELSE OfFile(hits, m.id) = << >>
    BY <1>2, <1>22 DEF Accounted
  <2> DEFINE m == s.targets[k]
  <2>1. IF k < s.cursor /\ ~Pending(s, m) THEN s.error \/ Recorded(files, s, m)
        ELSE OfFile(s.hits, m.id) = << >>
    BY <1>2 DEF ScanOK, Accounted
  <2>2. \A q, x : Hits(t, q, x) = Hits(s, q, x)
    BY <1>22 DEF Hits
  <2>3. CASE k = at
    <3>1. m = n /\ k < cursor /\ Pending(s, m)
      BY <1>4, <1>1, <1>20, <2>3 DEF Pending
    <3>2. ~Pending(t, m)
      <4> SUFFICES ASSUME NEW v \in Busy(t), t.reading[v].node = n PROVE FALSE
        BY <3>1 DEF Pending
      <4>1. CASE v = w
        <5>1. ~ends /\ next.node = n
          BY <1>23, <1>24, <4>1 DEF Busy
        <5>2. s.targets[s.cursor] = s.targets[at] /\ s.cursor \in 1..Len(s.targets)
          BY <1>4, <1>16, <1>17, <5>1
        <5>3. s.cursor = at
          BY <1>2, <1>5, <5>2
        <5> QED
          BY <1>1, <1>4, <5>3
      <4>2. CASE v # w
        BY <1>3, <1>23, <1>24, <4>2 DEF Busy
      <4> QED
        BY <4>1, <4>2
    <3>3. OfFile(hits, n.id) = more
      <4>1. OfFile(s.hits, n.id) = << >>
        BY <2>1, <3>1
      <4>2. OfFile(hits, n.id) = OfFile(s.hits, n.id) \o more
        BY <1>11
      <4> HIDE DEF more, n
      <4>3. << >> \o more = more
        BY <1>7
      <4> QED
        BY <4>1, <4>2, <4>3
    <3>4. error \/ Recorded(files, t, n)
      <4>1. CASE text = NULL
        BY <1>8, <1>14, <4>1, SearchAssumption DEF Answers, Recorded
      <4>2. CASE text # NULL
        <5>1. text \in Seq(Char) /\ Genuine(files, n.id, n.ver, text)
          BY <1>6, <1>8, <4>2, SearchAssumption DEF Answers
        <5>2. OfFile(t.hits, n.id) = Hits(t, n, text)
          BY <1>22, <2>2, <3>3
        <5> QED
          BY <5>1, <5>2 DEF Recorded
      <4> QED
        BY <4>1, <4>2
    <3> QED
      BY <3>1, <3>2, <3>4
  <2>4. CASE k # at
    <3>1. m.id # n.id /\ m # n
      BY <1>2, <1>4, <1>5, <2>4
    <3>2. OfFile(hits, m.id) = OfFile(s.hits, m.id)
      BY <1>11, <3>1
    <3>3. CASE k < s.cursor
      <4>1. Pending(t, m) <=> Pending(s, m)
        <5>1. ASSUME NEW v \in Busy(t), t.reading[v].node = m PROVE v \in Busy(s) /\ s.reading[v].node = m
          <6>1. v # w
            <7> SUFFICES ASSUME v = w PROVE FALSE
              OBVIOUS
            <7>1. ~ends /\ next.node = m
              BY <1>23, <1>24, <5>1 DEF Busy
            <7>2. s.targets[s.cursor] = s.targets[k] /\ s.cursor \in 1..Len(s.targets)
              BY <1>16, <1>17, <7>1
            <7> QED
              BY <1>1, <1>2, <3>3, <7>2, SMTT(40)
          <6> QED
            BY <1>23, <1>24, <5>1, <6>1 DEF Busy
        <5>2. ASSUME NEW v \in Busy(s), s.reading[v].node = m PROVE v \in Busy(t) /\ t.reading[v].node = m
          <6>1. v # w
            BY <3>1, <5>2
          <6> QED
            BY <1>23, <1>24, <5>2, <6>1 DEF Busy
        <5> QED
          BY <5>1, <5>2 DEF Pending
      <4>2. Recorded(files, s, m) => Recorded(files, t, m)
        BY <1>22, <2>2, <3>2 DEF Recorded
      <4>3. k < cursor
        BY <1>1, <1>20, <3>3
      <4> QED
        BY <1>13, <2>1, <3>2, <3>3, <4>1, <4>2, <4>3
    <3>4. CASE ~(k < s.cursor)
      <4>1. OfFile(hits, m.id) = << >>
        BY <2>1, <3>2, <3>4
      <4>2. k < cursor => Pending(t, m)
        <5> SUFFICES ASSUME k < cursor PROVE Pending(t, m)
          OBVIOUS
        <5>1. ~ends /\ k = s.cursor
          BY <1>1, <1>20, <3>4
        <5>2. w \in Busy(t) /\ t.reading[w].node = m
          BY <1>1, <1>17, <1>23, <1>24, <5>1
        <5> QED
          BY <5>2 DEF Pending
      <4> QED
        BY <4>1, <4>2
    <3> QED
      BY <3>3, <3>4
  <2> QED
    BY <2>3, <2>4
<1>27. OfOneQuery(t)
  BY <1>10, <1>12, <1>22 DEF OfOneQuery
<1>28. ScanOK(files, t)
  BY <1>22, <1>25, <1>26, <1>27 DEF ScanOK
<1>29. t.hits = s.hits \o more
  BY <1>22 DEF hits
<1>31. \E m \in Seq(AllHits) : t.hits = s.hits \o m
  <2> HIDE DEF more, n
  <2> QED
    BY <1>7, <1>29
<1>32. Scanned(s, w, text, failed) = t
  BY <1>8 DEF t
<1> HIDE DEF more, n
<1> QED
  BY <1>22, <1>28, <1>31, <1>32

-----------------------------------------------------------------------------
(* Commits, closing, answers.                                               *)

(* What the page fetches.                                                   *)
LEMMA TreeFetched ==
  ASSUME NEW F, FilesOK(F), NEW t \in {buildTree(F), << >>}
  PROVE  FetchedOK(F, flattenTree(t))
<1>1. CASE t = << >>
  <2>1. flattenTree(t) = << >>
    BY <1>1, NoTreeNoRows
  <2> QED
    BY <2>1 DEF FetchedOK
<1>2. CASE t = buildTree(F)
  <2>1. Table(F)
    BY DEF Table, FilesOK, Past, FileRows
  <2> DEFINE nodes == flattenTree(t)
  <2>2. nodes \in Seq(F) /\ Distinct(nodes)
    BY <1>2, <2>1, TreeHasRows
  <2> HIDE DEF nodes
  <2>3. F \subseteq FileRows
    BY DEF FilesOK, Past
  <2>4. DOMAIN nodes = 1..Len(nodes) /\ \A i \in 1..Len(nodes) : nodes[i] \in F
    BY <2>2
  <2>5. nodes \in Seq(FileRows)
    BY <2>2, <2>3
  <2>6. \A i, j \in DOMAIN nodes : nodes[i].id = nodes[j].id => i = j
    BY <2>2, <2>4 DEF FilesOK, Unique, Distinct
  <2>7. FetchedOK(F, nodes)
    BY <2>4, <2>5, <2>6 DEF FetchedOK, FilesOK
  <2> QED
    BY <2>7 DEF nodes
<1> QED
  BY <1>1, <1>2

(* Nothing is being searched for.                                           *)
LEMMA NoScanOK ==
  ASSUME NEW F
  PROVE  ScanOK(F, NoScan)
<1>1. /\ NoScan.targets = << >> /\ NoScan.cursor = 1 /\ NoScan.scanned = 0 /\ NoScan.hits = << >>
      /\ ~NoScan.capped /\ NoScan.reading = [w \in Worker |-> NoRead]
  BY DEF NoScan
<1>2. NoScan \in Scans
  <2>1. NoRead \in ReadStates
    BY DEF NoRead, ReadStates
  <2>2. << >> \in Seq(Char) /\ << >> \in Seq(FileRows) /\ << >> \in Seq(AllHits)
    OBVIOUS
  <2>3. [w \in Worker |-> NoRead] \in [Worker -> ReadStates]
    BY <2>1
  <2> QED
    BY <2>2, <2>3 DEF NoScan, Scans
<1> HIDE DEF NoScan
<1>3. Busy(NoScan) = {}
  BY <1>1 DEF Busy
<1>4. InOrder(F, NoScan)
  BY <1>1, <1>3, FS_EmptySet DEF InOrder
<1>5. Accounted(F, NoScan) /\ OfOneQuery(NoScan) /\ FetchedOK(F, NoScan.targets)
  BY <1>1, SearchAssumption DEF Accounted, OfOneQuery, FetchedOK
<1> QED
  BY <1>1, <1>2, <1>4, <1>5 DEF ScanOK

LEMMA IdleOK ==
  ASSUME NEW text, NEW mode
  PROVE  ResultOK(NoScan, Idle, text, mode)
<1>1. ~NoScan.on
  BY DEF NoScan
<1> QED
  BY <1>1 DEF ResultOK

LEMMA PublishedIs ==
  ASSUME NEW s \in Scans, NEW contentState
  PROVE  /\ \E k \in 0..Len(s.hits) :
              /\ k <= MAX_CONTENT_MATCHES
              /\ Published(s, contentState).contents = SubSeq(s.hits, 1, k)
         /\ Published(s, contentState).contentState = contentState
<1>1. s.hits \in Seq(AllHits) /\ Len(s.hits) \in Nat /\ MAX_CONTENT_MATCHES \in Nat
  BY SearchAssumption DEF Scans
<1> DEFINE k == Min({MAX_CONTENT_MATCHES, Len(s.hits)})
<1>2. k \in 0..Len(s.hits) /\ k <= MAX_CONTENT_MATCHES
  BY <1>1, MaxOfTwo
<1>3. Published(s, contentState).contents = SubSeq(s.hits, 1, k)
  BY DEF Published
<1> HIDE DEF k
<1> QED
  BY <1>2, <1>3 DEF Published

LEMMA KeysAre ==
  ASSUME FilesOK(files), ScanOK(files, scan), CacheOK(files, cache, Keys(stray))
  PROVE  CacheOK(files, cache, Keys(stray \cup AskedReads(scan)))
<1>0. Keys(stray \cup AskedReads(scan)) = Keys(stray) \cup Keys(AskedReads(scan))
  BY DEF Keys
<1> SUFFICES ASSUME NEW key \in Keys(AskedReads(scan))
             PROVE  /\ key.id \in FileIds /\ key.ver \in Nat /\ key.ver \in DOMAIN Contents[key.id]
                    /\ \A x \in files : x.id = key.id => key.ver <= x.ver
  BY <1>0 DEF CacheOK
<1>1. PICK w \in Worker : scan.reading[w].how = "asked" /\ key = Key(scan.reading[w].node)
  <2>1. PICK read \in AskedReads(scan) : key = Key(read.node)
    BY DEF Keys
  <2> QED
    BY <2>1 DEF AskedReads
<1>2. w \in Busy(scan)
  BY <1>1 DEF Busy, NoRead
<1>3. PICK k \in 1..(scan.cursor - 1) : scan.reading[w].node = scan.targets[k]
  BY <1>2 DEF ScanOK, InOrder, Holds
<1>4. k \in DOMAIN scan.targets
  <2>1. scan.cursor \in Nat /\ scan.cursor <= Len(scan.targets) + 1 /\ scan.targets \in Seq(FileRows)
    BY DEF ScanOK, InOrder, Scans
  <2> QED
    BY <2>1, <1>3
<1> DEFINE n == scan.targets[k]
<1>5. Past(files, n) /\ ~n.isDir
  BY <1>4 DEF ScanOK, FetchedOK
<1> HIDE DEF n
<1>6. key.id = n.id /\ key.ver = n.ver
  BY <1>1, <1>3 DEF Key, n
<1> QED
  BY <1>5, <1>6, FileOf DEF Past, FileRows

(* A commit.                                                                *)
LEMMA CommitInv ==
  ASSUME SearchInv, Commit, files' = files, FetchedOK(files, flattenTree(tree')),
         query' \in Seq(Char), debounced' \in Seq(Char)
  PROVE  SearchInv'
<1>1. cache' = cache /\ ContentSearch
  BY DEF Commit
<1>2. /\ CacheOK(files, cache, Keys(stray')) /\ ScanOK(files, scan')
      /\ ResultOK(scan', result', debounced', palette')
  <2>1. CASE ~Restarts
    <3>1. scan' = scan /\ stray' = stray /\ result' = result
      BY <1>1, <2>1 DEF ContentSearch
    <3>2. trim(debounced') = trim(debounced) /\ (Wanted(palette', debounced') <=> Wanted(palette, debounced))
      BY <2>1 DEF Restarts
    <3> QED
      BY <3>1, <3>2 DEF SearchInv, ResultOK
  <2>2. CASE Restarts
    <3>1. CacheOK(files, cache, Keys(stray'))
      <4>1. stray' \in {stray, stray \cup AskedReads(scan)}
        BY <1>1, <2>2 DEF ContentSearch
      <4> QED
        BY <4>1, KeysAre DEF SearchInv
    <3>2. CASE Wanted(palette', debounced')
      <4> DEFINE s == Started(debounced', flattenTree(tree'))
      <4>1. scan' = s /\ result' = Published(s, IF Returned(s) THEN "done" ELSE "searching")
        BY <1>1, <2>2, <3>2 DEF ContentSearch
      <4>2. ScanOK(files, s) /\ s.on /\ s.query = trim(debounced')
        BY StartedIs DEF SearchInv
      <4> HIDE DEF s
      <4>3. s \in Scans
        BY <4>2 DEF ScanOK
      <4>4. Shows(s, result')
        BY <4>1, <4>3, PublishedIs DEF Shows
      <4> QED
        BY <3>1, <3>2, <4>1, <4>2, <4>4 DEF ResultOK
    <3>3. CASE ~Wanted(palette', debounced')
      <4>1. scan' = NoScan /\ result' = Idle
        BY <1>1, <2>2, <3>3 DEF ContentSearch
      <4> QED
        BY <3>1, <4>1, NoScanOK, IdleOK
    <3> QED
      BY <3>2, <3>3
  <2> QED
    BY <2>1, <2>2
<1>3. FilesOK(files)
  BY DEF SearchInv
<1> QED
  BY <1>1, <1>2, <1>3 DEF SearchInv, TextsOK

LEMMA ClosesInv ==
  ASSUME SearchInv, Closes
  PROVE  SearchInv'
<1>1. /\ files' = files /\ tree' = tree /\ scan' = NoScan /\ stray' = {} /\ cache' = {}
      /\ result' = Idle /\ query' = << >> /\ debounced' = << >>
  BY DEF Closes
<1>2. FilesOK(files) /\ FetchedOK(files, flattenTree(tree))
  BY DEF SearchInv
<1>3. CacheOK(files, {}, Keys({}))
  BY DEF CacheOK, Keys
<1>4. ScanOK(files, NoScan) /\ ResultOK(NoScan, Idle, debounced', palette')
  BY NoScanOK, IdleOK
<1> QED
  BY <1>1, <1>2, <1>3, <1>4 DEF SearchInv, TextsOK

(* The answer to a read.                                                    *)
LEMMA ResumesInv ==
  ASSUME SearchInv, NEW w \in Busy(scan), NEW text, NEW failed \in BOOLEAN,
         Answers(scan, w, text, failed), Resumes(w, text, failed), CacheOK(files, cache', Keys(stray))
  PROVE  SearchInv'
<1>1. /\ files' = files /\ tree' = tree /\ palette' = palette /\ query' = query
      /\ debounced' = debounced /\ stray' = stray /\ scan' = Scanned(scan, w, text, failed)
      /\ result' \in IF Returned(scan') THEN {Published(scan', "done")}
                     ELSE {result, Published(scan', "searching")}
  BY DEF Resumes
<1>2. /\ ScanOK(files, scan') /\ scan'.on = scan.on /\ scan'.query = scan.query
      /\ \E more \in Seq(AllHits) : scan'.hits = scan.hits \o more
  BY <1>1, ReadIs DEF SearchInv
<1>3. scan.on /\ ~Returned(scan)
  <2>1. scan.reading[w] # NoRead /\ w \in Worker
    BY DEF Busy
  <2>2. NoScan.reading[w] = NoRead
    BY <2>1 DEF NoScan
  <2>3. scan # NoScan
    BY <2>1, <2>2
  <2> QED
    BY <2>1, <2>3 DEF SearchInv, ResultOK, Returned
<1>4. scan' \in Scans /\ scan \in Scans
  BY <1>2 DEF ScanOK, SearchInv
<1>5. Shows(scan', result')
  <2>1. CASE Returned(scan')
    BY <1>1, <2>1 DEF Shows
  <2>2. CASE ~Returned(scan') /\ result' = Published(scan', "searching")
    BY <1>4, <2>2, PublishedIs DEF Shows
  <2>3. CASE ~Returned(scan') /\ result' = result
    <3>1. /\ result.contentState = "searching"
          /\ \E k \in 0..Len(scan.hits) :
               k <= MAX_CONTENT_MATCHES /\ result.contents = SubSeq(scan.hits, 1, k)
      BY <1>3 DEF SearchInv, ResultOK, Shows
    <3>2. PICK k \in 0..Len(scan.hits) :
            k <= MAX_CONTENT_MATCHES /\ result.contents = SubSeq(scan.hits, 1, k)
      BY <3>1
    <3>3. PICK more \in Seq(AllHits) : scan'.hits = scan.hits \o more
      BY <1>2
    <3> DEFINE h == scan.hits
               g == scan'.hits
    <3>4. h \in Seq(AllHits)
      BY <1>4 DEF Scans
    <3> HIDE DEF h
    <3>5. g = h \o more
      BY <3>3 DEF h
    <3>7. g \in Seq(AllHits)
      BY <1>4 DEF Scans
    <3> HIDE DEF g
    <3>6. k \in 0..Len(g) /\ SubSeq(g, 1, k) = SubSeq(h, 1, k)
      <4>1. k \in 0..Len(h) /\ Len(h) \in Nat /\ Len(more) \in Nat
        BY <3>2, <3>4 DEF h
      <4>2. Len(g) = Len(h) + Len(more) /\ \A i \in 1..k : g[i] = h[i]
        BY <3>4, <3>5, <4>1
      <4>3. k \in 0..Len(g) /\ k \in Nat
        BY <4>1, <4>2
      <4>4. SubSeq(h, 1, k) = [i \in 1..k |-> h[i]] /\ SubSeq(g, 1, k) = [i \in 1..k |-> g[i]]
        BY <3>4, <3>7, <4>1, <4>3
      <4> QED
        BY <4>2, <4>3, <4>4
    <3> QED
      BY <2>3, <3>1, <3>2, <3>6 DEF Shows, g, h
  <2> QED
    BY <1>1, <2>1, <2>2, <2>3
<1>6. ResultOK(scan', result', debounced', palette')
  BY <1>1, <1>2, <1>3, <1>5 DEF SearchInv, ResultOK
<1>7. FilesOK(files) /\ FetchedOK(files, flattenTree(tree)) /\ TextsOK
  BY DEF SearchInv
<1> QED
  BY <1>1, <1>2, <1>6, <1>7 DEF SearchInv, TextsOK

-----------------------------------------------------------------------------
(* The server.                                                              *)

(* The project changes.                                                     *)
LEMMA NewerText ==
  ASSUME NEW F, FilesOK(F), NEW x \in F, ~x.isDir, x.ver < Len(Contents[x.id])
  PROVE  /\ FilesOK((F \ {x}) \cup {[x EXCEPT !.ver = @ + 1]})
         /\ Later(F, (F \ {x}) \cup {[x EXCEPT !.ver = @ + 1]})
<1> DEFINE y == [x EXCEPT !.ver = @ + 1]
           G == (F \ {x}) \cup {y}
<1>1. x \in FileRows /\ x.ver \in DOMAIN Contents[x.id] /\ Past(F, x)
  BY DEF FilesOK, Past
<1>2. /\ y \in FileRows /\ y.id = x.id /\ y.path = x.path /\ y.isDir = x.isDir
      /\ y.ver = x.ver + 1 /\ x.ver \in Nat /\ x.ver <= y.ver
  BY <1>1 DEF FileRows
<1>3. y.ver \in DOMAIN Contents[y.id]
  <2>1. x.id \in FileIds
    BY <1>1, FileOf
  <2>2. Contents[x.id] \in Seq(Seq(Char))
    BY <2>1, SearchAssumption DEF FileIds
  <2> QED
    BY <1>1, <1>2, <2>2
<1>4. \E z \in Start : z.id = y.id /\ z.isDir = y.isDir
  BY <1>1, <1>2 DEF Past
<1> HIDE DEF y
<1>5. Unique(G)
  BY <1>2 DEF FilesOK, Unique
<1>6. IsFiniteSet(G)
  BY FS_RemoveElement, FS_AddElement DEF FilesOK
<1>7. Later(F, G)
  <2> SUFFICES ASSUME NEW z \in G PROVE \E o \in F : o.id = z.id /\ o.ver <= z.ver
    BY DEF Later
  <2>1. CASE z = y
    BY <1>2, <2>1
  <2>2. CASE z \in F
    BY <2>2 DEF FilesOK, Past, FileRows
  <2> QED
    BY <2>1, <2>2
<1>8. ASSUME NEW z \in G PROVE Past(G, z)
  <2>1. z \in FileRows /\ z.ver \in Nat /\ \E o \in Start : o.id = z.id /\ o.isDir = z.isDir
    BY <1>2, <1>4 DEF FilesOK, Past, FileRows
  <2>2. \A o \in G : o.id = z.id => z.ver <= o.ver
    BY <1>5, <2>1 DEF Unique
  <2>3. ~z.isDir => z.ver \in DOMAIN Contents[z.id]
    BY <1>3 DEF FilesOK, Past
  <2> QED
    BY <2>1, <2>2, <2>3 DEF Past
<1>9. FilesOK(G)
  BY <1>5, <1>6, <1>8 DEF FilesOK
<1> QED
  BY <1>7, <1>9 DEF y

LEMMA FileGone ==
  ASSUME NEW F, FilesOK(F), NEW x \in F
  PROVE  FilesOK(F \ {x}) /\ Later(F, F \ {x})
<1>1. FilesOK(F \ {x})
  BY FS_RemoveElement DEF FilesOK, Unique, Past
<1>2. Later(F, F \ {x})
  BY DEF FilesOK, Past, FileRows, Later
<1> QED
  BY <1>1, <1>2

LEMMA ServerInv ==
  ASSUME SearchInv, FilesOK(files'), Later(files, files'),
         UNCHANGED <<tree, query, debounced, palette, scan, stray, cache, result>>
  PROVE  SearchInv'
<1>1. FilesOK(files)
  BY DEF SearchInv
<1>2. /\ FetchedOK(files', flattenTree(tree)) /\ CacheOK(files', cache, Keys(stray))
      /\ ScanOK(files', scan)
  BY <1>1, FilesStay DEF SearchInv
<1> QED
  BY <1>2 DEF SearchInv, TextsOK

(* A text that is read now.                                                 *)
LEMMA TextRead ==
  ASSUME FilesOK(files), NEW id \in FileIds, NEW ver \in Nat,
         \A x \in files : x.id = id => ver <= x.ver,
         NEW x \in files, x.id = id
  PROVE  TextOf(x) \in Seq(Char) /\ Genuine(files, id, ver, TextOf(x))
<1>1. ~x.isDir
  <2>1. PICK y \in Start : y.id = x.id /\ y.isDir = x.isDir
    BY DEF FilesOK, Past
  <2>2. PICK z \in Start : z.id = id /\ ~z.isDir
    BY DEF FileIds
  <2> QED
    BY <2>1, <2>2, SearchAssumption DEF Unique, Tidy
<1>2. x.ver \in DOMAIN Contents[id]
  BY <1>1 DEF FilesOK, Past
<1>3. Contents[id] \in Seq(Seq(Char))
  BY SearchAssumption DEF FileIds
<1>4. TextOf(x) = Contents[id][x.ver] /\ TextOf(x) \in Seq(Char)
  BY <1>2, <1>3 DEF TextOf
<1>5. \A y \in files : y.id = id => x.ver <= y.ver
  BY DEF FilesOK, Past
<1> QED
  BY <1>2, <1>4, <1>5 DEF Genuine

LEMMA StoredOK ==
  ASSUME FilesOK(files), NEW keys, CacheOK(files, cache, keys), NEW key, key.id \in FileIds,
         key.ver \in DOMAIN Contents[key.id], NEW text, Genuine(files, key.id, key.ver, text)
  PROVE  CacheOK(files, Stored(key, text), keys)
<1> DEFINE new == [id |-> key.id, ver |-> key.ver, text |-> text]
<1>1. Stored(key, text) = cache \cup {new} /\ new.id = key.id /\ new.ver = key.ver /\ new.text = text
  BY DEF Stored
<1> HIDE DEF new
<1> QED
  BY <1>1 DEF CacheOK

-----------------------------------------------------------------------------
(* The steps.                                                               *)

LEMMA InitInv == Init => SearchInv
<1> SUFFICES ASSUME Init PROVE SearchInv
  OBVIOUS
<1>1. /\ files = Start /\ tree = buildTree(Start) /\ query = << >> /\ debounced = << >>
      /\ scan = NoScan /\ stray = {} /\ cache = {} /\ result = Idle
  BY DEF Init
<1>2. FilesOK(Start)
  <2>1. ASSUME NEW x \in Start PROVE Past(Start, x) /\ (~x.isDir => x.ver \in DOMAIN Contents[x.id])
    BY SearchAssumption DEF Past, Unique, Tidy, FileRows
  <2> QED
    BY <2>1, SearchAssumption DEF FilesOK, Tidy
<1>3. FetchedOK(Start, flattenTree(tree))
  BY <1>1, <1>2, TreeFetched
<1>4. CacheOK(Start, {}, Keys({}))
  BY DEF CacheOK, Keys
<1>5. ScanOK(Start, NoScan) /\ ResultOK(NoScan, Idle, debounced, palette)
  BY NoScanOK, IdleOK
<1> QED
  BY <1>1, <1>2, <1>3, <1>4, <1>5 DEF SearchInv, TextsOK

LEMMA OpenInv ==
  ASSUME SearchInv, NEW mode \in {"all", "files"}, Open(mode)
  PROVE  SearchInv'
<1>1. /\ palette = "closed"
      /\ UNCHANGED <<files, tree, query, debounced, scan, stray, cache, result>>
  BY DEF Open
<1>2. ~Wanted(palette, debounced)
  BY <1>1 DEF Wanted
<1>3. ResultOK(scan, result, debounced, palette')
  BY <1>2 DEF SearchInv, ResultOK
<1> QED
  BY <1>1, <1>3 DEF SearchInv, TextsOK

LEMMA SwitchModeInv ==
  ASSUME SearchInv, NEW mode \in {"all", "files"}, SwitchMode(mode)
  PROVE  SearchInv'
<1>1. files' = files /\ tree' = tree /\ query' = query /\ debounced' = debounced /\ Commit
  BY DEF SwitchMode
<1>2. FetchedOK(files, flattenTree(tree')) /\ query' \in Seq(Char) /\ debounced' \in Seq(Char)
  BY <1>1 DEF SearchInv, TextsOK
<1> QED
  BY <1>1, <1>2, CommitInv

LEMMA TypedInv ==
  ASSUME SearchInv, NEW text \in Seq(Char), Typed(text)
  PROVE  SearchInv'
<1>1. files' = files /\ tree' = tree /\ query' = text /\ debounced' = debounced /\ Commit
  BY DEF Typed
<1>2. FetchedOK(files, flattenTree(tree')) /\ query' \in Seq(Char) /\ debounced' \in Seq(Char)
  BY <1>1 DEF SearchInv, TextsOK
<1> QED
  BY <1>1, <1>2, CommitInv

LEMMA KeysInv ==
  ASSUME SearchInv, Types \/ Deletes \/ Escapes
  PROVE  SearchInv'
<1>1. query \in Seq(Char)
  BY DEF SearchInv, TextsOK
<1>2. CASE Types
  <2>1. PICK c \in Typeable : Typed(Append(query, c))
    BY <1>2 DEF Types
  <2>2. Append(query, c) \in Seq(Char)
    BY <1>1, SearchAssumption
  <2> QED
    BY <2>1, <2>2, TypedInv
<1>3. CASE Deletes
  <2>1. query # << >> /\ Typed(Front(query))
    BY <1>3 DEF Deletes
  <2>2. Front(query) \in Seq(Char)
    BY <1>1, <2>1 DEF Front
  <2> QED
    BY <2>1, <2>2, TypedInv
<1>4. CASE Escapes
  <2>1. Typed(<< >>) /\ << >> \in Seq(Char)
    BY <1>4 DEF Escapes
  <2> QED
    BY <2>1, TypedInv
<1> QED
  BY <1>2, <1>3, <1>4

LEMMA DebounceInv ==
  ASSUME SearchInv, DebounceFires
  PROVE  SearchInv'
<1>1. files' = files /\ tree' = tree /\ query' = query /\ debounced' = query /\ Commit
  BY DEF DebounceFires
<1>2. FetchedOK(files, flattenTree(tree')) /\ query' \in Seq(Char) /\ debounced' \in Seq(Char)
  BY <1>1 DEF SearchInv, TextsOK
<1> QED
  BY <1>1, <1>2, CommitInv

LEMMA FetchedInv ==
  ASSUME SearchInv, Fetched
  PROVE  SearchInv'
<1>1. /\ files' = files /\ tree' \in {buildTree(files), << >>}
      /\ query' = query /\ debounced' = debounced /\ Commit
  BY DEF Fetched
<1>2. FilesOK(files)
  BY DEF SearchInv
<1>3. FetchedOK(files, flattenTree(tree'))
  BY <1>1, <1>2, TreeFetched
<1>4. query' \in Seq(Char) /\ debounced' \in Seq(Char)
  BY <1>1 DEF SearchInv, TextsOK
<1> QED
  BY <1>1, <1>3, <1>4, CommitInv

(* A worker's file is one of the targets.                                   *)
LEMMA ReadingIs ==
  ASSUME SearchInv, NEW w \in Busy(scan)
  PROVE  LET n == scan.reading[w].node IN
         /\ Past(files, n) /\ n.id \in FileIds /\ n.ver \in Nat /\ n.ver \in DOMAIN Contents[n.id]
         /\ Holds(files, scan, w)
<1>1. Holds(files, scan, w) /\ scan.targets \in Seq(FileRows) /\ scan.cursor \in Nat
      /\ scan.cursor <= Len(scan.targets) + 1
  BY DEF SearchInv, ScanOK, InOrder, Scans
<1>2. PICK k \in 1..(scan.cursor - 1) : scan.reading[w].node = scan.targets[k]
  BY <1>1 DEF Holds
<1>3. k \in DOMAIN scan.targets
  BY <1>1
<1> DEFINE n == scan.targets[k]
<1>4. Past(files, n) /\ ~n.isDir
  BY <1>3 DEF SearchInv, ScanOK, FetchedOK
<1> HIDE DEF n
<1>5. n.id \in FileIds /\ n.ver \in Nat /\ n.ver \in DOMAIN Contents[n.id]
  BY <1>4, FileOf DEF Past, FileRows
<1> QED
  BY <1>1, <1>2, <1>4, <1>5 DEF n

LEMMA ReadsAnswer ==
  ASSUME SearchInv, Reads
  PROVE  \E w \in Busy(scan), failed \in BOOLEAN : \E text :
           /\ Answers(scan, w, text, failed) /\ Resumes(w, text, failed)
           /\ CacheOK(files, cache', Keys(stray))
<1>1. PICK w \in Worker : FromCache(w) \/ Answered(w) \/ Failed(w)
  BY DEF Reads
<1>2. w \in Busy(scan)
  <2>1. scan.reading[w].how \in {"cached", "asked"}
    BY <1>1 DEF FromCache, Answered, Failed
  <2> QED
    BY <2>1 DEF Busy, NoRead
<1> DEFINE n == scan.reading[w].node
<1>3. /\ Past(files, n) /\ n.id \in FileIds /\ n.ver \in Nat /\ n.ver \in DOMAIN Contents[n.id]
      /\ Holds(files, scan, w)
  BY <1>2, ReadingIs
<1> HIDE DEF n
<1>4. FilesOK(files) /\ CacheOK(files, cache, Keys(stray))
  BY DEF SearchInv
<1>5. CASE FromCache(w)
  <2>1. /\ scan.reading[w].how = "cached" /\ cache' = cache
        /\ Resumes(w, scan.reading[w].text, FALSE)
    BY <1>5 DEF FromCache
  <2>2. Answers(scan, w, scan.reading[w].text, FALSE)
    BY <1>3, <2>1 DEF Holds, Answers, n
  <2> QED
    BY <1>2, <1>4, <2>1, <2>2
<1>6. CASE Answered(w)
  <2> DEFINE key == Key(n)
             there == {x \in files : x.id = key.id}
             text == IF there = {} THEN NULL ELSE TextOf(CHOOSE x \in there : TRUE)
  <2>1. cache' = (IF there = {} THEN cache ELSE Stored(key, text)) /\ Resumes(w, text, FALSE)
    BY <1>6 DEF Answered, n
  <2>2. key.id = n.id /\ key.ver = n.ver
    BY DEF Key
  <2>3. CASE there = {}
    <3>1. text = NULL /\ cache' = cache /\ \A x \in files : x.id # n.id
      BY <2>1, <2>2, <2>3
    <3>2. Answers(scan, w, text, FALSE)
      BY <3>1 DEF Answers, n
    <3> QED
      BY <1>2, <1>4, <2>1, <3>1, <3>2
  <2>4. CASE there # {}
    <3> DEFINE x == CHOOSE x \in there : TRUE
    <3>1. x \in files /\ x.id = n.id
      BY <2>2, <2>4
    <3>2. text = TextOf(x) /\ cache' = Stored(key, text)
      BY <2>1, <2>4
    <3> HIDE DEF x, key, text
    <3>3. text \in Seq(Char) /\ Genuine(files, n.id, n.ver, text)
      BY <1>3, <1>4, <3>1, <3>2, TextRead DEF Past
    <3>4. Answers(scan, w, text, FALSE)
      BY <3>3 DEF Answers, n
    <3>5. CacheOK(files, cache', Keys(stray))
      BY <1>3, <1>4, <2>2, <3>2, <3>3, StoredOK
    <3> QED
      BY <1>2, <2>1, <3>4, <3>5
  <2> QED
    BY <2>3, <2>4
<1>7. CASE Failed(w)
  <2>1. cache' = cache /\ Resumes(w, NULL, TRUE)
    BY <1>7 DEF Failed
  <2>2. Answers(scan, w, NULL, TRUE)
    BY DEF Answers
  <2> QED
    BY <1>2, <1>4, <2>1, <2>2
<1> QED
  BY <1>1, <1>5, <1>6, <1>7

LEMMA ReadsInv ==
  ASSUME SearchInv, Reads
  PROVE  SearchInv'
BY ReadsAnswer, ResumesInv

LEMMA StrayInv ==
  ASSUME SearchInv, StrayAnswered
  PROVE  SearchInv'
<1>1. UNCHANGED <<files, tree, query, debounced, palette, scan, result>>
  BY DEF StrayAnswered, Cancelled
<1>2. PICK read \in stray :
        /\ stray' = stray \ {read}
        /\ LET there == {x \in files : x.id = read.node.id} IN
           cache' = IF there = {} THEN cache
                    ELSE Stored(Key(read.node), TextOf(CHOOSE x \in there : TRUE))
  BY DEF StrayAnswered
<1> DEFINE key == Key(read.node)
<1>3. key.id = read.node.id /\ key \in Keys(stray) /\ Keys(stray') \subseteq Keys(stray)
  BY <1>2 DEF Key, Keys
<1> HIDE DEF key
<1>4. FilesOK(files) /\ CacheOK(files, cache, Keys(stray))
  BY DEF SearchInv
<1>5. /\ key.id \in FileIds /\ key.ver \in Nat /\ key.ver \in DOMAIN Contents[key.id]
      /\ \A x \in files : x.id = key.id => key.ver <= x.ver
  BY <1>4, <1>3 DEF CacheOK
<1>6. CacheOK(files, cache, Keys(stray'))
  BY <1>4, <1>3 DEF CacheOK
<1> DEFINE there == {x \in files : x.id = key.id}
<1>7. cache' = IF there = {} THEN cache ELSE Stored(key, TextOf(CHOOSE x \in there : TRUE))
  BY <1>2, <1>3 DEF key
<1>8. CacheOK(files, cache', Keys(stray'))
  <2>1. CASE there = {}
    BY <1>6, <1>7, <2>1
  <2>2. CASE there # {}
    <3> DEFINE x == CHOOSE x \in there : TRUE
    <3>1. x \in files /\ x.id = key.id
      BY <2>2
    <3>2. cache' = Stored(key, TextOf(x))
      BY <1>7, <2>2
    <3> HIDE DEF x
    <3>3. Genuine(files, key.id, key.ver, TextOf(x))
      BY <1>4, <1>5, <3>1, TextRead
    <3> QED
      BY <1>4, <1>5, <1>6, <3>2, <3>3, StoredOK
  <2> QED
    BY <2>1, <2>2
<1> QED
  BY <1>1, <1>8 DEF SearchInv, TextsOK

LEMMA ProjectInv ==
  ASSUME SearchInv, Edited \/ Deleted
  PROVE  SearchInv'
<1>1. FilesOK(files)
  BY DEF SearchInv
<1>2. UNCHANGED <<tree, query, debounced, palette, scan, stray, cache, result>>
  BY DEF Edited, Deleted
<1>3. CASE Edited
  <2>1. PICK x \in files : /\ ~x.isDir /\ x.ver < Len(Contents[x.id])
                           /\ files' = (files \ {x}) \cup {[x EXCEPT !.ver = @ + 1]}
    BY <1>3 DEF Edited
  <2>2. FilesOK(files') /\ Later(files, files')
    BY <1>1, <2>1, NewerText
  <2> QED
    BY <1>2, <2>2, ServerInv
<1>4. CASE Deleted
  <2>1. PICK x \in files : files' = files \ {x}
    BY <1>4 DEF Deleted
  <2>2. FilesOK(files') /\ Later(files, files')
    BY <1>1, <2>1, FileGone
  <2> QED
    BY <1>2, <2>2, ServerInv
<1> QED
  BY <1>3, <1>4

LEMMA NextInv ==
  ASSUME SearchInv, [Next]_vars
  PROVE  SearchInv'
<1>1. CASE UNCHANGED vars
  BY <1>1 DEF vars, SearchInv, TextsOK
<1>2. ASSUME NEW mode \in {"all", "files"}, Open(mode) \/ SwitchMode(mode) PROVE SearchInv'
  BY <1>2, OpenInv, SwitchModeInv
<1>3. CASE Dismiss \/ Choose
  <2>1. Closes
    BY <1>3 DEF Dismiss, Choose
  <2> QED
    BY <2>1, ClosesInv
<1>4. CASE Types \/ Deletes \/ Escapes
  BY <1>4, KeysInv
<1>5. CASE DebounceFires
  BY <1>5, DebounceInv
<1>6. CASE Moves
  <2>1. UNCHANGED <<files, tree, query, debounced, palette, scan, stray, cache, result>>
    BY <1>6 DEF Moves
  <2> QED
    BY <2>1 DEF SearchInv, TextsOK
<1>7. CASE Reads
  BY <1>7, ReadsInv
<1>8. CASE StrayAnswered
  BY <1>8, StrayInv
<1>9. CASE Edited \/ Deleted
  BY <1>9, ProjectInv
<1>10. CASE Fetched
  BY <1>10, FetchedInv
<1> QED
  BY <1>1, <1>2, <1>3, <1>4, <1>5, <1>6, <1>7, <1>8, <1>9, <1>10 DEF Next

LEMMA Invariance == Spec => []SearchInv
<1>1. SearchInv /\ [Next]_vars => SearchInv'
  BY NextInv
<1> QED
  BY <1>1, InitInv, PTL DEF Spec

-----------------------------------------------------------------------------
(* What follows.                                                            *)

(* What is published is the beginning of what was found.                    *)
LEMMA PublishedPart ==
  ASSUME SearchInv, scan.on
  PROVE  \E k \in 0..Len(scan.hits) :
           k <= MAX_CONTENT_MATCHES /\ result.contents = SubSeq(scan.hits, 1, k)
<1>1. scan \in Scans /\ Shows(scan, result)
  BY DEF SearchInv, ScanOK, ResultOK
<1> QED
  BY <1>1, PublishedIs DEF Shows

(* Every line listed is of the query as it stood when the typing paused.    *)
OfTheQuery ==
  /\ result.contents # << >> => Wanted(palette, debounced)
  /\ \A i \in DOMAIN result.contents : result.contents[i].for = trim(debounced)

LEMMA OneQuery ==
  ASSUME SearchInv
  PROVE  OfTheQuery
<1>1. CASE ~scan.on
  <2>1. result.contents = << >>
    BY <1>1 DEF SearchInv, ResultOK, Idle
  <2> QED
    BY <2>1 DEF OfTheQuery
<1>2. CASE scan.on
  <2>1. PICK k \in 0..Len(scan.hits) : result.contents = SubSeq(scan.hits, 1, k)
    BY <1>2, PublishedPart
  <2> DEFINE h == scan.hits
             c == result.contents
  <2>2. /\ h \in Seq(AllHits) /\ scan.query = trim(debounced) /\ Wanted(palette, debounced)
        /\ \A i \in DOMAIN h : h[i].for = scan.query
    BY <1>2 DEF SearchInv, ScanOK, Scans, ResultOK, OfOneQuery
  <2>3. k \in 0..Len(h) /\ c = SubSeq(h, 1, k)
    BY <2>1
  <2> HIDE DEF h, c
  <2>4. \A i \in DOMAIN c : i \in DOMAIN h /\ c[i] = h[i]
    BY <2>2, <2>3
  <2> QED
    BY <2>2, <2>4 DEF OfTheQuery, c
<1> QED
  BY <1>1, <1>2

(* A search that has met no limit and no error has listed, of every file it  *)
(* meant to read, the lines of a text the file has had.                     *)
LEMMA MatchesOf ==
  ASSUME NEW s, s.query \in Seq(Char), NEW n, NEW text \in Seq(Char)
  PROVE  LET found == matchContent(text, s.query, MAX_MATCHES_PER_FILE)
             shown == IF Len(text) > MAX_SEARCHABLE_BYTES \/ looksBinary(text) THEN << >> ELSE found
             h == Hits(s, n, text)
         IN [i \in DOMAIN h |-> h[i].match] = shown
<1> DEFINE found == matchContent(text, s.query, MAX_MATCHES_PER_FILE)
           h == Hits(s, n, text)
<1>1. text # NULL
  BY SearchAssumption
<1>2. CASE Len(text) > MAX_SEARCHABLE_BYTES \/ looksBinary(text)
  <2>1. h = << >>
    BY <1>2 DEF Hits
  <2> HIDE DEF h
  <2>2. [i \in DOMAIN h |-> h[i].match] = << >>
    BY <2>1
  <2> QED
    BY <1>2, <2>2 DEF h
<1>3. CASE ~(Len(text) > MAX_SEARCHABLE_BYTES \/ looksBinary(text))
  <2>1. h = [i \in DOMAIN found |-> [node |-> n, match |-> found[i], for |-> s.query]]
    BY <1>1, <1>3 DEF Hits
  <2>2. found \in Seq(LineMatches)
    BY MatchesAre, SearchAssumption, NewlineIs
  <2> HIDE DEF found, h
  <2>3. [i \in DOMAIN h |-> h[i].match] = [i \in DOMAIN found |-> found[i]]
    BY <2>1
  <2>4. [i \in DOMAIN found |-> found[i]] = found
    BY <2>2
  <2>5. [i \in DOMAIN h |-> h[i].match] = found
    BY <2>3, <2>4
  <2> QED
    BY <1>3, <2>5 DEF found, h
<1> QED
  BY <1>2, <1>3

LEMMA DoneIs ==
  ASSUME SearchInv, result.contentState = "done", ~result.capped, ~result.error
  PROVE  /\ scan.on /\ ~scan.error /\ result.contents = scan.hits /\ Busy(scan) = {}
         /\ scan.cursor = Len(scan.targets) + 1 /\ result.scanned = result.total
<1>1. scan.on
  BY DEF SearchInv, ResultOK, Idle
<1>2. Returned(scan)
  BY <1>1 DEF SearchInv, ResultOK, Shows
<1>3. result = Published(scan, "done")
  BY <1>1, <1>2 DEF SearchInv, ResultOK, Shows
<1>4. /\ ~scan.capped /\ ~scan.error /\ result.scanned = scan.scanned /\ result.total = Len(scan.targets)
      /\ result.contents = SubSeq(scan.hits, 1, Min({MAX_CONTENT_MATCHES, Len(scan.hits)}))
  BY <1>3 DEF Published
<1>5. /\ scan.hits \in Seq(AllHits) /\ Len(scan.hits) < MAX_CONTENT_MATCHES
      /\ scan.targets \in Seq(FileRows) /\ scan.cursor \in Nat /\ scan.scanned \in Nat
  BY <1>4 DEF SearchInv, ScanOK, Scans, OfOneQuery
<1>6. result.contents = scan.hits
  <2>1. Len(scan.hits) \in Nat /\ MAX_CONTENT_MATCHES \in Nat
    BY <1>5, SearchAssumption
  <2>2. Min({MAX_CONTENT_MATCHES, Len(scan.hits)}) = Len(scan.hits)
    <3> DEFINE a == MAX_CONTENT_MATCHES
               b == Len(scan.hits)
    <3>1. a \in Nat /\ b \in Nat /\ b < a
      BY <1>5, <2>1
    <3> HIDE DEF a, b
    <3>2. Min({a, b}) \in {a, b} /\ Min({a, b}) <= b
      BY <3>1, MaxOfTwo
    <3>3. Min({a, b}) = b
      BY <3>1, <3>2
    <3> QED
      BY <3>3 DEF a, b
  <2> QED
    BY <1>4, <1>5, <2>2, SubSeqFull
<1>7. Busy(scan) = {}
  BY <1>2 DEF Returned, Busy
<1>8. scan.cursor = Len(scan.targets) + 1
  <2>1. 1 \in Worker
    BY SearchAssumption DEF Worker
  <2>2. scan.cursor > Len(scan.targets) /\ scan.cursor <= Len(scan.targets) + 1
    BY <1>4, <1>7, <2>1 DEF SearchInv, ScanOK, InOrder
  <2> QED
    BY <1>5, <2>2
<1>9. scan.scanned = Len(scan.targets)
  <2>1. scan.scanned + Cardinality({}) + 1 = scan.cursor /\ Cardinality({}) = 0
    BY <1>7, FS_EmptySet DEF SearchInv, ScanOK, InOrder
  <2> QED
    BY <1>5, <1>8, <2>1
<1> QED
  BY <1>1, <1>4, <1>6, <1>7, <1>8, <1>9

LEMMA NothingMissed ==
  ASSUME SearchInv
  PROVE  NothingIsMissed
<1>1. ASSUME result.contentState = "searching" PROVE ~Returned(scan)
  <2>1. CASE scan.on
    BY <1>1, <2>1, PublishedIs DEF SearchInv, ResultOK, Shows, ScanOK
  <2>2. CASE ~scan.on
    BY <1>1, <2>2 DEF SearchInv, ResultOK, Idle
  <2> QED
    BY <2>1, <2>2
<1>2. ASSUME result.contentState = "done", ~result.capped, ~result.error, NEW n \in ToSet(scan.targets),
             NEW x \in files, x.id = n.id
      PROVE  \E v \in n.ver..Len(Contents[n.id]) : v <= x.ver /\ Listing(n.id, Contents[n.id][v])
  <2>1. /\ scan.on /\ ~scan.error /\ result.contents = scan.hits /\ Busy(scan) = {}
        /\ scan.cursor = Len(scan.targets) + 1
    BY <1>2, DoneIs
  <2>2. scan.targets \in Seq(FileRows) /\ scan.hits \in Seq(AllHits) /\ scan.query \in Seq(Char)
    BY DEF SearchInv, ScanOK, Scans
  <2>3. PICK k \in DOMAIN scan.targets : n = scan.targets[k]
    BY DEF ToSet
  <2>4. Recorded(files, scan, n)
    <3>1. k < scan.cursor /\ ~Pending(scan, n)
      BY <2>1, <2>2, <2>3 DEF Pending
    <3> QED
      BY <2>1, <2>3, <3>1 DEF SearchInv, ScanOK, Accounted
  <2>5. n.id \in FileIds /\ n.ver \in Nat
    BY <2>3, FileOf DEF SearchInv, ScanOK, FetchedOK, Past, FileRows
  <2>6. PICK text \in Seq(Char) :
          Genuine(files, n.id, n.ver, text) /\ OfFile(scan.hits, n.id) = Hits(scan, n, text)
    BY <1>2, <2>4 DEF Recorded
  <2>7. PICK v \in DOMAIN Contents[n.id] :
          n.ver <= v /\ text = Contents[n.id][v] /\ \A y \in files : y.id = n.id => v <= y.ver
    BY <2>6 DEF Genuine
  <2>8. v \in n.ver..Len(Contents[n.id])
    <3>1. Contents[n.id] \in Seq(Seq(Char))
      BY <2>5, SearchAssumption DEF FileIds
    <3> QED
      BY <2>5, <2>7, <3>1
  <2>9. LinesOf(n.id) = Hits(scan, n, text)
    <3>1. LinesOf(n.id) = Among(scan.hits, {hit \in ToSet(scan.hits) : hit.node.id = n.id})
      BY <2>1 DEF LinesOf
    <3> DEFINE S == {hit \in ToSet(scan.hits) : hit.node.id = n.id}
               U == {h \in AllHits : h.node.id = n.id}
    <3>2. ToSet(scan.hits) \subseteq AllHits
      BY <2>2, ElementsOf DEF ToSet
    <3>3. ToSet(scan.hits) \cap S = ToSet(scan.hits) \cap U
      BY <3>2
    <3> HIDE DEF S, U
    <3>4. Among(scan.hits, S) = Among(scan.hits, U)
      BY <2>2, <3>3, AmongSame
    <3> QED
      BY <2>6, <3>1, <3>4 DEF OfFile, S, U
  <2>10. Listing(n.id, text)
    BY <2>2, <2>9, MatchesOf DEF Listing
  <2> QED
    BY <1>2, <2>7, <2>8, <2>10
<1> QED
  BY <1>1, <1>2, DoneIs DEF NothingIsMissed

(* A search that says it goes on has a read to wait for, and one that says   *)
(* it is done, with no limit met and no error, has read every file it meant *)
(* to and lists the lines of a text the file has had since the fetch.       *)
THEOREM SearchMissesNothing == Spec => []NothingIsMissed
BY Invariance, NothingMissed, PTL

-----------------------------------------------------------------------------
(* The rows, and the marked one.                                            *)

(* The marked row.  What the rows are made of are sequences, of whatever.    *)
IsSeq(s) == \E R : s \in Seq(R)
RowsInv == IsSeq(names) /\ IsSeq(recentIds) /\ selected \in Nat

LEMMA MadeOf ==
  ASSUME NEW n \in Nat, NEW f, f = [i \in 1..n |-> f[i]]
  PROVE  IsSeq(f) /\ Len(f) = n /\ DOMAIN f = 1..n
<1> DEFINE R == {f[i] : i \in 1..n}
<1>1. f \in [1..n -> R]
  <2> SUFFICES [i \in 1..n |-> f[i]] \in [1..n -> R]
    OBVIOUS
  <2> QED
    OBVIOUS
<1> HIDE DEF R
<1>2. f \in Seq(R) /\ Len(f) = n /\ DOMAIN f = 1..n
  BY <1>1
<1> QED
  BY <1>2 DEF IsSeq

LEMMA LengthOf ==
  ASSUME NEW s, IsSeq(s)
  PROVE  Len(s) \in Nat /\ DOMAIN s = 1..Len(s)
<1>1. PICK R : s \in Seq(R)
  BY DEF IsSeq
<1> QED
  BY <1>1

LEMMA Appends ==
  ASSUME NEW s, IsSeq(s), NEW t, IsSeq(t)
  PROVE  /\ IsSeq(s \o t) /\ Len(s \o t) = Len(s) + Len(t)
         /\ \A i \in 1..Len(s) : (s \o t)[i] = s[i]
         /\ \A i \in 1..Len(t) : (s \o t)[Len(s) + i] = t[i]
<1>1. PICK R : s \in Seq(R)
  BY DEF IsSeq
<1>2. PICK T : t \in Seq(T)
  BY DEF IsSeq
<1> DEFINE U == R \cup T
<1>3. s \in Seq(U) /\ t \in Seq(U)
  BY <1>1, <1>2
<1> HIDE DEF U
<1>4. s \o t \in Seq(U)
  BY <1>3
<1> QED
  BY <1>3, <1>4 DEF IsSeq

LEMMA PartsAre ==
  ASSUME NEW hits, IsSeq(hits), NEW res, IsSeq(res.contents), IsSeq(recentIds), NEW t
  PROVE  /\ IsSeq(Recent(t)) /\ IsSeq(NameRows(hits)) /\ IsSeq(LineRows(res))
         /\ Len(LineRows(res)) = Len(res.contents)
         /\ \A i \in 1..Len(res.contents) : LineRows(res)[i] = LineRow(res.contents[i])
<1>1. IsSeq(Recent(t))
  <2> DEFINE nodes == flattenTree(t)
             here == Among(recentIds, {nodes[i].id : i \in DOMAIN nodes})
             r == [i \in DOMAIN here |-> FileRow(here[i])]
  <2>1. Recent(t) = r
    BY DEF Recent
  <2>2. IsSeq(here)
    <3>1. PICK R : recentIds \in Seq(R)
      BY DEF IsSeq
    <3>2. here \in Seq(R)
      BY <3>1, AmongIs
    <3> QED
      BY <3>2 DEF IsSeq
  <2> HIDE DEF here
  <2>3. Len(here) \in Nat /\ DOMAIN here = 1..Len(here)
    BY <2>2, LengthOf
  <2>4. r = [i \in 1..Len(here) |-> r[i]]
    BY <2>3
  <2> HIDE DEF r
  <2>5. IsSeq(r)
    BY <2>3, <2>4, MadeOf
  <2> QED
    BY <2>1, <2>5
<1>2. IsSeq(NameRows(hits))
  <2> DEFINE n == Min({MAX_FILE_ROWS, Len(hits)})
             r == [i \in 1..n |-> FileRow(hits[i].node.id)]
  <2>1. NameRows(hits) = r
    BY DEF NameRows
  <2>2. n \in Nat
    <3> DEFINE a == MAX_FILE_ROWS
               b == Len(hits)
    <3>1. a \in Nat /\ b \in Nat
      BY LengthOf, SearchAssumption
    <3> HIDE DEF a, b
    <3>2. Min({a, b}) \in {a, b}
      BY <3>1, MaxOfTwo
    <3>3. Min({a, b}) \in Nat
      BY <3>1, <3>2
    <3> QED
      BY <3>3 DEF a, b
  <2> HIDE DEF n
  <2>3. r = [i \in 1..n |-> r[i]]
    OBVIOUS
  <2> HIDE DEF r
  <2> QED
    BY <2>1, <2>2, <2>3, MadeOf
<1>3. /\ IsSeq(LineRows(res)) /\ Len(LineRows(res)) = Len(res.contents)
      /\ \A i \in 1..Len(res.contents) : LineRows(res)[i] = LineRow(res.contents[i])
  <2> DEFINE c == res.contents
             r == [i \in DOMAIN c |-> LineRow(c[i])]
  <2>1. LineRows(res) = r
    BY DEF LineRows
  <2>2. Len(c) \in Nat /\ DOMAIN c = 1..Len(c)
    BY LengthOf
  <2> HIDE DEF c
  <2>3. r = [i \in 1..Len(c) |-> r[i]] /\ \A i \in 1..Len(c) : r[i] = LineRow(c[i])
    BY <2>2
  <2> HIDE DEF r
  <2>4. IsSeq(r) /\ Len(r) = Len(c)
    BY <2>2, <2>3, MadeOf
  <2> QED
    BY <2>1, <2>3, <2>4 DEF c
<1> QED
  BY <1>1, <1>2, <1>3

LEMMA RowsAre ==
  ASSUME NEW hits, IsSeq(hits), NEW res, IsSeq(res.contents), IsSeq(recentIds), NEW t, NEW q
  PROVE  IsSeq(rowsOf(t, q, hits, res)) /\ Len(rowsOf(t, q, hits, res)) \in Nat
<1>1. IsSeq(Recent(t)) /\ IsSeq(NameRows(hits)) /\ IsSeq(LineRows(res))
  BY PartsAre
<1>2. IsSeq(NameRows(hits) \o LineRows(res))
  BY <1>1, Appends
<1>3. IsSeq(rowsOf(t, q, hits, res))
  BY <1>1, <1>2 DEF rowsOf
<1> QED
  BY <1>3, LengthOf

LEMMA NamesAre ==
  ASSUME NEW R, NEW nodes \in Seq(R), NEW text
  PROVE  IsSeq(searchNames(nodes, text))
<1> DEFINE s == searchNames(nodes, text)
<1>1. \E S : IsFiniteSet(S) /\ s = [k \in 1..Cardinality(S) |-> s[k]]
  <2> DEFINE Hit(i) == [at |-> i, node |-> nodes[i], match |-> matchPath(Text(nodes[i].path), text)]
             hits == {Hit(i) : i \in DOMAIN nodes}
             found == {h \in hits : h.match # NoMatch}
             before(g, h) == Better(g, h) \/ (~Better(h, g) /\ g.at < h.at)
             rank(h) == Cardinality({g \in found : before(g, h)})
             r == [k \in 1..Cardinality(found) |-> CHOOSE h \in found : rank(h) = k - 1]
             f == [i \in DOMAIN nodes |-> Hit(i)]
  <2>1. s = r
    BY DEF searchNames
  <2>2. r = [k \in 1..Cardinality(found) |-> r[k]]
    <3> HIDE DEF found, rank
    <3> QED
      OBVIOUS
  <2>3. IsFiniteSet(found)
    <3> HIDE DEF Hit
    <3>1. DOMAIN nodes = 1..Len(nodes) /\ Len(nodes) \in Nat
      OBVIOUS
    <3>2. IsFiniteSet(DOMAIN nodes)
      BY <3>1, FS_Interval
    <3>3. f \in Surjection(DOMAIN nodes, hits)
      BY DEF Surjection
    <3>4. IsFiniteSet(hits)
      BY <3>2, <3>3, FS_Surjection
    <3> QED
      BY <3>4, FS_Subset
  <2> HIDE DEF r, found, s
  <2> QED
    BY <2>1, <2>2, <2>3
<1>2. PICK S : IsFiniteSet(S) /\ s = [k \in 1..Cardinality(S) |-> s[k]]
  BY <1>1
<1> HIDE DEF s
<1>3. Cardinality(S) \in Nat
  BY <1>2, FS_CardinalityType
<1>4. IsSeq(s)
  BY <1>2, <1>3, MadeOf
<1> QED
  BY <1>4 DEF s

LEMMA ContentsAre ==
  ASSUME NEW F, NEW s, ScanOK(F, s), NEW res, NEW text, NEW mode, ResultOK(s, res, text, mode)
  PROVE  IsSeq(res.contents)
<1>1. CASE s.on
  <2>1. s \in Scans /\ s.hits \in Seq(AllHits) /\ Shows(s, res)
    BY <1>1 DEF ScanOK, Scans, ResultOK
  <2>2. PICK k \in 0..Len(s.hits) :
          k <= MAX_CONTENT_MATCHES /\ res.contents = SubSeq(s.hits, 1, k)
    BY <2>1, PublishedIs DEF Shows
  <2>3. res.contents \in Seq(AllHits)
    BY <2>1, <2>2
  <2> QED
    BY <2>3 DEF IsSeq
<1>2. CASE ~s.on
  <2>1. res.contents = << >> /\ << >> \in Seq({})
    BY <1>2 DEF ResultOK, Idle
  <2> QED
    BY <2>1 DEF IsSeq
<1> QED
  BY <1>1, <1>2

LEMMA AtLeastZero ==
  ASSUME NEW n \in Nat
  PROVE  Max({0, n - 1}) \in Nat
<1>1. CASE n = 0
  <2> DEFINE S == {0, -1}
  <2>1. \E x \in S : \A y \in S : x >= y
    <3>1. \A y \in S : 0 >= y
      OBVIOUS
    <3> QED
      BY <3>1
  <2>2. Max(S) \in S /\ \A y \in S : Max(S) >= y
    <3> HIDE DEF S
    <3>1. Max(S) = CHOOSE x \in S : \A y \in S : x >= y
      BY DEF Max
    <3> QED
      BY <2>1, <3>1
  <2>3. {0, n - 1} = S
    BY <1>1
  <2>4. Max(S) \in Nat
    BY <2>2
  <2> HIDE DEF S
  <2> QED
    BY <2>3, <2>4
<1>2. CASE n # 0
  <2> DEFINE m == n - 1
  <2>1. m \in Nat
    BY <1>2
  <2> HIDE DEF m
  <2>2. Max({0, m}) \in {0, m}
    BY <2>1, MaxOfTwo
  <2> QED
    BY <2>1, <2>2 DEF m
<1> QED
  BY <1>1, <1>2

LEMMA SelectsNat ==
  ASSUME RowsInv, SearchInv', IsSeq(names'), Selects(selected)
  PROVE  selected' \in Nat
<1> DEFINE now == Len(rowsOf(tree', query', names', result'))
           aimed == IF trim(query') # trim(query) THEN 0 ELSE selected
<1>1. selected' = IF now # Len(rows) /\ aimed >= now THEN Max({0, now - 1}) ELSE aimed
  BY DEF Selects
<1>2. IsSeq(result'.contents)
  <2>1. ScanOK(files', scan') /\ ResultOK(scan', result', debounced', palette')
    BY DEF SearchInv
  <2> QED
    BY <2>1, ContentsAre
<1>3. now \in Nat
  BY <1>2, RowsAre DEF RowsInv
<1>4. aimed \in Nat
  BY DEF RowsInv
<1> HIDE DEF now, aimed
<1> QED
  BY <1>1, <1>3, <1>4, AtLeastZero

LEMMA Nothing == IsSeq(<< >>)
<1>1. << >> \in Seq({})
  OBVIOUS
<1> QED
  BY <1>1 DEF IsSeq

LEMMA CommitRows ==
  ASSUME RowsInv, SearchInv', Commit
  PROVE  RowsInv'
<1>1. recentIds' = recentIds /\ Selects(selected)
  BY DEF Commit
<1>2. IsSeq(names')
  <2>1. names' \in {names, searchNames(flattenTree(tree'), trim(query'))}
    BY DEF Commit
  <2>2. flattenTree(tree') \in Seq(FileRows)
    BY DEF SearchInv, FetchedOK
  <2>3. IsSeq(searchNames(flattenTree(tree'), trim(query')))
    BY <2>2, NamesAre
  <2> QED
    BY <2>1, <2>3 DEF RowsInv
<1>3. selected' \in Nat
  BY <1>1, <1>2, SelectsNat
<1> QED
  BY <1>1, <1>2, <1>3 DEF RowsInv

LEMMA RecallIs ==
  ASSUME NEW ids, IsSeq(ids), NEW id
  PROVE  IsSeq(recall(ids, id))
<1>1. PICK R : ids \in Seq(R)
  BY DEF IsSeq
<1> DEFINE rest == Among(ids, ToSet(ids) \ {id})
           longer == <<id>> \o rest
           n == IF Len(longer) < MAX_RECENT THEN Len(longer) ELSE MAX_RECENT
<1>2. rest \in Seq(R)
  BY <1>1, AmongIs
<1> HIDE DEF rest
<1> DEFINE U == R \cup {id}
<1>3. rest \in Seq(U) /\ <<id>> \in Seq(U)
  BY <1>2
<1> HIDE DEF U
<1>4. longer \in Seq(U) /\ Len(longer) \in Nat
  BY <1>3
<1>5. recall(ids, id) = SubSeq(longer, 1, n)
  BY DEF recall, rest
<1> HIDE DEF longer
<1>6. n \in Nat /\ n <= Len(longer)
  BY <1>4, OpenFilesAssumption
<1> HIDE DEF n
<1>7. SubSeq(longer, 1, n) \in Seq(U)
  BY <1>4, <1>6
<1> QED
  BY <1>5, <1>7 DEF IsSeq

LEMMA RowsInit == Init => RowsInv
  BY Nothing DEF Init, RowsInv

LEMMA RowsNext ==
  ASSUME SearchInv, SearchInv', RowsInv, [Next]_vars
  PROVE  RowsInv'
<1>1. CASE UNCHANGED vars
  BY <1>1 DEF vars, RowsInv
<1>2. ASSUME NEW mode \in {"all", "files"}, Open(mode) \/ SwitchMode(mode) PROVE RowsInv'
  <2>1. CASE Open(mode)
    BY <2>1 DEF Open, RowsInv
  <2>2. CASE SwitchMode(mode)
    BY <2>2, CommitRows DEF SwitchMode
  <2> QED
    BY <1>2, <2>1, <2>2
<1>3. CASE Dismiss \/ Choose
  <2>1. selected' = 0 /\ names' = << >>
    BY <1>3 DEF Dismiss, Choose, Closes
  <2>2. recentIds' = recentIds \/ \E id : recentIds' = recall(recentIds, id)
    BY <1>3 DEF Dismiss, Choose
  <2>3. IsSeq(recentIds')
    BY <2>2, RecallIs DEF RowsInv
  <2> QED
    BY <2>1, <2>3, Nothing DEF RowsInv
<1>4. CASE Types \/ Deletes \/ Escapes \/ DebounceFires \/ Fetched
  <2>1. Commit
    BY <1>4 DEF Types, Deletes, Escapes, Typed, DebounceFires, Fetched
  <2> QED
    BY <2>1, CommitRows
<1>5. CASE Moves
  <2> DEFINE n == Len(rows)
  <2>1. /\ rows # << >> /\ names' = names /\ recentIds' = recentIds
        /\ selected' \in {(selected + 1) % n, (selected - 1 + n) % n, 0, n - 1} \cup 0..(n - 1)
    BY <1>5 DEF Moves
  <2>2. IsSeq(result.contents)
    BY ContentsAre DEF SearchInv
  <2>3. IsSeq(rows)
    BY <2>2, RowsAre DEF RowsInv, rows
  <2>4. n \in Nat /\ n # 0
    <3>1. PICK R : rows \in Seq(R)
      BY <2>3 DEF IsSeq
    <3> QED
      BY <2>1, <3>1
  <2> HIDE DEF n
  <2>5. selected \in Nat
    BY DEF RowsInv
  <2>6. (selected + 1) % n \in Nat /\ (selected - 1 + n) % n \in Nat /\ n - 1 \in Nat
    BY <2>4, <2>5
  <2> QED
    BY <2>1, <2>6 DEF RowsInv
<1>6. CASE Reads
  <2>1. names' = names /\ recentIds' = recentIds /\ Selects(selected)
    BY <1>6 DEF Reads, FromCache, Answered, Failed, Resumes
  <2> QED
    BY <2>1, SelectsNat DEF RowsInv
<1>7. CASE StrayAnswered \/ Edited \/ Deleted
  BY <1>7 DEF StrayAnswered, Edited, Deleted, RowsInv
<1> QED
  BY <1>1, <1>2, <1>3, <1>4, <1>5, <1>6, <1>7 DEF Next

LEMMA RowsInvariance == Spec => [](SearchInv /\ RowsInv)
<1>1. SearchInv /\ SearchInv' /\ RowsInv /\ [Next]_vars => RowsInv'
  BY RowsNext
<1> QED
  BY <1>1, RowsInit, Invariance, PTL DEF Spec

(* What has been published stays at the head of what is published next.     *)
LEMMA ContentsGrow ==
  ASSUME SearchInv, Reads
  PROVE  /\ Len(result.contents) <= Len(result'.contents)
         /\ \A i \in 1..Len(result.contents) : result'.contents[i] = result.contents[i]
<1>1. PICK w \in Busy(scan), failed \in BOOLEAN :
        \E text : Answers(scan, w, text, failed) /\ Resumes(w, text, failed)
  BY ReadsAnswer
<1>13. PICK text : Answers(scan, w, text, failed) /\ Resumes(w, text, failed)
  BY <1>1
<1>2. /\ scan' = Scanned(scan, w, text, failed)
      /\ result' \in {result, Published(scan', "done"), Published(scan', "searching")}
  BY <1>13 DEF Resumes
<1>3. ScanOK(files, scan') /\ \E more \in Seq(AllHits) : scan'.hits = scan.hits \o more
  BY <1>13, <1>2, ReadIs DEF SearchInv
<1>4. PICK more \in Seq(AllHits) : scan'.hits = scan.hits \o more
  BY <1>3
<1>5. scan.on
  <2>1. scan # NoScan
    <3>1. NoScan.reading[w] = NoRead
      BY DEF NoScan, Busy
    <3> QED
      BY <3>1 DEF Busy
  <2> QED
    BY <2>1 DEF SearchInv, ResultOK
<1>6. PICK k \in 0..Len(scan.hits) :
        k <= MAX_CONTENT_MATCHES /\ result.contents = SubSeq(scan.hits, 1, k)
  BY <1>5, PublishedPart
<1> DEFINE h == scan.hits
           g == scan'.hits
           c == result.contents
           d == result'.contents
<1>7. h \in Seq(AllHits) /\ g \in Seq(AllHits) /\ scan' \in Scans
  BY <1>3 DEF SearchInv, ScanOK, Scans
<1>8. g = h \o more /\ c = SubSeq(h, 1, k) /\ k \in 0..Len(h)
  BY <1>4, <1>6
<1>9. ASSUME result' # result PROVE d = SubSeq(g, 1, Min({MAX_CONTENT_MATCHES, Len(g)}))
  <2>1. PICK state : result' = Published(scan', state)
    BY <1>2, <1>9
  <2>2. Published(scan', state).contents = SubSeq(g, 1, Min({MAX_CONTENT_MATCHES, Len(g)}))
    BY DEF Published
  <2> QED
    BY <2>1, <2>2
<1> HIDE DEF h, g, c
<1>10. Len(c) = k /\ \A i \in 1..k : c[i] = h[i]
  BY <1>7, <1>8
<1>11. CASE result' = result
  BY <1>11 DEF c
<1>12. CASE result' # result
  <2> DEFINE a == MAX_CONTENT_MATCHES
             b == Len(g)
             m == Min({a, b})
  <2>1. a \in Nat /\ b \in Nat /\ k <= a /\ k <= b /\ Len(h) <= b
    BY <1>6, <1>7, <1>8, SearchAssumption, SMTT(40)
  <2>2. d = SubSeq(g, 1, m)
    BY <1>9, <1>12
  <2> HIDE DEF a, b, d
  <2>3. m \in {a, b} /\ m <= b
    BY <2>1, MaxOfTwo
  <2> HIDE DEF m
  <2>4. m \in 0..Len(g) /\ k <= m
    BY <2>1, <2>3 DEF b
  <2>5. Len(d) = m /\ \A i \in 1..m : d[i] = g[i]
    BY <1>7, <2>2, <2>4
  <2>6. \A i \in 1..k : g[i] = h[i]
    BY <1>7, <1>8
  <2>7. k \in Nat /\ m \in Nat
    BY <1>7, <1>8, <2>1, <2>4
  <2>8. Len(c) <= Len(d) /\ \A i \in 1..Len(c) : d[i] = c[i]
    BY <1>10, <2>4, <2>5, <2>6, <2>7
  <2> QED
    BY <2>8 DEF c, d
<1> QED
  BY <1>11, <1>12

(* While results come in the row that is marked stays the same one.         *)
LEMMA MarkedStays ==
  ASSUME SearchInv, SearchInv', RowsInv, Reads, selected < Len(rows)
  PROVE  rows'[selected' + 1] = rows[selected + 1]
<1>1. /\ tree' = tree /\ query' = query /\ names' = names /\ recentIds' = recentIds
      /\ Selects(selected)
  BY DEF Reads, FromCache, Answered, Failed, Resumes
<1> DEFINE before == NameRows(names)
           old == LineRows(result)
           new == LineRows(result')
<1>2. rows = IF trim(query) = << >> THEN Recent(tree) ELSE before \o old
  BY DEF rows, rowsOf
<1>3. rows' = IF trim(query) = << >> THEN Recent(tree) ELSE before \o new
  BY <1>1 DEF rows, rowsOf, Recent
<1>4. rowsOf(tree', query', names', result') = IF trim(query) = << >> THEN Recent(tree) ELSE before \o new
  BY <1>1 DEF rowsOf
<1>5. IsSeq(result.contents) /\ IsSeq(result'.contents) /\ IsSeq(names) /\ IsSeq(recentIds)
  <2>1. IsSeq(result.contents)
    BY ContentsAre DEF SearchInv
  <2>2. ScanOK(files', scan') /\ ResultOK(scan', result', debounced', palette')
    BY DEF SearchInv
  <2>3. IsSeq(result'.contents)
    BY <2>2, ContentsAre
  <2> QED
    BY <2>1, <2>3 DEF RowsInv
<1>6. selected \in Nat
  BY DEF RowsInv
<1>7. ASSUME NEW i \in Nat, i < Len(rows) PROVE Len(rows) <= Len(rows') /\ rows'[i + 1] = rows[i + 1]
  <2>1. CASE trim(query) = << >>
    <3>1. IsSeq(rows) /\ Len(rows) \in Nat
      BY <1>2, <1>5, <2>1, PartsAre, LengthOf
    <3> QED
      BY <1>2, <1>3, <2>1, <3>1
  <2>2. CASE trim(query) # << >>
    <3>1. IsSeq(before) /\ IsSeq(old) /\ IsSeq(new)
      BY <1>5, PartsAre
    <3>2. /\ Len(old) = Len(result.contents) /\ Len(new) = Len(result'.contents)
          /\ \A j \in 1..Len(result.contents) : old[j] = LineRow(result.contents[j])
          /\ \A j \in 1..Len(result'.contents) : new[j] = LineRow(result'.contents[j])
      BY <1>5, PartsAre
    <3>3. /\ Len(result.contents) <= Len(result'.contents)
          /\ \A j \in 1..Len(result.contents) : result'.contents[j] = result.contents[j]
      BY ContentsGrow
    <3>4. rows = before \o old /\ rows' = before \o new
      BY <1>2, <1>3, <2>2
    <3> HIDE DEF before, old, new
    <3>5. Len(before) \in Nat /\ Len(old) \in Nat /\ Len(new) \in Nat
      BY <3>1, LengthOf
    <3>6. Len(old) <= Len(new) /\ \A j \in 1..Len(old) : new[j] = old[j]
      BY <3>2, <3>3, <3>5
    <3> DEFINE p == before \o old
               q == before \o new
    <3>7. /\ Len(p) = Len(before) + Len(old)
          /\ \A j \in 1..Len(before) : p[j] = before[j]
          /\ \A j \in 1..Len(old) : p[Len(before) + j] = old[j]
      BY <3>1, Appends
    <3>8. /\ Len(q) = Len(before) + Len(new)
          /\ \A j \in 1..Len(before) : q[j] = before[j]
          /\ \A j \in 1..Len(new) : q[Len(before) + j] = new[j]
      BY <3>1, Appends
    <3>9. rows = p /\ rows' = q
      BY <3>4
    <3> HIDE DEF p, q
    <3>10. i < Len(p)
      BY <1>7, <3>9
    <3>11. q[i + 1] = p[i + 1]
      <4>1. CASE i + 1 <= Len(before)
        BY <3>5, <3>7, <3>8, <4>1
      <4>2. CASE i + 1 > Len(before)
        <5> DEFINE j == i + 1 - Len(before)
        <5>1. j \in 1..Len(old) /\ j \in 1..Len(new) /\ i + 1 = Len(before) + j
          BY <3>5, <3>6, <3>7, <3>10, <4>2
        <5> HIDE DEF j
        <5> QED
          BY <3>6, <3>7, <3>8, <5>1
      <4> QED
        BY <3>5, <4>1, <4>2
    <3> QED
      BY <3>5, <3>6, <3>7, <3>8, <3>9, <3>11
  <2> QED
    BY <2>1, <2>2
<1>8. selected' = selected
  <2> DEFINE now == Len(rowsOf(tree', query', names', result'))
  <2>1. now = Len(rows') /\ Len(rows) <= Len(rows')
    BY <1>3, <1>4, <1>6, <1>7
  <2>2. selected' = IF now # Len(rows) /\ selected >= now THEN Max({0, now - 1}) ELSE selected
    BY <1>1 DEF Selects
  <2>3. now \in Nat /\ Len(rows) \in Nat
    BY <1>1, <1>5, RowsAre DEF rows
  <2> HIDE DEF now
  <2>4. ~(selected >= now)
    BY <1>6, <2>1, <2>3
  <2> QED
    BY <2>2, <2>4
<1> QED
  BY <1>6, <1>7, <1>8

(* While results come in, the row that is marked stays the same one.        *)
THEOREM MarkedRowStays == Spec => SelectionStays
<1>1. /\ SearchInv /\ SearchInv' /\ RowsInv
      => (Reads /\ selected < Len(rows) => rows'[selected' + 1] = rows[selected + 1])
  BY MarkedStays
<1> QED
  BY <1>1, RowsInvariance, PTL DEF SelectionStays

LEMMA PaletteIs == Spec => [](palette \in {"closed", "all", "files"})
<1> DEFINE P == palette \in {"closed", "all", "files"}
<1>1. Init => P
  BY DEF Init
<1>2. P /\ [Next]_vars => P'
  BY DEF Next, vars, Open, SwitchMode, Dismiss, Closes, Types, Deletes, Escapes, Typed,
         DebounceFires, Moves, Choose, Reads, FromCache, Answered, Failed, Resumes,
         StrayAnswered, Cancelled, Edited, Deleted, Fetched
<1> QED
  BY <1>1, <1>2, PTL DEF Spec

LEMMA TypesOf ==
  ASSUME SearchInv, RowsInv, palette \in {"closed", "all", "files"}
  PROVE  TypeOK
<1>1. result.contentState \in {"idle", "searching", "done"}
  <2>1. CASE scan.on
    <3>1. Returned(scan) => result.contentState = "done"
      BY <2>1 DEF SearchInv, ResultOK, Shows, Published
    <3>2. ~Returned(scan) => result.contentState = "searching"
      BY <2>1 DEF SearchInv, ResultOK, Shows
    <3> QED
      BY <3>1, <3>2
  <2>2. CASE ~scan.on
    BY <2>2 DEF SearchInv, ResultOK, Idle
  <2> QED
    BY <2>1, <2>2
<1>2. scan.cursor \in 1..(Len(scan.targets) + 1) /\ scan.scanned \in 0..Len(scan.targets)
  <2>1. /\ scan.cursor \in Nat \ {0} /\ scan.cursor <= Len(scan.targets) + 1
        /\ scan.targets \in Seq(FileRows) /\ scan.scanned \in Nat
        /\ scan.scanned + Cardinality(Busy(scan)) + 1 = scan.cursor
    BY DEF SearchInv, ScanOK, InOrder, Scans
  <2>2. Cardinality(Busy(scan)) \in Nat
    <3>1. 1 \in Int /\ CONCURRENCY \in Int
      BY SearchAssumption
    <3>2. IsFiniteSet(Worker)
      BY <3>1, FS_Interval DEF Worker
    <3>3. IsFiniteSet(Busy(scan))
      BY <3>2, FS_Subset DEF Busy
    <3> QED
      BY <3>3, FS_CardinalityType
  <2> QED
    BY <2>1, <2>2
<1>3. \A c \in cache \cup {Key(read.node) : read \in stray} :
        c.id \in FileIds /\ c.ver \in DOMAIN Contents[c.id]
  BY DEF SearchInv, CacheOK, Keys
<1> QED
  BY <1>1, <1>2, <1>3 DEF TypeOK, RowsInv

(* The palette's state has the types its module states: the cursor and the  *)
(* count of read files stay within the targets, and what is cached or asked *)
(* for is a text the project has.                                           *)
THEOREM SearchTypes == Spec => []TypeOK
<1>1. SearchInv /\ RowsInv /\ palette \in {"closed", "all", "files"} => TypeOK
  BY TypesOf
<1> QED
  BY <1>1, RowsInvariance, PaletteIs, PTL

-----------------------------------------------------------------------------
(* A sequence of sequences put together, one after another.                 *)
Runs(F, R, s) ==
  /\ F \in [0..Len(s) -> Seq(R)] /\ F[0] = << >>
  /\ \A i \in 1..Len(s) : F[i] = F[i - 1] \o s[i]

LEMMA FlattenBy ==
  ASSUME NEW R, NEW s \in Seq(Seq(R))
  PROVE  \E F : Runs(F, R, s) /\ FlattenSeq(s) = F[Len(s)]
<1>1. Len(s) \in Nat /\ \A i \in 1..Len(s) : s[i] \in Seq(R)
  OBVIOUS
<1>2. CASE Len(s) = 0
  <2> DEFINE F == [i \in 0..0 |-> << >>]
  <2>1. F \in [0..0 -> Seq(R)] /\ F[0] = << >>
    OBVIOUS
  <2>2. FlattenSeq(s) = << >>
    BY <1>2 DEF FlattenSeq
  <2> HIDE DEF F
  <2> QED
    BY <1>2, <2>1, <2>2 DEF Runs
<1>3. CASE Len(s) # 0
  <2> DEFINE step == [a \in Nat \X Seq(R) |-> IF a[1] + 1 \in 1..Len(s) THEN a[2] \o s[a[1] + 1] ELSE a[2]]
             Is(f) == f = [i \in 1..Len(s) |-> IF i = 1 THEN s[i] ELSE f[i - 1] \o s[i]]
  <2>1. << >> \in Seq(R)
    OBVIOUS
  <2>2. \A i \in Nat, q \in Seq(R) :
          step[<<i, q>>] = IF i + 1 \in 1..Len(s) THEN q \o s[i + 1] ELSE q
    OBVIOUS
  <2>3. \A i \in 1..Len(s), q \in Seq(R) : q \o s[i] \in Seq(R)
    BY <1>1
  <2>4. step \in Steps(Seq(R))
    BY <2>3 DEF Steps
  <2> HIDE DEF step
  <2>5. PICK F : Recurs(F, Seq(R), << >>, step)
    BY <2>1, <2>4, Recursion
  <2>6. F \in [Nat -> Seq(R)] /\ F[0] = << >> /\ \A n \in Nat : F[n + 1] = step[<<n, F[n]>>]
    BY <2>5 DEF Recurs
  <2> DEFINE g == [i \in 1..Len(s) |-> F[i]]
  <2>7. Is(g)
    <3> SUFFICES ASSUME NEW i \in 1..Len(s)
                 PROVE  g[i] = IF i = 1 THEN s[i] ELSE g[i - 1] \o s[i]
      BY DOMAIN g = 1..Len(s)
    <3>1. i - 1 \in Nat /\ (i - 1) + 1 = i
      BY <1>1
    <3>2. F[(i - 1) + 1] = step[<<i - 1, F[i - 1]>>] /\ F[i - 1] \in Seq(R) /\ g[i] = F[i]
      BY <2>6, <3>1
    <3>5. F[i] = F[i - 1] \o s[i] /\ F[i - 1] \in Seq(R) /\ g[i] = F[i]
      BY <2>2, <3>1, <3>2
    <3>3. CASE i = 1
      <4>1. F[i - 1] = << >> /\ s[i] \in Seq(R)
        BY <2>6, <1>1, <3>3
      <4>2. << >> \o s[i] = s[i]
        BY <4>1
      <4> QED
        BY <3>5, <3>3, <4>1, <4>2
    <3>4. CASE i # 1
      <4>1. g[i - 1] = F[i - 1]
        BY <1>1, <3>4
      <4> QED
        BY <3>5, <3>4, <4>1
    <3> QED
      BY <3>3, <3>4
  <2> DEFINE f == CHOOSE f : Is(f)
  <2>8. Is(f)
    <3> HIDE DEF Is, g
    <3> QED
      BY <2>7, Zenon
  <2>9. FlattenSeq(s) = f[Len(s)]
    BY <1>3 DEF FlattenSeq
  <2> HIDE DEF f
  <2> DEFINE T == {i \in Nat : i \in 1..Len(s) => f[i] \in Seq(R)}
             G == [i \in 0..Len(s) |-> IF i = 0 THEN << >> ELSE f[i]]
  <2>14. ASSUME NEW i \in Nat, i + 1 \in 1..Len(s)
         PROVE  f[i + 1] = IF i = 0 THEN s[i + 1] ELSE f[i] \o s[i + 1]
    <3>1. f[i + 1] = IF i + 1 = 1 THEN s[i + 1] ELSE f[(i + 1) - 1] \o s[i + 1]
      BY <2>8, <2>14
    <3>2. (i + 1) - 1 = i /\ (i + 1 = 1 <=> i = 0)
      OBVIOUS
    <3> QED
      BY <3>1, <3>2
  <2>10. 0 \in T
    OBVIOUS
  <2>11. ASSUME NEW i \in Nat, i \in T PROVE i + 1 \in T
    <3> SUFFICES ASSUME i + 1 \in 1..Len(s) PROVE f[i + 1] \in Seq(R)
      OBVIOUS
    <3>2. i # 0 => i \in 1..Len(s)
      BY <1>1
    <3> QED
      BY <2>14, <3>2, <2>3, <2>11, <1>1
  <2> HIDE DEF T
  <2>12. \A i \in Nat : i \in T
    BY <2>10, <2>11, SetInduction
  <2>13. Runs(G, R, s)
    <3>1. G \in [0..Len(s) -> Seq(R)] /\ G[0] = << >>
      BY <1>1, <2>12 DEF T
    <3>2. ASSUME NEW i \in 1..Len(s) PROVE G[i] = G[i - 1] \o s[i]
      <4>1. i - 1 \in Nat /\ (i - 1) + 1 = i /\ (i - 1) \in 0..Len(s) /\ i \in 0..Len(s)
        BY <1>1
      <4>2. f[i] = IF i - 1 = 0 THEN s[i] ELSE f[i - 1] \o s[i]
        BY <2>14, <4>1
      <4>3. G[i] = f[i] /\ G[i - 1] = IF i - 1 = 0 THEN << >> ELSE f[i - 1]
        BY <4>1
      <4>4. << >> \o s[i] = s[i]
        BY <1>1
      <4> HIDE DEF G
      <4> QED
        BY <4>2, <4>3, <4>4
    <3> QED
      BY <3>1, <3>2 DEF Runs
  <2>15. G[Len(s)] = f[Len(s)]
    BY <1>1, <1>3
  <2> HIDE DEF G
  <2> QED
    BY <2>9, <2>13, <2>15
<1> QED
  BY <1>2, <1>3

LEMMA FlattenType ==
  ASSUME NEW R, NEW s \in Seq(Seq(R))
  PROVE  FlattenSeq(s) \in Seq(R)
<1>1. PICK F : Runs(F, R, s) /\ FlattenSeq(s) = F[Len(s)]
  BY FlattenBy
<1>2. Len(s) \in 0..Len(s)
  OBVIOUS
<1> QED
  BY <1>1, <1>2 DEF Runs

LEMMA FlattenNone == FlattenSeq(<< >>) = << >>
  BY DEF FlattenSeq

LEMMA FlattenAppend ==
  ASSUME NEW R, NEW s \in Seq(Seq(R)), NEW x \in Seq(R), NEW t, t = Append(s, x)
  PROVE  FlattenSeq(t) = FlattenSeq(s) \o x
<1>1. PICK F : Runs(F, R, s) /\ FlattenSeq(s) = F[Len(s)]
  BY FlattenBy
<1>2. /\ t \in Seq(Seq(R)) /\ Len(t) = Len(s) + 1 /\ Len(s) \in Nat /\ t[Len(s) + 1] = x
      /\ \A i \in 1..Len(s) : t[i] = s[i]
  OBVIOUS
<1>3. PICK G : Runs(G, R, t) /\ FlattenSeq(t) = G[Len(t)]
  BY <1>2, FlattenBy
<1> DEFINE T == {i \in Nat : i <= Len(s) => G[i] = F[i]}
<1>4. 0 \in T
  BY <1>1, <1>3 DEF Runs
<1>5. ASSUME NEW i \in Nat, i \in T PROVE i + 1 \in T
  <2> SUFFICES ASSUME i + 1 <= Len(s) PROVE G[i + 1] = F[i + 1]
    OBVIOUS
  <2>1. i + 1 \in 1..Len(s) /\ i + 1 \in 1..Len(t) /\ (i + 1) - 1 = i /\ i <= Len(s)
    BY <1>2
  <2>2. F[i + 1] = F[i] \o s[i + 1] /\ G[i + 1] = G[i] \o t[i + 1]
    BY <1>1, <1>3, <2>1 DEF Runs
  <2> QED
    BY <1>2, <1>5, <2>1, <2>2
<1> HIDE DEF T
<1>6. Len(s) \in T
  BY <1>2, <1>4, <1>5, SetInduction
<1>7. G[Len(s)] = F[Len(s)]
  BY <1>2, <1>6 DEF T
<1>8. G[Len(t)] = G[Len(s)] \o t[Len(t)]
  <2>1. Len(t) \in 1..Len(t) /\ Len(t) - 1 = Len(s)
    BY <1>2
  <2> QED
    BY <1>3, <2>1 DEF Runs
<1> QED
  BY <1>1, <1>2, <1>3, <1>7, <1>8

LEMMA FlattenConcat ==
  ASSUME NEW R, NEW s \in Seq(Seq(R)), NEW t \in Seq(Seq(R))
  PROVE  FlattenSeq(s \o t) = FlattenSeq(s) \o FlattenSeq(t)
<1> DEFINE T == {u \in Seq(Seq(R)) : FlattenSeq(s \o u) = FlattenSeq(s) \o FlattenSeq(u)}
<1>1. << >> \in T
  <2>1. s \o << >> = s /\ FlattenSeq(s) \in Seq(R)
    BY FlattenType
  <2>2. FlattenSeq(s) \o << >> = FlattenSeq(s)
    BY <2>1
  <2> QED
    BY <2>1, <2>2, FlattenNone
<1>2. ASSUME NEW u \in Seq(Seq(R)), NEW x \in Seq(R), u \in T PROVE Append(u, x) \in T
  <2> DEFINE v == Append(u, x)
             w == s \o u
  <2>1. v \in Seq(Seq(R)) /\ w \in Seq(Seq(R)) /\ s \o v = Append(w, x)
    OBVIOUS
  <2> HIDE DEF w
  <2>2. FlattenSeq(s \o v) = FlattenSeq(w) \o x /\ FlattenSeq(v) = FlattenSeq(u) \o x
    BY <2>1, FlattenAppend
  <2>3. FlattenSeq(w) = FlattenSeq(s) \o FlattenSeq(u)
    BY <1>2 DEF w
  <2> DEFINE a == FlattenSeq(s)
             b == FlattenSeq(u)
  <2>4. a \in Seq(R) /\ b \in Seq(R)
    BY FlattenType
  <2> HIDE DEF a, b, v
  <2>5. (a \o b) \o x = a \o (b \o x)
    BY <2>4, ConcatAssociative, SMTT(40)
  <2>6. FlattenSeq(s \o v) = FlattenSeq(s) \o FlattenSeq(v)
    BY <2>2, <2>3, <2>5 DEF a, b
  <2> QED
    BY <2>1, <2>6 DEF v
<1> HIDE DEF T
<1>3. t \in T
  BY <1>1, <1>2, SeqInduction
<1> QED
  BY <1>3 DEF T

LEMMA FlattenOne ==
  ASSUME NEW R, NEW x \in Seq(R), NEW s, s = <<x>>
  PROVE  FlattenSeq(s) = x
<1> DEFINE e == << >>
<1>1. e \in Seq(Seq(R)) /\ s = Append(e, x) /\ e = << >>
  OBVIOUS
<1> HIDE DEF e
<1>2. FlattenSeq(s) = FlattenSeq(e) \o x
  BY <1>1, FlattenAppend
<1>3. << >> \o x = x
  OBVIOUS
<1> QED
  BY <1>1, <1>2, <1>3, FlattenNone

LEMMA LowerNone == toLowerCase(<< >>) = << >>
<1> DEFINE m == [i \in DOMAIN << >> |-> Lower[<< >>[i]]]
<1>1. m = << >>
  OBVIOUS
<1> QED
  BY <1>1, FlattenNone DEF toLowerCase

LEMMA LowerAppend ==
  ASSUME NEW s \in Seq(Char), NEW c \in Char, NEW t, t = Append(s, c)
  PROVE  toLowerCase(t) = toLowerCase(s) \o Lower[c]
<1> DEFINE m == [i \in DOMAIN s |-> Lower[s[i]]]
           n == [i \in DOMAIN t |-> Lower[t[i]]]
<1>1. /\ DOMAIN t = 1..(Len(s) + 1) /\ DOMAIN s = 1..Len(s) /\ Len(s) \in Nat
      /\ t[Len(s) + 1] = c /\ \A i \in 1..Len(s) : t[i] = s[i]
  BY Appended
<1>2. \A i \in 1..Len(s) : Lower[s[i]] \in Seq(Char)
  BY MatchAssumption
<1>3. Lower[c] \in Seq(Char)
  BY MatchAssumption
<1>4. m \in Seq(Seq(Char)) /\ Len(m) = Len(s)
  BY <1>1, <1>2
<1>5. n = Append(m, Lower[c])
  <2> DEFINE a == Append(m, Lower[c])
  <2>1. n \in Seq(Seq(Char)) /\ Len(n) = Len(s) + 1
    <3>1. \A i \in 1..(Len(s) + 1) : Lower[t[i]] \in Seq(Char)
      BY <1>1, <1>2, <1>3
    <3> QED
      BY <1>1, <3>1
  <2>2. a \in Seq(Seq(Char)) /\ Len(a) = Len(s) + 1
    <3> HIDE DEF m
    <3> QED
      BY <1>3, <1>4
  <2>3. \A i \in 1..(Len(s) + 1) : n[i] = a[i]
    <3> SUFFICES ASSUME NEW i \in 1..(Len(s) + 1) PROVE n[i] = a[i]
      OBVIOUS
    <3>1. CASE i = Len(s) + 1
      <4>1. n[i] = Lower[c]
        BY <1>1, <3>1
      <4> HIDE DEF m, n
      <4>2. a[Len(m) + 1] = Lower[c]
        BY <1>4
      <4> QED
        BY <1>4, <3>1, <4>1, <4>2
    <3>2. CASE i \in 1..Len(s)
      <4>1. n[i] = Lower[s[i]] /\ m[i] = Lower[s[i]]
        BY <1>1, <3>2
      <4> HIDE DEF m, n
      <4>2. a[i] = m[i]
        BY <1>4, <3>2
      <4> QED
        BY <4>1, <4>2
    <3> QED
      BY <1>1, <3>1, <3>2
  <2> HIDE DEF a, n
  <2>4. n = a
    BY <2>1, <2>2, <2>3, SeqEqual
  <2> QED
    BY <2>4 DEF a
<1> HIDE DEF m, n
<1>6. FlattenSeq(n) = FlattenSeq(m) \o Lower[c]
  BY <1>3, <1>4, <1>5, FlattenAppend
<1> QED
  BY <1>6 DEF toLowerCase, m, n

LEMMA LowerOne ==
  ASSUME NEW c \in Char, NEW s, s = <<c>>
  PROVE  toLowerCase(s) = Lower[c]
<1> DEFINE e == << >>
<1>1. e \in Seq(Char) /\ s = Append(e, c) /\ e = << >>
  OBVIOUS
<1> HIDE DEF e
<1>2. toLowerCase(s) = toLowerCase(e) \o Lower[c]
  BY <1>1, LowerAppend
<1>3. << >> \o Lower[c] = Lower[c]
  BY MatchAssumption
<1> QED
  BY <1>1, <1>2, <1>3, LowerNone

LEMMA LowerConcat ==
  ASSUME NEW s \in Seq(Char), NEW t \in Seq(Char)
  PROVE  toLowerCase(s \o t) = toLowerCase(s) \o toLowerCase(t)
<1> DEFINE T == {u \in Seq(Char) : toLowerCase(s \o u) = toLowerCase(s) \o toLowerCase(u)}
<1>1. << >> \in T
  <2>1. s \o << >> = s /\ toLowerCase(s) \in Seq(Char)
    BY LowerIs
  <2>2. toLowerCase(s) \o << >> = toLowerCase(s)
    BY <2>1
  <2> QED
    BY <2>1, <2>2, LowerNone
<1>2. ASSUME NEW u \in Seq(Char), NEW c \in Char, u \in T PROVE Append(u, c) \in T
  <2> DEFINE v == Append(u, c)
             w == s \o u
             a == toLowerCase(s)
             b == toLowerCase(u)
             x == Lower[c]
  <2>1. v \in Seq(Char) /\ w \in Seq(Char) /\ s \o v = Append(w, c)
    OBVIOUS
  <2>4. a \in Seq(Char) /\ b \in Seq(Char) /\ x \in Seq(Char)
    BY LowerIs, MatchAssumption
  <2>7. v = Append(u, c)
    OBVIOUS
  <2> HIDE DEF w, v
  <2>2. toLowerCase(s \o v) = toLowerCase(w) \o x /\ toLowerCase(v) = b \o x
    BY <2>1, <2>7, LowerAppend
  <2>3. toLowerCase(w) = a \o b
    BY <1>2 DEF w
  <2> HIDE DEF a, b, x
  <2>5. (a \o b) \o x = a \o (b \o x)
    BY <2>4, SMTT(40)
  <2>6. toLowerCase(s \o v) = a \o toLowerCase(v)
    BY <2>2, <2>3, <2>5
  <2> QED
    BY <2>1, <2>6 DEF a, v
<1> HIDE DEF T
<1>3. t \in T
  BY <1>1, <1>2, SeqInduction
<1> QED
  BY <1>3 DEF T

LEMMA LowerLong ==
  ASSUME NEW s \in Seq(Char)
  PROVE  Len(toLowerCase(s)) \in Nat /\ Len(s) <= Len(toLowerCase(s))
<1> DEFINE T == {u \in Seq(Char) : Len(u) <= Len(toLowerCase(u))}
<1>1. << >> \in T
  BY LowerNone
<1>2. ASSUME NEW u \in Seq(Char), NEW c \in Char, u \in T PROVE Append(u, c) \in T
  <2> DEFINE v == Append(u, c)
             a == toLowerCase(u)
             x == Lower[c]
  <2>1. v \in Seq(Char) /\ v = Append(u, c) /\ Len(v) = Len(u) + 1
    OBVIOUS
  <2> HIDE DEF v
  <2>2. toLowerCase(v) = a \o x /\ a \in Seq(Char) /\ x \in Seq(Char) /\ x # << >>
    BY <2>1, LowerAppend, LowerIs, MatchAssumption
  <2>3. Len(u) <= Len(a) /\ Len(u) \in Nat
    BY <1>2
  <2> HIDE DEF a, x
  <2>4. Len(a \o x) = Len(a) + Len(x) /\ Len(x) \in Nat \ {0} /\ Len(a) \in Nat
    BY <2>2
  <2>5. Len(v) <= Len(toLowerCase(v))
    BY <2>1, <2>2, <2>3, <2>4
  <2> QED
    BY <2>1, <2>5 DEF v
<1> HIDE DEF T
<1>3. s \in T
  BY <1>1, <1>2, SeqInduction
<1>4. Len(toLowerCase(s)) \in Nat
  BY LowerIs
<1> QED
  BY <1>3, <1>4 DEF T

LEMMA Cut ==
  ASSUME NEW R, NEW s \in Seq(R), NEW a \in 1..(Len(s) + 1), NEW b \in (a - 1)..Len(s)
  PROVE  LET x == SubSeq(s, 1, a - 1)
             y == SubSeq(s, a, b)
             z == SubSeq(s, b + 1, Len(s))
         IN /\ x \in Seq(R) /\ y \in Seq(R) /\ z \in Seq(R)
            /\ Len(x) = a - 1 /\ Len(y) = b - a + 1 /\ Len(z) = Len(s) - b
            /\ s = (x \o y) \o z
<1> DEFINE x == SubSeq(s, 1, a - 1)
           y == SubSeq(s, a, b)
           z == SubSeq(s, b + 1, Len(s))
           n == Len(s)
<1>1. n \in Nat /\ a \in Nat /\ b \in Nat /\ 1 <= a /\ a <= n + 1 /\ a - 1 <= b /\ b <= n
      /\ \A i \in 1..n : s[i] \in R
  OBVIOUS
<1>2. x \in Seq(R) /\ Len(x) = a - 1 /\ \A i \in 1..(a - 1) : x[i] = s[i]
  <2>1. /\ SubSeq(s, 1, a - 1) \in Seq(R)
        /\ Len(SubSeq(s, 1, a - 1)) = IF 1 <= a - 1 THEN (a - 1) - 1 + 1 ELSE 0
        /\ \A i \in 1..((a - 1) - 1 + 1) : SubSeq(s, 1, a - 1)[i] = s[1 + i - 1]
    <3>1. \A i \in 1..(a - 1) : s[i] \in R
      BY <1>1
    <3>2. 1 \in Int /\ a - 1 \in Int
      BY <1>1
    <3> QED
      BY <3>1, <3>2, SubSeqProperties
  <2> QED
    BY <1>1, <2>1
<1>3. y \in Seq(R) /\ Len(y) = b - a + 1 /\ \A i \in 1..(b - a + 1) : y[i] = s[a + i - 1]
  <2>1. \A i \in a..b : s[i] \in R
    BY <1>1
  <2>2. a \in Int /\ b \in Int
    BY <1>1
  <2>3. /\ SubSeq(s, a, b) \in Seq(R) /\ Len(SubSeq(s, a, b)) = IF a <= b THEN b - a + 1 ELSE 0
        /\ \A i \in 1..(b - a + 1) : SubSeq(s, a, b)[i] = s[a + i - 1]
    BY <2>1, <2>2, SubSeqProperties
  <2> QED
    BY <1>1, <2>3
<1>4. z \in Seq(R) /\ Len(z) = n - b /\ \A i \in 1..(n - b) : z[i] = s[b + i]
  <2>1. \A i \in (b + 1)..n : s[i] \in R
    BY <1>1
  <2>2. b + 1 \in Int /\ n \in Int
    BY <1>1
  <2>3. /\ SubSeq(s, b + 1, n) \in Seq(R)
        /\ Len(SubSeq(s, b + 1, n)) = IF b + 1 <= n THEN n - (b + 1) + 1 ELSE 0
        /\ \A i \in 1..(n - (b + 1) + 1) : SubSeq(s, b + 1, n)[i] = s[(b + 1) + i - 1]
    BY <2>1, <2>2, SubSeqProperties
  <2>4. \A i \in 1..(n - b) : i \in 1..(n - (b + 1) + 1) /\ (b + 1) + i - 1 = b + i
    BY <1>1
  <2>5. Len(SubSeq(s, b + 1, n)) = n - b
    BY <1>1, <2>3
  <2> QED
    BY <2>3, <2>4, <2>5
<1>7. s = (x \o y) \o z
  <2> HIDE DEF x, y, z
  <2> DEFINE u == x \o y
  <2>1. u \in Seq(R) /\ Len(u) = b /\ \A i \in 1..b : u[i] = IF i <= a - 1 THEN x[i] ELSE y[i - (a - 1)]
    BY <1>1, <1>2, <1>3
  <2>2. \A i \in 1..b : u[i] = s[i]
    <3> SUFFICES ASSUME NEW i \in 1..b PROVE u[i] = s[i]
      OBVIOUS
    <3>1. CASE i <= a - 1
      BY <2>1, <1>1, <1>2, <3>1
    <3>2. CASE ~(i <= a - 1)
      <4> DEFINE j == i - (a - 1)
      <4>1. j \in 1..(b - a + 1) /\ a + j - 1 = i
        BY <1>1, <3>2
      <4> HIDE DEF u
      <4>2. u[i] = y[j]
        BY <2>1, <3>2
      <4>3. y[j] = s[a + j - 1]
        BY <1>3, <4>1
      <4> QED
        BY <4>1, <4>2, <4>3
    <3> QED
      BY <3>1, <3>2
  <2> HIDE DEF u
  <2> DEFINE w == u \o z
  <2>3. w \in Seq(R) /\ Len(w) = n /\ \A i \in 1..n : w[i] = IF i <= b THEN u[i] ELSE z[i - b]
    BY <1>1, <1>4, <2>1
  <2>4. \A i \in 1..n : w[i] = s[i]
    <3> SUFFICES ASSUME NEW i \in 1..n PROVE w[i] = s[i]
      OBVIOUS
    <3> HIDE DEF w
    <3>1. CASE i <= b
      BY <1>1, <2>2, <2>3, <3>1
    <3>2. CASE ~(i <= b)
      <4>1. i - b \in 1..(n - b) /\ b + (i - b) = i
        BY <1>1, <3>2
      <4> QED
        BY <1>4, <2>3, <3>2, <4>1
    <3> QED
      BY <3>1, <3>2
  <2> HIDE DEF w
  <2>5. w = s
    BY <2>3, <2>4, SeqEqual
  <2> QED
    BY <2>5 DEF w, u
<1> QED
  BY <1>2, <1>3, <1>4, <1>7

LEMMA Middle ==
  ASSUME NEW R, NEW x \in Seq(R), NEW y \in Seq(R), NEW z \in Seq(R), NEW s, s = (x \o y) \o z,
         NEW a, NEW b, a = Len(x) + 1, b = Len(x) + Len(y)
  PROVE  SubSeq(s, a, b) = y /\ Len(s) = Len(x) + Len(y) + Len(z) /\ s \in Seq(R)
<1> DEFINE u == x \o y
           p == Len(x)
           q == Len(y)
           r == SubSeq(s, a, b)
<1>1. p \in Nat /\ q \in Nat /\ Len(z) \in Nat
  OBVIOUS
<1>2. /\ u \in Seq(R) /\ Len(u) = p + q
      /\ \A i \in 1..(p + q) : u[i] = IF i <= p THEN x[i] ELSE y[i - p]
  OBVIOUS
<1> HIDE DEF u
<1>3. /\ s \in Seq(R) /\ Len(s) = p + q + Len(z)
      /\ \A i \in 1..(p + q) : s[i] = u[i]
  <2> DEFINE t == u \o z
             w == p + q
  <2>1. s = t /\ w \in Nat
    BY <1>1 DEF u
  <2>2. u \in Seq(R) /\ Len(u) = w
    BY <1>2
  <2> HIDE DEF w
  <2>4. z \in Seq(R)
    OBVIOUS
  <2>3. t \in Seq(R) /\ Len(t) = w + Len(z) /\ \A i \in 1..w : t[i] = u[i]
    <3>1. t \in Seq(R) /\ Len(t) = Len(u) + Len(z)
      BY <2>2, <2>4, ConcatProperties
    <3>2. \A i \in 1..Len(u) : t[i] = u[i]
      BY <2>2, <2>4
    <3> QED
      BY <2>2, <3>1, <3>2
  <2> HIDE DEF t
  <2> QED
    BY <2>1, <2>3 DEF w
<1>4. a \in Int /\ b \in Int /\ b - a + 1 = q /\ (a <= b <=> q # 0)
  BY <1>1
<1>5. \A i \in a..b : s[i] \in R
  BY <1>1, <1>3
<1>6. r \in Seq(R) /\ Len(r) = q /\ \A i \in 1..q : r[i] = s[a + i - 1]
  <2>1. /\ r \in Seq(R) /\ Len(r) = IF a <= b THEN b - a + 1 ELSE 0
        /\ \A i \in 1..(b - a + 1) : r[i] = s[a + i - 1]
    BY <1>4, <1>5, SubSeqProperties
  <2> QED
    BY <1>1, <1>4, <2>1
<1> HIDE DEF r
<1>7. \A i \in 1..q : r[i] = y[i]
  <2> SUFFICES ASSUME NEW i \in 1..q PROVE r[i] = y[i]
    OBVIOUS
  <2>1. a + i - 1 = p + i /\ p + i \in 1..(p + q) /\ ~(p + i <= p) /\ (p + i) - p = i
    BY <1>1
  <2>2. u[p + i] = y[i]
    BY <1>2, <2>1
  <2> QED
    BY <1>3, <1>6, <2>1, <2>2
<1>8. r = y
  BY <1>6, <1>7, SeqEqual
<1> QED
  BY <1>3, <1>8 DEF r

(* Of a text no longer in lower case, the parts and the characters are not.  *)
LEMMA LowerPart ==
  ASSUME NEW s \in Seq(Char), Len(toLowerCase(s)) = Len(s),
         NEW a \in 1..(Len(s) + 1), NEW b \in (a - 1)..Len(s)
  PROVE  /\ SubSeq(s, a, b) \in Seq(Char) /\ Len(SubSeq(s, a, b)) = b - a + 1
         /\ toLowerCase(SubSeq(s, a, b)) = SubSeq(toLowerCase(s), a, b)
<1> DEFINE x == SubSeq(s, 1, a - 1)
           y == SubSeq(s, a, b)
           z == SubSeq(s, b + 1, Len(s))
           l == toLowerCase(x)
           m == toLowerCase(y)
           n == toLowerCase(z)
<1>1. /\ x \in Seq(Char) /\ y \in Seq(Char) /\ z \in Seq(Char)
      /\ Len(x) = a - 1 /\ Len(y) = b - a + 1 /\ Len(z) = Len(s) - b
      /\ s = (x \o y) \o z
  BY Cut
<1>0. Len(s) \in Nat /\ a \in Nat /\ b \in Nat /\ Len(toLowerCase(s)) = Len(s) /\ a - 1 <= b /\ b <= Len(s)
  OBVIOUS
<1> HIDE DEF x, y, z
<1>2. x \o y \in Seq(Char)
  BY <1>1
<1>3. toLowerCase(s) = (l \o m) \o n
  BY <1>1, <1>2, LowerConcat
<1>4. l \in Seq(Char) /\ m \in Seq(Char) /\ n \in Seq(Char)
  BY <1>1, LowerIs
<1>5. /\ Len(l) \in Nat /\ Len(x) <= Len(l) /\ Len(m) \in Nat /\ Len(y) <= Len(m)
      /\ Len(n) \in Nat /\ Len(z) <= Len(n)
  BY <1>1, LowerLong
<1> HIDE DEF l, m, n
<1>6. Len(toLowerCase(s)) = Len(l) + Len(m) + Len(n)
  BY <1>3, <1>4, Middle
<1>7. Len(l) = a - 1 /\ Len(m) = b - a + 1
  <2> DEFINE p == Len(l)
             q == Len(m)
             r == Len(n)
             e == Len(s)
  <2>1. p \in Nat /\ q \in Nat /\ r \in Nat /\ e \in Nat /\ p + q + r = e
    BY <1>0, <1>5, <1>6
  <2>2. a - 1 <= p /\ b - a + 1 <= q /\ e - b <= r
    BY <1>1, <1>5
  <2> HIDE DEF p, q, r, e
  <2>3. p = a - 1 /\ q = b - a + 1
    BY <1>0, <2>1, <2>2
  <2> QED
    BY <2>3 DEF p, q
<1>8. a = Len(l) + 1 /\ b = Len(l) + Len(m)
  BY <1>0, <1>7
<1>9. SubSeq(toLowerCase(s), a, b) = m
  BY <1>3, <1>4, <1>8, Middle
<1> QED
  BY <1>1, <1>9 DEF m, y

LEMMA OneChar ==
  ASSUME NEW R, NEW s \in Seq(R), NEW i \in 1..Len(s)
  PROVE  SubSeq(s, i, i) = <<s[i]>>
<1> DEFINE y == SubSeq(s, i, i)
<1>1. i \in Int /\ \A j \in i..i : s[j] \in R
  OBVIOUS
<1>2. y \in Seq(R) /\ Len(y) = (IF i <= i THEN i - i + 1 ELSE 0)
      /\ \A j \in 1..(i - i + 1) : y[j] = s[i + j - 1]
  BY <1>1, SubSeqProperties
<1> HIDE DEF y
<1>3. Len(y) = 1 /\ y[1] = s[i]
  BY <1>1, <1>2
<1>4. y = <<s[i]>>
  BY <1>2, <1>3
<1> QED
  BY <1>4 DEF y

LEMMA LowerChar ==
  ASSUME NEW s \in Seq(Char), Len(toLowerCase(s)) = Len(s), NEW i \in 1..Len(s)
  PROVE  Lower[s[i]] = <<toLowerCase(s)[i]>>
<1> DEFINE h == toLowerCase(s)
           y == SubSeq(s, i, i)
<1>1. h \in Seq(Char) /\ Len(h) = Len(s) /\ Len(s) \in Nat
  BY LowerIs
<1>2. i \in 1..(Len(s) + 1) /\ i \in (i - 1)..Len(s) /\ Len(toLowerCase(s)) = Len(s)
  OBVIOUS
<1>3. toLowerCase(y) = SubSeq(h, i, i)
  BY <1>2, LowerPart
<1>4. y = <<s[i]>> /\ s[i] \in Char
  BY OneChar
<1> HIDE DEF h
<1>5. SubSeq(h, i, i) = <<h[i]>>
  BY <1>1, OneChar
<1> HIDE DEF y
<1>6. toLowerCase(y) = Lower[s[i]]
  BY <1>4, LowerOne
<1> QED
  BY <1>3, <1>5, <1>6 DEF h

-----------------------------------------------------------------------------
(* The first place from a position on.                                      *)
Place(s, part, i) == i <= Len(s) - Len(part) + 1 /\ SubSeq(s, i, i + Len(part) - 1) = part

LEMMA IndexFound ==
  ASSUME NEW R, NEW s \in Seq(R), NEW part \in Seq(R), NEW from \in Nat \ {0}
  PROVE  LET k == indexOf(s, part, from) IN
         /\ k \in Nat
         /\ k # 0 => k >= from /\ Place(s, part, k) /\ \A j \in Nat : from <= j /\ j < k => ~Place(s, part, j)
         /\ k = 0 => \A j \in Nat : from <= j => ~Place(s, part, j)
<1> DEFINE places == {i \in from..(Len(s) - Len(part) + 1) : SubSeq(s, i, i + Len(part) - 1) = part}
           k == indexOf(s, part, from)
<1>1. \A i \in Nat : i \in places <=> from <= i /\ Place(s, part, i)
  BY DEF Place
<1>2. places \subseteq Nat /\ 0 \notin places
  OBVIOUS
<1>3. k = IF places = {} THEN 0 ELSE Min(places)
  BY DEF indexOf
<1> HIDE DEF places, k
<1>4. CASE places = {}
  BY <1>1, <1>3, <1>4 DEF k
<1>5. CASE places # {}
  <2>1. k \in places /\ \A y \in places : k <= y
    BY <1>2, <1>3, <1>5, MinIs
  <2>2. k \in Nat /\ k # 0 /\ k >= from /\ Place(s, part, k)
    BY <1>1, <1>2, <2>1
  <2>3. ASSUME NEW j \in Nat, from <= j, j < k PROVE ~Place(s, part, j)
    <3>1. j \notin places
      BY <2>1, <2>2, <2>3
    <3> QED
      BY <1>1, <2>3, <3>1
  <2> QED
    BY <2>2, <2>3 DEF k
<1> QED
  BY <1>4, <1>5

LEMMA CharFound ==
  ASSUME NEW R, NEW s \in Seq(R), NEW c \in R, NEW from \in Nat \ {0}
  PROVE  LET k == indexOf(s, <<c>>, from) IN
         /\ k \in Nat
         /\ k # 0 => k >= from /\ k <= Len(s) /\ s[k] = c /\ \A j \in Nat : from <= j /\ j < k => s[j] # c
         /\ k = 0 => \A j \in Nat : from <= j /\ j <= Len(s) => s[j] # c
<1> DEFINE part == <<c>>
           k == indexOf(s, part, from)
<1>1. part \in Seq(R) /\ Len(part) = 1 /\ Len(s) \in Nat
  OBVIOUS
<1>2. ASSUME NEW i \in Nat, i >= 1 PROVE Place(s, part, i) <=> i <= Len(s) /\ s[i] = c
  <2>1. i <= Len(s) - Len(part) + 1 <=> i <= Len(s)
    BY <1>1
  <2>2. i + Len(part) - 1 = i
    BY <1>1
  <2>3. ASSUME i <= Len(s) PROVE SubSeq(s, i, i) = <<s[i]>>
    <3>1. i \in 1..Len(s)
      BY <1>1, <1>2, <2>3
    <3> QED
      BY <3>1, OneChar
  <2>4. \A x : <<x>> = part <=> x = c
    OBVIOUS
  <2> HIDE DEF part
  <2> QED
    BY <2>1, <2>2, <2>3, <2>4 DEF Place
<1> HIDE DEF part
<1>3. /\ k \in Nat
      /\ k # 0 => k >= from /\ Place(s, part, k) /\ \A j \in Nat : from <= j /\ j < k => ~Place(s, part, j)
      /\ k = 0 => \A j \in Nat : from <= j => ~Place(s, part, j)
  BY <1>1, IndexFound
<1> HIDE DEF k
<1>4. \A j \in Nat : from <= j => j >= 1
  OBVIOUS
<1>5. /\ k \in Nat
      /\ k # 0 => k >= from /\ k <= Len(s) /\ s[k] = c /\ \A j \in Nat : from <= j /\ j < k => (j <= Len(s) => s[j] # c)
      /\ k = 0 => \A j \in Nat : from <= j /\ j <= Len(s) => s[j] # c
  BY <1>2, <1>3, <1>4
<1>6. k # 0 => \A j \in Nat : from <= j /\ j < k => j <= Len(s)
  BY <1>1, <1>5
<1> QED
  BY <1>5, <1>6 DEF k, part

-----------------------------------------------------------------------------
(* A text in pieces.                                                        *)
Part(R) == [text : Seq(R), marked : BOOLEAN]
Marks(parts) == FlattenSeq([i \in DOMAIN parts |-> IF parts[i].marked THEN parts[i].text ELSE << >>])

Each(f, parts) == [i \in DOMAIN parts |-> f[parts[i]]]

LEMMA PartsMap ==
  ASSUME NEW R, NEW a \in Seq(Part(R)), NEW b \in Seq(Part(R)), NEW f \in [Part(R) -> Seq(R)]
  PROVE  /\ FlattenSeq(Each(f, a)) \in Seq(R)
         /\ FlattenSeq(Each(f, a \o b)) = FlattenSeq(Each(f, a)) \o FlattenSeq(Each(f, b))
<1> DEFINE c == a \o b
           x == Each(f, a)
           y == Each(f, b)
           z == Each(f, c)
           m == Len(a)
           n == Len(b)
           w == x \o y
<1>1. m \in Nat /\ n \in Nat /\ DOMAIN a = 1..m /\ DOMAIN b = 1..n
      /\ (\A i \in 1..m : a[i] \in Part(R)) /\ (\A i \in 1..n : b[i] \in Part(R))
  OBVIOUS
<1>2. /\ c \in Seq(Part(R)) /\ Len(c) = m + n /\ DOMAIN c = 1..(m + n)
      /\ \A i \in 1..(m + n) : c[i] = IF i <= m THEN a[i] ELSE b[i - m]
  OBVIOUS
<1>3. x \in Seq(Seq(R)) /\ Len(x) = m /\ \A i \in 1..m : x[i] = f[a[i]]
  BY <1>1 DEF Each
<1>4. y \in Seq(Seq(R)) /\ Len(y) = n /\ \A i \in 1..n : y[i] = f[b[i]]
  BY <1>1 DEF Each
<1>5. \A i \in 1..(m + n) : c[i] \in Part(R)
  BY <1>2
<1>6. z \in Seq(Seq(R)) /\ Len(z) = m + n /\ \A i \in 1..(m + n) : z[i] = f[c[i]]
  BY <1>1, <1>2, <1>5 DEF Each
<1> HIDE DEF m, n, x, y, z, c
<1>7. w \in Seq(Seq(R)) /\ Len(w) = m + n /\ \A i \in 1..(m + n) : w[i] = IF i <= m THEN x[i] ELSE y[i - m]
  <2>1. w \in Seq(Seq(R)) /\ Len(w) = Len(x) + Len(y)
        /\ \A i \in 1..(Len(x) + Len(y)) : w[i] = IF i <= Len(x) THEN x[i] ELSE y[i - Len(x)]
    BY <1>3, <1>4, ConcatProperties, ZenonT(60)
  <2> QED
    BY <1>3, <1>4, <2>1
<1> HIDE DEF w
<1>8. \A i \in 1..(m + n) : z[i] = w[i]
  <2> SUFFICES ASSUME NEW i \in 1..(m + n) PROVE z[i] = w[i]
    OBVIOUS
  <2>1. CASE i <= m
    <3>1. i \in 1..m
      BY <1>1, <2>1
    <3> QED
      BY <1>1, <1>2, <1>3, <1>6, <1>7, <2>1, <3>1
  <2>2. CASE ~(i <= m)
    <3>1. i - m \in 1..n
      BY <1>1, <2>2
    <3> QED
      BY <1>2, <1>4, <1>6, <1>7, <2>2, <3>1, ZenonT(60)
  <2> QED
    BY <2>1, <2>2
<1>9. z = w
  BY <1>6, <1>7, <1>8, SeqEqual
<1>10. FlattenSeq(w) = FlattenSeq(x) \o FlattenSeq(y)
  BY <1>3, <1>4, FlattenConcat DEF w
<1>11. FlattenSeq(x) \in Seq(R)
  BY <1>3, FlattenType
<1> QED
  BY <1>9, <1>10, <1>11 DEF x, y, z, c

LEMMA PartsConcat ==
  ASSUME NEW R, NEW a \in Seq(Part(R)), NEW b \in Seq(Part(R))
  PROVE  /\ Whole(a) \in Seq(R) /\ Marks(a) \in Seq(R)
         /\ Whole(a \o b) = Whole(a) \o Whole(b)
         /\ Marks(a \o b) = Marks(a) \o Marks(b)
<1> DEFINE f == [p \in Part(R) |-> p.text]
           g == [p \in Part(R) |-> IF p.marked THEN p.text ELSE << >>]
           c == a \o b
<1>1. f \in [Part(R) -> Seq(R)] /\ g \in [Part(R) -> Seq(R)]
  <2>1. << >> \in Seq(R) /\ \A p \in Part(R) : p.text \in Seq(R)
    BY DEF Part
  <2> QED
    BY <2>1
<1>2. c \in Seq(Part(R)) /\ c = a \o b
  OBVIOUS
<1>3. ASSUME NEW s \in Seq(Part(R))
      PROVE  /\ Whole(s) = FlattenSeq(Each(f, s))
             /\ Marks(s) = FlattenSeq(Each(g, s))
  <2>1. \A i \in DOMAIN s : s[i] \in Part(R)
    BY <1>3
  <2>2. [i \in DOMAIN s |-> f[s[i]]] = [i \in DOMAIN s |-> s[i].text]
    BY <2>1
  <2>3. [i \in DOMAIN s |-> g[s[i]]] = [i \in DOMAIN s |-> IF s[i].marked THEN s[i].text ELSE << >>]
    BY <2>1
  <2> QED
    BY <2>2, <2>3 DEF Whole, Marks, Each
<1> HIDE DEF f, g, c
<1>6. Whole(c) = Whole(a) \o Whole(b) /\ Marks(c) = Marks(a) \o Marks(b)
      /\ Whole(a) \in Seq(R) /\ Marks(a) \in Seq(R)
  <2>1. /\ FlattenSeq(Each(f, a)) \in Seq(R)
        /\ FlattenSeq(Each(f, c)) = FlattenSeq(Each(f, a)) \o FlattenSeq(Each(f, b))
    BY <1>1, PartsMap DEF c
  <2>2. /\ FlattenSeq(Each(g, a)) \in Seq(R)
        /\ FlattenSeq(Each(g, c)) = FlattenSeq(Each(g, a)) \o FlattenSeq(Each(g, b))
    BY <1>1, PartsMap DEF c
  <2>3. c \in Seq(Part(R))
    BY <1>2
  <2> QED
    BY <1>3, <2>1, <2>2, <2>3
<1> QED
  BY <1>6 DEF c

LEMMA PartsNone == Whole(<< >>) = << >> /\ Marks(<< >>) = << >>
<1> DEFINE e == << >>
<1>1. [i \in DOMAIN e |-> e[i].text] = << >>
      /\ [i \in DOMAIN e |-> IF e[i].marked THEN e[i].text ELSE << >>] = << >>
  OBVIOUS
<1> QED
  BY <1>1, FlattenNone DEF Whole, Marks

LEMMA PieceIs ==
  ASSUME NEW R, NEW x \in Seq(R), NEW m \in BOOLEAN
  PROVE  /\ Piece(x, m) \in Seq(Part(R)) /\ Whole(Piece(x, m)) = x
         /\ Marks(Piece(x, m)) = IF m THEN x ELSE << >>
<1>1. CASE x = << >>
  <2>1. Piece(x, m) = << >>
    BY <1>1 DEF Piece
  <2>2. Piece(x, m) \in Seq(Part(R))
    BY <2>1
  <2> QED
    BY <1>1, <2>1, <2>2, PartsNone
<1>2. CASE x # << >>
  <2> DEFINE p == [text |-> x, marked |-> m]
             s == <<p>>
  <2>1. Piece(x, m) = s /\ p \in Part(R)
    BY <1>2 DEF Piece, Part
  <2>2. [i \in DOMAIN s |-> s[i].text] = <<x>>
    OBVIOUS
  <2>3. [i \in DOMAIN s |-> IF s[i].marked THEN s[i].text ELSE << >>] = <<IF m THEN x ELSE << >>>>
    OBVIOUS
  <2>4. s \in Seq(Part(R))
    BY <2>1
  <2> HIDE DEF s
  <2>5. Whole(s) = x
    BY <2>2, FlattenOne DEF Whole
  <2>6. Marks(s) = IF m THEN x ELSE << >>
    <3> DEFINE y == IF m THEN x ELSE << >>
    <3>1. y \in Seq(R) /\ [i \in DOMAIN s |-> IF s[i].marked THEN s[i].text ELSE << >>] = <<y>>
      BY <2>3
    <3> HIDE DEF y
    <3>2. Marks(s) = y
      BY <3>1, FlattenOne DEF Marks
    <3> QED
      BY <3>2 DEF y
  <2> QED
    BY <2>1, <2>4, <2>5, <2>6
<1> QED
  BY <1>1, <1>2

(* What has been drawn after some ranges.                                   *)
Marking == {r \in [first : Int, last : Int] : r.first <= r.last}
Drawing(R, text) == [cursor : 1..(Len(text) + 1), parts : Seq(Part(R))]
LEMMA DrawnIs ==
  ASSUME NEW R, NEW text \in Seq(R), NEW so \in Drawing(R, text), NEW r \in Marking
  PROVE  /\ Drawn(text, so, r) \in Drawing(R, text)
         /\ Whole(so.parts) = SubSeq(text, 1, so.cursor - 1)
              => Whole(Drawn(text, so, r).parts) = SubSeq(text, 1, Drawn(text, so, r).cursor - 1)
         /\ so.cursor <= r.first /\ r.last <= Len(text)
              => /\ Drawn(text, so, r).cursor = r.last + 1
                 /\ Marks(Drawn(text, so, r).parts) = Marks(so.parts) \o SubSeq(text, r.first, r.last)
<1> DEFINE c == so.cursor
           a == SubSeq(text, c, r.first - 1)
           b == SubSeq(text, r.first, r.last)
           d == Drawn(text, so, r)
<1>1. /\ c \in Nat /\ 1 <= c /\ c <= Len(text) + 1 /\ Len(text) \in Nat /\ so.parts \in Seq(Part(R))
      /\ r.first \in Int /\ r.last \in Int /\ r.first <= r.last
  BY DEF Drawing, Marking
<1>2. CASE r.first < c \/ r.last > Len(text)
  <2>1. d = so
    BY <1>2 DEF Drawn
  <2>2. ~(so.cursor <= r.first /\ r.last <= Len(text))
    BY <1>1, <1>2
  <2> QED
    BY <2>1, <2>2
<1>3. CASE ~(r.first < c \/ r.last > Len(text))
  <2>0. c <= r.first /\ r.last <= Len(text) /\ r.first \in Nat /\ r.last \in Nat
    BY <1>1, <1>3
  <2>1. d = [cursor |-> r.last + 1, parts |-> so.parts \o Piece(a, FALSE) \o Piece(b, TRUE)]
    BY <1>3 DEF Drawn
  <2>2. /\ c \in 1..(Len(text) + 1) /\ r.first - 1 \in (c - 1)..Len(text)
        /\ r.first \in 1..(Len(text) + 1) /\ r.last \in (r.first - 1)..Len(text)
    BY <1>1, <2>0
  <2>3. a \in Seq(R) /\ b \in Seq(R)
    <3>1. a \in Seq(R)
      BY <2>2, Cut
    <3>2. b \in Seq(R)
      BY <2>2, Cut
    <3> QED
      BY <3>1, <3>2
  <2> DEFINE p == Piece(a, FALSE)
             q == Piece(b, TRUE)
             u == so.parts \o p
  <2>4. /\ p \in Seq(Part(R)) /\ Whole(p) = a /\ Marks(p) = << >>
        /\ q \in Seq(Part(R)) /\ Whole(q) = b /\ Marks(q) = b
    <3> HIDE DEF a, b
    <3> QED
      BY <2>3, PieceIs
  <2>15. d = [cursor |-> r.last + 1, parts |-> u \o q]
    BY <2>1
  <2> HIDE DEF d
  <2>5. d.cursor = r.last + 1 /\ d.parts = u \o q
    <3> HIDE DEF u, q
    <3> QED
      BY <2>15
  <2> HIDE DEF p, q
  <2>6. /\ u \in Seq(Part(R)) /\ Whole(u) = Whole(so.parts) \o a /\ Marks(u) = Marks(so.parts) \o << >>
        /\ Marks(so.parts) \in Seq(R)
    <3> HIDE DEF a, b
    <3>1. \A s, v \in Seq(Part(R)) : Whole(s \o v) = Whole(s) \o Whole(v) /\ Marks(s \o v) = Marks(s) \o Marks(v)
      BY PartsConcat
    <3>2. Marks(so.parts) \in Seq(R)
      BY <1>1, PartsConcat
    <3>3. so.parts \o p \in Seq(Part(R))
      BY <1>1, <2>4
    <3> QED
      BY <1>1, <2>4, <3>1, <3>2, <3>3
  <2> HIDE DEF u
  <2>7. /\ u \o q \in Seq(Part(R)) /\ Whole(u \o q) = Whole(u) \o b /\ Marks(u \o q) = Marks(u) \o b
    <3> HIDE DEF a, b
    <3>1. \A s, v \in Seq(Part(R)) : Whole(s \o v) = Whole(s) \o Whole(v) /\ Marks(s \o v) = Marks(s) \o Marks(v)
      BY PartsConcat
    <3>2. u \o q \in Seq(Part(R))
      BY <2>4, <2>6
    <3> QED
      BY <2>4, <2>6, <3>1, <3>2, ZenonT(60)
  <2>8. d \in Drawing(R, text)
    <3>1. r.last + 1 \in 1..(Len(text) + 1)
      BY <1>1, <2>0
    <3> QED
      BY <2>15, <2>7, <3>1 DEF Drawing
  <2>9. Marks(d.parts) = Marks(so.parts) \o b
    <3>1. Marks(so.parts) \o << >> = Marks(so.parts)
      BY <2>6, ConcatEmptySeq
    <3> QED
      BY <2>5, <2>6, <2>7, <3>1
  <2>10. ASSUME Whole(so.parts) = SubSeq(text, 1, c - 1)
         PROVE  Whole(d.parts) = SubSeq(text, 1, d.cursor - 1)
    <3>1. SubSeq(text, 1, c - 1) \o a = SubSeq(text, 1, r.first - 1)
      <4>1. /\ 1 \in 1..(Len(text) + 1) /\ c - 1 \in (1 - 1)..Len(text)
            /\ r.first - 1 \in (c - 1)..Len(text) /\ (c - 1) + 1 = c
        BY <1>1, <2>0
      <4>2. SubSeq(text, 1, c - 1) \o SubSeq(text, (c - 1) + 1, r.first - 1) = SubSeq(text, 1, r.first - 1)
        BY <4>1, ConcatAdjacentSubSeq
      <4> QED
        BY <4>1, <4>2
    <3>2. SubSeq(text, 1, r.first - 1) \o b = SubSeq(text, 1, r.last)
      <4>1. /\ 1 \in 1..(Len(text) + 1) /\ r.first - 1 \in (1 - 1)..Len(text)
            /\ r.last \in (r.first - 1)..Len(text) /\ (r.first - 1) + 1 = r.first
        BY <1>1, <2>0
      <4>2. SubSeq(text, 1, r.first - 1) \o SubSeq(text, (r.first - 1) + 1, r.last) = SubSeq(text, 1, r.last)
        BY <4>1, ConcatAdjacentSubSeq
      <4> QED
        BY <4>1, <4>2
    <3>3. (r.last + 1) - 1 = r.last
      BY <1>1
    <3> QED
      BY <2>5, <2>6, <2>7, <2>10, <3>1, <3>2, <3>3
  <2> QED
    BY <2>5, <2>8, <2>9, <2>10 DEF d
<1> QED
  BY <1>2, <1>3

-----------------------------------------------------------------------------
(* A walk by steps, one for each number.                                    *)
Goes(w, S, a, n, step) ==
  w \in [0..n -> S] /\ w[0] = a /\ \A k \in 1..n : w[k] = step[<<k, w[k - 1]>>]

LEMMA Walks ==
  ASSUME NEW S, NEW a \in S, NEW n \in Nat, NEW step \in [(1..n) \X S -> S]
  PROVE  \E w : Goes(w, S, a, n, step)
<1> DEFINE go == [x \in Nat \X S |-> IF x[1] + 1 \in 1..n THEN step[<<x[1] + 1, x[2]>>] ELSE x[2]]
<1>1. \A i \in Nat, q \in S : i + 1 \in 1..n => <<i + 1, q>> \in (1..n) \X S
  OBVIOUS
<1>2. \A i \in Nat, q \in S : (IF i + 1 \in 1..n THEN step[<<i + 1, q>>] ELSE q) \in S
  BY <1>1
<1>3. go \in Steps(S)
  <2>1. \A x \in Nat \X S : x[1] \in Nat /\ x[2] \in S
    OBVIOUS
  <2>2. \A x \in Nat \X S : (IF x[1] + 1 \in 1..n THEN step[<<x[1] + 1, x[2]>>] ELSE x[2]) \in S
    BY <1>2, <2>1
  <2> QED
    BY <2>2 DEF Steps
<1>4. \A i \in Nat, q \in S : go[<<i, q>>] = IF i + 1 \in 1..n THEN step[<<i + 1, q>>] ELSE q
  OBVIOUS
<1> HIDE DEF go
<1>5. PICK F : Recurs(F, S, a, go)
  BY <1>3, Recursion
<1>6. F \in [Nat -> S] /\ F[0] = a /\ \A i \in Nat : F[i + 1] = go[<<i, F[i]>>]
  BY <1>5 DEF Recurs
<1> DEFINE w == [k \in 0..n |-> F[k]]
<1>7. w \in [0..n -> S] /\ w[0] = a
  BY <1>6
<1>8. ASSUME NEW k \in 1..n PROVE w[k] = step[<<k, w[k - 1]>>]
  <2>1. k - 1 \in Nat /\ (k - 1) + 1 = k /\ k - 1 \in 0..n /\ k \in 0..n
    OBVIOUS
  <2>2. F[k] = go[<<k - 1, F[k - 1]>>] /\ F[k - 1] \in S
    BY <1>6, <2>1
  <2>3. F[k] = step[<<k, F[k - 1]>>]
    BY <1>4, <1>8, <2>1, <2>2
  <2>4. w[k] = F[k] /\ w[k - 1] = F[k - 1]
    BY <2>1
  <2> QED
    BY <2>3, <2>4
<1> QED
  BY <1>7, <1>8 DEF Goes

LEMMA DrawingIs ==
  ASSUME NEW R, NEW text \in Seq(R), NEW ranges \in Seq(Marking)
  PROVE  \E so : /\ Highlight(text, ranges) = so[Len(ranges)].parts
                      \o Piece(SubSeq(text, so[Len(ranges)].cursor, Len(text)), FALSE)
                 /\ so[0] = [cursor |-> 1, parts |-> << >>]
                 /\ \A k \in 1..Len(ranges) : so[k] = Drawn(text, so[k - 1], ranges[k])
                 /\ \A k \in 0..Len(ranges) : so[k] \in Drawing(R, text)
<1> DEFINE n == Len(ranges)
           D == Drawing(R, text)
           a == [cursor |-> 1, parts |-> << >>]
           step == [x \in (1..n) \X D |-> Drawn(text, x[2], ranges[x[1]])]
<1>1. n \in Nat /\ \A k \in 1..n : ranges[k] \in Marking
  OBVIOUS
<1>2. a \in D
  <2>1. 1 \in 1..(Len(text) + 1) /\ << >> \in Seq(Part(R))
    OBVIOUS
  <2> QED
    BY <2>1 DEF Drawing
<1>3. \A k \in 1..n, so \in D : Drawn(text, so, ranges[k]) \in D
  BY <1>1, DrawnIs
<1> HIDE DEF D
<1>4. step \in [(1..n) \X D -> D] /\ \A k \in 1..n, so \in D : step[<<k, so>>] = Drawn(text, so, ranges[k])
  <2>1. \A x \in (1..n) \X D : x[1] \in 1..n /\ x[2] \in D
    OBVIOUS
  <2> HIDE DEF n
  <2>2. \A x \in (1..n) \X D : Drawn(text, x[2], ranges[x[1]]) \in D
    BY <1>3, <2>1
  <2> QED
    BY <2>2
<1> HIDE DEF n, step, a
<1>15. PICK w : Goes(w, D, a, n, step)
  BY <1>1, <1>2, <1>4, Walks
<1>5. w \in [0..n -> D] /\ w[0] = a /\ \A k \in 1..n : w[k] = step[<<k, w[k - 1]>>]
  BY <1>15 DEF Goes
<1>6. \A k \in 1..n : k - 1 \in 0..n /\ k # 0
  BY <1>1
<1>7. \A k \in 1..n : w[k] = Drawn(text, w[k - 1], ranges[k])
  BY <1>4, <1>5, <1>6
<1> DEFINE Is(so) == so = [k \in 0..n |-> IF k = 0 THEN a ELSE Drawn(text, so[k - 1], ranges[k])]
           so == CHOOSE so : Is(so)
<1>8. Is(w)
  <2>1. w = [k \in 0..n |-> w[k]]
    BY <1>5
  <2>2. \A k \in 0..n : w[k] = IF k = 0 THEN a ELSE Drawn(text, w[k - 1], ranges[k])
    <3>1. \A k \in 0..n : k # 0 => k \in 1..n
      BY <1>1
    <3> QED
      BY <1>5, <1>7, <3>1
  <2> QED
    BY <2>1, <2>2
<1>9. Is(so)
  <2> HIDE DEF Is
  <2> QED
    BY <1>8, Zenon
<1>10. Highlight(text, ranges) = so[n].parts \o Piece(SubSeq(text, so[n].cursor, Len(text)), FALSE)
  BY DEF Highlight, n, a
<1> HIDE DEF so
<1>11. so[0] = a /\ \A k \in 1..n : so[k] = Drawn(text, so[k - 1], ranges[k])
  <2>1. 0 \in 0..n /\ \A k \in 1..n : k \in 0..n /\ k # 0
    BY <1>1
  <2> QED
    BY <1>9, <2>1
<1> HIDE DEF Is
<1> DEFINE T == {k \in Nat : k \in 0..n => so[k] \in D}
<1>12. 0 \in T
  BY <1>2, <1>11
<1>13. ASSUME NEW k \in Nat, k \in T PROVE k + 1 \in T
  <2> SUFFICES ASSUME k + 1 \in 0..n PROVE so[k + 1] \in D
    OBVIOUS
  <2>1. k \in 0..n /\ k + 1 \in 1..n /\ (k + 1) - 1 = k
    BY <1>1
  <2>2. so[k] \in D /\ so[k + 1] = Drawn(text, so[k], ranges[k + 1])
    BY <1>11, <1>13, <2>1
  <2> QED
    BY <1>3, <2>1, <2>2
<1>14. \A k \in 0..n : so[k] \in D
  <2> HIDE DEF T
  <2>1. \A k \in Nat : k \in T
    BY <1>12, <1>13, SetInduction
  <2> QED
    BY <1>1, <2>1 DEF T
<1> QED
  BY <1>10, <1>11, <1>14 DEF n, a, D

(* Drawing loses no character and repeats none.                             *)
LEMMA WholeIs ==
  ASSUME NEW R, NEW text \in Seq(R), NEW ranges \in Seq(Marking)
  PROVE  Whole(Highlight(text, ranges)) = text
<1> DEFINE n == Len(ranges)
<1>0. n \in Nat /\ \A k \in 1..n : ranges[k] \in Marking
  OBVIOUS
<1>1. PICK so : /\ Highlight(text, ranges) = so[n].parts \o Piece(SubSeq(text, so[n].cursor, Len(text)), FALSE)
                /\ so[0] = [cursor |-> 1, parts |-> << >>]
                /\ \A k \in 1..n : so[k] = Drawn(text, so[k - 1], ranges[k])
                /\ \A k \in 0..n : so[k] \in Drawing(R, text)
  BY DrawingIs
<1> HIDE DEF n
<1> DEFINE T == {k \in Nat : k \in 0..n => Whole(so[k].parts) = SubSeq(text, 1, so[k].cursor - 1)}
<1>2. 0 \in T
  <2>1. SubSeq(text, 1, 0) = << >>
    OBVIOUS
  <2>2. so[0].parts = << >> /\ so[0].cursor - 1 = 0
    BY <1>1
  <2> QED
    BY <2>1, <2>2, PartsNone
<1>3. ASSUME NEW k \in Nat, k \in T PROVE k + 1 \in T
  <2> SUFFICES ASSUME k + 1 \in 0..n PROVE Whole(so[k + 1].parts) = SubSeq(text, 1, so[k + 1].cursor - 1)
    OBVIOUS
  <2>1. k \in 0..n /\ k + 1 \in 1..n /\ (k + 1) - 1 = k
    BY <1>0
  <2>2. so[k] \in Drawing(R, text) /\ so[k + 1] = Drawn(text, so[k], ranges[k + 1])
        /\ Whole(so[k].parts) = SubSeq(text, 1, so[k].cursor - 1) /\ ranges[k + 1] \in Marking
    BY <1>0, <1>1, <1>3, <2>1
  <2> DEFINE d == so[k]
             e == so[k + 1]
             r == ranges[k + 1]
  <2>3. d \in Drawing(R, text) /\ r \in Marking /\ e = Drawn(text, d, r)
        /\ Whole(d.parts) = SubSeq(text, 1, d.cursor - 1)
    BY <2>2
  <2> HIDE DEF d, e, r
  <2>4. Whole(e.parts) = SubSeq(text, 1, e.cursor - 1)
    BY <2>3, DrawnIs
  <2> QED
    BY <2>4 DEF e
<1>4. Whole(so[n].parts) = SubSeq(text, 1, so[n].cursor - 1) /\ so[n] \in Drawing(R, text)
  <2> HIDE DEF T
  <2>1. \A k \in Nat : k \in T
    BY <1>2, <1>3, SetInduction
  <2>2. n \in 0..n
    BY <1>0
  <2> QED
    BY <1>0, <1>1, <2>1, <2>2 DEF T
<1> DEFINE c == so[n].cursor
           p == so[n].parts
           z == SubSeq(text, c, Len(text))
           q == Piece(z, FALSE)
<1>5. c \in 1..(Len(text) + 1) /\ p \in Seq(Part(R))
  BY <1>4 DEF Drawing
<1>6. Len(text) \in (c - 1)..Len(text) /\ c - 1 \in (1 - 1)..Len(text) /\ 1 \in 1..(Len(text) + 1)
      /\ (c - 1) + 1 = c
  BY <1>5
<1>7. z \in Seq(R)
  BY <1>5, <1>6, Cut
<1>8. q \in Seq(Part(R)) /\ Whole(q) = z
  <2> HIDE DEF z
  <2> QED
    BY <1>7, PieceIs
<1>9. Whole(p \o q) = Whole(p) \o Whole(q)
  <2> HIDE DEF p, q
  <2> QED
    BY <1>5, <1>8, PartsConcat
<1>10. SubSeq(text, 1, c - 1) \o z = text
  <2>1. SubSeq(text, 1, c - 1) \o SubSeq(text, (c - 1) + 1, Len(text)) = SubSeq(text, 1, Len(text))
    <3> HIDE DEF c
    <3> QED
      BY <1>6, ConcatAdjacentSubSeq
  <2>2. SubSeq(text, 1, Len(text)) = text
    OBVIOUS
  <2> QED
    BY <1>6, <2>1, <2>2
<1> QED
  BY <1>1, <1>4, <1>8, <1>9, <1>10

(* What ranges of a text say, one after another.                            *)
Pieces(s, ranges) == [i \in DOMAIN ranges |-> SubSeq(s, ranges[i].first, ranges[i].last)]
Spell(s, ranges) == FlattenSeq(Pieces(s, ranges))
Within(r, n) == r \in Marking /\ 1 <= r.first /\ r.last <= n
Ordered(ranges, n) ==
  /\ ranges \in Seq(Marking) /\ \A i \in 1..Len(ranges) : Within(ranges[i], n)
  /\ \A i, j \in 1..Len(ranges) : i < j => ranges[i].last < ranges[j].first

LEMMA WithinIs ==
  ASSUME NEW R, NEW s \in Seq(R), NEW r, Within(r, Len(s))
  PROVE  /\ r.first \in 1..(Len(s) + 1) /\ r.last \in (r.first - 1)..Len(s) /\ r.first <= r.last
         /\ r.first \in Nat \ {0} /\ r.last \in Nat \ {0} /\ Len(s) \in Nat
         /\ SubSeq(s, r.first, r.last) \in Seq(R)
<1>1. /\ r.first \in 1..(Len(s) + 1) /\ r.last \in (r.first - 1)..Len(s) /\ r.first <= r.last
      /\ r.first \in Nat \ {0} /\ r.last \in Nat \ {0} /\ Len(s) \in Nat
  <2>1. r.first \in Int /\ r.last \in Int /\ r.first <= r.last /\ 1 <= r.first /\ r.last <= Len(s)
    BY DEF Within, Marking
  <2>2. Len(s) \in Nat
    OBVIOUS
  <2> QED
    BY <2>1, <2>2
<1>2. SubSeq(s, r.first, r.last) \in Seq(R)
  BY <1>1, Cut
<1> QED
  BY <1>1, <1>2

LEMMA PiecesAre ==
  ASSUME NEW R, NEW s \in Seq(R), NEW ranges, Ordered(ranges, Len(s))
  PROVE  /\ Pieces(s, ranges) \in Seq(Seq(R)) /\ Len(Pieces(s, ranges)) = Len(ranges)
         /\ Len(ranges) \in Nat
         /\ \A i \in 1..Len(ranges) : Pieces(s, ranges)[i] = SubSeq(s, ranges[i].first, ranges[i].last)
<1>1. /\ Len(ranges) \in Nat /\ DOMAIN ranges = 1..Len(ranges)
      /\ \A i \in 1..Len(ranges) : Within(ranges[i], Len(s))
  BY DEF Ordered
<1>2. \A i \in 1..Len(ranges) : SubSeq(s, ranges[i].first, ranges[i].last) \in Seq(R)
  BY <1>1, WithinIs
<1> DEFINE n == Len(ranges)
           g == [i \in 1..n |-> SubSeq(s, ranges[i].first, ranges[i].last)]
<1>3. n \in Nat /\ Pieces(s, ranges) = g
  BY <1>1 DEF Pieces
<1>4. \A i \in 1..n : SubSeq(s, ranges[i].first, ranges[i].last) \in Seq(R)
  BY <1>2
<1> HIDE DEF n
<1>5. g \in [1..n -> Seq(R)]
  BY <1>4
<1>6. g \in Seq(Seq(R)) /\ Len(g) = n
  <2> HIDE DEF g
  <2> QED
    BY <1>3, <1>5
<1>7. \A i \in 1..n : g[i] = SubSeq(s, ranges[i].first, ranges[i].last)
  OBVIOUS
<1> HIDE DEF g
<1> QED
  BY <1>3, <1>6, <1>7 DEF n

LEMMA SpellType ==
  ASSUME NEW R, NEW s \in Seq(R), NEW ranges, Ordered(ranges, Len(s))
  PROVE  Spell(s, ranges) \in Seq(R)
  BY PiecesAre, FlattenType DEF Spell

(* Ranges that are in order are all marked.                                 *)
LEMMA MarkedIs ==
  ASSUME NEW R, NEW text \in Seq(R), NEW ranges, Ordered(ranges, Len(text))
  PROVE  Marked(text, ranges) = Spell(text, ranges)
<1> DEFINE n == Len(ranges)
           s == Pieces(text, ranges)
<1>0. /\ n \in Nat /\ ranges \in Seq(Marking) /\ \A k \in 1..n : ranges[k] \in Marking
      /\ s \in Seq(Seq(R)) /\ Len(s) = n
      /\ \A k \in 1..n : s[k] = SubSeq(text, ranges[k].first, ranges[k].last)
  BY PiecesAre DEF Ordered
<1>1. PICK so : /\ Highlight(text, ranges) = so[n].parts \o Piece(SubSeq(text, so[n].cursor, Len(text)), FALSE)
                /\ so[0] = [cursor |-> 1, parts |-> << >>]
                /\ \A k \in 1..n : so[k] = Drawn(text, so[k - 1], ranges[k])
                /\ \A k \in 0..n : so[k] \in Drawing(R, text)
  BY <1>0, DrawingIs
<1> HIDE DEF n, s
<1>2. PICK F : Runs(F, R, s) /\ FlattenSeq(s) = F[Len(s)]
  BY <1>0, FlattenBy
<1>3. F[0] = << >> /\ \A k \in 1..n : F[k] = F[k - 1] \o s[k]
  BY <1>0, <1>2 DEF Runs
<1>4. /\ \A k \in 1..n : ranges[k].last <= Len(text) /\ 1 <= ranges[k].first
      /\ \A k \in 1..n : k - 1 # 0 => ranges[k - 1].last + 1 <= ranges[k].first
  <2>1. /\ \A k \in 1..n : Within(ranges[k], Len(text))
        /\ \A i, j \in 1..n : i < j => ranges[i].last < ranges[j].first
    BY DEF Ordered, n
  <2>2. \A k \in 1..n : k - 1 # 0 => k - 1 \in 1..n /\ k - 1 < k
    BY <1>0
  <2>3. \A k \in 1..n : ranges[k].first \in Int /\ ranges[k].last \in Int
    BY <1>0 DEF Marking
  <2>4. \A k \in 1..n : ranges[k].last <= Len(text) /\ 1 <= ranges[k].first
    BY <2>1 DEF Within
  <2>5. ASSUME NEW k \in 1..n, k - 1 # 0 PROVE ranges[k - 1].last + 1 <= ranges[k].first
    <3> DEFINE a == ranges[k - 1].last
               b == ranges[k].first
    <3>1. a < b /\ a \in Int /\ b \in Int
      BY <2>1, <2>2, <2>3, <2>5
    <3> HIDE DEF a, b
    <3>2. a + 1 <= b
      BY <3>1
    <3> QED
      BY <3>2 DEF a, b
  <2> QED
    BY <2>4, <2>5
<1> DEFINE T == {k \in Nat : k \in 0..n => /\ Marks(so[k].parts) = F[k]
                                           /\ so[k].cursor = IF k = 0 THEN 1 ELSE ranges[k].last + 1}
<1>5. 0 \in T
  <2>1. so[0].parts = << >> /\ so[0].cursor = 1
    BY <1>1
  <2> QED
    BY <1>3, <2>1, PartsNone
<1>6. ASSUME NEW k \in Nat, k \in T PROVE k + 1 \in T
  <2> SUFFICES ASSUME k + 1 \in 0..n
               PROVE  Marks(so[k + 1].parts) = F[k + 1] /\ so[k + 1].cursor = ranges[k + 1].last + 1
    OBVIOUS
  <2>1. k \in 0..n /\ k + 1 \in 1..n /\ (k + 1) - 1 = k
    BY <1>0
  <2>2. /\ so[k] \in Drawing(R, text) /\ so[k + 1] = Drawn(text, so[k], ranges[k + 1])
        /\ Marks(so[k].parts) = F[k] /\ ranges[k + 1] \in Marking
        /\ so[k].cursor = IF k = 0 THEN 1 ELSE ranges[k].last + 1
    BY <1>0, <1>1, <1>6, <2>1
  <2>3. so[k].cursor <= ranges[k + 1].first /\ ranges[k + 1].last <= Len(text)
    <3>1. ranges[k + 1].last <= Len(text) /\ 1 <= ranges[k + 1].first
          /\ (k # 0 => ranges[k].last + 1 <= ranges[k + 1].first)
      BY <1>4, <2>1
    <3> QED
      BY <2>2, <3>1
  <2> DEFINE d == so[k]
             e == so[k + 1]
             r == ranges[k + 1]
  <2>4. d \in Drawing(R, text) /\ r \in Marking /\ e = Drawn(text, d, r)
        /\ d.cursor <= r.first /\ r.last <= Len(text)
    BY <2>2, <2>3
  <2> HIDE DEF d, e, r
  <2>5. e.cursor = r.last + 1 /\ Marks(e.parts) = Marks(d.parts) \o SubSeq(text, r.first, r.last)
    BY <2>4, DrawnIs
  <2>6. F[k + 1] = F[k] \o s[k + 1] /\ s[k + 1] = SubSeq(text, r.first, r.last)
    BY <1>0, <1>3, <2>1 DEF r
  <2> QED
    BY <2>2, <2>5, <2>6 DEF d, e, r
<1>7. Marks(so[n].parts) = F[n] /\ so[n] \in Drawing(R, text)
  <2> HIDE DEF T
  <2>1. \A k \in Nat : k \in T
    BY <1>5, <1>6, SetInduction
  <2>2. n \in 0..n
    BY <1>0
  <2> QED
    BY <1>0, <1>1, <2>1, <2>2 DEF T
<1> DEFINE c == so[n].cursor
           p == so[n].parts
           z == SubSeq(text, c, Len(text))
           q == Piece(z, FALSE)
<1>8. c \in 1..(Len(text) + 1) /\ p \in Seq(Part(R))
  BY <1>7 DEF Drawing
<1>9. Len(text) \in (c - 1)..Len(text)
  BY <1>8
<1>10. z \in Seq(R)
  BY <1>8, <1>9, Cut
<1>11. q \in Seq(Part(R)) /\ Marks(q) = << >>
  <2> HIDE DEF z
  <2> QED
    BY <1>10, PieceIs
<1>12. Marks(p \o q) = Marks(p) \o << >> /\ Marks(p) \in Seq(R)
  <2> HIDE DEF p, q
  <2> QED
    BY <1>8, <1>11, PartsConcat
<1>13. Marks(p) \o << >> = Marks(p)
  <2> HIDE DEF p
  <2> QED
    BY <1>12, ConcatEmptySeq
<1>14. Marks(Highlight(text, ranges)) = FlattenSeq(s)
  BY <1>0, <1>1, <1>2, <1>7, <1>12, <1>13
<1> QED
  BY <1>14 DEF Marked, Marks, Spell, s

(* In a text no longer in lower case the ranges say the same.               *)
LEMMA LowerSpell ==
  ASSUME NEW text \in Seq(Char), Even(text), NEW ranges, Ordered(ranges, Len(text))
  PROVE  toLowerCase(Spell(text, ranges)) = Spell(toLowerCase(text), ranges)
<1> DEFINE n == Len(ranges)
           low == toLowerCase(text)
           s == Pieces(text, ranges)
           t == Pieces(low, ranges)
<1>1. low \in Seq(Char) /\ Len(low) = Len(text)
  BY LowerIs DEF Even
<1>2. /\ n \in Nat /\ s \in Seq(Seq(Char)) /\ Len(s) = n
      /\ \A k \in 1..n : s[k] = SubSeq(text, ranges[k].first, ranges[k].last)
  BY PiecesAre
<1>15. Ordered(ranges, Len(low))
  BY <1>1
<1> HIDE DEF low
<1>3. /\ t \in Seq(Seq(Char)) /\ Len(t) = n
      /\ \A k \in 1..n : t[k] = SubSeq(low, ranges[k].first, ranges[k].last)
  BY <1>1, <1>15, PiecesAre
<1>4. \A k \in 1..n : Within(ranges[k], Len(text))
  BY DEF Ordered
<1> HIDE DEF n, s, t
<1>5. ASSUME NEW k \in 1..n PROVE toLowerCase(s[k]) = t[k]
  <2> DEFINE a == ranges[k].first
             b == ranges[k].last
  <2>1. a \in 1..(Len(text) + 1) /\ b \in (a - 1)..Len(text)
    BY <1>4, WithinIs
  <2>2. Len(toLowerCase(text)) = Len(text)
    BY DEF Even
  <2>3. s[k] = SubSeq(text, a, b) /\ t[k] = SubSeq(low, a, b)
    BY <1>2, <1>3
  <2> HIDE DEF a, b
  <2>4. toLowerCase(SubSeq(text, a, b)) = SubSeq(toLowerCase(text), a, b)
    BY <2>1, <2>2, LowerPart
  <2> QED
    BY <2>3, <2>4 DEF low
<1>6. PICK F : Runs(F, Char, s) /\ FlattenSeq(s) = F[Len(s)]
  BY <1>2, FlattenBy
<1>7. PICK G : Runs(G, Char, t) /\ FlattenSeq(t) = G[Len(t)]
  BY <1>3, FlattenBy
<1>8. /\ F[0] = << >> /\ \A k \in 1..n : F[k] = F[k - 1] \o s[k]
      /\ \A k \in 0..n : F[k] \in Seq(Char)
      /\ G[0] = << >> /\ \A k \in 1..n : G[k] = G[k - 1] \o t[k]
  BY <1>2, <1>3, <1>6, <1>7 DEF Runs
<1> DEFINE T == {k \in Nat : k \in 0..n => toLowerCase(F[k]) = G[k]}
<1>9. 0 \in T
  BY <1>8, LowerNone
<1>10. ASSUME NEW k \in Nat, k \in T PROVE k + 1 \in T
  <2> SUFFICES ASSUME k + 1 \in 0..n PROVE toLowerCase(F[k + 1]) = G[k + 1]
    OBVIOUS
  <2>1. k \in 0..n /\ k + 1 \in 1..n /\ (k + 1) - 1 = k
    BY <1>2
  <2>2. /\ F[k + 1] = F[k] \o s[k + 1] /\ G[k + 1] = G[k] \o t[k + 1]
        /\ F[k] \in Seq(Char) /\ s[k + 1] \in Seq(Char) /\ toLowerCase(F[k]) = G[k]
        /\ toLowerCase(s[k + 1]) = t[k + 1]
    <3>1. k \in T /\ toLowerCase(F[k]) = G[k]
      BY <1>10, <2>1
    <3>2. F[k + 1] = F[k] \o s[k + 1] /\ G[k + 1] = G[k] \o t[k + 1]
      BY <1>8, <2>1
    <3> HIDE DEF T
    <3>3. F[k] \in Seq(Char) /\ s[k + 1] \in Seq(Char)
      BY <1>2, <1>8, <2>1
    <3>4. toLowerCase(s[k + 1]) = t[k + 1]
      BY <1>5, <2>1
    <3> QED
      BY <3>1, <3>2, <3>3, <3>4
  <2> DEFINE x == F[k]
             y == s[k + 1]
  <2> HIDE DEF x, y
  <2>3. x \in Seq(Char) /\ y \in Seq(Char)
    BY <2>2 DEF x, y
  <2>4. toLowerCase(x \o y) = toLowerCase(x) \o toLowerCase(y)
    BY <2>3, LowerConcat
  <2> QED
    BY <2>2, <2>4 DEF x, y
<1>11. toLowerCase(F[n]) = G[n]
  <2> HIDE DEF T
  <2>1. \A k \in Nat : k \in T
    BY <1>9, <1>10, SetInduction
  <2>2. n \in 0..n
    BY <1>2
  <2> QED
    BY <1>2, <2>1, <2>2 DEF T
<1> QED
  BY <1>2, <1>3, <1>6, <1>7, <1>11 DEF Spell, s, t, low

LEMMA OrderedAppend ==
  ASSUME NEW n \in Nat, NEW rs, Ordered(rs, n), NEW r, Within(r, n),
         rs # << >> => rs[Len(rs)].last < r.first
  PROVE  Ordered(Append(rs, r), n)
<1> DEFINE t == Append(rs, r)
           m == Len(rs)
<1>1. /\ rs \in Seq(Marking) /\ r \in Marking /\ m \in Nat
      /\ \A i \in 1..m : Within(rs[i], n)
      /\ \A i, j \in 1..m : i < j => rs[i].last < rs[j].first
      /\ m # 0 => rs[m].last < r.first
  BY DEF Ordered, Within
<1>2. /\ t \in Seq(Marking) /\ Len(t) = m + 1 /\ t[m + 1] = r /\ \A i \in 1..m : t[i] = rs[i]
  BY <1>1
<1> HIDE DEF t
<1>3. \A i \in 1..m : rs[i].first \in Int /\ rs[i].last \in Int /\ rs[i].first <= rs[i].last
  BY <1>1 DEF Marking
<1>4. r.first \in Int
  BY <1>1 DEF Marking
<1> HIDE DEF m
<1>5. \A i \in 1..(m + 1) : i \in 1..m \/ i = m + 1
  BY <1>1
<1>6. \A i \in 1..(m + 1) : Within(t[i], n)
  BY <1>1, <1>2, <1>5
<1>7. \A i \in 1..m : rs[i].last < r.first
  <2> SUFFICES ASSUME NEW i \in 1..m PROVE rs[i].last < r.first
    OBVIOUS
  <2>1. m \in 1..m /\ m # 0
    BY <1>1
  <2>2. CASE i = m
    BY <1>1, <2>1, <2>2
  <2>3. CASE i < m
    <3>1. rs[i].last < rs[m].first /\ rs[m].first <= rs[m].last /\ rs[m].last < r.first
          /\ rs[m].first \in Int /\ rs[m].last \in Int /\ rs[i].last \in Int
      BY <1>1, <1>3, <2>1, <2>3
    <3> QED
      BY <1>4, <3>1
  <2> QED
    BY <1>1, <2>2, <2>3
<1>8. ASSUME NEW i \in 1..(m + 1), NEW j \in 1..(m + 1), i < j PROVE t[i].last < t[j].first
  <2>1. i \in 1..m
    BY <1>1, <1>8
  <2>2. CASE j = m + 1
    BY <1>2, <1>7, <2>1, <2>2
  <2>3. CASE j \in 1..m
    BY <1>1, <1>2, <1>8, <2>1, <2>3
  <2> QED
    BY <1>5, <2>2, <2>3
<1>9. Ordered(t, n)
  BY <1>2, <1>6, <1>8 DEF Ordered
<1> QED
  BY <1>9 DEF t

LEMMA OrderedFront ==
  ASSUME NEW n \in Nat, NEW rs, Ordered(rs, n), rs # << >>
  PROVE  LET m == Len(rs)
             front == SubSeq(rs, 1, m - 1)
         IN /\ Ordered(front, n) /\ Within(rs[m], n) /\ rs = Append(front, rs[m])
            /\ front # << >> => front[Len(front)].last < rs[m].first
<1> DEFINE m == Len(rs)
           front == SubSeq(rs, 1, m - 1)
<1>1. /\ rs \in Seq(Marking) /\ m \in Nat \ {0}
      /\ \A i \in 1..m : Within(rs[i], n)
      /\ \A i, j \in 1..m : i < j => rs[i].last < rs[j].first
  BY DEF Ordered
<1>2. front \in Seq(Marking) /\ Len(front) = m - 1 /\ \A i \in 1..(m - 1) : front[i] = rs[i]
  <2>1. 1 \in Int /\ m - 1 \in Int /\ \A i \in 1..(m - 1) : rs[i] \in Marking
    BY <1>1
  <2>2. /\ front \in Seq(Marking) /\ Len(front) = IF 1 <= m - 1 THEN (m - 1) - 1 + 1 ELSE 0
        /\ \A i \in 1..((m - 1) - 1 + 1) : front[i] = rs[1 + i - 1]
    BY <2>1, SubSeqProperties
  <2> HIDE DEF front, m
  <2>3. m \in Nat \ {0} /\ (m - 1) - 1 + 1 = m - 1 /\ \A i \in 1..(m - 1) : 1 + i - 1 = i
    BY <1>1
  <2>4. Len(front) = m - 1
    BY <2>2, <2>3
  <2>5. \A i \in 1..(m - 1) : front[i] = rs[i]
    BY <2>2, <2>3
  <2> QED
    BY <2>2, <2>4, <2>5
<1> HIDE DEF front
<1>3. rs = Append(front, rs[m])
  <2> DEFINE t == Append(front, rs[m])
  <2>1. rs[m] \in Marking
    BY <1>1
  <2>2. t \in Seq(Marking) /\ Len(t) = m
    BY <1>1, <1>2, <2>1
  <2>3. \A i \in 1..m : t[i] = rs[i]
    BY <1>1, <1>2, <2>1
  <2> HIDE DEF t
  <2>4. t = rs
    BY <1>1, <2>2, <2>3, SeqEqual
  <2> QED
    BY <2>4 DEF t
<1>4. Ordered(front, n)
  <2>1. \A i \in 1..(m - 1) : i \in 1..m
    BY <1>1
  <2> QED
    BY <1>1, <1>2, <2>1 DEF Ordered
<1>5. Within(rs[m], n)
  BY <1>1
<1>6. front # << >> => front[Len(front)].last < rs[m].first
  <2> SUFFICES ASSUME front # << >> PROVE front[m - 1].last < rs[m].first
    BY <1>2
  <2>1. m - 1 \in 1..(m - 1) /\ m - 1 \in 1..m /\ m \in 1..m /\ m - 1 < m
    BY <1>1, <1>2
  <2> QED
    BY <1>1, <1>2, <2>1
<1> QED
  BY <1>3, <1>4, <1>5, <1>6 DEF front

LEMMA SpellAppend ==
  ASSUME NEW R, NEW s \in Seq(R), NEW rs, Ordered(rs, Len(s)), NEW r, Within(r, Len(s)),
         Ordered(Append(rs, r), Len(s))
  PROVE  Spell(s, Append(rs, r)) = Spell(s, rs) \o SubSeq(s, r.first, r.last)
<1> DEFINE t == Append(rs, r)
           m == Len(rs)
           x == SubSeq(s, r.first, r.last)
           a == Pieces(s, rs)
           b == Pieces(s, t)
           c == Append(a, x)
<1>1. /\ rs \in Seq(Marking) /\ m \in Nat /\ r \in Marking
      /\ t \in Seq(Marking) /\ Len(t) = m + 1 /\ t[m + 1] = r /\ \A i \in 1..m : t[i] = rs[i]
  BY DEF Ordered, Within
<1>2. x \in Seq(R)
  BY WithinIs
<1>3. a \in Seq(Seq(R)) /\ Len(a) = m /\ \A i \in 1..m : a[i] = SubSeq(s, rs[i].first, rs[i].last)
  BY PiecesAre
<1> HIDE DEF t
<1>4. /\ b \in Seq(Seq(R)) /\ Len(b) = m + 1
      /\ \A i \in 1..(m + 1) : b[i] = SubSeq(s, t[i].first, t[i].last)
  <2>1. Ordered(t, Len(s))
    BY DEF t
  <2> QED
    BY <1>1, <2>1, PiecesAre
<1> HIDE DEF a, b, m
<1>5. c \in Seq(Seq(R)) /\ Len(c) = m + 1 /\ c[m + 1] = x /\ \A i \in 1..m : c[i] = a[i]
  <2> HIDE DEF x
  <2> QED
    BY <1>1, <1>2, <1>3
<1>6. \A i \in 1..(m + 1) : b[i] = c[i]
  <2> SUFFICES ASSUME NEW i \in 1..(m + 1) PROVE b[i] = c[i]
    OBVIOUS
  <2> HIDE DEF c
  <2>1. CASE i = m + 1
    BY <1>1, <1>4, <1>5, <2>1
  <2>2. CASE i \in 1..m
    BY <1>1, <1>3, <1>4, <1>5, <2>2, ZenonT(60)
  <2> QED
    BY <1>1, <2>1, <2>2
<1>7. b = c
  <2> HIDE DEF c
  <2> QED
    BY <1>4, <1>5, <1>6, SeqEqual
<1> HIDE DEF x
<1>8. FlattenSeq(c) = FlattenSeq(a) \o x
  BY <1>2, <1>3, FlattenAppend
<1> QED
  BY <1>7, <1>8 DEF Spell, a, b, t, x

(* A range more, or a longer last one, spells a character more.             *)
LEMMA ExtendedIs ==
  ASSUME NEW R, NEW s \in Seq(R), NEW rs, Ordered(rs, Len(s)), NEW found \in 1..Len(s),
         rs # << >> => rs[Len(rs)].last < found
  PROVE  /\ Ordered(Extended(rs, found), Len(s)) /\ Extended(rs, found) # << >>
         /\ Extended(rs, found)[Len(Extended(rs, found))].last = found
         /\ Spell(s, Extended(rs, found)) = Append(Spell(s, rs), s[found])
<1> DEFINE n == Len(s)
           m == Len(rs)
           e == Extended(rs, found)
<1>1. n \in Nat /\ rs \in Seq(Marking) /\ m \in Nat /\ found \in Nat \ {0} /\ found <= n
      /\ Spell(s, rs) \in Seq(R) /\ s[found] \in R
  BY SpellType DEF Ordered
<1>2. SubSeq(s, found, found) = <<s[found]>>
  BY OneChar
<1>3. \A x \in Seq(R), c \in R : x \o <<c>> = Append(x, c)
  OBVIOUS
<1>4. CASE rs # << >> /\ Last(rs).last = found - 1
  <2> DEFINE front == SubSeq(rs, 1, m - 1)
             r == rs[m]
             q == [first |-> r.first, last |-> found]
             f == r.first
  <2>1. /\ Ordered(front, n) /\ Within(r, n) /\ rs = Append(front, r)
        /\ front # << >> => front[Len(front)].last < r.first
    BY <1>1, <1>4, OrderedFront
  <2>2. r.last = found - 1
    BY <1>4 DEF Last
  <2>3. f \in Nat \ {0} /\ f <= found - 1
    BY <2>1, <2>2 DEF Within, Marking
  <2>4. Within(q, n)
    BY <1>1, <2>3 DEF Within, Marking
  <2>5. e = Append(front, q)
    <3>1. e = [rs EXCEPT ![m].last = found]
      BY <1>4 DEF Extended
    <3> DEFINE g == Append(front, q)
               k == Len(front)
    <3>2. front \in Seq(Marking) /\ r \in Marking /\ q \in Marking
      BY <2>1, <2>4 DEF Ordered, Within
    <3>3. m = k + 1 /\ k \in Nat
      BY <2>1, <3>2
    <3>4. \A i \in 1..k : rs[i] = front[i]
      BY <2>1, <3>2
    <3> HIDE DEF front, q
    <3>5. g \in Seq(Marking) /\ Len(g) = k + 1 /\ g[k + 1] = q /\ \A i \in 1..k : g[i] = front[i]
      BY <3>2
    <3>6. e \in Seq(Marking) /\ Len(e) = k + 1 /\ e[k + 1] = q /\ \A i \in 1..k : e[i] = rs[i]
      <4>1. m \in 1..m /\ r = [first |-> r.first, last |-> r.last]
        BY <3>2, <3>3 DEF Marking
      <4>2. [r EXCEPT !.last = found] = q
        BY <4>1 DEF q
      <4>3. e = [rs EXCEPT ![m] = q]
        BY <3>1, <4>2
      <4> HIDE DEF r, e
      <4> QED
        BY <1>1, <3>2, <3>3, <4>3
    <3> HIDE DEF g, e, k
    <3>7. \A i \in 1..(k + 1) : e[i] = g[i]
      BY <3>3, <3>4, <3>5, <3>6
    <3>8. e = g
      BY <3>5, <3>6, <3>7, SeqEqual
    <3> QED
      BY <3>8 DEF g
  <2>6. front # << >> => front[Len(front)].last < q.first
    BY <2>1
  <2> DEFINE x == Spell(s, front)
             y == SubSeq(s, f, found - 1)
  <2>7. Ordered(Append(front, q), n) /\ Ordered(Append(front, r), n)
    <3> HIDE DEF front, r, q
    <3> QED
      BY <1>1, <2>1, <2>4, <2>6, OrderedAppend
  <2>8. Spell(s, rs) = x \o y
    <3> HIDE DEF front
    <3>1. Spell(s, Append(front, r)) = Spell(s, front) \o SubSeq(s, r.first, r.last)
      <4> HIDE DEF r
      <4> QED
        BY <2>1, <2>7, SpellAppend
    <3> QED
      BY <2>1, <2>2, <3>1
  <2>9. Spell(s, e) = x \o SubSeq(s, f, found)
    <3> HIDE DEF front
    <3>1. Spell(s, Append(front, q)) = Spell(s, front) \o SubSeq(s, q.first, q.last)
      <4> HIDE DEF q
      <4> QED
        BY <2>1, <2>4, <2>7, SpellAppend
    <3> QED
      BY <2>5, <3>1
  <2>10. SubSeq(s, f, found) = y \o <<s[found]>>
    <3>1. f \in 1..(Len(s) + 1) /\ found - 1 \in (f - 1)..Len(s) /\ found \in (found - 1)..Len(s)
          /\ (found - 1) + 1 = found
      BY <1>1, <2>3
    <3> HIDE DEF f
    <3>2. SubSeq(s, f, found - 1) \o SubSeq(s, (found - 1) + 1, found) = SubSeq(s, f, found)
      BY <3>1, ConcatAdjacentSubSeq
    <3> QED
      BY <1>2, <3>1, <3>2
  <2>11. x \in Seq(R) /\ y \in Seq(R)
    <3>1. x \in Seq(R)
      BY <2>1, SpellType
    <3>2. f \in 1..(Len(s) + 1) /\ found - 1 \in (f - 1)..Len(s)
      BY <1>1, <2>3
    <3>3. y \in Seq(R)
      <4> HIDE DEF f
      <4> QED
        BY <3>2, Cut
    <3> QED
      BY <3>1, <3>3
  <2>12. x \o (y \o <<s[found]>>) = Append(x \o y, s[found])
    <3> HIDE DEF x, y
    <3>1. (x \o y) \o <<s[found]>> = x \o (y \o <<s[found]>>)
      <4>1. <<s[found]>> \in Seq(R)
        BY <1>1
      <4> QED
        BY <2>11, <4>1, ConcatAssociative, SMTT(40)
    <3>2. x \o y \in Seq(R)
      BY <2>11
    <3> QED
      BY <1>1, <1>3, <3>1, <3>2
  <2>13. Spell(s, e) = Append(Spell(s, rs), s[found])
    BY <2>8, <2>9, <2>10, <2>12
  <2>14. e # << >> /\ e[Len(e)].last = found
    <3>1. front \in Seq(Marking) /\ q \in Marking
      BY <2>1, <2>4 DEF Ordered, Within
    <3>2. q.last = found
      OBVIOUS
    <3> HIDE DEF front, q, e
    <3> QED
      BY <2>5, <3>1, <3>2
  <2> QED
    BY <2>5, <2>7, <2>13, <2>14
<1>5. CASE ~(rs # << >> /\ Last(rs).last = found - 1)
  <2> DEFINE q == [first |-> found, last |-> found]
  <2>1. e = Append(rs, q)
    BY <1>5 DEF Extended
  <2>2. Within(q, n)
    BY <1>1 DEF Within, Marking
  <2>3. Ordered(Append(rs, q), n)
    <3>1. rs # << >> => rs[Len(rs)].last < q.first
      OBVIOUS
    <3> HIDE DEF q
    <3> QED
      BY <1>1, <2>2, <3>1, OrderedAppend
  <2>4. Spell(s, e) = Spell(s, rs) \o SubSeq(s, found, found)
    <3>1. Spell(s, Append(rs, q)) = Spell(s, rs) \o SubSeq(s, q.first, q.last)
      <4> HIDE DEF q
      <4> QED
        BY <2>2, <2>3, SpellAppend
    <3> QED
      BY <2>1, <3>1
  <2>5. Spell(s, rs) \o <<s[found]>> = Append(Spell(s, rs), s[found])
    BY <1>1, <1>3
  <2>6. e # << >> /\ e[Len(e)].last = found
    <3>1. q \in Marking /\ q.last = found
      BY <2>2 DEF Within
    <3> HIDE DEF q, e
    <3> QED
      BY <1>1, <2>1, <3>1
  <2> QED
    BY <1>2, <2>1, <2>3, <2>4, <2>5, <2>6
<1> QED
  BY <1>4, <1>5

(* The first characters of a query in a text, in their order.                *)
Embeds(f, h, q, from, k) ==
  /\ f \in [1..k -> Nat] /\ \A i \in 1..k : from <= f[i] /\ f[i] <= Len(h) /\ h[f[i]] = q[i]
  /\ \A i, j \in 1..k : i < j => f[i] < f[j]

(* How far a walk for them has come: no embedding ends before it.           *)
GoneTo(so, h, q, from, k) ==
  /\ so.ok \in BOOLEAN /\ so.cursor \in Nat /\ so.ranges \in Seq(Marking)
  /\ so = [ok |-> so.ok, cursor |-> so.cursor, ranges |-> so.ranges]
  /\ from <= so.cursor
  /\ so.ok =>
       /\ Ordered(so.ranges, Len(h)) /\ Spell(h, so.ranges) = SubSeq(q, 1, k)
       /\ k = 0 => so.cursor = from /\ so.ranges = << >>
       /\ k # 0 => so.ranges # << >> /\ so.ranges[Len(so.ranges)].last = so.cursor - 1
       /\ \E f : Embeds(f, h, q, from, k) /\ (k # 0 => f[k] = so.cursor - 1)
       /\ \A f : Embeds(f, h, q, from, k) /\ k # 0 => f[k] >= so.cursor - 1
  /\ ~so.ok => \A f : ~Embeds(f, h, q, from, k)

EmbedsTo(h, q, from, k, p) == \E g : Embeds(g, h, q, from, k) /\ g[k] = p

LEMMA Prefix ==
  ASSUME NEW R, NEW q \in Seq(R), NEW k \in Nat, k + 1 <= Len(q)
  PROVE  SubSeq(q, 1, k + 1) = Append(SubSeq(q, 1, k), q[k + 1])
<1>1. SubSeq(q, k + 1, k + 1) = <<q[k + 1]>>
  <2>1. k + 1 \in 1..Len(q)
    OBVIOUS
  <2> QED
    BY <2>1, OneChar
<1>2. 1 \in 1..(Len(q) + 1) /\ k \in (1 - 1)..Len(q) /\ k + 1 \in k..Len(q) /\ q[k + 1] \in R
  OBVIOUS
<1>3. SubSeq(q, 1, k) \o SubSeq(q, k + 1, k + 1) = SubSeq(q, 1, k + 1)
  BY <1>2, ConcatAdjacentSubSeq
<1>4. SubSeq(q, 1, k) \in Seq(R)
  BY <1>2, Cut
<1> DEFINE x == SubSeq(q, 1, k)
           c == q[k + 1]
<1>5. x \o <<c>> = Append(x, c)
  <2>1. x \in Seq(R) /\ c \in R
    BY <1>2, <1>4
  <2> HIDE DEF x, c
  <2> QED
    BY <2>1
<1> QED
  BY <1>1, <1>3, <1>5

LEMMA EmbedsLess ==
  ASSUME NEW f, NEW h, NEW q, NEW from \in Nat, NEW k \in Nat, Embeds(f, h, q, from, k + 1)
  PROVE  /\ Embeds([i \in 1..k |-> f[i]], h, q, from, k)
         /\ f[k + 1] \in Nat /\ from <= f[k + 1] /\ f[k + 1] <= Len(h) /\ h[f[k + 1]] = q[k + 1]
         /\ k # 0 => f[k] \in Nat /\ f[k] < f[k + 1]
<1> DEFINE g == [i \in 1..k |-> f[i]]
<1>1. /\ f \in [1..(k + 1) -> Nat]
      /\ \A i \in 1..(k + 1) : from <= f[i] /\ f[i] <= Len(h) /\ h[f[i]] = q[i]
      /\ \A i, j \in 1..(k + 1) : i < j => f[i] < f[j]
  BY DEF Embeds
<1>2. (\A i \in 1..k : i \in 1..(k + 1)) /\ k + 1 \in 1..(k + 1) /\ k < k + 1 /\ (k # 0 => k \in 1..(k + 1))
  OBVIOUS
<1>3. g \in [1..k -> Nat] /\ \A i \in 1..k : g[i] = f[i]
  BY <1>1, <1>2
<1> HIDE DEF g
<1>4. Embeds(g, h, q, from, k)
  BY <1>1, <1>2, <1>3 DEF Embeds
<1> QED
  BY <1>1, <1>2, <1>4 DEF g

LEMMA EmbedsMore ==
  ASSUME NEW f, NEW h \in Seq(Char), NEW q \in Seq(Char), NEW from \in Nat, NEW k \in Nat, NEW p \in Nat,
         Embeds(f, h, q, from, k), from <= p, p <= Len(h), k # 0 => f[k] < p,
         NEW n, n = k + 1, NEW ch, ch = q[n], h[p] = ch
  PROVE  EmbedsTo(h, q, from, n, p)
<1> DEFINE g == [i \in 1..(k + 1) |-> IF i = k + 1 THEN p ELSE f[i]]
<1>1. /\ f \in [1..k -> Nat]
      /\ \A i \in 1..k : from <= f[i] /\ f[i] <= Len(h) /\ h[f[i]] = q[i]
      /\ \A i, j \in 1..k : i < j => f[i] < f[j]
  BY DEF Embeds
<1>2. \A i \in 1..(k + 1) : i \in 1..k \/ i = k + 1
  OBVIOUS
<1>3. k + 1 \in 1..(k + 1) /\ \A i \in 1..k : i \in 1..(k + 1) /\ i # k + 1
  OBVIOUS
<1>4. g[k + 1] = p /\ \A i \in 1..k : g[i] = f[i]
  BY <1>3
<1>5. g \in [1..(k + 1) -> Nat]
  BY <1>1, <1>2
<1> HIDE DEF g
<1>6. \A i \in 1..k : f[i] < p
  <2> SUFFICES ASSUME NEW i \in 1..k PROVE f[i] < p
    OBVIOUS
  <2>1. k \in 1..k /\ f[k] < p /\ f[k] \in Nat /\ f[i] \in Nat
    BY <1>1
  <2>2. CASE i = k
    BY <2>1, <2>2
  <2>3. CASE i < k
    <3>1. f[i] < f[k]
      BY <1>1, <2>1, <2>3
    <3> QED
      BY <2>1, <3>1
  <2> QED
    BY <2>2, <2>3
<1>7. \A i \in 1..(k + 1) : from <= g[i] /\ g[i] <= Len(h) /\ h[g[i]] = q[i]
  BY <1>1, <1>2, <1>4
<1>8. ASSUME NEW i \in 1..(k + 1), NEW j \in 1..(k + 1), i < j PROVE g[i] < g[j]
  <2>1. i \in 1..k
    BY <1>8
  <2>2. CASE j = k + 1
    BY <1>4, <1>6, <2>1, <2>2
  <2>3. CASE j \in 1..k
    BY <1>1, <1>4, <1>8, <2>1, <2>3
  <2> QED
    BY <1>2, <2>2, <2>3
<1>9. Embeds(g, h, q, from, k + 1)
  BY <1>5, <1>7, <1>8 DEF Embeds
<1> QED
  BY <1>4, <1>9 DEF EmbedsTo

LEMMA FollowedIs ==
  ASSUME NEW h \in Seq(Char), NEW q \in Seq(Char), NEW from \in Nat \ {0}, NEW k \in Nat, k + 1 <= Len(q),
         NEW so, GoneTo(so, h, q, from, k)
  PROVE  GoneTo(Followed(h, so, q[k + 1]), h, q, from, k + 1)
<1> DEFINE c == q[k + 1]
           cur == so.cursor
           rs == so.ranges
           found == indexOf(h, <<c>>, cur)
           to == Followed(h, so, c)
<1>1. /\ so.ok \in BOOLEAN /\ cur \in Nat \ {0} /\ from <= cur /\ rs \in Seq(Marking) /\ c \in Char
      /\ so = [ok |-> so.ok, cursor |-> cur, ranges |-> rs] /\ Len(h) \in Nat
  <2>1. so.ok \in BOOLEAN /\ cur \in Nat /\ from <= cur /\ rs \in Seq(Marking)
        /\ so = [ok |-> so.ok, cursor |-> cur, ranges |-> rs]
    BY DEF GoneTo
  <2>2. cur # 0
    BY <2>1
  <2>3. c \in Char
    OBVIOUS
  <2>4. Len(h) \in Nat
    OBVIOUS
  <2> QED
    BY <2>1, <2>2, <2>3, <2>4
<1>2. /\ found \in Nat
      /\ found # 0 => found >= cur /\ found <= Len(h) /\ h[found] = c
                      /\ \A j \in Nat : cur <= j /\ j < found => h[j] # c
      /\ found = 0 => \A j \in Nat : cur <= j /\ j <= Len(h) => h[j] # c
  <2> HIDE DEF c
  <2> QED
    BY <1>1, CharFound
<1>3. ASSUME so.ok, NEW f, Embeds(f, h, q, from, k + 1) PROVE f[k + 1] \in Nat /\ cur <= f[k + 1] /\ f[k + 1] <= Len(h) /\ h[f[k + 1]] = c
  <2>1. /\ Embeds([i \in 1..k |-> f[i]], h, q, from, k)
        /\ f[k + 1] \in Nat /\ from <= f[k + 1] /\ f[k + 1] <= Len(h) /\ h[f[k + 1]] = c
        /\ k # 0 => f[k] \in Nat /\ f[k] < f[k + 1]
    BY <1>3, EmbedsLess
  <2>2. CASE k = 0
    <3>1. cur = from
      BY <1>3, <2>2 DEF GoneTo
    <3> QED
      BY <2>1, <3>1
  <2>3. CASE k # 0
    <3> DEFINE g == [i \in 1..k |-> f[i]]
    <3>1. g[k] = f[k]
      BY <2>3
    <3> HIDE DEF g
    <3>2. g[k] >= cur - 1
      BY <1>3, <2>1, <2>3 DEF GoneTo, g
    <3>3. f[k] \in Nat /\ f[k] < f[k + 1] /\ f[k] >= cur - 1
      BY <2>1, <2>3, <3>1, <3>2
    <3> DEFINE a == f[k]
               b == f[k + 1]
    <3>4. a \in Nat /\ b \in Nat /\ a < b /\ a >= cur - 1 /\ cur \in Nat
      BY <1>1, <2>1, <3>3
    <3> HIDE DEF a, b, cur
    <3>5. cur <= b
      BY <3>4
    <3> QED
      BY <2>1, <3>5 DEF b
  <2> QED
    BY <2>2, <2>3
<1>4. CASE ~so.ok \/ found = 0
  <2>1. to = [so EXCEPT !.ok = FALSE]
    BY <1>4 DEF Followed
  <2>2. to = [ok |-> FALSE, cursor |-> cur, ranges |-> rs]
    BY <1>1, <2>1
  <2>3. ASSUME NEW f, Embeds(f, h, q, from, k + 1) PROVE FALSE
    <3>1. CASE ~so.ok
      <4>1. Embeds([i \in 1..k |-> f[i]], h, q, from, k)
        BY <2>3, EmbedsLess
      <4> QED
        BY <3>1, <4>1 DEF GoneTo
    <3>2. CASE so.ok /\ found = 0
      BY <1>2, <1>3, <2>3, <3>2
    <3> QED
      BY <1>1, <1>4, <3>1, <3>2
  <2> HIDE DEF to
  <2> QED
    BY <1>1, <2>2, <2>3 DEF GoneTo, to
<1>5. CASE so.ok /\ found # 0
  <2> DEFINE e == Extended(rs, found)
  <2>1. to = [ok |-> TRUE, cursor |-> found + 1, ranges |-> e]
    <3>1. to = [so EXCEPT !.cursor = found + 1, !.ranges = Extended(@, found)]
      BY <1>5 DEF Followed
    <3>2. so = [ok |-> TRUE, cursor |-> cur, ranges |-> rs]
      BY <1>1, <1>5
    <3>3. so.ranges = rs
      OBVIOUS
    <3> HIDE DEF found, to, rs, cur
    <3>4. to = [so EXCEPT !.cursor = found + 1, !.ranges = e]
      BY <3>1, <3>3
    <3> HIDE DEF e
    <3> QED
      BY <3>2, <3>4
  <2>2. /\ Ordered(rs, Len(h)) /\ Spell(h, rs) = SubSeq(q, 1, k)
        /\ k = 0 => rs = << >>
        /\ k # 0 => rs # << >> /\ rs[Len(rs)].last = cur - 1
        /\ \A f : Embeds(f, h, q, from, k) /\ k # 0 => f[k] >= cur - 1
    BY <1>5 DEF GoneTo
  <2>3. PICK f : Embeds(f, h, q, from, k) /\ (k # 0 => f[k] = cur - 1)
    BY <1>5 DEF GoneTo
  <2>4. found \in 1..Len(h) /\ found >= cur /\ h[found] = c /\ from <= found /\ cur - 1 < found
    BY <1>1, <1>2, <1>5
  <2>5. rs # << >> => rs[Len(rs)].last < found
    BY <2>2, <2>4
  <2> HIDE DEF found, rs
  <2>6. /\ Ordered(e, Len(h)) /\ e # << >> /\ e[Len(e)].last = found
        /\ Spell(h, e) = Append(Spell(h, rs), h[found])
    BY <2>2, <2>4, <2>5, ExtendedIs
  <2>7. Spell(h, e) = SubSeq(q, 1, k + 1)
    BY <2>2, <2>4, <2>6, Prefix
  <2>8. PICK g : Embeds(g, h, q, from, k + 1) /\ g[k + 1] = found
    <3>1. /\ found \in Nat /\ from \in Nat /\ from <= found /\ found <= Len(h) /\ h[found] = q[k + 1]
          /\ k # 0 => f[k] < found
      BY <1>2, <2>3, <2>4
    <3>2. Embeds(f, h, q, from, k)
      BY <2>3
    <3> DEFINE n == k + 1
               ch == q[n]
    <3>3. h[found] = ch /\ ch = q[n] /\ n = k + 1
      BY <3>1
    <3> HIDE DEF n, ch
    <3>4. ASSUME NEW x, Embeds(x, h, q, from, k), k # 0 => x[k] < found PROVE EmbedsTo(h, q, from, n, found)
      BY <3>1, <3>3, <3>4, EmbedsMore
    <3>5. EmbedsTo(h, q, from, n, found)
      BY <3>1, <3>2, <3>4
    <3> QED
      BY <3>5 DEF n, EmbedsTo
  <2>9. ASSUME NEW b, Embeds(b, h, q, from, k + 1) PROVE b[k + 1] >= found
    <3>1. b[k + 1] \in Nat /\ cur <= b[k + 1] /\ h[b[k + 1]] = c
      BY <1>3, <1>5, <2>9
    <3>2. ~(b[k + 1] < found)
      BY <1>2, <1>5, <3>1
    <3> QED
      BY <1>2, <3>1, <3>2
  <2> HIDE DEF to, e
  <2>10. /\ to.ok = TRUE /\ to.cursor = found + 1 /\ to.ranges = e
         /\ to = [ok |-> to.ok, cursor |-> to.cursor, ranges |-> to.ranges]
    BY <2>1
  <2>11. e \in Seq(Marking)
    BY <2>6 DEF Ordered
  <2>12. found + 1 \in Nat /\ from <= found + 1 /\ (found + 1) - 1 = found /\ k + 1 # 0
    BY <2>4
  <2>13. GoneTo(to, h, q, from, k + 1)
    BY <2>6, <2>7, <2>8, <2>9, <2>10, <2>11, <2>12 DEF GoneTo
  <2> QED
    BY <2>13 DEF to
<1> QED
  BY <1>1, <1>4, <1>5

LEMMA WalkStarts ==
  ASSUME NEW h \in Seq(Char), NEW q \in Seq(Char), NEW from \in Nat \ {0}
  PROVE  GoneTo([ok |-> TRUE, cursor |-> from, ranges |-> << >>], h, q, from, 0)
<1> DEFINE so == [ok |-> TRUE, cursor |-> from, ranges |-> << >>]
           f == [i \in 1..0 |-> 0]
           e == << >>
<1>1. Embeds(f, h, q, from, 0)
  BY DEF Embeds
<1>2. Ordered(e, Len(h)) /\ e \in Seq(Marking)
  BY DEF Ordered
<1>3. Spell(h, e) = SubSeq(q, 1, 0)
  <2>1. Pieces(h, e) = << >> /\ SubSeq(q, 1, 0) = << >>
    BY DEF Pieces
  <2> QED
    BY <2>1, FlattenNone DEF Spell
<1>4. so.ok = TRUE /\ so.cursor = from /\ so.ranges = e
      /\ so = [ok |-> so.ok, cursor |-> so.cursor, ranges |-> so.ranges]
  OBVIOUS
<1>5. from \in Nat /\ from <= from
  OBVIOUS
<1> HIDE DEF so, f, e
<1>6. GoneTo(so, h, q, from, 0)
  BY <1>1, <1>2, <1>3, <1>4, <1>5 DEF GoneTo, e
<1> QED
  BY <1>6 DEF so

Ends(end, m, h, q, from, base) ==
  /\ GoneTo(end, h, q, from, Len(q))
  /\ m = IF ~end.ok THEN NoMatch
         ELSE [score |-> base + end.cursor - Head(end.ranges).first - Len(q), ranges |-> end.ranges]

LEMMA SubseqWalked ==
  ASSUME NEW h \in Seq(Char), NEW q \in Seq(Char), NEW from \in Nat \ {0}, NEW base,
         NEW m, m = subsequenceRanges(h, q, from, base)
  PROVE  \E x : Ends(x, m, h, q, from, base)
<1> DEFINE n == Len(q)
           S == [ok : BOOLEAN, cursor : Nat, ranges : Seq(Marking)]
           a == [ok |-> TRUE, cursor |-> from, ranges |-> << >>]
           W(so, k) == GoneTo(so, h, q, from, k)
           step == [x \in (1..n) \X S |-> IF W(x[2], x[1] - 1) THEN Followed(h, x[2], q[x[1]]) ELSE x[2]]
           Is(w) == w = [k \in 0..n |-> IF k = 0 THEN a ELSE Followed(h, w[k - 1], q[k])]
<1>1. n \in Nat
  OBVIOUS
<1>2. W(a, 0)
  BY WalkStarts
<1>3. ASSUME NEW k \in 1..n, NEW so, W(so, k - 1) PROVE W(Followed(h, so, q[k]), k)
  <2>1. k - 1 \in Nat /\ (k - 1) + 1 = k /\ (k - 1) + 1 <= Len(q)
    BY <1>1
  <2> DEFINE i == k - 1
  <2>2. i \in Nat /\ i + 1 = k /\ i + 1 <= Len(q) /\ GoneTo(so, h, q, from, i)
    BY <1>3, <2>1
  <2> HIDE DEF i
  <2>3. GoneTo(Followed(h, so, q[i + 1]), h, q, from, i + 1)
    BY <2>2, FollowedIs
  <2> QED
    BY <2>2, <2>3
<1>4. \A so, k : W(so, k) => so \in S
  BY DEF GoneTo
<1> HIDE DEF W, S, n, a
<1>5. a \in S
  BY <1>2, <1>4
<1>6. step \in [(1..n) \X S -> S]
  <2>1. \A x \in (1..n) \X S : x[1] \in 1..n /\ x[2] \in S
    OBVIOUS
  <2>2. \A k \in 1..n, so \in S : (IF W(so, k - 1) THEN Followed(h, so, q[k]) ELSE so) \in S
    BY <1>3, <1>4
  <2>3. \A x \in (1..n) \X S : (IF W(x[2], x[1] - 1) THEN Followed(h, x[2], q[x[1]]) ELSE x[2]) \in S
    BY <2>1, <2>2
  <2> QED
    BY <2>3
<1>7. \A k \in 1..n, so \in S : W(so, k - 1) => step[<<k, so>>] = Followed(h, so, q[k])
  OBVIOUS
<1> HIDE DEF step
<1>8. PICK w : Goes(w, S, a, n, step)
  BY <1>1, <1>5, <1>6, Walks
<1>9. w \in [0..n -> S] /\ w[0] = a /\ \A k \in 1..n : w[k] = step[<<k, w[k - 1]>>]
  BY <1>8 DEF Goes
<1> DEFINE T == {k \in Nat : k \in 0..n => W(w[k], k)}
<1>10. 0 \in T
  BY <1>2, <1>9
<1>11. ASSUME NEW k \in Nat, k \in T PROVE k + 1 \in T
  <2> SUFFICES ASSUME k + 1 \in 0..n PROVE W(w[k + 1], k + 1)
    OBVIOUS
  <2>1. k \in 0..n /\ k + 1 \in 1..n /\ (k + 1) - 1 = k
    BY <1>1
  <2>2. W(w[k], k) /\ w[k] \in S /\ w[k + 1] = step[<<k + 1, w[k]>>]
    BY <1>9, <1>11, <2>1
  <2>3. w[k + 1] = Followed(h, w[k], q[k + 1])
    BY <1>7, <2>1, <2>2
  <2> QED
    BY <1>3, <2>1, <2>2, <2>3
<1>12. \A k \in 0..n : W(w[k], k)
  <2> HIDE DEF T
  <2>1. \A k \in Nat : k \in T
    BY <1>10, <1>11, SetInduction
  <2> QED
    BY <1>1, <2>1 DEF T
<1>13. \A k \in 1..n : w[k] = Followed(h, w[k - 1], q[k])
  <2>1. \A k \in 1..n : k - 1 \in 0..n
    BY <1>1
  <2> QED
    BY <1>7, <1>9, <1>12, <2>1
<1>14. Is(w)
  <2>1. w = [k \in 0..n |-> w[k]]
    BY <1>9
  <2>2. \A k \in 0..n : w[k] = IF k = 0 THEN a ELSE Followed(h, w[k - 1], q[k])
    <3>1. \A k \in 0..n : k # 0 => k \in 1..n
      BY <1>1
    <3> QED
      BY <1>9, <1>13, <3>1
  <2> QED
    BY <2>1, <2>2
<1> DEFINE v == CHOOSE v : Is(v)
<1>15. Is(v)
  <2> HIDE DEF Is
  <2> QED
    BY <1>14, Zenon
<1>16. subsequenceRanges(h, q, from, base) =
         IF ~v[n].ok THEN NoMatch
         ELSE [score |-> base + v[n].cursor - Head(v[n].ranges).first - n, ranges |-> v[n].ranges]
  BY DEF subsequenceRanges, n, a
<1> HIDE DEF v
<1>17. v[0] = a /\ \A k \in 1..n : v[k] = Followed(h, v[k - 1], q[k])
  <2>1. 0 \in 0..n /\ \A k \in 1..n : k \in 0..n /\ k # 0
    BY <1>1
  <2> QED
    BY <1>15, <2>1
<1> HIDE DEF Is
<1> DEFINE U == {k \in Nat : k \in 0..n => W(v[k], k)}
<1>18. 0 \in U
  BY <1>2, <1>17
<1>19. ASSUME NEW k \in Nat, k \in U PROVE k + 1 \in U
  <2> SUFFICES ASSUME k + 1 \in 0..n PROVE W(v[k + 1], k + 1)
    OBVIOUS
  <2>1. k \in 0..n /\ k + 1 \in 1..n /\ (k + 1) - 1 = k
    BY <1>1
  <2>2. W(v[k], k) /\ v[k + 1] = Followed(h, v[k], q[k + 1])
    BY <1>17, <1>19, <2>1
  <2> QED
    BY <1>3, <2>1, <2>2
<1>20. W(v[n], n)
  <2> HIDE DEF U
  <2>1. \A k \in Nat : k \in U
    BY <1>18, <1>19, SetInduction
  <2> QED
    BY <1>1, <2>1 DEF U
<1> DEFINE stop == v[n]
<1>21. GoneTo(stop, h, q, from, n)
  BY <1>20 DEF W
<1>22. m = IF ~stop.ok THEN NoMatch
           ELSE [score |-> base + stop.cursor - Head(stop.ranges).first - n, ranges |-> stop.ranges]
  BY <1>16
<1> HIDE DEF stop
<1>23. Ends(stop, m, h, q, from, base)
  BY <1>21, <1>22 DEF Ends, n
<1>24. \E x : Ends(x, m, h, q, from, base)
  BY <1>23
<1> QED
  BY <1>24

LEMMA LastPlace ==
  ASSUME NEW n \in Nat, NEW spots \in SUBSET (1..n)
  PROVE  LET m == Max({0} \cup spots) IN
         m \in {0} \cup spots /\ m \in 0..n /\ \A y \in spots : y <= m
<1> DEFINE S == {0} \cup spots
<1>1. IsFiniteSet(S)
  <2>1. IsFiniteSet(0..n) /\ S \subseteq 0..n
    BY FS_Interval
  <2> HIDE DEF S
  <2> QED
    BY <2>1, FS_Subset
<1>2. S # {} /\ S \subseteq Nat /\ S \subseteq 0..n /\ spots \subseteq S
  OBVIOUS
<1> HIDE DEF S
<1>3. Max(S) \in S /\ \A y \in S : y <= Max(S)
  BY <1>1, <1>2, MaxIs
<1> QED
  BY <1>2, <1>3 DEF S

(* What a match of a path comes with.                                       *)
MatchOf(m, h, q) ==
  m # NoMatch => Ordered(m.ranges, Len(h)) /\ Spell(h, m.ranges) = q /\ m.score \in Int

LEMMA SubsequenceIs ==
  ASSUME NEW h \in Seq(Char), NEW q \in Seq(Char), q # << >>, NEW from \in Nat \ {0}, NEW base \in Nat
  PROVE  LET m == subsequenceRanges(h, q, from, base) IN
         /\ MatchOf(m, h, q)
         /\ m # NoMatch <=> \E f : Embeds(f, h, q, from, Len(q))
<1> DEFINE m == subsequenceRanges(h, q, from, base)
<1>9. m = subsequenceRanges(h, q, from, base)
  OBVIOUS
<1> HIDE DEF m
<1>0. PICK end : Ends(end, m, h, q, from, base)
  BY <1>9, SubseqWalked
<1>1. /\ GoneTo(end, h, q, from, Len(q))
      /\ m = IF ~end.ok THEN NoMatch
             ELSE [score |-> base + end.cursor - Head(end.ranges).first - Len(q),
                   ranges |-> end.ranges]
  BY <1>0 DEF Ends
<1>2. Len(q) # 0 /\ Len(q) \in Nat
  OBVIOUS
<1> HIDE DEF m
<1>3. CASE ~end.ok
  <2>1. m = NoMatch /\ \A f : ~Embeds(f, h, q, from, Len(q))
    BY <1>1, <1>3 DEF GoneTo
  <2> QED
    BY <2>1 DEF MatchOf, m
<1>4. CASE end.ok
  <2>1. m.ranges = end.ranges
    BY <1>1, <1>4
  <2>2. /\ end.ranges # << >> /\ Ordered(end.ranges, Len(h)) /\ Spell(h, end.ranges) = SubSeq(q, 1, Len(q))
        /\ \E f : Embeds(f, h, q, from, Len(q))
    BY <1>1, <1>2, <1>4 DEF GoneTo
  <2>3. SubSeq(q, 1, Len(q)) = q
    OBVIOUS
  <2>4. m # NoMatch
    BY <2>1, <2>2 DEF NoMatch
  <2>5. m.score \in Int
    <3>1. end.ranges \in Seq(Marking) /\ end.ranges # << >> /\ end.cursor \in Nat
      BY <1>1, <2>2 DEF GoneTo
    <3>2. Head(end.ranges) \in Marking
      BY <3>1
    <3>3. Head(end.ranges).first \in Int
      BY <3>2 DEF Marking
    <3>4. m.score = base + end.cursor - Head(end.ranges).first - Len(q)
      BY <1>1, <1>4
    <3> QED
      BY <1>2, <3>1, <3>3, <3>4
  <2> QED
    BY <2>1, <2>2, <2>3, <2>4, <2>5 DEF MatchOf, m
<1> QED
  BY <1>3, <1>4

LEMMA EmbedsFrom ==
  ASSUME NEW f, NEW h, NEW q, NEW from \in Nat \ {0}, NEW k, Embeds(f, h, q, from, k)
  PROVE  Embeds(f, h, q, 1, k)
<1>1. /\ f \in [1..k -> Nat] /\ \A i \in 1..k : from <= f[i] /\ f[i] <= Len(h) /\ h[f[i]] = q[i]
      /\ \A i, j \in 1..k : i < j => f[i] < f[j]
  BY DEF Embeds
<1>2. \A i \in 1..k : 1 <= f[i]
  BY <1>1
<1> QED
  BY <1>1, <1>2 DEF Embeds

LEMMA ComesInIs ==
  ASSUME NEW h \in Seq(Char), NEW q \in Seq(Char)
  PROVE  ComesIn(q, h) <=> \E f : Embeds(f, h, q, 1, Len(q))
<1> DEFINE n == Len(q)
<1>1. DOMAIN q = 1..n /\ DOMAIN h = 1..Len(h) /\ n \in Nat /\ Len(h) \in Nat
  OBVIOUS
<1> HIDE DEF n
<1>2. ASSUME NEW f \in [DOMAIN q -> DOMAIN h],
             \A i \in DOMAIN q : h[f[i]] = q[i] /\ \A j \in 1..(i - 1) : f[j] < f[i]
      PROVE  Embeds(f, h, q, 1, n)
  <2>1. f \in [1..n -> Nat] /\ \A i \in 1..n : 1 <= f[i] /\ f[i] <= Len(h)
    BY <1>1
  <2>2. \A i, j \in 1..n : i < j => i \in 1..(j - 1)
    BY <1>1
  <2> QED
    BY <1>1, <1>2, <2>1, <2>2 DEF Embeds
<1>3. ASSUME NEW f, Embeds(f, h, q, 1, n)
      PROVE  f \in [DOMAIN q -> DOMAIN h]
             /\ \A i \in DOMAIN q : h[f[i]] = q[i] /\ \A j \in 1..(i - 1) : f[j] < f[i]
  <2>1. /\ f \in [1..n -> Nat] /\ \A i \in 1..n : 1 <= f[i] /\ f[i] <= Len(h) /\ h[f[i]] = q[i]
        /\ \A i, j \in 1..n : i < j => f[i] < f[j]
    BY <1>3 DEF Embeds
  <2>2. \A i \in 1..n : \A j \in 1..(i - 1) : j \in 1..n /\ j < i
    BY <1>1
  <2>3. \A i \in 1..n : f[i] \in 1..Len(h)
    BY <1>1, <2>1
  <2> QED
    BY <1>1, <2>1, <2>2, <2>3
<1> QED
  BY <1>2, <1>3 DEF ComesIn, n

(* The whole query in one place.                                            *)
LEMMA ContiguousIs ==
  ASSUME NEW h \in Seq(Char), NEW q \in Seq(Char), q # << >>, NEW k \in Nat \ {0}, Place(h, q, k), NEW start \in Nat
  PROVE  /\ Contiguous(k, start, Len(q)) # NoMatch /\ MatchOf(Contiguous(k, start, Len(q)), h, q)
         /\ \E f : Embeds(f, h, q, 1, Len(q))
<1> DEFINE n == Len(q)
           m == Contiguous(k, start, n)
           r == [first |-> k, last |-> k + n - 1]
           e == << >>
           f == [i \in 1..n |-> k + i - 1]
<1>1. n \in Nat \ {0} /\ Len(h) \in Nat /\ k + n - 1 <= Len(h) /\ SubSeq(h, k, k + n - 1) = q
  BY DEF Place
<1>2. m.ranges = <<r>>
  BY DEF Contiguous
<1>3. Within(r, Len(h)) /\ r \in Marking
  BY <1>1 DEF Within, Marking
<1>4. Ordered(e, Len(h)) /\ <<r>> = Append(e, r) /\ Pieces(h, e) = << >>
  BY DEF Ordered, Pieces
<1>5. Spell(h, e) = << >>
  BY <1>4, FlattenNone DEF Spell
<1>6. SubSeq(h, r.first, r.last) = q
  BY <1>1
<1>7. \A i \in 1..n : k + i - 1 \in Nat /\ 1 <= k + i - 1 /\ k + i - 1 <= Len(h) /\ h[k + i - 1] = q[i]
  <2> SUFFICES ASSUME NEW i \in 1..n
               PROVE  k + i - 1 \in Nat /\ 1 <= k + i - 1 /\ k + i - 1 <= Len(h) /\ h[k + i - 1] = q[i]
    OBVIOUS
  <2> HIDE DEF n
  <2>1. k + i - 1 \in Nat /\ 1 <= k + i - 1 /\ k + i - 1 <= Len(h)
    BY <1>1
  <2>2. k \in Int /\ k + n - 1 \in Int /\ \A j \in k..(k + n - 1) : h[j] \in Char
    BY <1>1
  <2>3. \A j \in 1..((k + n - 1) - k + 1) : SubSeq(h, k, k + n - 1)[j] = h[k + j - 1]
    BY <2>2, SubSeqProperties
  <2>4. i \in 1..((k + n - 1) - k + 1)
    BY <1>1
  <2> QED
    BY <1>1, <2>1, <2>3, <2>4
<1>8. Embeds(f, h, q, 1, n)
  <2>1. f \in [1..n -> Nat] /\ \A i \in 1..n : f[i] = k + i - 1
    BY <1>7
  <2> HIDE DEF f, n
  <2>2. \A i, j \in 1..n : i < j => k + i - 1 < k + j - 1
    BY <1>1
  <2> QED
    BY <1>7, <2>1, <2>2 DEF Embeds
<1> HIDE DEF r, e, f, n, m
<1>9. Ordered(<<r>>, Len(h)) /\ Spell(h, <<r>>) = q
  <2>1. Ordered(Append(e, r), Len(h))
    <3>1. e = << >>
      BY DEF e
    <3> QED
      BY <1>1, <1>3, <1>4, <3>1, OrderedAppend
  <2>2. Spell(h, Append(e, r)) = Spell(h, e) \o SubSeq(h, r.first, r.last)
    BY <1>3, <1>4, <2>1, SpellAppend
  <2>3. << >> \o q = q
    OBVIOUS
  <2> QED
    BY <1>4, <1>5, <1>6, <2>1, <2>2, <2>3
<1>10. m # NoMatch
  <2>1. NoMatch.ranges = << >> /\ <<r>> # << >>
    BY DEF NoMatch
  <2> QED
    BY <1>2, <2>1
<1>11. MatchOf(m, h, q)
  <2>1. m.score \in Int
    BY DEF m, Contiguous
  <2> QED
    BY <1>2, <1>9, <2>1 DEF MatchOf
<1> QED
  BY <1>8, <1>10, <1>11 DEF n, m

(* A path matches when the query's characters come in it in their order, and *)
(* what is marked spells the query.                                         *)
LEMMA PathMatched ==
  ASSUME NEW text \in Seq(Char), NEW for \in Seq(Char)
  PROVE  LET h == toLowerCase(text)
             q == toLowerCase(for)
             m == matchPath(text, for)
         IN /\ m # NoMatch <=> q # << >> /\ ComesIn(q, h)
            /\ MatchOf(m, h, q) /\ m.ranges \in Seq(Marking)
            /\ Even(text) /\ m # NoMatch => toLowerCase(Marked(text, m.ranges)) = q
<1> DEFINE h == toLowerCase(text)
           q == toLowerCase(for)
           m == matchPath(text, for)
           start == lastIndexOf(text, Slash) + 1
           direct == indexOf(h, q, 1)
           inName == subsequenceRanges(h, q, start, 1000)
<1>1. h \in Seq(Char) /\ q \in Seq(Char)
  BY LowerIs
<1>2. q # << >> <=> for # << >>
  <2>1. Len(q) \in Nat /\ Len(for) <= Len(q)
    BY LowerLong
  <2>2. for = << >> => q = << >>
    BY LowerNone
  <2> HIDE DEF q
  <2>3. for # << >> => q # << >>
    BY <2>1
  <2> QED
    BY <2>2, <2>3
<1>3. start \in Nat \ {0}
  <2> DEFINE spots == {i \in DOMAIN text : text[i] = Slash}
  <2>1. spots \in SUBSET (1..Len(text)) /\ Len(text) \in Nat
    OBVIOUS
  <2>2. lastIndexOf(text, Slash) = Max({0} \cup spots)
    BY DEF lastIndexOf
  <2> HIDE DEF spots
  <2>3. Max({0} \cup spots) \in 0..Len(text)
    BY <2>1, LastPlace
  <2>4. Max({0} \cup spots) \in Nat
    BY <2>1, <2>3
  <2> QED
    BY <2>2, <2>4
<1>4. m = IF for = << >> THEN NoMatch
          ELSE IF direct # 0 THEN Contiguous(direct, start, Len(q))
          ELSE IF inName # NoMatch THEN inName
          ELSE subsequenceRanges(h, q, 1, 2000)
  BY DEF matchPath
<1>5. direct \in Nat /\ (direct # 0 => Place(h, q, direct))
  <2> HIDE DEF h, q
  <2> QED
    BY <1>1, IndexFound
<1> HIDE DEF h, q, start, direct, inName, m
<1>6. /\ m # NoMatch <=> q # << >> /\ ComesIn(q, h)
      /\ MatchOf(m, h, q)
  <2>1. CASE for = << >>
    BY <1>2, <1>4, <2>1 DEF MatchOf
  <2>2. CASE for # << >>
    <3>1. q # << >>
      BY <1>2, <2>2
    <3>2. CASE direct # 0
      <4>1. m = Contiguous(direct, start, Len(q)) /\ direct \in Nat \ {0} /\ Place(h, q, direct)
        BY <1>4, <1>5, <2>2, <3>2
      <4>2. /\ m # NoMatch /\ MatchOf(m, h, q) /\ \E f : Embeds(f, h, q, 1, Len(q))
        BY <1>1, <1>3, <3>1, <4>1, ContiguousIs
      <4>3. ComesIn(q, h)
        BY <1>1, <4>2, ComesInIs
      <4> QED
        BY <3>1, <4>2, <4>3
    <3>3. CASE direct = 0
      <4>1. /\ MatchOf(inName, h, q)
            /\ inName # NoMatch <=> \E f : Embeds(f, h, q, start, Len(q))
        BY <1>1, <1>3, <3>1, SubsequenceIs DEF inName
      <4> DEFINE any == subsequenceRanges(h, q, 1, 2000)
      <4>2. /\ MatchOf(any, h, q)
            /\ any # NoMatch <=> \E f : Embeds(f, h, q, 1, Len(q))
        <5>1. 1 \in Nat \ {0}
          OBVIOUS
        <5> QED
          BY <1>1, <3>1, <5>1, SubsequenceIs
      <4>3. m = IF inName # NoMatch THEN inName ELSE any
        BY <1>4, <2>2, <3>3
      <4> HIDE DEF any
      <4>4. ComesIn(q, h) <=> \E f : Embeds(f, h, q, 1, Len(q))
        BY <1>1, ComesInIs
      <4>5. (\E f : Embeds(f, h, q, start, Len(q))) => \E f : Embeds(f, h, q, 1, Len(q))
        BY <1>3, EmbedsFrom
      <4> QED
        BY <3>1, <4>1, <4>2, <4>3, <4>4, <4>5
    <3> QED
      BY <3>2, <3>3
  <2> QED
    BY <2>1, <2>2
<1>7. m.ranges \in Seq(Marking)
  <2>1. NoMatch.ranges \in Seq(Marking)
    BY DEF NoMatch
  <2>2. m # NoMatch => m.ranges \in Seq(Marking)
    BY <1>6 DEF MatchOf, Ordered
  <2> QED
    BY <2>1, <2>2
<1>8. ASSUME Even(text), m # NoMatch PROVE toLowerCase(Marked(text, m.ranges)) = q
  <2> DEFINE rs == m.ranges
  <2>1. Ordered(rs, Len(h)) /\ Spell(h, rs) = q
    BY <1>6, <1>8 DEF MatchOf
  <2>2. Ordered(rs, Len(text))
    BY <1>8, <2>1 DEF Even, h
  <2> HIDE DEF rs
  <2>3. Marked(text, rs) = Spell(text, rs)
    BY <2>2, MarkedIs
  <2>4. toLowerCase(Spell(text, rs)) = Spell(toLowerCase(text), rs)
    BY <1>8, <2>2, LowerSpell
  <2> QED
    BY <2>1, <2>3, <2>4 DEF rs, h
<1> QED
  BY <1>6, <1>7, <1>8 DEF h, q, m

(* A strict total order of a finite set, as a set of pairs.                 *)
Ranks(B, S) ==
  /\ \A g \in S : <<g, g>> \notin B
  /\ \A f, g, h \in S : <<f, g>> \in B /\ <<g, h>> \in B => <<f, h>> \in B
  /\ \A g, h \in S : g # h => <<g, h>> \in B \/ <<h, g>> \in B

Before(B, S, h) == {g \in S : <<g, h>> \in B}

(* Everything has a rank of its own, and every rank is had.                 *)
LEMMA Ranked ==
  ASSUME NEW S, IsFiniteSet(S), NEW B, Ranks(B, S)
  PROVE  /\ \A k \in 1..Cardinality(S) : \E h \in S : Cardinality(Before(B, S, h)) = k - 1
         /\ \A h \in S : \E k \in 1..Cardinality(S) : Cardinality(Before(B, S, h)) = k - 1
         /\ \A g, h \in S : Cardinality(Before(B, S, g)) = Cardinality(Before(B, S, h)) => g = h
<1> DEFINE n == Cardinality(S)
           P(h) == Before(B, S, h)
           rank == [h \in S |-> Cardinality(P(h)) + 1]
<1>1. n \in Nat
  BY FS_CardinalityType
<1>2. \A h \in S : P(h) \in SUBSET S /\ P(h) # S
  BY DEF Ranks, Before
<1>3. \A h \in S : IsFiniteSet(P(h)) /\ Cardinality(P(h)) \in Nat /\ Cardinality(P(h)) < n
  <2> SUFFICES ASSUME NEW h \in S
               PROVE  IsFiniteSet(P(h)) /\ Cardinality(P(h)) \in Nat /\ Cardinality(P(h)) < n
    OBVIOUS
  <2> DEFINE U == P(h)
  <2>1. U \in SUBSET S /\ U # S
    BY <1>2
  <2> HIDE DEF U, n
  <2>2. IsFiniteSet(U) /\ Cardinality(U) <= Cardinality(S) /\ (Cardinality(S) = Cardinality(U) => S = U)
    BY <2>1, FS_Subset
  <2>3. Cardinality(U) \in Nat
    BY <2>2, FS_CardinalityType
  <2>4. Cardinality(U) < n
    BY <1>1, <2>1, <2>2, <2>3 DEF n
  <2> QED
    BY <2>2, <2>3, <2>4 DEF U
<1>4. ASSUME NEW g \in S, NEW h \in S, <<g, h>> \in B PROVE Cardinality(P(g)) < Cardinality(P(h))
  <2> DEFINE U == P(g)
             V == P(h)
  <2>1. U \in SUBSET V /\ g \in V /\ g \notin U
    BY <1>4 DEF Before, Ranks
  <2>2. IsFiniteSet(U) /\ IsFiniteSet(V) /\ Cardinality(U) \in Nat /\ Cardinality(V) \in Nat
    BY <1>3
  <2> HIDE DEF U, V
  <2>3. Cardinality(U) <= Cardinality(V) /\ (Cardinality(V) = Cardinality(U) => V = U)
    BY <2>1, <2>2, FS_Subset
  <2>4. Cardinality(U) < Cardinality(V)
    BY <2>1, <2>2, <2>3
  <2> QED
    BY <2>4 DEF U, V
<1>5. \A g, h \in S : Cardinality(P(g)) = Cardinality(P(h)) => g = h
  <2> SUFFICES ASSUME NEW g \in S, NEW h \in S, Cardinality(P(g)) = Cardinality(P(h)), g # h PROVE FALSE
    OBVIOUS
  <2>1. <<g, h>> \in B \/ <<h, g>> \in B
    BY DEF Ranks
  <2>2. Cardinality(P(g)) < Cardinality(P(h)) \/ Cardinality(P(h)) < Cardinality(P(g))
    BY <1>4, <2>1
  <2>3. Cardinality(P(g)) \in Nat
    BY <1>3
  <2> QED
    BY <2>2, <2>3
<1> HIDE DEF P, n
<1>6. rank \in [S -> 1..n] /\ \A h \in S : rank[h] = Cardinality(P(h)) + 1
  BY <1>1, <1>3
<1> HIDE DEF rank
<1>7. rank \in Injection(S, 1..n)
  <2>1. \A g, h \in S : rank[g] = rank[h] => g = h
    BY <1>3, <1>5, <1>6
  <2> QED
    BY <1>6, <2>1 DEF Injection, IsInjective
<1>8. rank \in Surjection(S, 1..n)
  <2>1. IsFiniteSet(1..n) /\ Cardinality(1..n) = n
    <3>1. 1 \in Int /\ n \in Int
      BY <1>1
    <3>2. IsFiniteSet(1..n) /\ Cardinality(1..n) = IF 1 > n THEN 0 ELSE n - 1 + 1
      BY <3>1, FS_Interval
    <3> QED
      BY <1>1, <3>2
  <2>2. Cardinality(S) = Cardinality(1..n) <=> rank \in Surjection(S, 1..n)
    BY <1>7, <2>1, FS_Injection
  <2> QED
    BY <2>1, <2>2 DEF n
<1>9. \A k \in 1..n : \E h \in S : rank[h] = k
  BY <1>8 DEF Surjection
<1>10. \A k \in 1..n : \E h \in S : Cardinality(P(h)) = k - 1
  <2> SUFFICES ASSUME NEW k \in 1..n PROVE \E h \in S : Cardinality(P(h)) = k - 1
    OBVIOUS
  <2>1. PICK h \in S : rank[h] = k
    BY <1>9
  <2>2. Cardinality(P(h)) = k - 1
    BY <1>1, <1>3, <1>6, <2>1
  <2> QED
    BY <2>2
<1>11. \A h \in S : \E k \in 1..n : Cardinality(P(h)) = k - 1
  <2> SUFFICES ASSUME NEW h \in S PROVE \E k \in 1..n : Cardinality(P(h)) = k - 1
    OBVIOUS
  <2>1. rank[h] \in 1..n /\ Cardinality(P(h)) = rank[h] - 1
    BY <1>1, <1>3, <1>6
  <2> QED
    BY <2>1
<1> QED
  BY <1>5, <1>10, <1>11 DEF n, P

(* A path is the text of its names.                                         *)
LEMMA TextIs ==
  ASSUME NEW path \in Path
  PROVE  Text(path) \in Seq(Char)
<1> DEFINE n == Len(path)
           S == Seq(Char)
           Is(t) == t = [k \in 1..n |-> IF k = 1 THEN path[1] ELSE t[k - 1] \o <<Slash>> \o path[k]]
           step == [x \in (1..(n - 1)) \X S |-> x[2] \o <<Slash>> \o path[x[1] + 1]]
           t == CHOOSE t : Is(t)
<1>1. n \in Nat \ {0} /\ n - 1 \in Nat /\ \A k \in 1..n : path[k] \in S
  BY MatchAssumption DEF Path
<1>2. <<Slash>> \in S
  BY MatchAssumption
<1> HIDE DEF S, n
<1>3. \A s \in S, k \in 1..n : s \o <<Slash>> \o path[k] \in S
  BY <1>1, <1>2 DEF S
<1>4. step \in [(1..(n - 1)) \X S -> S]
  <2>1. \A x \in (1..(n - 1)) \X S : x[2] \in S /\ x[1] + 1 \in 1..n
    BY <1>1
  <2> QED
    BY <1>3, <2>1
<1>5. \A k \in 1..(n - 1), s \in S : step[<<k, s>>] = s \o <<Slash>> \o path[k + 1]
  OBVIOUS
<1> HIDE DEF step
<1>6. path[1] \in S
  BY <1>1
<1>7. PICK w : Goes(w, S, path[1], n - 1, step)
  BY <1>1, <1>4, <1>6, Walks
<1>8. w \in [0..(n - 1) -> S] /\ w[0] = path[1] /\ \A k \in 1..(n - 1) : w[k] = step[<<k, w[k - 1]>>]
  BY <1>7 DEF Goes
<1> DEFINE v == [k \in 1..n |-> w[k - 1]]
<1>9. Is(v)
  <2>1. \A k \in 1..n : v[k] = IF k = 1 THEN path[1] ELSE v[k - 1] \o <<Slash>> \o path[k]
    <3> SUFFICES ASSUME NEW k \in 1..n, k # 1
                 PROVE  v[k] = v[k - 1] \o <<Slash>> \o path[k]
      <4>1. 1 \in 1..n /\ v[1] = w[1 - 1] /\ 1 - 1 = 0
        BY <1>1
      <4>2. v[1] = path[1]
        BY <1>8, <4>1
      <4> QED
        BY <4>2
    <3>1. k - 1 \in 1..(n - 1) /\ (k - 1) - 1 \in 0..(n - 1) /\ (k - 1) + 1 = k /\ k - 1 \in 1..n
      BY <1>1
    <3>2. w[k - 1] = step[<<k - 1, w[(k - 1) - 1]>>] /\ w[(k - 1) - 1] \in S
      BY <1>8, <3>1
    <3>3. w[k - 1] = w[(k - 1) - 1] \o <<Slash>> \o path[k]
      BY <1>5, <3>1, <3>2
    <3> QED
      BY <3>1, <3>3
  <2> HIDE DEF v
  <2>2. v = [k \in 1..n |-> v[k]]
    BY DEF v
  <2> QED
    BY <2>1, <2>2
<1>10. Is(t)
  <2> HIDE DEF Is
  <2> QED
    BY <1>9, Zenon
<1>11. Text(path) = t[n]
  BY DEF Text, n
<1> HIDE DEF t
<1>12. t[1] = path[1] /\ \A k \in 1..n : k # 1 => t[k] = t[k - 1] \o <<Slash>> \o path[k]
  <2>1. 1 \in 1..n
    BY <1>1
  <2> QED
    BY <1>10, <2>1
<1> HIDE DEF Is
<1> DEFINE T == {k \in Nat : k + 1 \in 1..n => t[k + 1] \in S}
<1>13. 0 \in T
  BY <1>6, <1>12
<1>14. ASSUME NEW k \in Nat, k \in T PROVE k + 1 \in T
  <2> SUFFICES ASSUME k + 2 \in 1..n PROVE t[k + 2] \in S
    OBVIOUS
  <2>1. k + 1 \in 1..n /\ k + 2 # 1 /\ (k + 2) - 1 = k + 1
    BY <1>1
  <2>2. t[k + 1] \in S /\ t[k + 2] = t[k + 1] \o <<Slash>> \o path[k + 2]
    BY <1>12, <1>14, <2>1
  <2> QED
    BY <1>3, <2>2
<1>15. t[n] \in S
  <2> HIDE DEF T
  <2>1. n - 1 \in T
    BY <1>1, <1>13, <1>14, SetInduction
  <2>2. (n - 1) + 1 = n /\ n \in 1..n
    BY <1>1
  <2> QED
    BY <2>1, <2>2 DEF T
<1> QED
  BY <1>11, <1>15 DEF S

Found(nodes, text, i) == matchPath(Text(nodes[i].path), text)

(* The names that are listed are those that match, each once.               *)
LEMMA NamesListed ==
  ASSUME NEW R, NEW nodes \in Seq(R), \A n \in R : n.path \in Path, NEW text \in Seq(Char)
  PROVE  LET list == searchNames(nodes, text) IN
         /\ \A k \in DOMAIN list : \E i \in DOMAIN nodes :
              list[k].node = nodes[i] /\ list[k].match = Found(nodes, text, i) /\ Found(nodes, text, i) # NoMatch
         /\ \A i \in DOMAIN nodes : Found(nodes, text, i) # NoMatch => \E k \in DOMAIN list : list[k].node = nodes[i]
         /\ Distinct(nodes) => \A j, k \in DOMAIN list : list[j].node = list[k].node => j = k
<1> DEFINE Hit(i) == [at |-> i, node |-> nodes[i], match |-> matchPath(Text(nodes[i].path), text)]
           hits == {Hit(i) : i \in DOMAIN nodes}
           found == {h \in hits : h.match # NoMatch}
           before(g, h) == Better(g, h) \/ (~Better(h, g) /\ g.at < h.at)
           rank(h) == Cardinality({g \in found : before(g, h)})
           list == [k \in 1..Cardinality(found) |-> CHOOSE h \in found : rank(h) = k - 1]
           f == [i \in DOMAIN nodes |-> Hit(i)]
           B == {x \in found \X found : before(x[1], x[2])}
<1>1. searchNames(nodes, text) = list
  BY DEF searchNames
<1>2. IsFiniteSet(found)
  <2> HIDE DEF Hit
  <2>1. DOMAIN nodes = 1..Len(nodes) /\ Len(nodes) \in Nat
    OBVIOUS
  <2>2. IsFiniteSet(DOMAIN nodes)
    BY <2>1, FS_Interval
  <2>3. f \in Surjection(DOMAIN nodes, hits)
    BY DEF Surjection
  <2>4. IsFiniteSet(hits)
    BY <2>2, <2>3, FS_Surjection
  <2> QED
    BY <2>4, FS_Subset
<1>3. \A i \in DOMAIN nodes : /\ Hit(i).at = i /\ Hit(i).node = nodes[i]
                              /\ Hit(i).match = Found(nodes, text, i)
  BY DEF Found
<1>4. \A h \in found : \E i \in DOMAIN nodes : h = Hit(i) /\ h.match # NoMatch
  OBVIOUS
<1>5. \A i \in DOMAIN nodes : Found(nodes, text, i) # NoMatch => Hit(i) \in found
  BY <1>3
<1> HIDE DEF Hit, found
<1>6. \A h \in found : h.at \in Nat /\ h.match.score \in Int /\ Len(Text(h.node.path)) \in Nat
  <2> SUFFICES ASSUME NEW h \in found
               PROVE  h.at \in Nat /\ h.match.score \in Int /\ Len(Text(h.node.path)) \in Nat
    OBVIOUS
  <2>1. PICK i \in DOMAIN nodes : h = Hit(i) /\ h.match # NoMatch
    BY <1>4
  <2> DEFINE p == Text(nodes[i].path)
  <2>2. i \in Nat /\ nodes[i] \in R
    OBVIOUS
  <2>3. p \in Seq(Char)
    BY <2>2, TextIs
  <2>4. h.match = matchPath(p, text) /\ h.at = i /\ h.node = nodes[i]
    BY <1>3, <2>1 DEF Found
  <2> HIDE DEF p
  <2>5. MatchOf(h.match, toLowerCase(p), toLowerCase(text))
    BY <2>3, <2>4, PathMatched
  <2>6. h.match.score \in Int
    BY <2>1, <2>5 DEF MatchOf
  <2>7. Len(p) \in Nat
    BY <2>3
  <2> QED
    BY <2>2, <2>4, <2>6, <2>7 DEF p
<1>7. \A g, h \in found : before(g, h) <=>
         \/ g.match.score < h.match.score
         \/ /\ g.match.score = h.match.score
            /\ \/ Len(Text(g.node.path)) < Len(Text(h.node.path))
               \/ Len(Text(g.node.path)) = Len(Text(h.node.path)) /\ g.at < h.at
  BY <1>6 DEF Better
<1>8. \A g, h \in found : g.at = h.at => g = h
  BY <1>3, <1>4
<1>9. \A g, h \in found : <<g, h>> \in B <=> before(g, h)
  OBVIOUS
<1> HIDE DEF before, B
<1>10. \A g \in found : ~before(g, g)
  BY <1>6, <1>7
<1>11. \A g, h, k \in found : before(g, h) /\ before(h, k) => before(g, k)
  <2> SUFFICES ASSUME NEW g \in found, NEW h \in found, NEW k \in found, before(g, h), before(h, k)
               PROVE  before(g, k)
    OBVIOUS
  <2> DEFINE a == g.match.score
             b == h.match.score
             c == k.match.score
             x == Len(Text(g.node.path))
             y == Len(Text(h.node.path))
             z == Len(Text(k.node.path))
  <2>1. a \in Int /\ b \in Int /\ c \in Int /\ x \in Nat /\ y \in Nat /\ z \in Nat
        /\ g.at \in Nat /\ h.at \in Nat /\ k.at \in Nat
    BY <1>6
  <2>2. a < b \/ (a = b /\ (x < y \/ (x = y /\ g.at < h.at)))
    BY <1>7
  <2>3. b < c \/ (b = c /\ (y < z \/ (y = z /\ h.at < k.at)))
    BY <1>7
  <2>4. before(g, k) <=> a < c \/ (a = c /\ (x < z \/ (x = z /\ g.at < k.at)))
    BY <1>7
  <2> HIDE DEF a, b, c, x, y, z
  <2>5. a < c \/ (a = c /\ (x < z \/ (x = z /\ g.at < k.at)))
    BY <2>1, <2>2, <2>3
  <2> QED
    BY <2>4, <2>5
<1>12. \A g, h \in found : g # h => before(g, h) \/ before(h, g)
  <2> SUFFICES ASSUME NEW g \in found, NEW h \in found, g # h PROVE before(g, h) \/ before(h, g)
    OBVIOUS
  <2>1. g.at # h.at
    BY <1>8
  <2> QED
    BY <1>6, <1>7, <2>1
<1>13. Ranks(B, found)
  BY <1>9, <1>10, <1>11, <1>12 DEF Ranks
<1>14. \A h \in found : rank(h) = Cardinality(Before(B, found, h))
  BY <1>9 DEF Before
<1> DEFINE n == Cardinality(found)
<1>15. /\ \A k \in 1..n : \E h \in found : rank(h) = k - 1
       /\ \A h \in found : \E k \in 1..n : rank(h) = k - 1
       /\ \A g, h \in found : rank(g) = rank(h) => g = h
  <2> HIDE DEF rank
  <2> QED
    BY <1>2, <1>13, <1>14, Ranked
<1>16. n \in Nat /\ DOMAIN list = 1..n
  BY <1>2, FS_CardinalityType
<1> HIDE DEF rank
<1>17. \A k \in 1..n : list[k] \in found /\ rank(list[k]) = k - 1
  BY <1>15
<1> HIDE DEF list
<1>18. \A h \in found : \E k \in 1..n : list[k] = h
  BY <1>15, <1>17
<1>19. \A j, k \in 1..n : list[j] = list[k] => j = k
  BY <1>16, <1>17
<1> HIDE DEF n
<1>20. \A k \in DOMAIN list : \E i \in DOMAIN nodes :
          list[k].node = nodes[i] /\ list[k].match = Found(nodes, text, i) /\ Found(nodes, text, i) # NoMatch
  <2> SUFFICES ASSUME NEW k \in DOMAIN list
               PROVE  \E i \in DOMAIN nodes :
                        /\ list[k].node = nodes[i] /\ list[k].match = Found(nodes, text, i)
                        /\ Found(nodes, text, i) # NoMatch
    OBVIOUS
  <2>1. list[k] \in found
    BY <1>16, <1>17
  <2>2. PICK i \in DOMAIN nodes : list[k] = Hit(i) /\ list[k].match # NoMatch
    BY <1>4, <2>1
  <2>3. list[k].node = nodes[i] /\ list[k].match = Found(nodes, text, i)
    BY <1>3, <2>2
  <2> QED
    BY <2>2, <2>3
<1>21. \A i \in DOMAIN nodes : Found(nodes, text, i) # NoMatch => \E k \in DOMAIN list : list[k].node = nodes[i]
  BY <1>3, <1>5, <1>16, <1>18
<1>22. ASSUME Distinct(nodes), NEW j \in DOMAIN list, NEW k \in DOMAIN list, list[j].node = list[k].node
       PROVE  j = k
  <2>1. PICK a \in DOMAIN nodes : list[j] = Hit(a)
    BY <1>4, <1>16, <1>17
  <2>2. PICK b \in DOMAIN nodes : list[k] = Hit(b)
    BY <1>4, <1>16, <1>17
  <2>3. a = b
    BY <1>3, <1>22, <2>1, <2>2 DEF Distinct
  <2> QED
    BY <1>16, <1>19, <1>22, <2>1, <2>2, <2>3
<1> QED
  BY <1>1, <1>20, <1>21, <1>22

(* Nothing that is typed, no name that is found.                            *)
LEMMA NothingNamed ==
  ASSUME NEW R, NEW nodes \in Seq(R), \A n \in R : n.path \in Path
  PROVE  searchNames(nodes, << >>) = << >>
<1> DEFINE list == searchNames(nodes, << >>)
<1>1. << >> \in Seq(Char)
  OBVIOUS
<1>2. \A i : Found(nodes, << >>, i) = NoMatch
  BY DEF Found, matchPath
<1>3. IsSeq(list)
  BY NamesAre
<1> HIDE DEF list
<1>4. list = searchNames(nodes, << >>)
  BY DEF list
<1>5. DOMAIN list = {}
  <2>1. \A k \in DOMAIN list : \E i \in DOMAIN nodes : Found(nodes, << >>, i) # NoMatch
    BY <1>1, <1>4, NamesListed
  <2> QED
    BY <1>2, <2>1
<1>6. PICK S : list \in Seq(S)
  BY <1>3 DEF IsSeq
<1> QED
  BY <1>4, <1>5, <1>6

LEMMA TrimNone == trim(<< >>) = << >>
<1>1. {i \in DOMAIN << >> : << >>[i] # Space} = {}
  OBVIOUS
<1> QED
  BY <1>1 DEF trim

(* What is trimmed begins with no space and has no other characters.        *)
LEMMA TrimPart ==
  ASSUME NEW R, NEW s \in Seq(R)
  PROVE  trim(s) \in Seq(R) /\ (trim(s) # << >> => trim(s)[1] # Space)
<1> DEFINE ink == {i \in DOMAIN s : s[i] # Space}
           a == Min(ink)
           b == Max(ink)
<1>1. trim(s) = IF ink = {} THEN << >> ELSE SubSeq(s, a, b)
  BY DEF trim
<1>2. ink \subseteq 1..Len(s) /\ ink \subseteq Nat /\ Len(s) \in Nat /\ \A i \in ink : s[i] # Space
  OBVIOUS
<1> HIDE DEF ink
<1>3. CASE ink = {}
  <2>1. trim(s) = << >>
    BY <1>1, <1>3
  <2>2. << >> \in Seq(R)
    OBVIOUS
  <2> QED
    BY <2>1, <2>2
<1>4. CASE ink # {}
  <2>1. a \in ink /\ \A y \in ink : a <= y
    BY <1>2, <1>4, MinIs
  <2>2. IsFiniteSet(1..Len(s))
    <3>1. 1 \in Int /\ Len(s) \in Int
      BY <1>2
    <3> QED
      BY <3>1, FS_Interval
  <2>3. IsFiniteSet(ink)
    BY <1>2, <2>2, FS_Subset
  <2>4. b \in ink /\ \A y \in ink : y <= b
    BY <1>2, <1>4, <2>3, MaxIs
  <2> HIDE DEF a, b
  <2>5. a \in 1..Len(s) /\ b \in 1..Len(s) /\ a <= b
    BY <1>2, <2>1, <2>4
  <2> DEFINE t == SubSeq(s, a, b)
  <2>6. t \in Seq(R) /\ t[1] = s[a]
    <3>1. a \in Int /\ b \in Int /\ \A j \in a..b : s[j] \in R
      BY <1>2, <2>5
    <3>2. t \in Seq(R) /\ \A j \in 1..(b - a + 1) : t[j] = s[a + j - 1]
      BY <3>1, SubSeqProperties
    <3>3. 1 \in 1..(b - a + 1) /\ a + 1 - 1 = a
      BY <1>2, <2>5
    <3> QED
      BY <3>2, <3>3
  <2>7. trim(s) = t
    BY <1>1, <1>4
  <2> HIDE DEF t
  <2> QED
    BY <1>2, <2>1, <2>6, <2>7
<1> QED
  BY <1>3, <1>4

-----------------------------------------------------------------------------
(* The names that are listed are those of the query and the tree there are;  *)
(* what is typed is typeable; the tree is that of rows that were there.      *)
NamesOf == names = searchNames(flattenTree(tree), trim(query))
TypedOf == query \in Seq(Typeable) /\ debounced \in Seq(Typeable)
Drawable(t) == t = << >> \/ \E F : Table(F) /\ Closed(F) /\ F \subseteq FileRows /\ t = buildTree(F)
TreeOf == Closed(files) /\ Drawable(tree)
ListInv == NamesOf /\ TypedOf /\ TreeOf

LEMMA FetchedRows ==
  ASSUME SearchInv
  PROVE  flattenTree(tree) \in Seq(FileRows) /\ Distinct(flattenTree(tree))
<1>1. FetchedOK(files, flattenTree(tree))
  BY DEF SearchInv
<1> QED
  BY <1>1 DEF FetchedOK, Distinct

LEMMA RowPaths == \A n \in FileRows : n.path \in Path
  BY DEF FileRows

LEMMA NoNames ==
  ASSUME SearchInv
  PROVE  searchNames(flattenTree(tree), trim(<< >>)) = << >>
<1>1. flattenTree(tree) \in Seq(FileRows)
  BY FetchedRows
<1> QED
  BY <1>1, RowPaths, NothingNamed, TrimNone

LEMMA ListInit ==
  ASSUME Init
  PROVE  ListInv
<1>1. SearchInv
  BY InitInv
<1>2. NamesOf
  BY <1>1, NoNames DEF NamesOf, Init
<1>3. TypedOf
  <2>1. << >> \in Seq(Typeable)
    OBVIOUS
  <2> QED
    BY <2>1 DEF Init, TypedOf
<1>4. TreeOf
  <2>1. Table(Start) /\ Closed(Start) /\ Start \subseteq FileRows
    BY SearchAssumption DEF Table, Tidy, FileRows
  <2> QED
    BY <2>1 DEF TreeOf, Drawable, Init
<1> QED
  BY <1>2, <1>3, <1>4 DEF ListInv

LEMMA CommitNames ==
  ASSUME NamesOf, Commit
  PROVE  NamesOf'
  BY DEF NamesOf, Commit

LEMMA NamesNext ==
  ASSUME SearchInv, SearchInv', NamesOf, [Next]_vars
  PROVE  NamesOf'
<1>1. CASE UNCHANGED vars
  BY <1>1 DEF vars, NamesOf
<1>2. ASSUME NEW mode \in {"all", "files"}, Open(mode) \/ SwitchMode(mode) PROVE NamesOf'
  BY <1>2, CommitNames DEF Open, SwitchMode, NamesOf
<1>3. CASE Dismiss \/ Choose
  <2>1. query' = << >> /\ names' = << >> /\ tree' = tree
    BY <1>3 DEF Dismiss, Choose, Closes
  <2>2. searchNames(flattenTree(tree), trim(<< >>)) = << >>
    BY NoNames
  <2> QED
    BY <2>1, <2>2 DEF NamesOf
<1>4. CASE Types \/ Deletes \/ Escapes \/ DebounceFires \/ Fetched
  <2>1. Commit
    BY <1>4 DEF Types, Deletes, Escapes, Typed, DebounceFires, Fetched
  <2> QED
    BY <2>1, CommitNames
<1>5. CASE Moves \/ Reads \/ StrayAnswered \/ Edited \/ Deleted
  <2>1. names' = names /\ query' = query /\ tree' = tree
    BY <1>5 DEF Moves, Reads, FromCache, Answered, Failed, Resumes, StrayAnswered, Edited, Deleted
  <2> QED
    BY <2>1 DEF NamesOf
<1> QED
  BY <1>1, <1>2, <1>3, <1>4, <1>5 DEF Next

LEMMA TypedNext ==
  ASSUME TypedOf, [Next]_vars
  PROVE  TypedOf'
<1>0. << >> \in Seq(Typeable)
  OBVIOUS
<1>1. CASE UNCHANGED <<query, debounced>>
  BY <1>1 DEF TypedOf
<1>2. CASE Dismiss \/ Choose
  BY <1>0, <1>2 DEF Dismiss, Choose, Closes, TypedOf
<1>3. CASE DebounceFires
  BY <1>3 DEF DebounceFires, TypedOf
<1>4. CASE Types \/ Deletes \/ Escapes
  <2>1. \E text \in Seq(Typeable) : Typed(text)
    <3>1. CASE Types
      <4>1. PICK c \in Typeable : Typed(Append(query, c))
        BY <3>1 DEF Types
      <4>2. Append(query, c) \in Seq(Typeable)
        BY DEF TypedOf
      <4> QED
        BY <4>1, <4>2
    <3>2. CASE Deletes
      <4>1. query # << >> /\ Typed(Front(query)) /\ query \in Seq(Typeable)
        BY <3>2 DEF Deletes, TypedOf
      <4>2. Front(query) \in Seq(Typeable)
        BY <4>1 DEF Front
      <4> QED
        BY <4>1, <4>2
    <3>3. CASE Escapes
      BY <1>0, <3>3 DEF Escapes
    <3> QED
      BY <1>4, <3>1, <3>2, <3>3
  <2> QED
    BY <2>1 DEF Typed, TypedOf
<1>5. CASE (\E mode \in {"all", "files"} : Open(mode) \/ SwitchMode(mode)) \/ Moves \/ Reads
           \/ StrayAnswered \/ Edited \/ Deleted \/ Fetched \/ UNCHANGED vars
  BY <1>1, <1>5 DEF Open, SwitchMode, Moves, Reads, FromCache, Answered, Failed, Resumes, StrayAnswered,
                    Edited, Deleted, Fetched, vars
<1> QED
  BY <1>2, <1>3, <1>4, <1>5 DEF Next

(* A file that is edited or deleted leaves every directory where it was.    *)
LEMMA DirectoriesStay ==
  ASSUME NEW F, NEW G, Closed(F), \A y \in G : \E x \in F : x.path = y.path, \A x \in F : x.isDir => x \in G
  PROVE  Closed(G)
  BY DEF Closed, At

LEMMA TreeNext ==
  ASSUME SearchInv, TreeOf, [Next]_vars
  PROVE  TreeOf'
<1>1. CASE UNCHANGED <<files, tree>>
  BY <1>1 DEF TreeOf, Drawable
<1>2. CASE Fetched
  <2>1. files' = files /\ tree' \in {buildTree(files), << >>}
    BY <1>2 DEF Fetched
  <2>2. Table(files) /\ files \subseteq FileRows
    BY DEF SearchInv, FilesOK, Past, Table, FileRows
  <2> QED
    BY <2>1, <2>2 DEF TreeOf, Drawable
<1>3. CASE Edited
  <2>1. PICK x \in files : ~x.isDir /\ files' = (files \ {x}) \cup {[x EXCEPT !.ver = @ + 1]} /\ tree' = tree
    BY <1>3 DEF Edited
  <2>2. x \in FileRows
    BY DEF SearchInv, FilesOK, Past
  <2>3. [x EXCEPT !.ver = @ + 1].path = x.path
    BY <2>2 DEF FileRows
  <2>4. \A y \in files' : \E z \in files : z.path = y.path
    BY <2>1, <2>3
  <2>5. \A z \in files : z.isDir => z \in files'
    BY <2>1
  <2>6. Closed(files)
    BY DEF TreeOf
  <2>7. Closed(files')
    BY <2>4, <2>5, <2>6, DirectoriesStay
  <2> QED
    BY <2>1, <2>7 DEF TreeOf, Drawable, Closed
<1>4. CASE Deleted
  <2>1. PICK x \in files : ~x.isDir /\ files' = files \ {x} /\ tree' = tree
    BY <1>4 DEF Deleted
  <2>2. Closed(files')
    BY <2>1, DirectoriesStay DEF TreeOf
  <2> QED
    BY <2>1, <2>2 DEF TreeOf, Drawable, Closed
<1>5. CASE (\E mode \in {"all", "files"} : Open(mode) \/ SwitchMode(mode)) \/ Moves \/ Reads
           \/ StrayAnswered \/ UNCHANGED vars \/ Dismiss \/ Choose \/ Types \/ Deletes \/ Escapes \/ DebounceFires
  BY <1>1, <1>5 DEF Open, SwitchMode, Moves, Reads, FromCache, Answered, Failed, Resumes, StrayAnswered,
                    vars, Dismiss, Choose, Closes, Types, Deletes, Escapes, Typed, DebounceFires
<1> QED
  BY <1>2, <1>3, <1>4, <1>5 DEF Next

LEMMA ListInvariance == Spec => [](SearchInv /\ ListInv)
<1>1. SearchInv /\ SearchInv' /\ ListInv /\ [Next]_vars => ListInv'
  BY NamesNext, TypedNext, TreeNext DEF ListInv
<1> QED
  BY <1>1, ListInit, Invariance, PTL DEF Spec

-----------------------------------------------------------------------------
(* Each path that matches is listed once, and what is marked spells the query.*)
LEMMA PathsAreMatched ==
  ASSUME SearchInv, ListInv
  PROVE  PathsMatch
<1> DEFINE nodes == flattenTree(tree)
           for == trim(query)
           q == toLowerCase(for)
<1>1. nodes \in Seq(FileRows) /\ Distinct(nodes)
  BY FetchedRows
<1>2. for \in Seq(Char)
  BY TrimIs DEF SearchInv, TextsOK
<1>3. names = searchNames(nodes, for)
  BY DEF ListInv, NamesOf
<1> HIDE DEF nodes, for, q
<1>4. /\ \A k \in DOMAIN names : \E i \in DOMAIN nodes :
           names[k].node = nodes[i] /\ names[k].match = Found(nodes, for, i) /\ Found(nodes, for, i) # NoMatch
      /\ \A i \in DOMAIN nodes : Found(nodes, for, i) # NoMatch => \E k \in DOMAIN names : names[k].node = nodes[i]
      /\ \A j, k \in DOMAIN names : names[j].node = names[k].node => j = k
  BY <1>1, <1>2, <1>3, RowPaths, NamesListed
<1>5. ASSUME NEW n \in ToSet(nodes)
      PROVE  LET text == Text(n.path)
                 listed == {i \in DOMAIN names : names[i].node = n}
             IN /\ listed # {} <=> q # << >> /\ ComesIn(q, toLowerCase(text))
                /\ \A i, j \in listed : i = j
                /\ Even(text) => \A i \in listed : toLowerCase(Marked(text, names[i].match.ranges)) = q
  <2> DEFINE text == Text(n.path)
             listed == {i \in DOMAIN names : names[i].node = n}
             m == matchPath(text, for)
  <2>1. n \in FileRows /\ \E i \in DOMAIN nodes : nodes[i] = n
    BY <1>1, <1>5, ElementsOf DEF ToSet
  <2>2. text \in Seq(Char)
    BY <2>1, RowPaths, TextIs
  <2>3. \A i \in DOMAIN nodes : nodes[i] = n => Found(nodes, for, i) = m
    BY DEF Found
  <2>4. \A k \in listed : names[k].match = m /\ m # NoMatch
    BY <1>4, <2>3
  <2>5. m # NoMatch => listed # {}
    BY <1>4, <2>1, <2>3
  <2> HIDE DEF text
  <2>6. /\ m # NoMatch <=> q # << >> /\ ComesIn(q, toLowerCase(text))
        /\ Even(text) /\ m # NoMatch => toLowerCase(Marked(text, m.ranges)) = q
    BY <1>2, <2>2, PathMatched DEF q
  <2> HIDE DEF m
  <2>7. listed # {} <=> q # << >> /\ ComesIn(q, toLowerCase(text))
    BY <2>4, <2>5, <2>6
  <2>8. \A i, j \in listed : i = j
    BY <1>4
  <2>9. Even(text) => \A i \in listed : toLowerCase(Marked(text, names[i].match.ranges)) = q
    BY <2>4, <2>6
  <2> QED
    BY <2>7, <2>8, <2>9 DEF text
<1> QED
  BY <1>5 DEF PathsMatch, nodes, q, for

LEMMA NamesDrawnWhole ==
  ASSUME SearchInv, ListInv
  PROVE  \A i \in DOMAIN names :
           LET text == Text(names[i].node.path) IN Whole(Highlight(text, names[i].match.ranges)) = text
<1> DEFINE nodes == flattenTree(tree)
           for == trim(query)
<1>1. nodes \in Seq(FileRows)
  BY FetchedRows
<1>2. for \in Seq(Char)
  BY TrimIs DEF SearchInv, TextsOK
<1>3. names = searchNames(nodes, for)
  BY DEF ListInv, NamesOf
<1> HIDE DEF nodes, for
<1>4. \A k \in DOMAIN names : \E i \in DOMAIN nodes :
        names[k].node = nodes[i] /\ names[k].match = Found(nodes, for, i)
  BY <1>1, <1>2, <1>3, RowPaths, NamesListed
<1> SUFFICES ASSUME NEW k \in DOMAIN names
             PROVE  Whole(Highlight(Text(names[k].node.path), names[k].match.ranges)) = Text(names[k].node.path)
  OBVIOUS
<1>5. PICK i \in DOMAIN nodes : names[k].node = nodes[i] /\ names[k].match = Found(nodes, for, i)
  BY <1>4
<1> DEFINE text == Text(nodes[i].path)
           m == matchPath(text, for)
<1>6. text \in Seq(Char)
  BY <1>1, <1>5, RowPaths, TextIs
<1>7. names[k].match = m
  BY <1>5 DEF Found
<1> HIDE DEF text
<1>8. m.ranges \in Seq(Marking)
  BY <1>2, <1>6, PathMatched
<1> HIDE DEF m
<1>9. Whole(Highlight(text, m.ranges)) = text
  BY <1>6, <1>8, WholeIs
<1> QED
  BY <1>5, <1>7, <1>9 DEF text

-----------------------------------------------------------------------------
(* What the search of a text comes to with one more match allowed.          *)
LineHits(content, asked, v) ==
  [c \in Nat |->
     LET found == indexOf(toLowerCase(content), toLowerCase(asked), c) IN
     IF found = 0 THEN << >>
     ELSE <<LineHit(content, found, Len(toLowerCase(asked)))>> \o v[LineEnd(content, found) + 1]]

LEMMA MatchesBy ==
  ASSUME NEW content, NEW asked, NEW limit \in Nat, asked # << >>,
         NEW V, NEW base \in V, base = [c \in Nat |-> << >>],
         \A v \in V : LineHits(content, asked, v) \in V
  PROVE  \E v \in V : matchContent(content, asked, limit) = v[1]
<1> DEFINE haystack == toLowerCase(content)
           needle == toLowerCase(asked)
           hit(c) == indexOf(haystack, needle, c)
           more(a) == [c \in Nat |-> IF hit(c) = 0 THEN << >>
                                     ELSE <<LineHit(content, hit(c), Len(needle))>>
                                            \o a[LineEnd(content, hit(c)) + 1]]
           E(room, a) == [c \in Nat |->
                            IF room = 0 \/ hit(c) = 0 THEN << >>
                            ELSE <<LineHit(content, hit(c), Len(needle))>>
                                   \o a[LineEnd(content, hit(c)) + 1]]
           Is(f) == f = [room \in 0..limit |-> E(room, f[room - 1])]
           step == [x \in (1..limit) \X V |-> more(x[2])]
<1>1. \A v \in V : more(v) \in V
  <2>1. \A v : more(v) = LineHits(content, asked, v)
    BY DEF LineHits
  <2> HIDE DEF more
  <2> QED
    BY <2>1
<1>2. \A a : E(0, a) = base
  OBVIOUS
<1>3. \A room, a : room # 0 => E(room, a) = more(a)
  OBVIOUS
<1> HIDE DEF more
<1>4. step \in [(1..limit) \X V -> V] /\ \A k \in 1..limit, v \in V : step[<<k, v>>] = more(v)
  <2>1. \A x \in (1..limit) \X V : x[2] \in V
    OBVIOUS
  <2> QED
    BY <1>1, <2>1
<1> HIDE DEF step
<1>5. PICK w : Goes(w, V, base, limit, step)
  BY <1>4, Walks
<1>6. w \in [0..limit -> V] /\ w[0] = base /\ \A k \in 1..limit : w[k] = step[<<k, w[k - 1]>>]
  BY <1>5 DEF Goes
<1> HIDE DEF E
<1>7. Is(w)
  <2> SUFFICES ASSUME NEW room \in 0..limit PROVE w[room] = E(room, w[room - 1])
    BY <1>6
  <2>1. CASE room = 0
    BY <1>2, <1>6, <2>1
  <2>2. CASE room # 0
    <3>1. room \in 1..limit /\ room - 1 \in 0..limit
      BY <2>2
    <3>2. w[room - 1] \in V /\ w[room] = step[<<room, w[room - 1]>>]
      BY <1>6, <3>1
    <3>3. w[room] = more(w[room - 1])
      BY <1>4, <3>1, <3>2
    <3> QED
      BY <1>3, <2>2, <3>3
  <2> QED
    BY <2>1, <2>2
<1> DEFINE f == CHOOSE f : Is(f)
<1>8. Is(f)
  <2> HIDE DEF Is
  <2> QED
    BY <1>7, Zenon
<1>9. matchContent(content, asked, limit) = f[limit][1]
  BY DEF matchContent, E
<1> HIDE DEF f
<1>10. f[0] = base /\ \A k \in 1..limit : f[k] = more(f[k - 1])
  <2>1. \A k \in 1..limit : k \in 0..limit /\ k # 0
    OBVIOUS
  <2>2. 0 \in 0..limit
    OBVIOUS
  <2>3. \A k \in 0..limit : f[k] = E(k, f[k - 1])
    BY <1>8
  <2> HIDE DEF Is
  <2> QED
    BY <1>2, <1>3, <2>1, <2>2, <2>3
<1> HIDE DEF Is
<1> DEFINE T == {k \in Nat : k \in 0..limit => f[k] \in V}
<1>11. 0 \in T
  BY <1>10
<1>12. ASSUME NEW k \in Nat, k \in T PROVE k + 1 \in T
  <2> SUFFICES ASSUME k + 1 \in 0..limit PROVE f[k + 1] \in V
    OBVIOUS
  <2>1. k \in 0..limit /\ k + 1 \in 1..limit /\ (k + 1) - 1 = k
    OBVIOUS
  <2>2. f[k] \in V /\ f[k + 1] = more(f[k])
    BY <1>10, <1>12, <2>1
  <2> QED
    BY <1>1, <2>2
<1>13. f[limit] \in V
  <2> HIDE DEF T
  <2>1. limit \in T
    BY <1>11, <1>12, SetInduction
  <2> QED
    BY <2>1 DEF T
<1> QED
  BY <1>9, <1>13

-----------------------------------------------------------------------------
(* Where a line ends, and the number of a line after it.                    *)
LEMMA LineEndFound ==
  ASSUME NEW content \in Seq(Char), NEW k \in Nat \ {0}
  PROVE  LET e == LineEnd(content, k) IN
         /\ e \in Nat
         /\ e = Len(content) + 1 \/ (k <= e /\ e <= Len(content) /\ content[e] = Newline)
         /\ \A j \in Nat : k <= j /\ j < e /\ j <= Len(content) => content[j] # Newline
<1> DEFINE e == LineEnd(content, k)
           end == indexOf(content, <<Newline>>, k)
<1>1. /\ end \in Nat
      /\ end # 0 => end >= k /\ end <= Len(content) /\ content[end] = Newline
                    /\ \A j \in Nat : k <= j /\ j < end => content[j] # Newline
      /\ end = 0 => \A j \in Nat : k <= j /\ j <= Len(content) => content[j] # Newline
  BY NewlineIs, CharFound
<1>2. e = IF end = 0 THEN Len(content) + 1 ELSE end
  BY DEF LineEnd
<1>3. Len(content) \in Nat
  OBVIOUS
<1> HIDE DEF end, e
<1> QED
  BY <1>1, <1>2, <1>3 DEF e

LEMMA LaterLine ==
  ASSUME NEW content \in Seq(Char), NEW k \in Nat, NEW m \in Nat, NEW e \in 1..Len(content),
         content[e] = Newline, k <= e, e < m
  PROVE  LineOf(content, k) < LineOf(content, m)
<1> DEFINE A == {i \in DOMAIN content : i < k /\ content[i] = Newline}
           B == {i \in DOMAIN content : i < m /\ content[i] = Newline}
<1>1. A \subseteq B /\ e \in B /\ e \notin A /\ B \subseteq 1..Len(content)
  OBVIOUS
<1>2. IsFiniteSet(1..Len(content))
  <2>1. 1 \in Int /\ Len(content) \in Int
    OBVIOUS
  <2> QED
    BY <2>1, FS_Interval
<1>3. LineOf(content, k) = 1 + Cardinality(A) /\ LineOf(content, m) = 1 + Cardinality(B)
  BY DEF LineOf
<1> HIDE DEF A, B
<1>4. IsFiniteSet(B)
  BY <1>1, <1>2, FS_Subset
<1>5. IsFiniteSet(A) /\ Cardinality(A) <= Cardinality(B) /\ (Cardinality(B) = Cardinality(A) => B = A)
  BY <1>1, <1>4, FS_Subset
<1>6. Cardinality(A) \in Nat /\ Cardinality(B) \in Nat
  BY <1>4, <1>5, FS_CardinalityType
<1> QED
  BY <1>1, <1>3, <1>5, <1>6

-----------------------------------------------------------------------------
(* What is found in a text: at a place where the query is, and in a text     *)
(* that is as long in lower case, in a line of its own.                     *)
HitAt(content, asked, k) == LineHit(content, k, Len(toLowerCase(asked)))
Hit(content, asked, c, match) ==
  \E k \in Nat \ {0} : /\ Place(toLowerCase(content), toLowerCase(asked), k)
                       /\ Even(content) => c <= k
                       /\ match = HitAt(content, asked, k)
LinesFrom(content, asked, c, found) ==
  /\ \A i \in DOMAIN found : Hit(content, asked, c, found[i])
  /\ Even(content) => \A i, j \in DOMAIN found : i < j => found[i].line < found[j].line

LEMMA LineOfHit ==
  ASSUME NEW content, NEW asked, NEW k
  PROVE  HitAt(content, asked, k).line = LineOf(content, k) /\ HitAt(content, asked, k).offset = k
  BY DEF HitAt, LineHit, LineOf

LEMMA HitType ==
  ASSUME NEW content \in Seq(Char), NEW asked \in Seq(Char), NEW k \in Nat
  PROVE  HitAt(content, asked, k) \in LineMatches
<1> DEFINE l == Len(toLowerCase(asked))
<1>1. l \in Nat
  BY LowerLong
<1> HIDE DEF l
<1>2. LineHit(content, k, l) \in LineMatches
  BY <1>1 DEF LineMatches
<1> QED
  BY <1>2 DEF HitAt, l

LEMMA OneMoreLine ==
  ASSUME NEW content \in Seq(Char), NEW asked \in Seq(Char), asked # << >>,
         NEW c \in Nat \ {0}, NEW k \in Nat \ {0}, c <= k,
         Place(toLowerCase(content), toLowerCase(asked), k),
         NEW rest \in Seq(LineMatches), LinesFrom(content, asked, LineEnd(content, k) + 1, rest),
         NEW one, one = <<HitAt(content, asked, k)>>
  PROVE  LinesFrom(content, asked, c, one \o rest)
<1> DEFINE e == LineEnd(content, k)
           L == Len(toLowerCase(asked))
           all == one \o rest
           x == HitAt(content, asked, k)
<1>1. /\ e \in Nat
      /\ e = Len(content) + 1 \/ (k <= e /\ e <= Len(content) /\ content[e] = Newline)
  BY LineEndFound
<1>2. toLowerCase(asked) \in Seq(Char) /\ toLowerCase(content) \in Seq(Char) /\ Len(content) \in Nat
  BY LowerIs
<1>3. L \in Nat /\ L >= 1
  <2>1. L \in Nat /\ Len(asked) <= L /\ Len(asked) \in Nat /\ Len(asked) # 0
    BY LowerLong
  <2> QED
    BY <2>1
<1>4. x \in LineMatches
  BY HitType
<1> HIDE DEF x, e
<1>5. one \in Seq(LineMatches) /\ Len(one) = 1 /\ one[1] = x
  BY <1>4 DEF x
<1>6. /\ all \in Seq(LineMatches) /\ DOMAIN all = 1..(Len(rest) + 1) /\ Len(rest) \in Nat
      /\ all[1] = x /\ \A i \in 1..(Len(rest) + 1) : i # 1 => i - 1 \in DOMAIN rest /\ all[i] = rest[i - 1]
  <2> HIDE DEF x
  <2>1. Len(all) = 1 + Len(rest) /\ all \in Seq(LineMatches) /\ Len(rest) \in Nat /\ DOMAIN rest = 1..Len(rest)
    BY <1>5
  <2>2. \A i \in 1..Len(all) : all[i] = IF i <= Len(one) THEN one[i] ELSE rest[i - Len(one)]
    BY <1>5
  <2>3. DOMAIN all = 1..(Len(rest) + 1)
    BY <2>1
  <2> QED
    BY <1>5, <2>1, <2>2, <2>3
<1> HIDE DEF all
<1>7. Hit(content, asked, c, x)
  BY DEF Hit, x
<1>8. \A i \in DOMAIN rest : Hit(content, asked, e + 1, rest[i])
  BY DEF LinesFrom, e
<1>9. Even(content) => k <= e /\ \A m \in Nat : Place(toLowerCase(content), toLowerCase(asked), m) => m <= Len(content)
  <2> SUFFICES ASSUME Even(content)
               PROVE  k <= e /\ \A m \in Nat : Place(toLowerCase(content), toLowerCase(asked), m) => m <= Len(content)
    OBVIOUS
  <2>1. Len(toLowerCase(content)) = Len(content)
    BY DEF Even
  <2> HIDE DEF L
  <2>2. \A m \in Nat : Place(toLowerCase(content), toLowerCase(asked), m) => m <= Len(content) - L + 1
    BY <2>1 DEF Place, L
  <2>3. \A m \in Nat : Place(toLowerCase(content), toLowerCase(asked), m) => m <= Len(content)
    BY <1>2, <1>3, <2>2
  <2> QED
    BY <1>1, <1>2, <2>3
<1>10. ASSUME NEW i \in DOMAIN rest
       PROVE  /\ Hit(content, asked, c, rest[i])
              /\ Even(content) => x.line < rest[i].line
  <2>1. PICK m \in Nat \ {0} : /\ Place(toLowerCase(content), toLowerCase(asked), m)
                               /\ Even(content) => e + 1 <= m
                               /\ rest[i] = HitAt(content, asked, m)
    BY <1>8 DEF Hit
  <2>2. Even(content) => c <= m
    BY <1>1, <1>9, <2>1
  <2>3. Even(content) => LineOf(content, k) < LineOf(content, m)
    <3> SUFFICES ASSUME Even(content) PROVE LineOf(content, k) < LineOf(content, m)
      OBVIOUS
    <3>1. k <= e /\ e < m /\ e <= Len(content) /\ content[e] = Newline /\ e \in 1..Len(content)
      BY <1>1, <1>2, <1>9, <2>1
    <3> QED
      BY <3>1, LaterLine
  <2>4. x.line = LineOf(content, k) /\ rest[i].line = LineOf(content, m)
    BY <2>1, LineOfHit DEF x
  <2> QED
    BY <2>1, <2>2, <2>3, <2>4 DEF Hit
<1>11. \A i \in DOMAIN all : Hit(content, asked, c, all[i])
  BY <1>6, <1>7, <1>10
<1>12. ASSUME Even(content), NEW i \in DOMAIN all, NEW j \in DOMAIN all, i < j
       PROVE  all[i].line < all[j].line
  <2>1. j # 1 /\ j - 1 \in DOMAIN rest /\ all[j] = rest[j - 1]
    BY <1>6, <1>12
  <2>2. CASE i = 1
    BY <1>6, <1>10, <1>12, <2>1, <2>2
  <2>3. CASE i # 1
    <3>1. i - 1 \in DOMAIN rest /\ all[i] = rest[i - 1] /\ i - 1 < j - 1
      BY <1>6, <1>12, <2>3
    <3> QED
      BY <1>12, <2>1, <3>1 DEF LinesFrom
  <2> QED
    BY <2>2, <2>3
<1> QED
  BY <1>11, <1>12 DEF LinesFrom, all

(* All that is found.                                                       *)
LEMMA MatchesFound ==
  ASSUME NEW content \in Seq(Char), NEW asked \in Seq(Char), asked # << >>, NEW limit \in Nat
  PROVE  LinesFrom(content, asked, 1, matchContent(content, asked, limit))
<1> DEFINE W == [Nat -> Seq(LineMatches)]
           V == {v \in W : \A c \in Nat \ {0} : LinesFrom(content, asked, c, v[c])}
           base == [c \in Nat |-> << >>]
<1>1. base \in V
  <2>1. \A c : LinesFrom(content, asked, c, << >>)
    BY DEF LinesFrom
  <2> QED
    BY <2>1
<1>2. ASSUME NEW v \in V PROVE LineHits(content, asked, v) \in V
  <2> DEFINE found(c) == indexOf(toLowerCase(content), toLowerCase(asked), c)
             one(c) == <<HitAt(content, asked, found(c))>>
             rest(c) == v[LineEnd(content, found(c)) + 1]
             next == LineHits(content, asked, v)
  <2>0. \A x \in Nat : x + 1 \in Nat /\ x + 1 \in Nat \ {0}
    OBVIOUS
  <2>1. next = [c \in Nat |-> IF found(c) = 0 THEN << >> ELSE one(c) \o rest(c)]
    BY DEF LineHits, HitAt
  <2>2. toLowerCase(asked) \in Seq(Char) /\ toLowerCase(content) \in Seq(Char)
    BY LowerIs
  <2>3. \A c \in Nat : found(c) \in Nat
    BY <2>2, IndexIs
  <2>4. \A c \in Nat \ {0} : found(c) # 0 =>
           c <= found(c) /\ Place(toLowerCase(content), toLowerCase(asked), found(c))
    BY <2>2, IndexFound
  <2> HIDE DEF found, next
  <2>5. ASSUME NEW c \in Nat
        PROVE  one(c) \in Seq(LineMatches) /\ rest(c) \in Seq(LineMatches) /\ LineEnd(content, found(c)) \in Nat
    <3>1. HitAt(content, asked, found(c)) \in LineMatches
      BY <2>3, HitType
    <3>2. LineEnd(content, found(c)) \in Nat
      BY <2>3, NewlineIs, LineEndIs
    <3>3. LineEnd(content, found(c)) + 1 \in Nat
      BY <2>0, <3>2
    <3>4. rest(c) \in Seq(LineMatches)
      BY <3>3
    <3> QED
      BY <3>1, <3>2, <3>4
  <2>6. ASSUME NEW c \in Nat \ {0}, found(c) # 0 PROVE LinesFrom(content, asked, c, one(c) \o rest(c))
    <3> DEFINE k == found(c)
               r == rest(c)
    <3>1. k \in Nat \ {0} /\ c <= k /\ Place(toLowerCase(content), toLowerCase(asked), k)
      BY <2>3, <2>4, <2>6
    <3>2. r \in Seq(LineMatches) /\ LineEnd(content, k) \in Nat
      BY <2>5
    <3> DEFINE d == LineEnd(content, k) + 1
    <3>5. d \in Nat \ {0}
      <4> HIDE DEF k
      <4> QED
        BY <2>0, <3>2
    <3> HIDE DEF d
    <3>6. r = v[d]
      BY DEF d
    <3>7. LinesFrom(content, asked, d, v[d])
      BY <3>5
    <3>3. LinesFrom(content, asked, LineEnd(content, k) + 1, r)
      BY <3>6, <3>7 DEF d
    <3> HIDE DEF k, r
    <3>4. LinesFrom(content, asked, c, <<HitAt(content, asked, k)>> \o r)
      BY <3>1, <3>2, <3>3, OneMoreLine
    <3> QED
      BY <3>4 DEF k, r
  <2>7. \A c \in Nat : one(c) \o rest(c) \in Seq(LineMatches)
    <3> SUFFICES ASSUME NEW c \in Nat PROVE one(c) \o rest(c) \in Seq(LineMatches)
      OBVIOUS
    <3>1. one(c) \in Seq(LineMatches) /\ rest(c) \in Seq(LineMatches)
      BY <2>5
    <3> HIDE DEF one, rest
    <3> QED
      BY <3>1
  <2> HIDE DEF one, rest
  <2>8. next \in W
    BY <2>1, <2>7
  <2>9. \A c : LinesFrom(content, asked, c, << >>)
    BY DEF LinesFrom
  <2>10. \A c \in Nat \ {0} : LinesFrom(content, asked, c, next[c])
    BY <2>1, <2>6, <2>9
  <2> QED
    BY <2>8, <2>10 DEF next
<1> HIDE DEF V
<1>3. PICK v \in V : matchContent(content, asked, limit) = v[1]
  BY <1>1, <1>2, MatchesBy
<1> QED
  BY <1>3 DEF V

LEMMA Greater ==
  ASSUME NEW a \in Int, NEW b \in Int
  PROVE  /\ Max({a, b}) \in {a, b} /\ Max({a, b}) >= a /\ Max({a, b}) >= b
         /\ Min({a, b}) \in {a, b} /\ Min({a, b}) <= a /\ Min({a, b}) <= b
<1> DEFINE S == {a, b}
           m == Max(S)
           n == Min(S)
<1>1. /\ m = CHOOSE x \in S : \A y \in S : x >= y
      /\ n = CHOOSE x \in S : \A y \in S : x <= y
  BY DEF Max, Min
<1>2. \E x \in S : \A y \in S : x >= y
  OBVIOUS
<1>3. \E x \in S : \A y \in S : x <= y
  OBVIOUS
<1> HIDE DEF m, n, S
<1>4. m \in S /\ \A y \in S : m >= y
  BY <1>1, <1>2
<1>5. n \in S /\ \A y \in S : n <= y
  BY <1>1, <1>3
<1> QED
  BY <1>4, <1>5 DEF m, n, S

Shown == Char \cup {Ellipsis}

(* A line clipped around a match still has the match, where the range says.  *)
LEMMA SnippetIs ==
  ASSUME NEW raw \in Seq(Char), NEW column \in Nat, NEW length \in Nat \ {0}
  PROVE  LET snippet == Snippet(raw, column, length)
             r == snippet.range
         IN /\ snippet.text \in Seq(Shown) /\ r \in Marking
            /\ column + length <= Len(raw) /\ raw[column + 1] # Space =>
                 /\ Within(r, Len(snippet.text))
                 /\ SubSeq(snippet.text, r.first, r.last) = SubSeq(raw, column + 1, column + length)
<1> DEFINE indent == Indent(raw)
           from == Max({indent, column - SNIPPET_BEFORE})
           to == Min({Len(raw), column + length + SNIPPET_AFTER})
           prefix == IF from > indent THEN <<Ellipsis>> ELSE << >>
           suffix == IF to < Len(raw) THEN <<Ellipsis>> ELSE << >>
           start == MarkStart(prefix, column, from)
           text == prefix \o SubSeq(raw, from + 1, to) \o suffix
           ink == {i \in DOMAIN raw : raw[i] # Space}
           n == Len(raw)
           r == [first |-> start + 1, last |-> start + length]
           snippet == Snippet(raw, column, length)
<1>1. snippet = [text |-> text, range |-> r]
  BY DEF Snippet
<1>2. n \in Nat /\ SNIPPET_BEFORE \in Nat /\ SNIPPET_AFTER \in Nat /\ raw \in Seq(Shown)
  BY MatchAssumption DEF Shown
<1>3. ink \subseteq 1..n /\ ink \subseteq Nat
  OBVIOUS
<1>4. indent = IF ink = {} THEN n ELSE Min(ink) - 1
  BY DEF Indent
<1> HIDE DEF ink, n, indent
<1>5. indent \in 0..n /\ \A i \in ink : indent < i
  <2>1. CASE ink = {}
    BY <1>2, <1>4, <2>1
  <2>2. CASE ink # {}
    <3>1. Min(ink) \in ink /\ \A y \in ink : Min(ink) <= y
      BY <1>3, <2>2, MinIs
    <3>2. Min(ink) \in 1..n
      BY <1>3, <3>1
    <3> QED
      BY <1>2, <1>3, <1>4, <2>2, <3>1, <3>2
  <2> QED
    BY <2>1, <2>2
<1>6. from \in Int /\ from >= indent /\ (from = indent \/ from = column - SNIPPET_BEFORE)
  <2>1. indent \in Int /\ column - SNIPPET_BEFORE \in Int
    BY <1>2, <1>5
  <2> QED
    BY <2>1, Greater
<1>7. to \in Int /\ to <= n /\ (to = n \/ to = column + length + SNIPPET_AFTER)
  <2>1. n \in Int /\ column + length + SNIPPET_AFTER \in Int
    BY <1>2
  <2>2. to = Min({n, column + length + SNIPPET_AFTER})
    BY DEF n
  <2> HIDE DEF to
  <2> QED
    BY <2>1, <2>2, Greater
<1> HIDE DEF from, to
<1>8. from \in Nat /\ to \in Nat
  BY <1>2, <1>5, <1>6, <1>7
<1>9. prefix \in Seq(Shown) /\ suffix \in Seq(Shown) /\ Len(prefix) \in Nat
  <2>1. <<Ellipsis>> \in Seq(Shown) /\ << >> \in Seq(Shown)
    BY DEF Shown
  <2>2. prefix \in Seq(Shown) /\ suffix \in Seq(Shown)
    BY <2>1
  <2> HIDE DEF prefix
  <2> QED
    BY <2>2
<1> HIDE DEF prefix, suffix
<1>10. \A i, j \in Nat : j <= n => SubSeq(raw, i + 1, j) \in Seq(Shown)
                                  /\ (i <= j => Len(SubSeq(raw, i + 1, j)) = j - i)
  <2> SUFFICES ASSUME NEW i \in Nat, NEW j \in Nat, j <= n
               PROVE  SubSeq(raw, i + 1, j) \in Seq(Shown) /\ (i <= j => Len(SubSeq(raw, i + 1, j)) = j - i)
    OBVIOUS
  <2>1. \A k \in (i + 1)..j : raw[k] \in Shown
    BY <1>2 DEF n
  <2>2. i + 1 \in Int /\ j \in Int
    OBVIOUS
  <2>3. /\ SubSeq(raw, i + 1, j) \in Seq(Shown)
        /\ Len(SubSeq(raw, i + 1, j)) = IF i + 1 <= j THEN j - (i + 1) + 1 ELSE 0
    BY <2>1, <2>2, SubSeqProperties
  <2>4. (IF i + 1 <= j THEN j - (i + 1) + 1 ELSE 0) = IF i < j THEN j - i ELSE 0
    OBVIOUS
  <2>5. i <= j => Len(SubSeq(raw, i + 1, j)) = j - i
    BY <2>3, <2>4
  <2> QED
    BY <2>3, <2>5
<1>11. text \in Seq(Shown)
  <2> DEFINE mid == SubSeq(raw, from + 1, to)
  <2>1. mid \in Seq(Shown)
    BY <1>7, <1>8, <1>10
  <2> HIDE DEF mid
  <2>2. prefix \o mid \o suffix \in Seq(Shown)
    BY <1>9, <2>1
  <2> QED
    BY <2>2 DEF mid
<1>12. start = Len(prefix) + (column - from) /\ start \in Int
  BY <1>8, <1>9 DEF MarkStart
<1>13. r \in Marking
  <2> HIDE DEF start
  <2> QED
    BY <1>12 DEF Marking
<1>14. ASSUME column + length <= n, raw[column + 1] # Space
       PROVE  Within(r, Len(text)) /\ SubSeq(text, start + 1, start + length) = SubSeq(raw, column + 1, column + length)
  <2>0. \A s, t, u \in Seq(Shown) : (s \o t) \o u = s \o (t \o u)
    BY ConcatAssociative
  <2>1. column + 1 \in ink
    BY <1>2, <1>14 DEF ink, n
  <2>2. indent <= column
    BY <1>5, <2>1
  <2>3. from <= column
    BY <1>2, <1>6, <2>2
  <2>4. column + length <= to
    BY <1>2, <1>7, <1>14
  <2> DEFINE a == SubSeq(raw, from + 1, column)
             y == SubSeq(raw, column + 1, column + length)
             z == SubSeq(raw, (column + length) + 1, to)
             mid == SubSeq(raw, from + 1, to)
             x == prefix \o a
             zz == z \o suffix
  <2>5. column \in Nat /\ column + length \in Nat /\ column <= n /\ column <= column + length
        /\ (column + length) - column = length
    BY <1>2, <1>14
  <2>6. /\ a \in Seq(Shown) /\ Len(a) = column - from
        /\ y \in Seq(Shown) /\ Len(y) = length
    BY <1>8, <1>10, <1>14, <2>3, <2>5
  <2>7. z \in Seq(Shown)
    BY <1>7, <1>8, <1>10, <2>5
  <2>8. mid = (a \o y) \o z
    <3>1. from + 1 \in 1..(n + 1) /\ to \in from..n
      BY <1>2, <1>7, <1>8, <2>3, <2>4, <2>5
    <3>2. column \in ((from + 1) - 1)..n /\ to \in column..n
      BY <1>2, <1>7, <1>8, <2>3, <2>4, <2>5
    <3>3. a \o SubSeq(raw, column + 1, to) = mid
      BY <1>2, <3>1, <3>2, ConcatAdjacentSubSeq DEF n
    <3>4. column + 1 \in 1..(n + 1) /\ column + length \in ((column + 1) - 1)..n /\ to \in (column + length)..n
      BY <1>2, <1>7, <1>8, <2>4, <2>5, <1>14
    <3>5. y \o z = SubSeq(raw, column + 1, to)
      BY <1>2, <3>4, ConcatAdjacentSubSeq DEF n
    <3> HIDE DEF a, y, z, mid
    <3>6. (a \o y) \o z = a \o (y \o z)
      BY <2>0, <2>6, <2>7, Zenon
    <3> QED
      BY <3>3, <3>5, <3>6
  <2>9. text = (prefix \o mid) \o suffix
    OBVIOUS
  <2> HIDE DEF a, y, z, mid, text
  <2>10. text = (x \o y) \o zz
    <3>1. prefix \o ((a \o y) \o z) = ((prefix \o a) \o y) \o z
      <4> DEFINE ay == a \o y
      <4>1. ay \in Seq(Shown)
        BY <2>6
      <4>2. (prefix \o a) \o y = prefix \o ay
        BY <1>9, <2>0, <2>6, Zenon
      <4> HIDE DEF ay
      <4>3. (prefix \o ay) \o z = prefix \o (ay \o z)
        BY <1>9, <2>0, <2>7, <4>1, ZenonT(60)
      <4> QED
        BY <4>2, <4>3 DEF ay
    <3> DEFINE xy == x \o y
    <3>2. xy \in Seq(Shown)
      <4>1. x \in Seq(Shown)
        BY <1>9, <2>6
      <4> HIDE DEF x
      <4> QED
        BY <2>6, <4>1
    <3>3. text = (xy \o z) \o suffix
      BY <2>8, <2>9, <3>1
    <3> HIDE DEF xy
    <3>4. (xy \o z) \o suffix = xy \o (z \o suffix)
      BY <1>9, <2>7, <3>2, ConcatAssociative, SMTT(40)
    <3> QED
      BY <3>3, <3>4 DEF xy
  <2>11. x \in Seq(Shown) /\ Len(x) = start
    <3>1. x \in Seq(Shown) /\ Len(x) = Len(prefix) + Len(a)
      BY <1>9, <2>6, ConcatProperties
    <3> HIDE DEF x, start
    <3> QED
      BY <1>8, <1>12, <2>6, <3>1
  <2>12. zz \in Seq(Shown)
    BY <1>9, <2>7
  <2> HIDE DEF x, zz, start
  <2>13. start + 1 = Len(x) + 1 /\ start + length = Len(x) + Len(y) /\ start \in Nat
    BY <2>6, <2>11
  <2>14. SubSeq(text, start + 1, start + length) = y /\ Len(text) = Len(x) + Len(y) + Len(zz)
    <3> DEFINE p == start + 1
               q == start + length
    <3>1. p = Len(x) + 1 /\ q = Len(x) + Len(y)
      BY <2>13
    <3> HIDE DEF p, q
    <3>2. SubSeq(text, p, q) = y /\ Len(text) = Len(x) + Len(y) + Len(zz)
      <4>1. x \in Seq(Shown) /\ y \in Seq(Shown)
        BY <2>6, <2>11
      <4> HIDE DEF Shown
      <4> QED
        BY <2>10, <2>12, <3>1, <4>1, Middle
    <3> QED
      BY <3>2 DEF p, q
  <2>15. Len(zz) \in Nat
    BY <2>12
  <2>16. 1 <= start + 1 /\ start + length <= Len(text)
    BY <2>6, <2>13, <2>14, <2>15
  <2>17. Within(r, Len(text))
    BY <1>13, <2>16 DEF Within
  <2> QED
    BY <2>14, <2>17 DEF y
<1>15. snippet.text = text /\ snippet.range = r /\ r.first = start + 1 /\ r.last = start + length
  <2> HIDE DEF start
  <2>1. r.first = start + 1 /\ r.last = start + length
    OBVIOUS
  <2> HIDE DEF text, r, snippet
  <2>2. snippet.text = text /\ snippet.range = r
    BY <1>1
  <2> QED
    BY <2>1, <2>2
<1> HIDE DEF text, r, start, snippet
<1> QED
  BY <1>11, <1>13, <1>14, <1>15 DEF n, snippet

-----------------------------------------------------------------------------
(* What is asked for in lower case: no newline, and no space at its head.   *)
LEMMA NeedleIs ==
  ASSUME NEW asked \in Seq(Char \ {Newline}), asked # << >>, asked[1] # Space
  PROVE  LET needle == toLowerCase(asked) IN
         /\ needle \in Seq(Char) /\ Len(needle) \in Nat \ {0}
         /\ \A i \in 1..Len(needle) : needle[i] # Newline
         /\ needle[1] # Space
<1> DEFINE C == Char \ {Newline}
           needle == toLowerCase(asked)
           parts == [i \in DOMAIN asked |-> Lower[asked[i]]]
           n == Len(asked)
<1>1. asked \in Seq(Char) /\ n \in Nat \ {0} /\ asked[1] \in C
  OBVIOUS
<1>2. \A c \in C : Lower[c] \in Seq(C) /\ Lower[c] # << >>
  <2> SUFFICES ASSUME NEW c \in C PROVE Lower[c] \in Seq(C) /\ Lower[c] # << >>
    OBVIOUS
  <2>1. Lower[c] \in Seq(Char) /\ Lower[c] # << >> /\ Newline \notin ToSet(Lower[c])
    BY MatchAssumption
  <2>2. \A i \in 1..Len(Lower[c]) : Lower[c][i] \in C
    BY <2>1 DEF ToSet
  <2>3. Lower[c] \in Seq(C)
    BY <2>1, <2>2
  <2> QED
    BY <2>1, <2>3
<1>3. parts \in Seq(Seq(C))
  <2>1. \A i \in 1..n : asked[i] \in C
    BY <1>1
  <2>2. parts = [i \in 1..n |-> Lower[asked[i]]]
    BY <1>1
  <2> HIDE DEF C, parts
  <2>3. \A i \in 1..n : Lower[asked[i]] \in Seq(C)
    BY <1>2, <2>1
  <2> QED
    BY <1>1, <2>2, <2>3
<1>4. needle \in Seq(C)
  <2>1. needle = FlattenSeq(parts)
    BY DEF toLowerCase
  <2> HIDE DEF C, parts, needle
  <2> QED
    BY <1>3, <2>1, FlattenType
<1>5. Len(needle) \in Nat /\ n <= Len(needle)
  BY <1>1, LowerLong
<1>6. needle[1] # Space
  <2> DEFINE c == asked[1]
             one == <<c>>
             rest == SubSeq(asked, 2, n)
             low == toLowerCase(rest)
  <2>1. one \in Seq(Char) /\ rest \in Seq(Char) /\ asked = one \o rest /\ c \in Char
    <3>1. SubSeq(asked, 1, 1) = one
      BY <1>1, OneChar
    <3>2. 1 \in 1..(Len(asked) + 1) /\ 1 \in (1 - 1)..Len(asked) /\ n \in 1..Len(asked)
      BY <1>1
    <3>3. SubSeq(asked, 1, 1) \o SubSeq(asked, 1 + 1, n) = SubSeq(asked, 1, n)
      BY <1>1, <3>2, ConcatAdjacentSubSeq
    <3>4. SubSeq(asked, 1, n) = asked /\ 1 + 1 = 2
      BY <1>1
    <3>5. rest \in Seq(Char)
      BY <1>1
    <3> QED
      BY <1>1, <3>1, <3>3, <3>4, <3>5
  <2> HIDE DEF one, rest, low
  <2>2. needle = toLowerCase(one) \o low
    BY <2>1, LowerConcat DEF low
  <2>3. toLowerCase(one) = Lower[c]
    BY <2>1, LowerOne DEF one
  <2>4. Lower[c] \in Seq(Char) /\ Lower[c] # << >> /\ low \in Seq(Char) /\ Space \notin ToSet(Lower[c])
    <3>1. low \in Seq(Char)
      BY <2>1, LowerIs DEF low
    <3>2. c # Space
      OBVIOUS
    <3> HIDE DEF c
    <3> QED
      BY <2>1, <3>1, <3>2, MatchAssumption
  <2> HIDE DEF needle, c
  <2>5. needle[1] = Lower[c][1] /\ 1 \in DOMAIN Lower[c]
    <3> DEFINE l == Lower[c]
    <3>1. l \in Seq(Char) /\ l # << >> /\ needle = l \o low
      BY <2>2, <2>3, <2>4
    <3> HIDE DEF l
    <3>2. needle[1] = l[1] /\ 1 \in DOMAIN l
      BY <2>4, <3>1
    <3> QED
      BY <3>2 DEF l
  <2> QED
    BY <2>4, <2>5 DEF ToSet
<1>7. \A i \in 1..Len(needle) : needle[i] \in C
  <2> HIDE DEF needle, C
  <2> QED
    BY <1>4
<1> HIDE DEF needle
<1>8. needle \in Seq(Char) /\ \A i \in 1..Len(needle) : needle[i] # Newline
  BY <1>4, <1>7
<1> QED
  BY <1>1, <1>5, <1>6, <1>8 DEF needle

(* Where the line of a place starts.                                        *)
LEMMA LineStartIs ==
  ASSUME NEW content \in Seq(Char), NEW k \in Nat \ {0}
  PROVE  LineStart(content, k) \in Nat \ {0} /\ LineStart(content, k) <= k
<1> DEFINE spots == {i \in DOMAIN content : i < k /\ content[i] = Newline}
           m == Max({0} \cup spots)
<1>1. spots \in SUBSET (1..Len(content)) /\ Len(content) \in Nat /\ \A i \in spots : i < k
  OBVIOUS
<1>2. LineStart(content, k) = m + 1
  BY DEF LineStart
<1> HIDE DEF spots
<1>3. m \in {0} \cup spots /\ m \in 0..Len(content)
  BY <1>1, LastPlace
<1> HIDE DEF m
<1>4. m \in Nat /\ m < k
  BY <1>1, <1>3
<1> QED
  BY <1>2, <1>4

RawLine(content, k) == SubSeq(content, LineStart(content, k), LineEnd(content, k) - 1)

LEMMA RawLineIs ==
  ASSUME NEW content \in Seq(Char), NEW k \in Nat \ {0}
  PROVE  /\ RawLine(content, k) \in Seq(Char)
         /\ k - LineStart(content, k) \in Nat
         /\ \A asked : HitAt(content, asked, k).snippet =
              Snippet(RawLine(content, k), k - LineStart(content, k), Len(toLowerCase(asked)))
<1> DEFINE a == LineStart(content, k)
           e == LineEnd(content, k)
<1>1. a \in Nat \ {0} /\ a <= k
  BY LineStartIs
<1>2. e \in Nat /\ e <= Len(content) + 1 /\ Len(content) \in Nat
  <2>1. e \in Nat /\ (e = Len(content) + 1 \/ e <= Len(content)) /\ Len(content) \in Nat
    BY LineEndFound
  <2> HIDE DEF e
  <2> QED
    BY <2>1
<1>3. \A asked : HitAt(content, asked, k).snippet = Snippet(SubSeq(content, a, e - 1), k - a, Len(toLowerCase(asked)))
  BY DEF HitAt, LineHit
<1> HIDE DEF a, e
<1>4. a \in Int /\ e - 1 \in Int /\ \A j \in a..(e - 1) : content[j] \in Char
  BY <1>1, <1>2
<1>5. SubSeq(content, a, e - 1) \in Seq(Char)
  BY <1>4, SubSeqProperties
<1>6. k - a \in Nat
  BY <1>1
<1> QED
  BY <1>3, <1>5, <1>6 DEF RawLine, a, e

(* Whatever the text, a line that is found is drawn whole.                  *)
LEMMA SnippetWhole ==
  ASSUME NEW content \in Seq(Char), NEW asked \in Seq(Char), asked # << >>, NEW k \in Nat \ {0},
         NEW shown, shown = HitAt(content, asked, k).snippet
  PROVE  Whole(Highlight(shown.text, <<shown.range>>)) = shown.text
<1> DEFINE raw == RawLine(content, k)
           column == k - LineStart(content, k)
           l == Len(toLowerCase(asked))
<1>1. raw \in Seq(Char) /\ column \in Nat /\ shown = Snippet(raw, column, l)
  BY RawLineIs
<1>2. l \in Nat \ {0}
  <2>1. l \in Nat /\ Len(asked) <= l /\ Len(asked) \in Nat /\ Len(asked) # 0
    BY LowerLong
  <2> HIDE DEF l
  <2> QED
    BY <2>1
<1> HIDE DEF raw, column, l
<1>3. shown.text \in Seq(Shown) /\ shown.range \in Marking
  BY <1>1, <1>2, SnippetIs
<1> DEFINE rs == <<shown.range>>
<1>4. rs \in Seq(Marking)
  BY <1>3
<1> HIDE DEF rs
<1>5. Whole(Highlight(shown.text, rs)) = shown.text
  BY <1>3, <1>4, WholeIs
<1> QED
  BY <1>5 DEF rs

(* Where the query is, in a text that is as long in lower case: within its  *)
(* line, and not in the line's indentation.                                 *)
LEMMA InItsLine ==
  ASSUME NEW content \in Seq(Char), Even(content), NEW asked \in Seq(Char \ {Newline}), asked # << >>,
         asked[1] # Space, NEW k \in Nat \ {0}, Place(toLowerCase(content), toLowerCase(asked), k)
  PROVE  LET l == Len(toLowerCase(asked))
             raw == RawLine(content, k)
             column == k - LineStart(content, k)
         IN /\ column + l <= Len(raw) /\ raw[column + 1] # Space
            /\ SubSeq(raw, column + 1, column + l) = SubSeq(content, k, k + l - 1)
            /\ toLowerCase(SubSeq(content, k, k + l - 1)) = toLowerCase(asked)
<1> DEFINE l == Len(toLowerCase(asked))
           raw == RawLine(content, k)
           column == k - LineStart(content, k)
           a == LineStart(content, k)
           e == LineEnd(content, k)
           h == toLowerCase(content)
           q == toLowerCase(asked)
           n == Len(content)
<1>1. q \in Seq(Char) /\ l \in Nat \ {0} /\ (\A i \in 1..l : q[i] # Newline) /\ q[1] # Space
  BY NeedleIs
<1>2. h \in Seq(Char) /\ Len(h) = n /\ n \in Nat
  BY LowerIs DEF Even
<1>3. a \in Nat \ {0} /\ a <= k
  BY LineStartIs
<1>4. /\ e \in Nat
      /\ e = n + 1 \/ (k <= e /\ e <= n /\ content[e] = Newline)
  BY LineEndFound
<1>5. k + l - 1 <= n /\ SubSeq(h, k, k + l - 1) = q
  <2>1. k <= n - l + 1 /\ SubSeq(h, k, k + l - 1) = q
    BY <1>2 DEF Place
  <2> HIDE DEF h, q, l
  <2> QED
    BY <1>1, <1>2, <2>1
<1>6. \A i \in 1..n : Lower[content[i]] = <<h[i]>>
  BY LowerChar DEF Even
<1>12. raw = SubSeq(content, a, e - 1) /\ column = k - a
  BY DEF RawLine
<1> HIDE DEF a, e, h, q, n, l, raw, column
<1>7. \A i \in 1..l : h[k + i - 1] = q[i]
  <2>1. k \in Int /\ k + l - 1 \in Int /\ \A j \in k..(k + l - 1) : h[j] \in Char
    BY <1>1, <1>2, <1>5
  <2>2. \A i \in 1..((k + l - 1) - k + 1) : SubSeq(h, k, k + l - 1)[i] = h[k + i - 1]
    BY <2>1, SubSeqProperties
  <2>3. (k + l - 1) - k + 1 = l
    BY <1>1
  <2> QED
    BY <1>5, <2>2, <2>3
<1>8. ASSUME NEW i \in 1..l PROVE content[k + i - 1] # Newline
  <2>1. k + i - 1 \in 1..n
    BY <1>1, <1>2, <1>5
  <2>2. Lower[content[k + i - 1]] = <<h[k + i - 1]>> /\ h[k + i - 1] = q[i] /\ q[i] # Newline
    BY <1>1, <1>6, <1>7, <2>1
  <2>3. Lower[Newline] = <<Newline>>
    BY MatchAssumption
  <2> QED
    BY <2>2, <2>3
<1>9. content[k] # Space
  <2>1. k \in 1..n /\ 1 \in 1..l /\ k + 1 - 1 = k
    BY <1>1, <1>2, <1>5
  <2>2. Lower[content[k]] = <<h[k]>> /\ h[k] = q[1] /\ q[1] # Space
    BY <1>1, <1>6, <1>7, <2>1
  <2>3. Lower[Space] = <<Space>>
    BY MatchAssumption
  <2> QED
    BY <2>2, <2>3
<1>10. k + l <= e
  <2>1. CASE e = n + 1
    BY <1>1, <1>2, <1>5, <2>1
  <2>2. CASE k <= e /\ e <= n /\ content[e] = Newline
    <3> SUFFICES ASSUME e < k + l PROVE FALSE
      BY <1>1, <1>4
    <3>1. e - k + 1 \in 1..l /\ k + (e - k + 1) - 1 = e
      BY <1>1, <1>4, <2>2
    <3> QED
      BY <1>8, <2>2, <3>1
  <2> QED
    BY <1>4, <2>1, <2>2
<1>11. e - 1 <= n
  BY <1>2, <1>4
<1>19. a \in 1..n /\ e - 1 \in 1..n
  BY <1>1, <1>2, <1>3, <1>4, <1>5, <1>10, <1>11
<1>13. /\ Len(raw) = e - a
       /\ \A i \in 1..(e - a) : raw[i] = content[a + i - 1]
  <2>1. a \in Int /\ e - 1 \in Int /\ \A j \in a..(e - 1) : content[j] \in Char
    BY <1>11, <1>19 DEF n
  <2>2. /\ Len(SubSeq(content, a, e - 1)) = IF a <= e - 1 THEN (e - 1) - a + 1 ELSE 0
        /\ \A i \in 1..((e - 1) - a + 1) : SubSeq(content, a, e - 1)[i] = content[a + i - 1]
    BY <2>1, SubSeqProperties
  <2>3. a <= e - 1 /\ (e - 1) - a + 1 = e - a
    BY <1>1, <1>3, <1>4, <1>10
  <2> QED
    BY <1>12, <2>2, <2>3
<1>14. column + l <= Len(raw)
  BY <1>1, <1>3, <1>4, <1>10, <1>12, <1>13
<1>18. a \in Nat /\ e \in Nat /\ l \in Nat /\ 1 <= l /\ a <= k /\ k + l <= e
  BY <1>1, <1>3, <1>4, <1>10
<1>20. column = k - a /\ column \in Nat
  BY <1>12, <1>18
<1>15. raw[column + 1] # Space
  <2>1. column + 1 \in 1..(e - a) /\ a + (column + 1) - 1 = k
    BY <1>18, <1>20
  <2> QED
    BY <1>9, <1>13, <2>1
<1>16. SubSeq(raw, column + 1, column + l) = SubSeq(content, k, k + l - 1)
  <2> DEFINE i == column + 1
             j == column + l
  <2>3. (e - 1) - a + 1 = e - a
    BY <1>18
  <2>4. i \in 1..(e - a) /\ a + i - 1 = k
    BY <1>18, <1>20
  <2>5. j \in 1..(e - a) /\ a + j - 1 = k + l - 1
    BY <1>18, <1>20
  <2>1. i \in 1..((e - 1) - a + 1) /\ j \in 1..((e - 1) - a + 1) /\ a + i - 1 = k /\ a + j - 1 = k + l - 1
    BY <2>3, <2>4, <2>5
  <2> HIDE DEF i, j
  <2>2. SubSeq(SubSeq(content, a, e - 1), i, j) = SubSeq(content, a + i - 1, a + j - 1)
    BY <1>19, <2>1, SubSeqOfSubSeq DEF n
  <2> QED
    BY <1>12, <2>1, <2>2 DEF i, j
<1>17. toLowerCase(SubSeq(content, k, k + l - 1)) = q
  <2> DEFINE b == k + l - 1
  <2>1. k \in 1..(Len(content) + 1) /\ b \in (k - 1)..Len(content)
    BY <1>1, <1>2, <1>5 DEF n
  <2> HIDE DEF b
  <2>2. toLowerCase(SubSeq(content, k, b)) = SubSeq(toLowerCase(content), k, b)
    BY <2>1, LowerPart DEF Even
  <2> QED
    BY <1>5, <2>2 DEF b, h
<1> QED
  BY <1>14, <1>15, <1>16, <1>17 DEF q, l, raw, column

LEMMA SpelledIs ==
  ASSUME NEW content \in Seq(Char), Even(content), NEW hit, hit.for \in Seq(Char \ {Newline}), hit.for # << >>,
         hit.for[1] # Space, NEW k \in Nat \ {0}, Place(toLowerCase(content), toLowerCase(hit.for), k),
         hit.match = HitAt(content, hit.for, k)
  PROVE  Spelled(hit, content)
<1> DEFINE asked == hit.for
           q == toLowerCase(asked)
           l == Len(q)
           raw == RawLine(content, k)
           column == k - LineStart(content, k)
           y == SubSeq(content, k, k + l - 1)
           shown == hit.match.snippet
           rs == <<shown.range>>
<1>1. /\ column + l <= Len(raw) /\ raw[column + 1] # Space
      /\ SubSeq(raw, column + 1, column + l) = y
      /\ toLowerCase(y) = q
  <2>1. asked \in Seq(Char \ {Newline}) /\ asked # << >> /\ asked[1] # Space
        /\ Place(toLowerCase(content), toLowerCase(asked), k)
    OBVIOUS
  <2> HIDE DEF asked
  <2> QED
    BY <2>1, InItsLine
<1>2. hit.match.line = LineOf(content, k) /\ hit.match.offset = k
  BY LineOfHit
<1>3. l \in Nat \ {0}
  <2>1. asked \in Seq(Char \ {Newline}) /\ asked # << >> /\ asked[1] # Space
    OBVIOUS
  <2> HIDE DEF asked
  <2> QED
    BY <2>1, NeedleIs
<1>4. raw \in Seq(Char) /\ column \in Nat /\ shown = Snippet(raw, column, l)
  <2>1. HitAt(content, asked, k).snippet = Snippet(raw, column, l) /\ raw \in Seq(Char) /\ column \in Nat
    BY RawLineIs
  <2>2. shown = HitAt(content, asked, k).snippet
    OBVIOUS
  <2> HIDE DEF shown, raw, column, l
  <2> QED
    BY <2>1, <2>2
<1> HIDE DEF raw, column, shown, q, l
<1>5. /\ shown.text \in Seq(Shown)
      /\ Within(shown.range, Len(shown.text))
      /\ SubSeq(shown.text, shown.range.first, shown.range.last) = y
  BY <1>1, <1>3, <1>4, SnippetIs
<1> DEFINE text == shown.text
           r == shown.range
           e == << >>
<1>6. text \in Seq(Shown) /\ Within(r, Len(text)) /\ SubSeq(text, r.first, r.last) = y /\ rs = Append(e, r)
  BY <1>5
<1> HIDE DEF text, r, rs, y
<1>7. Ordered(e, Len(text)) /\ Len(text) \in Nat /\ Spell(text, e) = << >>
  <2>1. Pieces(text, e) = << >>
    BY DEF Pieces
  <2> QED
    BY <1>6, <2>1, FlattenNone DEF Ordered, Spell
<1>8. Ordered(rs, Len(text))
  BY <1>6, <1>7, OrderedAppend
<1>9. Spell(text, rs) = Spell(text, e) \o SubSeq(text, r.first, r.last)
  BY <1>6, <1>7, <1>8, SpellAppend
<1>10. Marked(text, rs) = y
  <2>1. y \in Seq(Shown)
    BY <1>6, WithinIs
  <2>2. << >> \o y = y
    BY <2>1
  <2>3. Marked(text, rs) = Spell(text, rs)
    BY <1>6, <1>8, MarkedIs
  <2> QED
    BY <1>6, <1>7, <1>9, <2>2, <2>3
<1>11. toLowerCase(Marked(shown.text, <<shown.range>>)) = toLowerCase(hit.for)
  BY <1>1, <1>10 DEF text, rs, q
<1>12. toLowerCase(SubSeq(content, k, k + Len(toLowerCase(hit.for)) - 1)) = toLowerCase(hit.for)
  BY <1>1 DEF y, l, q
<1> QED
  BY <1>2, <1>11, <1>12 DEF Spelled, shown

(* What is listed of a file is a place of the query in a text it has had,    *)
(* and in texts that are as long in lower case it is the only one of a line. *)
Contained(h, text) ==
  \E k \in Nat \ {0} : /\ Place(toLowerCase(text), toLowerCase(h.for), k)
                       /\ h.match = HitAt(text, h.for, k)
HitOf(h) ==
  \E v \in DOMAIN Contents[h.node.id] :
    Contents[h.node.id][v] \in Seq(Char) /\ Contained(h, Contents[h.node.id][v])
AllEven(id) == \A v \in DOMAIN Contents[id] : Even(Contents[id][v])
Twice(g, h) == g.node.id = h.node.id /\ AllEven(g.node.id) /\ g.match.line = h.match.line
HitsOf(hits) ==
  /\ \A i \in DOMAIN hits : HitOf(hits[i])
  /\ \A i, j \in DOMAIN hits : Twice(hits[i], hits[j]) => i = j
HitsInv == HitsOf(scan.hits)

LEMMA LineNumber ==
  ASSUME NEW content \in Seq(Char), NEW k
  PROVE  LineOf(content, k) \in Nat
<1> DEFINE ends == {i \in DOMAIN content : i < k /\ content[i] = Newline}
<1>1. ends \subseteq 1..Len(content) /\ 1 \in Int /\ Len(content) \in Int
  OBVIOUS
<1>2. IsFiniteSet(ends)
  BY <1>1, FS_Interval, FS_Subset
<1>3. Cardinality(ends) \in Nat
  BY <1>2, FS_CardinalityType
<1> QED
  BY <1>3 DEF LineOf

(* What a text that has been read adds to the list.                         *)
LEMMA NewHits ==
  ASSUME NEW s, s.query \in Seq(Char), s.query # << >>, NEW n \in FileRows,
         NEW v \in DOMAIN Contents[n.id], NEW text, text = Contents[n.id][v], text \in Seq(Char)
  PROVE  HitsOf(Hits(s, n, text))
<1> DEFINE found == matchContent(text, s.query, MAX_MATCHES_PER_FILE)
           hits == Hits(s, n, text)
<1>1. LinesFrom(text, s.query, 1, found)
  <2>1. MAX_MATCHES_PER_FILE \in Nat
    BY SearchAssumption
  <2> QED
    BY <2>1, MatchesFound
<1>2. CASE hits = << >>
  BY <1>2 DEF HitsOf
<1>3. CASE hits # << >>
  <2>1. hits = [i \in DOMAIN found |-> [node |-> n, match |-> found[i], for |-> s.query]]
    BY <1>3 DEF Hits
  <2> HIDE DEF found
  <2>2. DOMAIN hits = DOMAIN found
        /\ \A i \in DOMAIN found : hits[i].node = n /\ hits[i].match = found[i] /\ hits[i].for = s.query
    BY <2>1
  <2> HIDE DEF hits
  <2>3. \A i \in DOMAIN found :
          \E k \in Nat \ {0} : /\ Place(toLowerCase(text), toLowerCase(s.query), k)
                               /\ found[i] = HitAt(text, s.query, k)
    BY <1>1 DEF LinesFrom, Hit
  <2>4. ASSUME NEW i \in DOMAIN hits PROVE HitOf(hits[i])
    <3>1. Contained(hits[i], text)
      BY <2>2, <2>3 DEF Contained
    <3> QED
      BY <2>2, <3>1 DEF HitOf
  <2>5. \A i \in DOMAIN found : found[i].line \in Nat
    BY <2>3, LineOfHit, LineNumber
  <2>6. ASSUME NEW i \in DOMAIN hits, NEW j \in DOMAIN hits, Twice(hits[i], hits[j])
        PROVE  i = j
    <3>1. Even(text)
      BY <2>2, <2>6 DEF Twice, AllEven
    <3>2. \A p, q \in DOMAIN found : p < q => found[p].line < found[q].line
      BY <1>1, <3>1 DEF LinesFrom
    <3>3. found[i].line = found[j].line /\ i \in DOMAIN found /\ j \in DOMAIN found
      BY <2>2, <2>6 DEF Twice
    <3>4. ~(i < j) /\ ~(j < i)
      BY <2>5, <3>2, <3>3
    <3>5. i \in Nat /\ j \in Nat
      <4>1. hits \in Seq(AllHits)
        BY HitsAre, NewlineIs DEF hits
      <4> QED
        BY <4>1
    <3> QED
      BY <3>4, <3>5
  <2>7. HitsOf(hits)
    BY <2>4, <2>6 DEF HitsOf
  <2> QED
    BY <2>7 DEF hits
<1> QED
  BY <1>2, <1>3

(* Lists of different files.                                                *)
LEMMA HitsJoin ==
  ASSUME NEW old \in Seq(AllHits), HitsOf(old), NEW new \in Seq(AllHits), HitsOf(new),
         \A i \in DOMAIN old, j \in DOMAIN new : old[i].node.id # new[j].node.id
  PROVE  HitsOf(old \o new)
<1> DEFINE all == old \o new
           a == Len(old)
<1>1. /\ DOMAIN all = 1..Len(all) /\ Len(all) = a + Len(new) /\ a \in Nat /\ Len(new) \in Nat
      /\ \A i \in 1..Len(all) : all[i] = IF i <= a THEN old[i] ELSE new[i - a]
      /\ DOMAIN old = 1..a /\ DOMAIN new = 1..Len(new)
  OBVIOUS
<1> HIDE DEF all, a
<1>2. \A i \in DOMAIN all : (i \in DOMAIN old /\ all[i] = old[i]) \/ (i - a \in DOMAIN new /\ all[i] = new[i - a] /\ ~(i <= a))
  BY <1>1
<1>3. \A i \in DOMAIN all : HitOf(all[i])
  BY <1>2 DEF HitsOf
<1>4. ASSUME NEW i \in DOMAIN all, NEW j \in DOMAIN all, Twice(all[i], all[j]) PROVE i = j
  <2>0. all[i].node.id = all[j].node.id
    BY <1>4 DEF Twice
  <2>1. CASE i \in DOMAIN old /\ all[i] = old[i] /\ j \in DOMAIN old /\ all[j] = old[j]
    BY <1>4, <2>1 DEF HitsOf
  <2>2. CASE i - a \in DOMAIN new /\ all[i] = new[i - a] /\ j - a \in DOMAIN new /\ all[j] = new[j - a]
    <3>1. i - a = j - a
      BY <1>4, <2>2 DEF HitsOf
    <3> QED
      BY <1>1, <3>1
  <2> QED
    BY <1>2, <2>0, <2>1, <2>2
<1> QED
  BY <1>3, <1>4 DEF HitsOf, all

(* Of a file that is being read nothing is listed yet.                      *)
LEMMA NothingYet ==
  ASSUME SearchInv, NEW w \in Busy(scan)
  PROVE  \A i \in DOMAIN scan.hits : scan.hits[i].node.id # scan.reading[w].node.id
<1> DEFINE n == scan.reading[w].node
           h == scan.hits
<1>1. Holds(files, scan, w)
  BY ReadingIs
<1>2. PICK k \in 1..(scan.cursor - 1) : n = scan.targets[k]
  BY <1>1 DEF Holds
<1>3. Accounted(files, scan) /\ InOrder(files, scan) /\ scan \in Scans
  BY DEF SearchInv, ScanOK
<1>4. scan.cursor \in Nat /\ scan.targets \in Seq(FileRows) /\ h \in Seq(AllHits)
      /\ scan.cursor <= Len(scan.targets) + 1
  BY <1>3 DEF InOrder, Scans
<1>5. k \in DOMAIN scan.targets
  BY <1>2, <1>4
<1>6. Pending(scan, n)
  BY DEF Pending
<1> HIDE DEF n, h
<1>7. OfFile(h, n.id) = << >>
  BY <1>2, <1>3, <1>5, <1>6 DEF Accounted, h
<1>8. ToSet(OfFile(h, n.id)) = ToSet(h) \cap {x \in AllHits : x.node.id = n.id}
  BY <1>4, AmongIs DEF OfFile
<1>9. ToSet(<< >>) = {}
  BY DEF ToSet
<1>10. \A i \in DOMAIN h : h[i] \in ToSet(h) /\ h[i] \in AllHits
  BY <1>4 DEF ToSet
<1> QED
  BY <1>7, <1>8, <1>9, <1>10 DEF n, h

LEMMA NoHits == HitsOf(<< >>)
<1>1. DOMAIN << >> = {}
  OBVIOUS
<1> QED
  BY <1>1 DEF HitsOf

LEMMA ReadQuery ==
  ASSUME SearchInv, NEW w \in Busy(scan)
  PROVE  scan.on /\ scan.query \in Seq(Char) /\ scan.query # << >>
<1>1. NoScan.reading[w] = NoRead
  BY DEF NoScan, Busy
<1>2. scan # NoScan
  BY <1>1 DEF Busy
<1>3. scan.on /\ scan.query = trim(debounced) /\ Wanted(palette, debounced)
  BY <1>2 DEF SearchInv, ResultOK
<1>4. Len(trim(debounced)) >= MIN_CONTENT_QUERY /\ MIN_CONTENT_QUERY \in Nat \ {0}
  BY <1>3, SearchAssumption DEF Wanted
<1>5. scan.query \in Seq(Char)
  BY DEF SearchInv, ScanOK, Scans
<1>6. Len(<< >>) = 0
  OBVIOUS
<1>7. Len(scan.query) # 0
  BY <1>3, <1>4
<1> QED
  BY <1>3, <1>5, <1>6, <1>7

LEMMA ReadHits ==
  ASSUME SearchInv, HitsInv, Reads
  PROVE  HitsInv'
<1>1. PICK w \in Busy(scan), failed \in BOOLEAN :
        \E text : Answers(scan, w, text, failed) /\ Resumes(w, text, failed)
  BY ReadsAnswer
<1>2. PICK text : Answers(scan, w, text, failed) /\ Resumes(w, text, failed)
  BY <1>1
<1> DEFINE n == scan.reading[w].node
           old == scan.hits
           new == Hits(scan, n, text)
<1>3. scan' = Scanned(scan, w, text, failed)
  BY <1>2 DEF Resumes
<1>4. scan'.hits = old \o new
  <2>1. scan \in Scans
    BY DEF SearchInv, ScanOK
  <2>2. scan'.hits = old \o new
    BY <1>3, <2>1 DEF Scanned, Takes, Scans
  <2> QED
    BY <2>2
<1>5. n \in FileRows /\ scan.query \in Seq(Char) /\ scan.query # << >>
  BY ReadingIs, ReadQuery DEF Past
<1>6. text = NULL \/ (text \in Seq(Char) /\ \E v \in DOMAIN Contents[n.id] : text = Contents[n.id][v])
  BY <1>2 DEF Answers, Genuine
<1>7. old \in Seq(AllHits)
  BY DEF SearchInv, ScanOK, Scans
<1>8. \A i \in DOMAIN old : old[i].node.id # n.id
  BY NothingYet
<1> HIDE DEF n, old
<1>9. new \in Seq(AllHits) /\ \A i \in DOMAIN new : new[i].node = n
  BY <1>5, <1>6, HitsAre, NewlineIs
<1>10. HitsOf(new)
  <2>1. CASE text = NULL
    <3>1. new = << >>
      BY <2>1 DEF Hits
    <3> QED
      BY <3>1, NoHits
  <2>2. CASE text # NULL
    <3>1. PICK v \in DOMAIN Contents[n.id] : text = Contents[n.id][v] /\ text \in Seq(Char)
      BY <1>6, <2>2
    <3> QED
      BY <1>5, <3>1, NewHits
  <2> QED
    BY <2>1, <2>2
<1>11. HitsOf(old)
  BY DEF HitsInv, old
<1> HIDE DEF new
<1>12. HitsOf(old \o new)
  BY <1>7, <1>8, <1>9, <1>10, <1>11, HitsJoin
<1> QED
  BY <1>4, <1>12 DEF HitsInv

LEMMA CommitHits ==
  ASSUME SearchInv, HitsInv, Commit, FetchedOK(files, flattenTree(tree')), debounced' \in Seq(Char)
  PROVE  HitsInv'
<1>1. scan' = scan \/ scan' = NoScan \/ scan' = Started(debounced', flattenTree(tree'))
  BY DEF Commit, ContentSearch
<1>2. CASE scan' = scan
  BY <1>2 DEF HitsInv
<1>3. CASE scan' = NoScan
  <2>1. scan'.hits = << >>
    BY <1>3 DEF NoScan
  <2> QED
    BY <2>1, NoHits DEF HitsInv
<1>4. CASE scan' = Started(debounced', flattenTree(tree'))
  <2>1. CacheOK(files, cache, Keys(stray))
    BY DEF SearchInv
  <2>2. Started(debounced', flattenTree(tree')).hits = << >>
    BY <2>1, StartedIs
  <2> QED
    BY <1>4, <2>2, NoHits DEF HitsInv
<1> QED
  BY <1>1, <1>2, <1>3, <1>4

LEMMA HitsNext ==
  ASSUME SearchInv, SearchInv', HitsInv, [Next]_vars
  PROVE  HitsInv'
<1>1. CASE UNCHANGED scan
  BY <1>1 DEF HitsInv
<1>2. CASE Dismiss \/ Choose
  <2>1. scan' = NoScan
    BY <1>2 DEF Dismiss, Choose, Closes
  <2>2. scan'.hits = << >>
    BY <2>1 DEF NoScan
  <2> QED
    BY <2>2, NoHits DEF HitsInv
<1>3. CASE Reads
  BY <1>3, ReadHits
<1>4. CASE Types \/ Deletes \/ Escapes \/ DebounceFires \/ Fetched \/ \E mode \in {"all", "files"} : SwitchMode(mode)
  <2>1. Commit /\ files' = files
    BY <1>4 DEF Types, Deletes, Escapes, Typed, DebounceFires, Fetched, SwitchMode
  <2>2. FetchedOK(files', flattenTree(tree')) /\ debounced' \in Seq(Char)
    BY DEF SearchInv, TextsOK
  <2> QED
    BY <2>1, <2>2, CommitHits
<1>5. CASE (\E mode \in {"all", "files"} : Open(mode)) \/ Moves \/ StrayAnswered \/ Edited \/ Deleted \/ UNCHANGED vars
  <2>1. UNCHANGED scan
    BY <1>5 DEF Open, Moves, StrayAnswered, Edited, Deleted, vars
  <2> QED
    BY <1>1, <2>1
<1> QED
  BY <1>2, <1>3, <1>4, <1>5 DEF Next

LEMMA HitsInit ==
  ASSUME Init
  PROVE  HitsInv
<1>1. scan.hits = << >>
  BY DEF Init, NoScan
<1> QED
  BY <1>1, NoHits DEF HitsInv

LEMMA HitsInvariance == Spec => [](SearchInv /\ ListInv /\ HitsInv)
<1>1. SearchInv /\ SearchInv' /\ HitsInv /\ [Next]_vars => HitsInv'
  BY HitsNext
<1> QED
  BY <1>1, HitsInit, ListInvariance, PTL DEF Spec

(* What is shown of the contents is of the list.                            *)
LEMMA ShownHits ==
  ASSUME SearchInv
  PROVE  \A i \in DOMAIN result.contents :
           /\ i \in DOMAIN scan.hits /\ result.contents[i] = scan.hits[i]
           /\ result.contents[i].for = trim(debounced) /\ trim(debounced) # << >>
<1>1. CASE ~scan.on
  <2>1. result.contents = << >>
    BY <1>1 DEF SearchInv, ResultOK, Idle
  <2> QED
    BY <2>1
<1>2. CASE scan.on
  <2>1. PICK k \in 0..Len(scan.hits) : result.contents = SubSeq(scan.hits, 1, k)
    BY <1>2, PublishedPart
  <2> DEFINE h == scan.hits
             c == result.contents
  <2>2. h \in Seq(AllHits)
    BY DEF SearchInv, ScanOK, Scans
  <2>3. k \in 0..Len(h) /\ c = SubSeq(h, 1, k)
    BY <2>1
  <2> HIDE DEF h, c
  <2>4. \A i \in DOMAIN c : i \in DOMAIN h /\ c[i] = h[i]
    BY <2>2, <2>3
  <2>5. c # << >> => Wanted(palette, debounced)
    BY OneQuery DEF OfTheQuery, c
  <2>6. \A i \in DOMAIN c : c[i].for = trim(debounced)
    BY OneQuery DEF OfTheQuery, c
  <2>7. Wanted(palette, debounced) => trim(debounced) # << >>
    <3>1. Wanted(palette, debounced) => Len(trim(debounced)) >= MIN_CONTENT_QUERY
      BY DEF Wanted
    <3>2. MIN_CONTENT_QUERY \in Nat \ {0} /\ Len(<< >>) = 0
      BY SearchAssumption
    <3> QED
      BY <3>1, <3>2
  <2>8. \A i \in DOMAIN c : c # << >>
    OBVIOUS
  <2> QED
    BY <2>4, <2>5, <2>6, <2>7, <2>8 DEF c, h
<1> QED
  BY <1>1, <1>2

(* Where the lines that were found are from: each is of a target, which the *)
(* page's tree lists, and those of one file are of one text it has had since *)
(* that tree was fetched.                                                   *)
OneSource(F, s, id) ==
  \E v \in DOMAIN Contents[id] :
    /\ \A x \in F : x.id = id => v <= x.ver
    /\ \A i \in DOMAIN s.hits :
         s.hits[i].node.id = id =>
           /\ s.hits[i].node.ver <= v
           /\ s.hits[i].match \in ToSet(matchContent(Contents[id][v], s.query, MAX_MATCHES_PER_FILE))

SourcesOK(F, s, nodes) ==
  /\ \A n \in ToSet(s.targets) : [id |-> n.id, path |-> n.path] \in Listed(nodes)
  /\ \A i \in DOMAIN s.hits : /\ s.hits[i].node \in ToSet(s.targets)
                              /\ OneSource(F, s, s.hits[i].node.id)

SourcesInv == SourcesOK(files, scan, flattenTree(tree))

LEMMA SourcesStay ==
  ASSUME NEW F, NEW G, FilesOK(F), FilesOK(G), Later(F, G), ScanOK(F, scan), NEW nodes,
         SourcesOK(F, scan, nodes)
  PROVE  SourcesOK(G, scan, nodes)
<1>1. ASSUME NEW id \in FileIds, OneSource(F, scan, id) PROVE OneSource(G, scan, id)
  <2>1. PICK v \in DOMAIN Contents[id] :
          /\ \A x \in F : x.id = id => v <= x.ver
          /\ \A i \in DOMAIN scan.hits :
               scan.hits[i].node.id = id =>
                 /\ scan.hits[i].node.ver <= v
                 /\ scan.hits[i].match \in ToSet(matchContent(Contents[id][v], scan.query, MAX_MATCHES_PER_FILE))
    BY <1>1 DEF OneSource
  <2>2. Contents[id] \in Seq(Seq(Char))
    BY SearchAssumption DEF FileIds
  <2>3. v \in Nat
    BY <2>1, <2>2
  <2>4. ASSUME NEW y \in G, y.id = id PROVE v <= y.ver
    <3>1. PICK x \in F : x.id = y.id /\ x.ver <= y.ver
      BY DEF Later
    <3>2. v <= x.ver /\ x.ver \in Nat /\ y.ver \in Nat
      BY <2>1, <2>4, <3>1 DEF FilesOK, Past, FileRows
    <3> QED
      BY <2>3, <3>1, <3>2
  <2> QED
    BY <2>1, <2>4 DEF OneSource
<1>2. \A n \in ToSet(scan.targets) : n.id \in FileIds
  BY FileOf DEF ScanOK, FetchedOK, ToSet
<1> QED
  BY <1>1, <1>2 DEF SourcesOK

(* The matches of the answer that comes are of a text of the file.           *)
LEMMA NewMatches ==
  ASSUME NEW s, s.query \in Seq(Char), NEW n, NEW text \in Seq(Char)
  PROVE  \A i \in DOMAIN Hits(s, n, text) :
           Hits(s, n, text)[i].match \in ToSet(matchContent(text, s.query, MAX_MATCHES_PER_FILE))
<1> DEFINE found == matchContent(text, s.query, MAX_MATCHES_PER_FILE)
           h == Hits(s, n, text)
<1>1. h = << >> \/ h = [i \in DOMAIN found |-> [node |-> n, match |-> found[i], for |-> s.query]]
  BY DEF Hits
<1>2. CASE h = << >>
  BY <1>2
<1>3. CASE h = [i \in DOMAIN found |-> [node |-> n, match |-> found[i], for |-> s.query]]
  <2> HIDE DEF found, h
  <2>1. \A i \in DOMAIN h : i \in DOMAIN found /\ h[i].match = found[i]
    BY <1>3
  <2>2. \A i \in DOMAIN h : h[i].match \in ToSet(found)
    BY <2>1 DEF ToSet
  <2> QED
    BY <2>2 DEF found, h
<1> QED
  BY <1>1, <1>2, <1>3

LEMMA ReadSources ==
  ASSUME SearchInv, SourcesInv, Reads
  PROVE  SourcesInv'
<1>1. PICK w \in Busy(scan), failed \in BOOLEAN :
        \E text : Answers(scan, w, text, failed) /\ Resumes(w, text, failed)
  BY ReadsAnswer
<1>2. PICK text : Answers(scan, w, text, failed) /\ Resumes(w, text, failed)
  BY <1>1
<1> DEFINE n == scan.reading[w].node
           old == scan.hits
           new == Hits(scan, n, text)
<1>3. scan' = Scanned(scan, w, text, failed) /\ files' = files /\ tree' = tree
  BY <1>2 DEF Resumes
<1>4. scan'.hits = old \o new /\ scan'.targets = scan.targets /\ scan'.query = scan.query
  <2>1. scan \in Scans
    BY DEF SearchInv, ScanOK
  <2> HIDE DEF n
  <2> QED
    BY <1>3, <2>1 DEF Scanned, Takes, Scans, n
<1>5. n \in FileRows /\ scan.query \in Seq(Char) /\ scan.query # << >>
  BY ReadingIs, ReadQuery DEF Past
<1>6. old \in Seq(AllHits)
  BY DEF SearchInv, ScanOK, Scans
<1>7. \A i \in DOMAIN old : old[i].node.id # n.id
  BY NothingYet
<1>8. n \in ToSet(scan.targets)
  <2>1. Holds(files, scan, w) /\ scan.targets \in Seq(FileRows) /\ scan.cursor \in Nat
        /\ scan.cursor <= Len(scan.targets) + 1
    BY ReadingIs DEF SearchInv, ScanOK, InOrder, Scans
  <2>2. PICK k \in 1..(scan.cursor - 1) : scan.reading[w].node = scan.targets[k]
    BY <2>1 DEF Holds
  <2>3. k \in DOMAIN scan.targets
    BY <2>1
  <2> QED
    BY <2>2, <2>3 DEF ToSet
<1>9. text \in Seq(Char) \cup {NULL}
  BY <1>2 DEF Answers
<1>10. text # NULL => text \in Seq(Char) /\ Genuine(files, n.id, n.ver, text)
  BY <1>2 DEF Answers
<1> HIDE DEF n
<1>11. new \in Seq(AllHits) /\ \A i \in DOMAIN new : new[i].node = n
  BY <1>5, <1>9, HitsAre, NewlineIs
<1> DEFINE q == scan.query
<1>12. new # << >> =>
         \E v \in DOMAIN Contents[n.id] :
           /\ n.ver <= v /\ \A x \in files : x.id = n.id => v <= x.ver
           /\ \A i \in DOMAIN new :
                new[i].match \in ToSet(matchContent(Contents[n.id][v], q, MAX_MATCHES_PER_FILE))
  <2>1. CASE text = NULL
    BY <2>1 DEF Hits
  <2>2. CASE text # NULL
    <3>1. PICK v \in DOMAIN Contents[n.id] : /\ n.ver <= v /\ text = Contents[n.id][v]
                                            /\ \A x \in files : x.id = n.id => v <= x.ver
      BY <1>10, <2>2 DEF Genuine
    <3>2. \A i \in DOMAIN new : new[i].match \in ToSet(matchContent(text, q, MAX_MATCHES_PER_FILE))
      BY <1>5, <1>10, <2>2, NewMatches
    <3> QED
      BY <3>1, <3>2
  <2> QED
    BY <2>1, <2>2
<1> HIDE DEF old, new, q
<1> DEFINE all == old \o new
<1>13. \A i \in DOMAIN all : (\E j \in DOMAIN old : all[i] = old[j]) \/ (\E j \in DOMAIN new : all[i] = new[j])
  BY <1>6, <1>11
<1>14. \A i \in DOMAIN old : old[i].node \in ToSet(scan.targets) /\ OneSource(files, scan, old[i].node.id)
  BY DEF SourcesInv, SourcesOK, old
<1>15. scan'.hits = all /\ scan'.query = q
  BY <1>4 DEF old, new, q
<1> HIDE DEF all
<1>16. ASSUME NEW i \in DOMAIN all
       PROVE  all[i].node \in ToSet(scan.targets) /\ OneSource(files, scan', all[i].node.id)
  <2>1. CASE \E j \in DOMAIN old : all[i] = old[j]
    <3>1. PICK j \in DOMAIN old : all[i] = old[j]
      BY <2>1
    <3> DEFINE id == old[j].node.id
    <3>2. id # n.id
      BY <1>7 DEF old
    <3>3. PICK v \in DOMAIN Contents[id] :
            /\ \A x \in files : x.id = id => v <= x.ver
            /\ \A m \in DOMAIN old :
                 old[m].node.id = id =>
                   /\ old[m].node.ver <= v
                   /\ old[m].match \in ToSet(matchContent(Contents[id][v], q, MAX_MATCHES_PER_FILE))
      BY <1>14 DEF OneSource, old, q
    <3> HIDE DEF id
    <3>4. \A m \in DOMAIN all :
            all[m].node.id = id =>
              /\ all[m].node.ver <= v
              /\ all[m].match \in ToSet(matchContent(Contents[id][v], q, MAX_MATCHES_PER_FILE))
      BY <1>11, <1>13, <3>2, <3>3
    <3>5. OneSource(files, scan', id)
      BY <1>15, <3>3, <3>4 DEF OneSource
    <3> QED
      BY <1>14, <3>1, <3>5 DEF id
  <2>2. CASE \E j \in DOMAIN new : all[i] = new[j]
    <3>1. PICK j \in DOMAIN new : all[i] = new[j]
      BY <2>2
    <3>2. all[i].node = n /\ new # << >>
      BY <1>11, <3>1
    <3>3. PICK v \in DOMAIN Contents[n.id] :
            /\ n.ver <= v /\ \A x \in files : x.id = n.id => v <= x.ver
            /\ \A m \in DOMAIN new :
                 new[m].match \in ToSet(matchContent(Contents[n.id][v], q, MAX_MATCHES_PER_FILE))
      BY <1>12, <3>2
    <3>4. \A m \in DOMAIN all :
            all[m].node.id = n.id =>
              /\ all[m].node.ver <= v
              /\ all[m].match \in ToSet(matchContent(Contents[n.id][v], q, MAX_MATCHES_PER_FILE))
      BY <1>7, <1>11, <1>13, <3>3 DEF old
    <3>5. OneSource(files, scan', n.id)
      BY <1>15, <3>3, <3>4 DEF OneSource
    <3> QED
      BY <1>8, <3>2, <3>5
  <2> QED
    BY <1>13, <2>1, <2>2
<1> QED
  BY <1>3, <1>4, <1>15, <1>16 DEF SourcesInv, SourcesOK

LEMMA CommitSources ==
  ASSUME SearchInv, SourcesInv, Commit, files' = files, FetchedOK(files, flattenTree(tree')),
         debounced' \in Seq(Char)
  PROVE  SourcesInv'
<1>1. /\ ~Restarts => scan' = scan
      /\ Restarts => scan' = NoScan \/ scan' = Started(debounced', flattenTree(tree'))
  BY DEF Commit, ContentSearch
<1>2. CASE ~Restarts
  <2>1. Listed(flattenTree(tree')) = Listed(flattenTree(tree))
    BY <1>2 DEF Restarts
  <2> QED
    BY <1>1, <1>2, <2>1 DEF SourcesInv, SourcesOK
<1>3. CASE scan' = NoScan
  <2>1. scan'.hits = << >> /\ scan'.targets = << >>
    BY <1>3 DEF NoScan
  <2> QED
    BY <2>1 DEF SourcesInv, SourcesOK, ToSet
<1>4. CASE scan' = Started(debounced', flattenTree(tree'))
  <2> DEFINE nodes == flattenTree(tree')
  <2>1. CacheOK(files, cache, Keys(stray)) /\ FetchedOK(files, nodes)
    BY DEF SearchInv
  <2> HIDE DEF nodes
  <2>2. scan' = Started(debounced', nodes)
    BY <1>4 DEF nodes
  <2>3. scan'.hits = << >> /\ ToSet(scan'.targets) \subseteq ToSet(nodes)
    BY <2>1, <2>2, StartedIs
  <2>4. \A n \in ToSet(nodes) : [id |-> n.id, path |-> n.path] \in Listed(nodes)
    BY DEF Listed, ToSet
  <2>5. DOMAIN << >> = {}
    OBVIOUS
  <2>6. SourcesOK(files', scan', nodes)
    BY <2>3, <2>4, <2>5 DEF SourcesOK
  <2> QED
    BY <2>6 DEF SourcesInv, nodes
<1> QED
  BY <1>1, <1>2, <1>3, <1>4

LEMMA SourcesNext ==
  ASSUME SearchInv, SearchInv', SourcesInv, [Next]_vars
  PROVE  SourcesInv'
<1>1. CASE UNCHANGED <<files, tree, scan>>
  BY <1>1 DEF SourcesInv
<1>2. CASE Dismiss \/ Choose
  <2>1. scan' = NoScan
    BY <1>2 DEF Dismiss, Choose, Closes
  <2>2. scan'.hits = << >> /\ scan'.targets = << >>
    BY <2>1 DEF NoScan
  <2> QED
    BY <2>2 DEF SourcesInv, SourcesOK, ToSet
<1>3. CASE Reads
  BY <1>3, ReadSources
<1>4. CASE Types \/ Deletes \/ Escapes \/ DebounceFires \/ Fetched \/ \E mode \in {"all", "files"} : SwitchMode(mode)
  <2>1. Commit /\ files' = files
    BY <1>4 DEF Types, Deletes, Escapes, Typed, DebounceFires, Fetched, SwitchMode
  <2>2. FetchedOK(files, flattenTree(tree')) /\ debounced' \in Seq(Char)
    BY <2>1 DEF SearchInv, TextsOK
  <2> QED
    BY <2>1, <2>2, CommitSources
<1>5. CASE Edited \/ Deleted
  <2>1. FilesOK(files) /\ FilesOK(files') /\ ScanOK(files, scan) /\ tree' = tree /\ scan' = scan
    BY <1>5 DEF SearchInv, Edited, Deleted
  <2>2. Later(files, files')
    <3>1. CASE Edited
      BY <2>1, <3>1, NewerText DEF Edited
    <3>2. CASE Deleted
      BY <2>1, <3>2, FileGone DEF Deleted
    <3> QED
      BY <1>5, <3>1, <3>2
  <2>3. SourcesOK(files', scan, flattenTree(tree))
    BY <2>1, <2>2, SourcesStay DEF SourcesInv
  <2> QED
    BY <2>1, <2>3 DEF SourcesInv
<1>6. CASE (\E mode \in {"all", "files"} : Open(mode)) \/ Moves \/ StrayAnswered \/ UNCHANGED vars
  <2>1. UNCHANGED <<files, tree, scan>>
    BY <1>6 DEF Open, Moves, StrayAnswered, vars
  <2> QED
    BY <1>1, <2>1
<1> QED
  BY <1>2, <1>3, <1>4, <1>5, <1>6 DEF Next

LEMMA SourcesInit ==
  ASSUME Init
  PROVE  SourcesInv
<1>1. scan.hits = << >> /\ scan.targets = << >>
  BY DEF Init, NoScan
<1> QED
  BY <1>1 DEF SourcesInv, SourcesOK, ToSet

LEMMA ListFromOne ==
  ASSUME SearchInv, SourcesInv
  PROVE  OneQueryPerList
<1> DEFINE h == scan.hits
           c == result.contents
<1>1. \A i \in DOMAIN c : i \in DOMAIN h /\ c[i] = h[i] /\ c[i].for = trim(debounced) /\ scan.query = c[i].for
  <2>1. \A i \in DOMAIN h : h[i].for = scan.query
    BY DEF SearchInv, ScanOK, OfOneQuery
  <2> QED
    BY <2>1, ShownHits
<1>2. ASSUME NEW i \in DOMAIN c
      PROVE  /\ [id |-> c[i].node.id, path |-> c[i].node.path] \in Listed(flattenTree(tree))
             /\ OfOneText(c[i].node.id)
  <2>1. i \in DOMAIN h /\ c[i] = h[i]
    BY <1>1
  <2>2. h[i].node \in ToSet(scan.targets) /\ OneSource(files, scan, h[i].node.id)
    BY <2>1 DEF SourcesInv, SourcesOK
  <2> DEFINE id == h[i].node.id
  <2>3. PICK v \in DOMAIN Contents[id] :
          /\ \A x \in files : x.id = id => v <= x.ver
          /\ \A j \in DOMAIN h :
               h[j].node.id = id =>
                 /\ h[j].node.ver <= v
                 /\ h[j].match \in ToSet(matchContent(Contents[id][v], scan.query, MAX_MATCHES_PER_FILE))
    BY <2>2 DEF OneSource
  <2> HIDE DEF id
  <2>4. \A j \in DOMAIN c :
          c[j].node.id = id =>
            /\ c[j].node.ver <= v
            /\ c[j].match \in ToSet(matchContent(Contents[id][v], c[j].for, MAX_MATCHES_PER_FILE))
    BY <1>1, <2>3
  <2>5. OfOneText(id)
    BY <2>3, <2>4 DEF OfOneText
  <2> QED
    BY <2>1, <2>2, <2>5 DEF SourcesInv, SourcesOK, id
<1> QED
  BY <1>1, <1>2, OneQuery DEF OneQueryPerList, OfTheQuery

(* A list never mixes two queries, two trees or two texts of a file: each of *)
(* its lines is of the query as it stood when the typing paused, of a file   *)
(* at the path the page's tree has it at, and the lines of one file are all  *)
(* of one text it has had since that tree was fetched                       *)
(* (useProjectSearch.ts:189).                                               *)
THEOREM ListsAreOfOneQuery == Spec => []OneQueryPerList
<1>1. SearchInv /\ SearchInv' /\ SourcesInv /\ [Next]_vars => SourcesInv'
  BY SourcesNext
<1>2. SearchInv /\ SourcesInv => OneQueryPerList
  BY ListFromOne
<1> QED
  BY <1>1, <1>2, SourcesInit, Invariance, PTL DEF Spec

LEMMA QueryIs ==
  ASSUME ListInv
  PROVE  /\ trim(debounced) \in Seq(Char \ {Newline}) /\ trim(debounced) \in Seq(Char)
         /\ trim(debounced) # << >> => trim(debounced)[1] # Space
<1>1. debounced \in Seq(Typeable) /\ Typeable \subseteq Char \ {Newline}
  BY SearchAssumption DEF ListInv, TypedOf
<1>2. debounced \in Seq(Char \ {Newline})
  BY <1>1
<1>3. trim(debounced) \in Seq(Char \ {Newline}) /\ (trim(debounced) # << >> => trim(debounced)[1] # Space)
  BY <1>2, TrimPart
<1> QED
  BY <1>3

LEMMA SnippetsAreGenuine ==
  ASSUME SearchInv, ListInv, HitsInv
  PROVE  SnippetsShowTheQuery
<1> SUFFICES ASSUME NEW i \in DOMAIN result.contents, NEW j \in DOMAIN result.contents
             PROVE  LET hit == result.contents[i]
                        other == result.contents[j]
                        even == {v \in DOMAIN Contents[hit.node.id] : Even(Contents[hit.node.id][v])}
                    IN even = DOMAIN Contents[hit.node.id] =>
                         /\ \E v \in even : Spelled(hit, Contents[hit.node.id][v])
                         /\ hit.node.id = other.node.id /\ hit.match.line = other.match.line => i = j
  BY DEF SnippetsShowTheQuery
<1> DEFINE hit == result.contents[i]
           other == result.contents[j]
           texts == Contents[hit.node.id]
           even == {v \in DOMAIN texts : Even(texts[v])}
<1>1. /\ i \in DOMAIN scan.hits /\ j \in DOMAIN scan.hits /\ hit = scan.hits[i] /\ other = scan.hits[j]
      /\ hit.for = trim(debounced) /\ trim(debounced) # << >>
  BY ShownHits
<1>2. HitOf(hit) /\ (Twice(hit, other) => i = j)
  BY <1>1 DEF HitsInv, HitsOf
<1>3. hit.for \in Seq(Char \ {Newline}) /\ hit.for # << >> /\ hit.for[1] # Space
  BY <1>1, QueryIs
<1> HIDE DEF hit, other
<1>4. SUFFICES ASSUME even = DOMAIN texts
               PROVE  /\ \E v \in even : Spelled(hit, texts[v])
                      /\ hit.node.id = other.node.id /\ hit.match.line = other.match.line => i = j
  BY DEF hit, other
<1>5. AllEven(hit.node.id)
  BY <1>4 DEF AllEven
<1>6. PICK v \in DOMAIN texts : texts[v] \in Seq(Char) /\ Contained(hit, texts[v])
  BY <1>2 DEF HitOf
<1>7. Even(texts[v])
  BY <1>5 DEF AllEven
<1>8. PICK k \in Nat \ {0} : /\ Place(toLowerCase(texts[v]), toLowerCase(hit.for), k)
                             /\ hit.match = HitAt(texts[v], hit.for, k)
  BY <1>6 DEF Contained
<1> HIDE DEF texts
<1>9. Spelled(hit, texts[v])
  BY <1>3, <1>6, <1>7, <1>8, SpelledIs
<1>10. v \in even
  BY <1>6, <1>7
<1> QED
  BY <1>2, <1>5, <1>9, <1>10 DEF Twice

LEMMA SnippetsDrawnWhole ==
  ASSUME SearchInv, ListInv, HitsInv
  PROVE  \A i \in DOMAIN result.contents :
           LET shown == result.contents[i].match.snippet IN
           Whole(Highlight(shown.text, <<shown.range>>)) = shown.text
<1> SUFFICES ASSUME NEW i \in DOMAIN result.contents, NEW shown, shown = result.contents[i].match.snippet
             PROVE  Whole(Highlight(shown.text, <<shown.range>>)) = shown.text
  OBVIOUS
<1> DEFINE hit == result.contents[i]
<1>1. /\ i \in DOMAIN scan.hits /\ hit = scan.hits[i]
      /\ hit.for = trim(debounced) /\ trim(debounced) # << >>
  BY ShownHits
<1>2. HitOf(hit)
  BY <1>1 DEF HitsInv, HitsOf
<1>3. hit.for \in Seq(Char) /\ hit.for # << >>
  BY <1>1, QueryIs
<1>4. shown = hit.match.snippet
  OBVIOUS
<1> HIDE DEF hit
<1>5. PICK v \in DOMAIN Contents[hit.node.id] :
        Contents[hit.node.id][v] \in Seq(Char) /\ Contained(hit, Contents[hit.node.id][v])
  BY <1>2 DEF HitOf
<1>6. PICK k \in Nat \ {0} : hit.match = HitAt(Contents[hit.node.id][v], hit.for, k)
  BY <1>5 DEF Contained
<1>7. shown = HitAt(Contents[hit.node.id][v], hit.for, k).snippet
  BY <1>4, <1>6
<1> QED
  BY <1>3, <1>5, <1>7, SnippetWhole

(* Whatever is typed and fetched, the names the palette lists are the paths  *)
(* that have the query's characters in their order, each once, and what is  *)
(* marked in a path spells the query (matchPath and searchNames in          *)
(* features/search/match.ts).                                               *)
THEOREM PathsAreListed == Spec => []PathsMatch
<1>1. SearchInv /\ ListInv => PathsMatch
  BY PathsAreMatched
<1> QED
  BY <1>1, ListInvariance, PTL

(* Every line that is listed is of a text the file has had and shows the     *)
(* query where the range and the offset say, on the line that is named, and *)
(* no line is listed twice (findInContent and clipSnippet in match.ts, the  *)
(* workers of useProjectSearch.ts).                                         *)
THEOREM SnippetsAreOfTheQuery == Spec => []SnippetsShowTheQuery
<1>1. SearchInv /\ ListInv /\ HitsInv => SnippetsShowTheQuery
  BY SnippetsAreGenuine
<1> QED
  BY <1>1, HitsInvariance, PTL

(* Drawing a name or a snippet loses no character of it and repeats none,    *)
(* whatever ranges the match came with (Highlight.tsx).                     *)
THEOREM NothingIsLostInDrawing == Spec => []DrawnWhole
<1>1. SearchInv /\ ListInv /\ HitsInv => DrawnWhole
  BY NamesDrawnWhole, SnippetsDrawnWhole DEF DrawnWhole
<1> QED
  BY <1>1, HitsInvariance, PTL

-----------------------------------------------------------------------------
(* What a function gives of each element, in one sequence.                  *)
Over(f, s) == FlattenSeq([i \in DOMAIN s |-> f[s[i]]])
Gives(f, B, R) == \A x \in B : f[x] \in Seq(R)

LEMMA OverSeq ==
  ASSUME NEW B, NEW R, NEW f, Gives(f, B, R), NEW s \in Seq(B), NEW u, u = [i \in DOMAIN s |-> f[s[i]]]
  PROVE  u \in Seq(Seq(R)) /\ Len(u) = Len(s) /\ \A i \in 1..Len(s) : u[i] = f[s[i]]
<1>1. DOMAIN s = 1..Len(s) /\ Len(s) \in Nat /\ \A i \in 1..Len(s) : s[i] \in B
  OBVIOUS
<1>2. \A i \in 1..Len(s) : f[s[i]] \in Seq(R)
  BY <1>1 DEF Gives
<1>3. u = [i \in 1..Len(s) |-> f[s[i]]]
  BY <1>1
<1>4. \A i \in 1..Len(s) : u[i] \in Seq(R)
  BY <1>2, <1>3
<1> QED
  BY <1>1, <1>3, <1>4

LEMMA OverNone ==
  ASSUME NEW f
  PROVE  Over(f, << >>) = << >>
<1>1. [i \in DOMAIN << >> |-> f[<< >>[i]]] = << >>
  OBVIOUS
<1> QED
  BY <1>1, FlattenNone DEF Over

LEMMA OverType ==
  ASSUME NEW B, NEW R, NEW f, Gives(f, B, R), NEW s \in Seq(B)
  PROVE  Over(f, s) \in Seq(R)
BY OverSeq, FlattenType DEF Over

LEMMA OverAppend ==
  ASSUME NEW B, NEW R, NEW f, Gives(f, B, R), NEW s \in Seq(B), NEW x \in B
  PROVE  Over(f, Append(s, x)) = Over(f, s) \o f[x]
<1> DEFINE t == Append(s, x)
           a == [i \in DOMAIN s |-> f[s[i]]]
           b == [i \in DOMAIN t |-> f[t[i]]]
           y == f[x]
           c == Append(a, y)
<1>1. t \in Seq(B) /\ Len(t) = Len(s) + 1 /\ Len(s) \in Nat /\ t[Len(s) + 1] = x
      /\ \A i \in 1..Len(s) : t[i] = s[i]
  OBVIOUS
<1>2. a \in Seq(Seq(R)) /\ Len(a) = Len(s) /\ \A i \in 1..Len(s) : a[i] = f[s[i]]
  BY OverSeq
<1>3. b \in Seq(Seq(R)) /\ Len(b) = Len(t) /\ \A i \in 1..Len(t) : b[i] = f[t[i]]
  <2>1. \A u : \A q \in Seq(B) : u = [i \in DOMAIN q |-> f[q[i]]]
          => u \in Seq(Seq(R)) /\ Len(u) = Len(q) /\ \A i \in 1..Len(q) : u[i] = f[q[i]]
    BY OverSeq
  <2>2. t \in Seq(B) /\ b = [i \in DOMAIN t |-> f[t[i]]]
    BY <1>1
  <2> HIDE DEF b
  <2> QED
    BY <2>1, <2>2
<1>4. y \in Seq(R)
  BY DEF Gives
<1> HIDE DEF a, b, y, t
<1>5. c \in Seq(Seq(R)) /\ Len(c) = Len(s) + 1 /\ c[Len(s) + 1] = y /\ \A i \in 1..Len(s) : c[i] = a[i]
  BY <1>2, <1>4
<1>6. \A i \in 1..(Len(s) + 1) : b[i] = c[i]
  <2> SUFFICES ASSUME NEW i \in 1..(Len(s) + 1) PROVE b[i] = c[i]
    OBVIOUS
  <2>1. CASE i = Len(s) + 1
    <3>1. b[i] = f[t[i]] /\ t[i] = x
      BY <1>1, <1>3, <2>1
    <3> QED
      BY <1>5, <2>1, <3>1 DEF y
  <2>2. CASE i # Len(s) + 1
    <3>1. i \in 1..Len(s) /\ i \in 1..Len(t)
      BY <1>1, <2>2
    <3> QED
      BY <1>1, <1>2, <1>3, <1>5, <3>1
  <2> QED
    BY <2>1, <2>2
<1> HIDE DEF c
<1>7. b = c
  BY <1>1, <1>3, <1>5, <1>6, SeqEqual
<1>8. FlattenSeq(c) = FlattenSeq(a) \o y
  BY <1>2, <1>4, FlattenAppend DEF c
<1> QED
  BY <1>7, <1>8 DEF Over, a, b, y, t

LEMMA OverConcat ==
  ASSUME NEW B, NEW R, NEW f, Gives(f, B, R), NEW s \in Seq(B), NEW t \in Seq(B)
  PROVE  Over(f, s \o t) = Over(f, s) \o Over(f, t)
<1> DEFINE T == {u \in Seq(B) : Over(f, s \o u) = Over(f, s) \o Over(f, u)}
<1>1. << >> \in T
  <2>1. s \o << >> = s /\ Over(f, s) \in Seq(R)
    BY OverType
  <2>2. Over(f, s) \o << >> = Over(f, s)
    BY <2>1
  <2> QED
    BY <2>1, <2>2, OverNone
<1>2. ASSUME NEW u \in Seq(B), NEW x \in B, u \in T PROVE Append(u, x) \in T
  <2> DEFINE v == Append(u, x)
             w == s \o u
             y == f[x]
  <2>1. v \in Seq(B) /\ w \in Seq(B) /\ s \o v = Append(w, x)
    OBVIOUS
  <2> HIDE DEF w
  <2>7. \A q \in Seq(B) : Over(f, Append(q, x)) = Over(f, q) \o f[x]
    BY OverAppend
  <2>2. Over(f, s \o v) = Over(f, w) \o y /\ Over(f, v) = Over(f, u) \o y
    BY <2>1, <2>7
  <2>3. Over(f, w) = Over(f, s) \o Over(f, u)
    BY <1>2 DEF w
  <2> DEFINE a == Over(f, s)
             b == Over(f, u)
  <2>4. a \in Seq(R) /\ b \in Seq(R) /\ y \in Seq(R)
    BY OverType DEF Gives
  <2> HIDE DEF a, b, v, y
  <2>5. (a \o b) \o y = a \o (b \o y)
    BY <2>4, ConcatAssociative, SMTT(40)
  <2>6. Over(f, s \o v) = Over(f, s) \o Over(f, v)
    BY <2>2, <2>3, <2>5 DEF a, b
  <2> QED
    BY <2>1, <2>6 DEF v
<1> HIDE DEF T
<1>3. t \in T
  BY <1>1, <1>2, SeqInduction
<1> QED
  BY <1>3 DEF T

LEMMA OverOne ==
  ASSUME NEW B, NEW R, NEW f, Gives(f, B, R), NEW x \in B, NEW s, s = <<x>>
  PROVE  Over(f, s) = f[x]
<1>1. [i \in DOMAIN s |-> f[s[i]]] = <<f[x]>>
  OBVIOUS
<1>2. f[x] \in Seq(R)
  BY DEF Gives
<1> QED
  BY <1>1, <1>2, FlattenOne DEF Over

LEMMA OverFirst ==
  ASSUME NEW B, NEW R, NEW f, Gives(f, B, R), NEW s \in Seq(B), s # << >>
  PROVE  /\ Head(s) \in B /\ Tail(s) \in Seq(B) /\ Over(f, s) = f[Head(s)] \o Over(f, Tail(s))
<1> DEFINE h == Head(s)
           t == Tail(s)
           a == <<h>>
<1>1. h \in B /\ t \in Seq(B) /\ s = a \o t /\ a \in Seq(B)
  OBVIOUS
<1> HIDE DEF h, t, a
<1>2. Over(f, a) = f[h]
  BY <1>1, OverOne DEF a
<1>3. Over(f, s) = Over(f, a) \o Over(f, t)
  BY <1>1, OverConcat
<1> QED
  BY <1>1, <1>2, <1>3 DEF h, t

LEMMA OverEmpty ==
  ASSUME NEW B, NEW R, NEW f, Gives(f, B, R), \A x \in B : f[x] # << >>, NEW s \in Seq(B)
  PROVE  Over(f, s) = << >> <=> s = << >>
<1>1. CASE s = << >>
  BY <1>1, OverNone
<1>2. CASE s # << >>
  <2> DEFINE a == f[Head(s)]
             b == Over(f, Tail(s))
  <2>1. Head(s) \in B /\ Tail(s) \in Seq(B) /\ Over(f, s) = a \o b
    BY <1>2, OverFirst
  <2>2. a \in Seq(R) /\ a # << >> /\ b \in Seq(R)
    BY <2>1, OverType DEF Gives
  <2> HIDE DEF a, b
  <2>3. a \o b # << >>
    <3>1. Len(a) > 0 /\ Len(a \o b) = Len(a) + Len(b) /\ Len(b) \in Nat
      BY <2>2
    <3>2. Len(<< >>) = 0
      OBVIOUS
    <3> QED
      BY <3>1, <3>2
  <2> QED
    BY <1>2, <2>1, <2>3
<1> QED
  BY <1>1, <1>2

LEMMA OverSame ==
  ASSUME NEW f, NEW g, NEW s, \A i \in DOMAIN s : f[s[i]] = g[s[i]]
  PROVE  Over(f, s) = Over(g, s)
<1>1. [i \in DOMAIN s |-> f[s[i]]] = [i \in DOMAIN s |-> g[s[i]]]
  OBVIOUS
<1> QED
  BY <1>1 DEF Over

LEMMA OverAmong ==
  ASSUME NEW B, NEW R, NEW f, Gives(f, B, R), NEW K, NEW g, \A x \in B : g[x] = Among(f[x], K), NEW s \in Seq(B)
  PROVE  Gives(g, B, R) /\ Among(Over(f, s), K) = Over(g, s)
<1> DEFINE T == {u \in Seq(B) : Among(Over(f, u), K) = Over(g, u)}
<1>0. Gives(g, B, R)
  BY AmongIs DEF Gives
<1>1. << >> \in T
  BY OverNone, AmongNothing
<1>2. ASSUME NEW u \in Seq(B), NEW x \in B, u \in T PROVE Append(u, x) \in T
  <2> DEFINE v == Append(u, x)
             a == Over(f, u)
             y == f[x]
  <2>1. v \in Seq(B)
    OBVIOUS
  <2>6. Over(f, Append(u, x)) = Over(f, u) \o f[x] /\ Over(g, Append(u, x)) = Over(g, u) \o g[x]
    BY <1>0, OverAppend
  <2>2. Over(f, v) = a \o y /\ Over(g, v) = Over(g, u) \o g[x]
    BY <2>6
  <2>3. a \in Seq(R) /\ y \in Seq(R)
    BY OverType DEF Gives
  <2>4. Among(a, K) = Over(g, u) /\ g[x] = Among(y, K)
    BY <1>2
  <2> HIDE DEF a, y, v
  <2>5. Among(a \o y, K) = Among(a, K) \o Among(y, K)
    BY <2>3, AmongConcat
  <2> QED
    BY <2>1, <2>2, <2>4, <2>5 DEF v
<1> HIDE DEF T
<1>3. s \in T
  BY <1>1, <1>2, SeqInduction
<1> QED
  BY <1>0, <1>3 DEF T

Through(h, f, g, B) == \A x \in B : h[x] = Over(f, g[x])

LEMMA OverOver ==
  ASSUME NEW B, NEW C, NEW R, NEW g, Gives(g, B, C), NEW f, Gives(f, C, R),
         NEW h, Through(h, f, g, B), NEW s \in Seq(B)
  PROVE  Gives(h, B, R) /\ Over(f, Over(g, s)) = Over(h, s)
<1> USE DEF Through
<1> DEFINE T == {u \in Seq(B) : Over(f, Over(g, u)) = Over(h, u)}
<1>0. Gives(h, B, R)
  BY OverType DEF Gives
<1>1. << >> \in T
  BY OverNone
<1>2. ASSUME NEW u \in Seq(B), NEW x \in B, u \in T PROVE Append(u, x) \in T
  <2> DEFINE v == Append(u, x)
             a == Over(g, u)
             y == g[x]
  <2>1. v \in Seq(B)
    OBVIOUS
  <2>6. Over(g, Append(u, x)) = Over(g, u) \o g[x] /\ Over(h, Append(u, x)) = Over(h, u) \o h[x]
    BY <1>0, OverAppend
  <2>2. Over(g, v) = a \o y /\ Over(h, v) = Over(h, u) \o h[x]
    BY <2>6
  <2>3. a \in Seq(C) /\ y \in Seq(C)
    BY OverType DEF Gives
  <2>4. Over(f, a) = Over(h, u) /\ h[x] = Over(f, y)
    BY <1>2
  <2> HIDE DEF a, y, v
  <2>5. Over(f, a \o y) = Over(f, a) \o Over(f, y)
    BY <2>3, OverConcat
  <2> QED
    BY <2>1, <2>2, <2>4, <2>5 DEF v
<1> HIDE DEF T
<1>3. s \in T
  BY <1>1, <1>2, SeqInduction
<1> QED
  BY <1>0, <1>3 DEF T

-----------------------------------------------------------------------------
(* Nodes with the nodes below them, no deeper than some depth.              *)
Forest(B) ==
  /\ \A n \in B : /\ n.children \in Seq(B) /\ n.row.path \in Path
                  /\ \A c \in ToSet(n.children) : Front(c.row.path) = n.row.path
  /\ \E d \in Nat : \A n \in B : Len(n.row.path) <= d

LEMMA OneDeeper ==
  ASSUME NEW B, Forest(B), NEW n \in B
  PROVE  /\ Len(n.row.path) \in Nat /\ Len(n.row.path) >= 1
         /\ \A i \in DOMAIN n.children : /\ n.children[i] \in B /\ n.children[i] \in ToSet(n.children)
                                         /\ Len(n.children[i].row.path) = Len(n.row.path) + 1
<1>1. \A m \in B : Len(m.row.path) \in Nat /\ Len(m.row.path) >= 1
  BY FrontIs DEF Forest
<1> SUFFICES ASSUME NEW i \in DOMAIN n.children
             PROVE  /\ n.children[i] \in B /\ n.children[i] \in ToSet(n.children)
                    /\ Len(n.children[i].row.path) = Len(n.row.path) + 1
  BY <1>1
<1> DEFINE c == n.children[i]
<1>2. n.children \in Seq(B)
  BY DEF Forest
<1>3. c \in B /\ c \in ToSet(n.children)
  BY <1>2 DEF ToSet
<1>4. Front(c.row.path) = n.row.path /\ c.row.path \in Path
  BY <1>3 DEF Forest
<1>5. Len(Front(c.row.path)) = Len(c.row.path) - 1
  BY <1>4, FrontIs
<1>6. Len(c.row.path) \in Nat /\ Len(n.row.path) \in Nat
  BY <1>1, <1>3
<1>7. Len(c.row.path) = Len(n.row.path) + 1
  BY <1>4, <1>5, <1>6
<1> QED
  BY <1>3, <1>7

LEMMA ForestInduction ==
  ASSUME NEW B, Forest(B), NEW T,
         \A n \in B : (\A i \in DOMAIN n.children : n.children[i] \in T) => n \in T
  PROVE  \A n \in B : n \in T
<1>1. PICK d \in Nat : \A n \in B : Len(n.row.path) <= d
  BY DEF Forest
<1> DEFINE Deep(k) == {n \in B : Len(n.row.path) + k > d}
           U == {k \in Nat : \A n \in Deep(k) : n \in T}
<1>2. \A n \in B : Len(n.row.path) \in Nat /\ Len(n.row.path) >= 1
  BY OneDeeper
<1>3. 0 \in U
  BY <1>1, <1>2
<1>4. ASSUME NEW k \in Nat, k \in U PROVE k + 1 \in U
  <2>1. ASSUME NEW n \in Deep(k + 1) PROVE n \in T
    <3>1. ASSUME NEW i \in DOMAIN n.children PROVE n.children[i] \in T
      <4> DEFINE c == n.children[i]
                 l == Len(n.row.path)
                 m == Len(c.row.path)
      <4>1. c \in B /\ m = l + 1 /\ l \in Nat /\ l + (k + 1) > d
        BY OneDeeper
      <4> HIDE DEF l
      <4>2. m + k > d
        BY <4>1
      <4>3. c \in Deep(k)
        BY <4>1, <4>2
      <4> QED
        BY <1>4, <4>3
    <3>2. n \in B
      OBVIOUS
    <3> QED
      BY <3>1, <3>2
  <2> HIDE DEF Deep
  <2> QED
    BY <2>1
<1> HIDE DEF U
<1>5. d \in U
  BY <1>3, <1>4, SetInduction
<1>6. \A n \in B : n \in Deep(d)
  BY <1>2
<1> QED
  BY <1>5, <1>6 DEF U

(* What the filter, and the drawing of the rows, make of a node, given what  *)
(* they make of the nodes in it.                                            *)
Made(how, n, below) ==
  IF how.filter
  THEN IF matchPath(Last(n.row.path), how.query) # NoMatch THEN <<n>>
       ELSE IF n.row.isDir /\ FlattenSeq(below) # << >> THEN <<[n EXCEPT !.children = FlattenSeq(below)]>>
       ELSE << >>
  ELSE <<n.row>> \o FlattenSeq(below)
Making(f, how, B) ==
  \A n \in B : f[n] = Made(how, n, [i \in DOMAIN n.children |-> f[n.children[i]]])

LEMMA MadeOfAll ==
  ASSUME NEW B, Forest(B), NEW how
  PROVE  \E f : f = [n \in B |-> Made(how, n, [i \in DOMAIN n.children |-> f[n.children[i]]])]
<1>1. PICK d \in Nat : \A n \in B : Len(n.row.path) <= d
  BY DEF Forest
<1> DEFINE Deep(k) == {n \in B : Len(n.row.path) + k > d}
           T == {k \in Nat : \E g : DOMAIN g = Deep(k) /\ Making(g, how, Deep(k))}
<1>2. \A n \in B : Len(n.row.path) \in Nat /\ Len(n.row.path) >= 1
  BY OneDeeper
<1>3. 0 \in T
  <2>1. Deep(0) = {}
    BY <1>1, <1>2
  <2> DEFINE g == [n \in {} |-> n]
  <2>2. DOMAIN g = {} /\ Making(g, how, {})
    BY DEF Making
  <2> HIDE DEF g, Deep
  <2> QED
    BY <2>1, <2>2
<1>4. ASSUME NEW k \in Nat, k \in T PROVE k + 1 \in T
  <2>1. PICK g : DOMAIN g = Deep(k) /\ Making(g, how, Deep(k))
    BY <1>4
  <2> DEFINE Node(n) == Made(how, n, [i \in DOMAIN n.children |-> g[n.children[i]]])
             h == [n \in Deep(k + 1) |-> Node(n)]
  <2>2. \A n \in Deep(k) : h[n] = g[n]
    <3> SUFFICES ASSUME NEW n \in Deep(k) PROVE h[n] = g[n]
      OBVIOUS
    <3>1. g[n] = Node(n)
      BY <2>1 DEF Making
    <3>2. n \in Deep(k + 1)
      <4> DEFINE l == Len(n.row.path)
      <4>1. n \in B /\ l \in Nat /\ l + k > d
        BY <1>2
      <4> HIDE DEF l
      <4>2. l + (k + 1) > d
        BY <4>1
      <4> QED
        BY <4>1, <4>2 DEF l
    <3> HIDE DEF Node, Deep
    <3> QED
      BY <3>1, <3>2
  <2>3. ASSUME NEW n \in Deep(k + 1), NEW i \in DOMAIN n.children PROVE h[n.children[i]] = g[n.children[i]]
    <3> DEFINE c == n.children[i]
               l == Len(n.row.path)
               m == Len(c.row.path)
    <3>1. c \in B /\ m = l + 1 /\ l \in Nat /\ l + (k + 1) > d
      BY OneDeeper
    <3> HIDE DEF l
    <3>2. m + k > d
      BY <3>1
    <3>3. c \in Deep(k)
      BY <3>1, <3>2
    <3> HIDE DEF c, h, Deep
    <3>4. h[c] = g[c]
      BY <2>2, <3>3
    <3> QED
      BY <3>4 DEF c
  <2>4. Making(h, how, Deep(k + 1))
    <3> SUFFICES ASSUME NEW n \in Deep(k + 1)
                 PROVE  h[n] = Made(how, n, [i \in DOMAIN n.children |-> h[n.children[i]]])
      BY DEF Making
    <3>1. [i \in DOMAIN n.children |-> h[n.children[i]]] = [i \in DOMAIN n.children |-> g[n.children[i]]]
      <4> HIDE DEF h, Deep
      <4> QED
        BY <2>3
    <3>2. h[n] = Node(n)
      <4> HIDE DEF Node, Deep
      <4> QED
        OBVIOUS
    <3> HIDE DEF h
    <3> QED
      BY <3>1, <3>2
  <2>5. DOMAIN h = Deep(k + 1) /\ k + 1 \in Nat
    OBVIOUS
  <2> HIDE DEF h, Deep
  <2> QED
    BY <2>4, <2>5
<1> HIDE DEF T
<1>5. \A k \in Nat : k \in T
  BY <1>3, <1>4, SetInduction
<1>6. Deep(d) = B
  BY <1>2
<1>7. PICK g : DOMAIN g = B /\ Making(g, how, B)
  <2>1. \E g : DOMAIN g = Deep(d) /\ Making(g, how, Deep(d))
    BY <1>5 DEF T
  <2> HIDE DEF Deep
  <2> QED
    BY <1>6, <2>1
<1> DEFINE Is(f) == f = [n \in B |-> Made(how, n, [i \in DOMAIN n.children |-> f[n.children[i]]])]
           G == [n \in B |-> g[n]]
<1>8. Is(G)
  <2> SUFFICES ASSUME NEW n \in B
               PROVE  G[n] = Made(how, n, [i \in DOMAIN n.children |-> G[n.children[i]]])
    BY DOMAIN G = B
  <2>1. \A i \in DOMAIN n.children : n.children[i] \in B
    BY OneDeeper
  <2>2. [i \in DOMAIN n.children |-> G[n.children[i]]] = [i \in DOMAIN n.children |-> g[n.children[i]]]
    BY <2>1
  <2>3. G[n] = g[n]
    OBVIOUS
  <2> HIDE DEF G
  <2> QED
    BY <1>7, <2>2, <2>3 DEF Making
<1> HIDE DEF G
<1>9. Is(G)
  BY <1>8
<1> QED
  BY <1>9, Zenon

(* The rows of a node and of those below it, in the order they are visited.  *)
Rowing == [filter |-> FALSE, query |-> << >>]
RowsOf(r, B) == r = [n \in B |-> <<n.row>> \o Over(r, n.children)]

LEMMA RowsThere ==
  ASSUME NEW B, Forest(B)
  PROVE  \E r : RowsOf(r, B)
<1>1. PICK f : f = [n \in B |-> Made(Rowing, n, [i \in DOMAIN n.children |-> f[n.children[i]]])]
  BY MadeOfAll
<1>2. \A n \in B : Made(Rowing, n, [i \in DOMAIN n.children |-> f[n.children[i]]]) = <<n.row>> \o Over(f, n.children)
  BY DEF Made, Rowing, Over
<1>3. [n \in B |-> Made(Rowing, n, [i \in DOMAIN n.children |-> f[n.children[i]]])]
        = [n \in B |-> <<n.row>> \o Over(f, n.children)]
  BY <1>2
<1>4. f = [n \in B |-> <<n.row>> \o Over(f, n.children)]
  BY <1>1, <1>3
<1>5. RowsOf(f, B)
  BY <1>4 DEF RowsOf
<1> QED
  BY <1>5

RowIn(B, R) == \A n \in B : n.row \in R

LEMMA RowsType ==
  ASSUME NEW B, Forest(B), NEW r, RowsOf(r, B), NEW R, RowIn(B, R)
  PROVE  /\ Gives(r, B, R)
         /\ \A n \in B : r[n] # << >> /\ r[n] = <<n.row>> \o Over(r, n.children)
<1>1. \A n \in B : r[n] = <<n.row>> \o Over(r, n.children)
  BY DEF RowsOf
<1> DEFINE T == {n \in B : r[n] \in Seq(R)}
<1>2. ASSUME NEW n \in B, \A i \in DOMAIN n.children : n.children[i] \in T PROVE n \in T
  <2> DEFINE C == ToSet(n.children)
             b == Over(r, n.children)
  <2>1. n.children \in Seq(B)
    BY DEF Forest
  <2>2. n.children \in Seq(C)
    BY <2>1 DEF ToSet
  <2>3. Gives(r, C, R)
    BY <1>2 DEF Gives, ToSet
  <2> HIDE DEF C
  <2>4. b \in Seq(R)
    BY <2>2, <2>3, OverType
  <2>5. n.row \in R /\ r[n] = <<n.row>> \o b
    BY <1>1 DEF RowIn
  <2> HIDE DEF b
  <2>6. <<n.row>> \o b \in Seq(R)
    BY <2>4, <2>5
  <2> QED
    BY <2>5, <2>6
<1> HIDE DEF T
<1>3. \A n \in B : n \in T
  BY <1>2, ForestInduction
<1>4. Gives(r, B, R)
  BY <1>3 DEF T, Gives
<1>5. ASSUME NEW n \in B PROVE r[n] # << >>
  <2> DEFINE b == Over(r, n.children)
  <2>1. n.children \in Seq(B) /\ n.row \in R
    BY DEF Forest, RowIn
  <2>2. b \in Seq(R) /\ r[n] = <<n.row>> \o b
    BY <1>1, <1>4, <2>1, OverType
  <2> HIDE DEF b
  <2>3. Len(<<n.row>> \o b) = 1 + Len(b) /\ Len(b) \in Nat
    BY <2>1, <2>2
  <2>4. Len(<< >>) = 0
    OBVIOUS
  <2> QED
    BY <2>2, <2>3, <2>4
<1> QED
  BY <1>1, <1>4, <1>5

(* On the way through the nodes: the rows that have been visited and those   *)
(* to come are those of the tree, and no child is forgotten.                *)
RowSeq(s) == [i \in DOMAIN s |-> s[i].row]
Going(r, t, u, k) ==
  /\ RowSeq(u.out) \o Over(r, u.todo) = Over(r, t)
  /\ ToSet(t) \subseteq ToSet(u.out) \cup ToSet(u.todo)
  /\ \A n \in ToSet(u.out) : ToSet(n.children) \subseteq ToSet(u.out) \cup ToSet(u.todo)
  /\ u.todo # << >> => Len(u.out) = k

LEMMA RowSeqIs ==
  ASSUME NEW B, NEW R, RowIn(B, R), NEW s \in Seq(B)
  PROVE  /\ RowSeq(s) \in Seq(R) /\ Len(RowSeq(s)) = Len(s)
         /\ \A n \in B : RowSeq(Append(s, n)) = RowSeq(s) \o <<n.row>>
<1>1. DOMAIN s = 1..Len(s) /\ Len(s) \in Nat /\ \A i \in 1..Len(s) : s[i] \in B /\ s[i].row \in R
  BY DEF RowIn
<1>2. RowSeq(s) = [i \in 1..Len(s) |-> s[i].row]
  BY <1>1 DEF RowSeq
<1>3. RowSeq(s) \in Seq(R) /\ Len(RowSeq(s)) = Len(s)
  BY <1>1, <1>2
<1>4. ASSUME NEW n \in B PROVE RowSeq(Append(s, n)) = RowSeq(s) \o <<n.row>>
  <2> DEFINE t == Append(s, n)
             a == RowSeq(t)
             x == n.row
             b == RowSeq(s) \o <<x>>
  <2>1. /\ DOMAIN t = 1..(Len(s) + 1) /\ t[Len(s) + 1] = n /\ \A i \in 1..Len(s) : t[i] = s[i]
    BY <1>1
  <2>2. a = [i \in 1..(Len(s) + 1) |-> t[i].row]
    BY <2>1 DEF RowSeq
  <2>3. x \in R
    BY DEF RowIn
  <2>4. b \in Seq(R) /\ Len(b) = Len(s) + 1 /\ b[Len(s) + 1] = x /\ \A i \in 1..Len(s) : b[i] = RowSeq(s)[i]
    <3> DEFINE c == RowSeq(s)
    <3>1. c \in Seq(R) /\ Len(c) = Len(s)
      BY <1>3
    <3> HIDE DEF c, x
    <3>2. c \o <<x>> \in Seq(R) /\ Len(c \o <<x>>) = Len(c) + 1 /\ (c \o <<x>>)[Len(c) + 1] = x
          /\ \A i \in 1..Len(c) : (c \o <<x>>)[i] = c[i]
      BY <2>3, <3>1
    <3> QED
      BY <3>1, <3>2 DEF c
  <2> HIDE DEF b, a, t
  <2>5. \A i \in 1..(Len(s) + 1) : a[i] = b[i]
    <3> SUFFICES ASSUME NEW i \in 1..(Len(s) + 1) PROVE a[i] = b[i]
      OBVIOUS
    <3>1. CASE i = Len(s) + 1
      BY <2>1, <2>2, <2>4, <3>1
    <3>2. CASE i # Len(s) + 1
      <4>1. i \in 1..Len(s)
        BY <1>1, <3>2
      <4> QED
        BY <1>2, <2>1, <2>2, <2>4, <4>1
    <3> QED
      BY <3>1, <3>2
  <2>6. DOMAIN b = 1..(Len(s) + 1) /\ b = [i \in 1..(Len(s) + 1) |-> b[i]]
    BY <2>4
  <2>7. a = b
    BY <2>2, <2>5, <2>6
  <2> QED
    BY <2>7 DEF a, b, t
<1> QED
  BY <1>3, <1>4

LEMMA GoneOn ==
  ASSUME NEW B, Forest(B), NEW r, RowsOf(r, B), NEW R, RowIn(B, R), NEW t,
         NEW u \in Walk(B), NEW k \in Nat, Going(r, t, u, k), u.todo # << >>,
         NEW v, v = [out |-> Append(u.out, Head(u.todo)), todo |-> Head(u.todo).children \o Tail(u.todo)]
  PROVE  Going(r, t, v, k + 1)
<1> DEFINE n == Head(u.todo)
           rest == Tail(u.todo)
           below == n.children
           o == RowSeq(u.out)
           a == <<n.row>>
           b == Over(r, below)
           c == Over(r, rest)
<1>1. u.out \in Seq(B) /\ u.todo \in Seq(B)
  BY DEF Walk
<1>2. Gives(r, B, R)
  BY RowsType
<1>17. \A m \in B : r[m] = <<m.row>> \o Over(r, m.children)
  BY RowsType
<1>3. n \in B /\ rest \in Seq(B) /\ Over(r, u.todo) = r[n] \o c
  <2>1. \A s \in Seq(B) : s # << >> =>
          Head(s) \in B /\ Tail(s) \in Seq(B) /\ Over(r, s) = r[Head(s)] \o Over(r, Tail(s))
    BY <1>2, OverFirst
  <2> QED
    BY <1>1, <2>1
<1>4. below \in Seq(B) /\ n.row \in R
  BY <1>3 DEF Forest, RowIn
<1>5. o \in Seq(R) /\ RowSeq(Append(u.out, n)) = o \o a /\ r[n] = a \o b
  BY <1>1, <1>17, <1>3, RowSeqIs
<1>6. Over(r, below \o rest) = b \o c
  <2>1. \A x, y \in Seq(B) : Over(r, x \o y) = Over(r, x) \o Over(r, y)
    BY <1>2, OverConcat
  <2> HIDE DEF n, rest, below
  <2> QED
    BY <1>3, <1>4, <2>1
<1>7. a \in Seq(R) /\ b \in Seq(R) /\ c \in Seq(R)
  <2>1. \A x \in Seq(B) : Over(r, x) \in Seq(R)
    BY <1>2, OverType
  <2>2. a \in Seq(R)
    BY <1>4
  <2> HIDE DEF a, n, rest, below
  <2> QED
    BY <1>3, <1>4, <2>1, <2>2
<1>8. v.out = Append(u.out, n) /\ v.todo = below \o rest
  OBVIOUS
<1>9. ToSet(u.todo) = {n} \cup ToSet(rest)
  BY <1>1, Parts
<1>10. o \o Over(r, u.todo) = Over(r, t)
  BY DEF Going
<1> HIDE DEF n, rest, below, o, a, b, c
<1>11. RowSeq(v.out) \o Over(r, v.todo) = Over(r, t)
  <2>1. \A x, y, z \in Seq(R) : (x \o y) \o z = x \o (y \o z)
    BY ConcatAssociative, SMTT(40)
  <2>2. b \o c \in Seq(R) /\ a \o b \in Seq(R)
    BY <1>7
  <2>3. (o \o a) \o (b \o c) = o \o (a \o (b \o c))
    BY <1>5, <1>7, <2>1, <2>2
  <2>4. a \o (b \o c) = (a \o b) \o c
    BY <1>7, <2>1
  <2> QED
    BY <1>3, <1>5, <1>6, <1>8, <1>10, <2>3, <2>4
<1>12. ToSet(v.out) = ToSet(u.out) \cup {n}
  BY <1>1, <1>3, <1>8, AppendedSet
<1>13. ToSet(v.todo) = ToSet(below) \cup ToSet(rest)
  <2>1. \A x, y \in Seq(B) : ToSet(Joined(x, y)) = ToSet(x) \cup ToSet(y)
    BY ConcatSet
  <2>2. v.todo = Joined(below, rest)
    BY <1>8 DEF Joined
  <2> QED
    BY <1>3, <1>4, <2>1, <2>2
<1>14. Len(v.out) = k + 1
  BY <1>1, <1>3, <1>8 DEF Going
<1>15. ToSet(t) \subseteq ToSet(v.out) \cup ToSet(v.todo)
  BY <1>9, <1>12, <1>13 DEF Going
<1>16. \A m \in ToSet(v.out) : ToSet(m.children) \subseteq ToSet(v.out) \cup ToSet(v.todo)
  BY <1>9, <1>12, <1>13 DEF Going, below
<1> QED
  BY <1>11, <1>14, <1>15, <1>16 DEF Going

(* A tree's rows are those of its first nodes one after another.            *)
LEMMA Visited ==
  ASSUME NEW B, Forest(B), NEW r, RowsOf(r, B), NEW R, RowIn(B, R), NEW t \in Seq(B)
  PROVE  /\ flattenTree(t) = Over(r, t) /\ Nodes(t) \in Seq(B)
         /\ ToSet(t) \subseteq ToSet(Nodes(t))
         /\ \A n \in ToSet(Nodes(t)) : ToSet(n.children) \subseteq ToSet(Nodes(t))
<1> DEFINE w == Walked(t)
           all == Over(r, t)
           T == {k \in Nat : Going(r, t, w[k], k)}
<1>1. Knit(B)
  BY DEF Knit, Forest
<1>2. w \in [Nat -> Walk(B)] /\ Walking(w, t)
  BY <1>1, WalkIs
<1>3. Gives(r, B, R)
  BY RowsType
<1>4. all \in Seq(R)
  BY <1>3, OverType
<1> HIDE DEF w
<1>5. 0 \in T
  <2>1. w[0].out = << >> /\ w[0].todo = t
    BY <1>2 DEF Walking
  <2>2. RowSeq(<< >>) = << >> /\ << >> \o all = all /\ Len(<< >>) = 0
    <3> HIDE DEF all
    <3> QED
      BY <1>4 DEF RowSeq
  <2>3. Going(r, t, w[0], 0)
    BY <2>1, <2>2, NoElements DEF Going
  <2> QED
    BY <2>3
<1>6. ASSUME NEW k \in Nat, k \in T PROVE k + 1 \in T
  <2> DEFINE u == w[k]
             v == [out |-> Append(u.out, Head(u.todo)), todo |-> Head(u.todo).children \o Tail(u.todo)]
  <2>1. u \in Walk(B) /\ Going(r, t, u, k) /\ k + 1 \in Nat
    BY <1>2, <1>6
  <2>2. w[k + 1] = IF u.todo = << >> THEN u ELSE v
    BY <1>2 DEF Walking
  <2> HIDE DEF u
  <2>3. CASE u.todo = << >>
    BY <2>1, <2>2, <2>3 DEF Going
  <2>4. CASE u.todo # << >>
    <3>1. Going(r, t, v, k + 1)
      <4> HIDE DEF v
      <4>1. v = [out |-> Append(u.out, Head(u.todo)), todo |-> Head(u.todo).children \o Tail(u.todo)]
        BY DEF v
      <4> QED
        BY <2>1, <2>4, <4>1, GoneOn
    <3> QED
      BY <2>1, <2>2, <2>4, <3>1
  <2> QED
    BY <2>3, <2>4
<1> HIDE DEF T
<1>7. \A k \in Nat : Going(r, t, w[k], k)
  <2>1. \A k \in Nat : k \in T
    BY <1>5, <1>6, SetInduction
  <2> QED
    BY <2>1 DEF T
<1>8. ASSUME NEW k \in Nat PROVE /\ w[k].out \in Seq(B) /\ w[k].todo \in Seq(B)
                                /\ RowSeq(w[k].out) \in Seq(R) /\ Len(RowSeq(w[k].out)) = Len(w[k].out)
                                /\ Over(r, w[k].todo) \in Seq(R)
                                /\ RowSeq(w[k].out) \o Over(r, w[k].todo) = all
  <2>1. w[k].out \in Seq(B) /\ w[k].todo \in Seq(B)
    BY <1>2 DEF Walk
  <2> QED
    BY <1>3, <1>7, <2>1, RowSeqIs, OverType DEF Going
<1> DEFINE K == Len(all) + 1
<1>9. K \in Nat
  BY <1>4
<1>10. w[K].todo = << >>
  <2> DEFINE a == RowSeq(w[K].out)
             b == Over(r, w[K].todo)
  <2>1. a \in Seq(R) /\ b \in Seq(R) /\ a \o b = all /\ Len(a) = Len(w[K].out)
    BY <1>8, <1>9
  <2>2. w[K].todo # << >> => Len(w[K].out) = K
    BY <1>7, <1>9 DEF Going
  <2> HIDE DEF a, b, all
  <2>3. Len(all) = Len(a) + Len(b) /\ Len(a) \in Nat /\ Len(b) \in Nat
    BY <2>1
  <2>4. Len(a) # K
    BY <2>3
  <2> QED
    BY <2>1, <2>2, <2>4
<1>11. PICK k \in Nat : w[k].todo = << >> /\ Nodes(t) = w[k].out
  BY <1>1, <1>9, <1>10, NodesEnd DEF w
<1>12. RowSeq(w[k].out) = all
  <2> DEFINE a == RowSeq(w[k].out)
  <2>1. a \in Seq(R) /\ a \o << >> = all
    BY <1>8, <1>11, OverNone
  <2> HIDE DEF a, all
  <2>2. a \o << >> = a
    BY <2>1
  <2> QED
    BY <2>1, <2>2 DEF a
<1>13. flattenTree(t) = RowSeq(Nodes(t))
  BY DEF flattenTree, RowSeq
<1>14. Nodes(t) \in Seq(B)
  BY <1>8, <1>11
<1>15. /\ ToSet(t) \subseteq ToSet(Nodes(t))
       /\ \A n \in ToSet(Nodes(t)) : ToSet(n.children) \subseteq ToSet(Nodes(t))
  BY <1>7, <1>11, NoElements DEF Going
<1> QED
  BY <1>11, <1>12, <1>13, <1>14, <1>15

LEMMA OverElements ==
  ASSUME NEW B, NEW R, NEW f, Gives(f, B, R), NEW s \in Seq(B)
  PROVE  \A x \in ToSet(Over(f, s)) : \E i \in DOMAIN s : x \in ToSet(f[s[i]])
<1> DEFINE T == {u \in Seq(B) : \A x \in ToSet(Over(f, u)) : \E i \in DOMAIN u : x \in ToSet(f[u[i]])}
<1>1. << >> \in T
  BY OverNone, NoElements
<1>2. ASSUME NEW u \in Seq(B), NEW y \in B, u \in T PROVE Append(u, y) \in T
  <2> DEFINE v == Append(u, y)
             a == Over(f, u)
             b == f[y]
  <2>1. v \in Seq(B) /\ DOMAIN v = 1..(Len(u) + 1) /\ DOMAIN u = 1..Len(u) /\ Len(u) \in Nat
        /\ v[Len(u) + 1] = y /\ \A i \in 1..Len(u) : v[i] = u[i]
    OBVIOUS
  <2>2. Over(f, v) = Joined(a, b)
    BY OverAppend DEF Joined
  <2>3. a \in Seq(R) /\ b \in Seq(R)
    BY OverType DEF Gives
  <2> HIDE DEF a, b, v
  <2>4. ToSet(Over(f, v)) = ToSet(a) \cup ToSet(b)
    BY <2>2, <2>3, ConcatSet
  <2>5. ASSUME NEW x \in ToSet(Over(f, v)) PROVE \E i \in DOMAIN v : x \in ToSet(f[v[i]])
    <3>1. CASE x \in ToSet(a)
      <4>1. PICK i \in DOMAIN u : x \in ToSet(f[u[i]])
        BY <1>2, <3>1 DEF a
      <4>2. i \in DOMAIN v /\ v[i] = u[i]
        BY <2>1
      <4> QED
        BY <4>1, <4>2
    <3>2. CASE x \in ToSet(b)
      <4>1. Len(u) + 1 \in DOMAIN v /\ v[Len(u) + 1] = y
        BY <2>1
      <4> QED
        BY <3>2, <4>1 DEF b
    <3> QED
      BY <2>4, <2>5, <3>1, <3>2
  <2> QED
    BY <2>1, <2>5 DEF v
<1> HIDE DEF T
<1>3. s \in T
  BY <1>1, <1>2, SeqInduction
<1> QED
  BY <1>3 DEF T

(* A file has nothing below it.                                             *)
Leafy(B) == \A n \in B : ~n.row.isDir => n.children = << >>
NodeLike(B) == \A n \in B : n = [row |-> n.row, children |-> n.children]

LEMMA TreeForest ==
  ASSUME NEW F, Table(F), Closed(F)
  PROVE  LET B == NodesOver(F, F) IN Forest(B) /\ RowIn(B, F) /\ Leafy(B) /\ NodeLike(B)
<1> DEFINE B == NodesOver(F, F)
<1>1. Downward(F, F)
  BY DEF Downward
<1>2. \A n \in B : \E x \in F : n = nodeFor(F)[x] /\ n.row = x
  <2>1. \A x \in F : nodeFor(F)[x].row = x
    BY NodeIs
  <2>2. \A n \in B : \E x \in F : n = nodeFor(F)[x]
    BY DEF NodesOver
  <2> HIDE DEF B
  <2> QED
    BY <2>1, <2>2
<1>3. ASSUME NEW x \in F PROVE /\ nodeFor(F)[x].children \in Seq(B)
                              /\ ToSet(nodeFor(F)[x].children) = NodesOver(F, Kids(F, x))
  BY <1>1, ChildrenAre
<1>4. \A x \in F : x.path \in Path
  BY DEF Table
<1>5. ASSUME NEW x \in F, NEW c \in NodesOver(F, Kids(F, x)) PROVE Front(c.row.path) = x.path
  <2>1. PICK y \in Kids(F, x) : c = nodeFor(F)[y]
    BY DEF NodesOver
  <2>2. y \in F /\ Front(y.path) = x.path
    BY DEF Kids
  <2>3. c.row = y
    BY <2>1, <2>2, NodeIs
  <2> QED
    BY <2>2, <2>3
<1>6. \A n \in B : /\ n.children \in Seq(B) /\ n.row.path \in Path
                   /\ \A c \in ToSet(n.children) : Front(c.row.path) = n.row.path
  <2> SUFFICES ASSUME NEW n \in B
               PROVE  /\ n.children \in Seq(B) /\ n.row.path \in Path
                      /\ \A c \in ToSet(n.children) : Front(c.row.path) = n.row.path
    OBVIOUS
  <2>1. PICK x \in F : n = nodeFor(F)[x] /\ n.row = x
    BY <1>2
  <2> HIDE DEF B
  <2> QED
    BY <1>3, <1>4, <1>5, <2>1
<1>7. \E d \in Nat : \A n \in B : Len(n.row.path) <= d
  <2>1. PICK d \in Nat : \A x \in F : Len(x.path) <= d
    BY <1>4, DepthOf DEF Table
  <2> HIDE DEF B
  <2> QED
    BY <1>2, <2>1
<1>8. Forest(B)
  BY <1>6, <1>7 DEF Forest
<1>9. RowIn(B, F)
  <2> HIDE DEF B
  <2> QED
    BY <1>2 DEF RowIn
<1>10. NodeLike(B)
  <2> SUFFICES ASSUME NEW n \in B PROVE n = [row |-> n.row, children |-> n.children]
    BY DEF NodeLike
  <2>1. PICK x \in F : n = nodeFor(F)[x]
    BY DEF NodesOver
  <2> DEFINE c == [i \in DOMAIN Siblings(F, x.path) |-> nodeFor(F)[Siblings(F, x.path)[i]]]
  <2>2. nodeFor(F)[x] = [row |-> x, children |-> c]
    BY NodeForIs DEF Grown
  <2> HIDE DEF c
  <2> QED
    BY <2>1, <2>2
<1>11. Leafy(B)
  <2> SUFFICES ASSUME NEW n \in B, ~n.row.isDir PROVE n.children = << >>
    BY DEF Leafy
  <2>1. PICK x \in F : n = nodeFor(F)[x] /\ n.row = x
    BY <1>2
  <2>2. Kids(F, x) = {}
    <3> SUFFICES ASSUME NEW y \in F, Front(y.path) = x.path PROVE FALSE
      BY DEF Kids
    <3>1. x.path \in Path /\ y.path \in Path
      BY <1>4
    <3>2. isDescendantOf(y.path, x.path)
      BY <3>1, FrontIs
    <3>3. x.path \in Ancestors(y.path)
      BY <3>1, <3>2, AncestorsAre DEF Path
    <3>4. PICK d \in F : d.path = x.path /\ d.isDir
      BY <3>3 DEF Closed, At
    <3>5. d = x
      BY <3>4 DEF Table, Unique
    <3> QED
      BY <2>1, <3>4, <3>5
  <2>3. NodesOver(F, {}) = {}
    BY DEF NodesOver
  <2>4. ToSet(n.children) = {} /\ n.children \in Seq(B)
    <3> HIDE DEF B
    <3> QED
      BY <1>3, <2>1, <2>2, <2>3
  <2> HIDE DEF B
  <2> QED
    BY <2>4, ElementsOf
<1> QED
  BY <1>8, <1>9, <1>10, <1>11

(* What the sidebar draws when every folder is open: all there is.          *)
LEMMA AllDrawn ==
  ASSUME NEW B, Forest(B), Leafy(B), NEW R, RowIn(B, R), NEW t \in Seq(B),
         NEW expanded, directoryPaths(t) \subseteq expanded
  PROVE  TreeRows(t, expanded) = flattenTree(t)
<1>1. PICK r : RowsOf(r, B)
  BY RowsThere
<1> DEFINE D == ToSet(Nodes(t))
<1>2. /\ flattenTree(t) = Over(r, t) /\ Nodes(t) \in Seq(B) /\ ToSet(t) \subseteq D
      /\ \A n \in D : ToSet(n.children) \subseteq D
  BY <1>1, Visited
<1>3. D \subseteq B
  BY <1>2, ElementsOf
<1>4. \A n \in D : \A i \in DOMAIN n.children : n.children[i] \in D
  <2>1. \A n \in D : \A i \in DOMAIN n.children : n.children[i] \in ToSet(n.children)
    BY DEF ToSet
  <2> QED
    BY <1>2, <2>1
<1>5. ASSUME NEW n \in D, n.row.isDir PROVE n.row.path \in expanded
  <2>1. PICK i \in DOMAIN Nodes(t) : n = Nodes(t)[i]
    BY DEF ToSet
  <2>2. n.row \in ToSet(flattenTree(t))
    BY <2>1 DEF flattenTree, ToSet
  <2>3. n.row.path \in directoryPaths(t)
    BY <1>5, <2>2 DEF directoryPaths
  <2> QED
    BY <2>3
<1> HIDE DEF D
<1> DEFINE Unfolds(n) == n.row.isDir /\ n.row.path \in expanded
           Lines(f, n) == <<n.row>> \o (IF Unfolds(n) THEN Over(f, n.children) ELSE << >>)
           Is(f) == f = [n \in D |-> Lines(f, n)]
           drawn == CHOOSE f : Is(f)
           g == [n \in D |-> r[n]]
<1>6. \A n \in D : r[n] = <<n.row>> \o Over(r, n.children)
  BY <1>1, <1>3 DEF RowsOf
<1>7. \A f, n : n \in D => Lines(f, n) = <<n.row>> \o Over(f, n.children)
  <2> SUFFICES ASSUME NEW f, NEW n \in D, ~Unfolds(n) PROVE Over(f, n.children) = << >>
    OBVIOUS
  <2>1. n.children = << >>
    BY <1>3, <1>5 DEF Leafy
  <2> QED
    BY <2>1, OverNone
<1> HIDE DEF Lines
<1>8. Is(g)
  <2>1. ASSUME NEW n \in D PROVE g[n] = Lines(g, n)
    <3>1. \A i \in DOMAIN n.children : g[n.children[i]] = r[n.children[i]]
      BY <1>4
    <3>2. g[n] = r[n]
      OBVIOUS
    <3> HIDE DEF g
    <3>3. Over(g, n.children) = Over(r, n.children)
      BY <3>1, OverSame
    <3>4. Lines(g, n) = <<n.row>> \o Over(g, n.children)
      BY <1>7
    <3> QED
      BY <1>6, <3>2, <3>3, <3>4
  <2>2. g = [n \in D |-> g[n]]
    OBVIOUS
  <2> HIDE DEF g
  <2>3. [n \in D |-> g[n]] = [n \in D |-> Lines(g, n)]
    BY <2>1
  <2> QED
    BY <2>2, <2>3
<1> HIDE DEF g
<1>9. Is(drawn)
  <2> HIDE DEF Is
  <2> QED
    BY <1>8, Zenon
<1>10. TreeRows(t, expanded) = Over(drawn, t)
  BY DEF TreeRows, Over, D, Lines
<1> HIDE DEF drawn
<1>11. \A n \in D : drawn[n] = <<n.row>> \o Over(drawn, n.children)
  <2>1. \A n \in D : drawn[n] = Lines(drawn, n)
    BY <1>9
  <2> QED
    BY <1>7, <2>1
<1>12. \A n \in D : drawn[n] = r[n]
  <2> DEFINE T == {n \in B : n \in D => drawn[n] = r[n]}
  <2>1. ASSUME NEW n \in B, \A i \in DOMAIN n.children : n.children[i] \in T PROVE n \in T
    <3> SUFFICES ASSUME n \in D PROVE drawn[n] = r[n]
      OBVIOUS
    <3>1. \A i \in DOMAIN n.children : drawn[n.children[i]] = r[n.children[i]]
      BY <1>4, <2>1
    <3>2. Over(drawn, n.children) = Over(r, n.children)
      BY <3>1, OverSame
    <3> QED
      BY <1>6, <1>11, <3>2
  <2> HIDE DEF T
  <2>2. \A n \in B : n \in T
    BY <2>1, ForestInduction
  <2> QED
    BY <1>3, <2>2 DEF T
<1>13. \A i \in DOMAIN t : t[i] \in D
  <2>1. \A i \in DOMAIN t : t[i] \in ToSet(t)
    BY DEF ToSet
  <2> QED
    BY <1>2, <2>1
<1>14. Over(drawn, t) = Over(r, t)
  BY <1>12, <1>13, OverSame
<1> QED
  BY <1>2, <1>10, <1>14

-----------------------------------------------------------------------------
(* What the filter makes of each node, and all the nodes there are then.    *)
Sieve(q) == [filter |-> TRUE, query |-> q]
SievedBy(w, B, q) == w = [n \in B |-> Made(Sieve(q), n, [i \in DOMAIN n.children |-> w[n.children[i]]])]
Replant(n, c) == [n EXCEPT !.children = c]
Matching(x, q) == matchPath(Last(x.path), q) # NoMatch
All(B, w) == B \cup UNION {ToSet(w[n]) : n \in B}

LEMMA SieveIs ==
  ASSUME NEW B, NEW w, NEW q, SievedBy(w, B, q), NEW n \in B, NEW c, c = Over(w, n.children)
  PROVE  w[n] = IF Matching(n.row, q) THEN <<n>>
                ELSE IF n.row.isDir /\ c # << >> THEN <<Replant(n, c)>>
                ELSE << >>
<1>1. w[n] = Made(Sieve(q), n, [i \in DOMAIN n.children |-> w[n.children[i]]])
  BY DEF SievedBy
<1>2. c = FlattenSeq([i \in DOMAIN n.children |-> w[n.children[i]]])
  BY DEF Over
<1> DEFINE below == [i \in DOMAIN n.children |-> w[n.children[i]]]
<1> HIDE DEF below
<1>3. Made(Sieve(q), n, below) = IF Matching(n.row, q) THEN <<n>>
        ELSE IF n.row.isDir /\ FlattenSeq(below) # << >> THEN <<Replant(n, FlattenSeq(below))>>
        ELSE << >>
  BY DEF Made, Sieve, Matching, Replant
<1> QED
  BY <1>1, <1>2, <1>3 DEF below

(* A directory with other children.                                         *)
LEMMA Replanted ==
  ASSUME NEW B, NodeLike(B), NEW n \in B, NEW c
  PROVE  Replant(n, c).row = n.row /\ Replant(n, c).children = c
<1> DEFINE x == n.row
           d == n.children
<1>1. n = [row |-> x, children |-> d]
  BY DEF NodeLike
<1> HIDE DEF x, d
<1>2. Replant(n, c) = [row |-> x, children |-> c]
  BY <1>1 DEF Replant
<1>3. n.row = x
  BY <1>1
<1> QED
  BY <1>2, <1>3

LEMMA SievedOne ==
  ASSUME NEW B, NodeLike(B), NEW w, NEW q, SievedBy(w, B, q), NEW n \in B
  PROVE  /\ w[n] \in Seq(All(B, w))
         /\ \A m \in ToSet(w[n]) : /\ m \in All(B, w) /\ m.row = n.row
                                   /\ m = n \/ (n.row.isDir /\ m.children = Over(w, n.children))
<1> DEFINE c == Over(w, n.children)
           p == Replant(n, c)
           A == All(B, w)
<1>1. w[n] = IF Matching(n.row, q) THEN <<n>> ELSE IF n.row.isDir /\ c # << >> THEN <<p>> ELSE << >>
  BY SieveIs
<1>2. p.row = n.row /\ p.children = c
  BY Replanted
<1>3. ToSet(w[n]) \subseteq A
  BY DEF All
<1> HIDE DEF p, A, c
<1>4. CASE w[n] = <<n>>
  <2>1. ToSet(<<n>>) = {n} /\ n \in B
    BY OneOf
  <2>2. n \in A
    BY <1>3, <1>4, <2>1
  <2>3. <<n>> \in Seq(A)
    BY <2>2
  <2> QED
    BY <1>4, <2>1, <2>2, <2>3 DEF A
<1>5. CASE w[n] = <<p>> /\ n.row.isDir
  <2>1. ToSet(<<p>>) = {p}
    BY OneOf
  <2>2. p \in A
    BY <1>3, <1>5, <2>1
  <2>3. <<p>> \in Seq(A)
    BY <2>2
  <2> QED
    BY <1>2, <1>5, <2>1, <2>2, <2>3 DEF A, c
<1>6. CASE w[n] = << >>
  <2>1. << >> \in Seq(A)
    OBVIOUS
  <2> QED
    BY <1>6, <2>1, NoElements DEF A
<1> QED
  BY <1>1, <1>4, <1>5, <1>6

LEMMA SievedForest ==
  ASSUME NEW B, Forest(B), NodeLike(B), Leafy(B), NEW F, RowIn(B, F), NEW w, NEW q, SievedBy(w, B, q)
  PROVE  LET A == All(B, w) IN
         /\ Gives(w, B, A) /\ Forest(A) /\ Leafy(A) /\ RowIn(A, F)
<1> DEFINE A == All(B, w)
<1>1. \A n \in B : /\ w[n] \in Seq(A)
                   /\ \A m \in ToSet(w[n]) : /\ m \in A /\ m.row = n.row
                                             /\ m = n \/ (n.row.isDir /\ m.children = Over(w, n.children))
  BY SievedOne
<1>2. B \subseteq A /\ \A m \in A : m \in B \/ \E n \in B : m \in ToSet(w[n])
  BY DEF All
<1> HIDE DEF A
<1>3. Gives(w, B, A)
  BY <1>1 DEF Gives
<1>4. \A m \in A : \E n \in B : m.row = n.row /\ (m = n \/ (n.row.isDir /\ m.children = Over(w, n.children)))
  BY <1>1, <1>2
<1>5. RowIn(A, F)
  BY <1>4 DEF RowIn
<1>6. Leafy(A)
  BY <1>4 DEF Leafy
<1>7. \E d \in Nat : \A m \in A : Len(m.row.path) <= d
  BY <1>4 DEF Forest
<1>8. ASSUME NEW m \in A
      PROVE  /\ m.children \in Seq(A) /\ m.row.path \in Path
             /\ \A c \in ToSet(m.children) : Front(c.row.path) = m.row.path
  <2>1. PICK n \in B : m.row = n.row /\ (m = n \/ (n.row.isDir /\ m.children = Over(w, n.children)))
    BY <1>4
  <2>2. /\ n.children \in Seq(B) /\ n.row.path \in Path
        /\ \A c \in ToSet(n.children) : Front(c.row.path) = n.row.path
    BY DEF Forest
  <2>3. CASE m = n
    <3>1. n.children \in Seq(A)
      BY <1>2, <2>2
    <3> QED
      BY <2>2, <2>3, <3>1
  <2>4. CASE m.children = Over(w, n.children)
    <3>1. m.children \in Seq(A)
      BY <1>3, <2>2, <2>4, OverType
    <3>2. ASSUME NEW c \in ToSet(m.children) PROVE Front(c.row.path) = m.row.path
      <4>1. \A x \in ToSet(Over(w, n.children)) : \E i \in DOMAIN n.children : x \in ToSet(w[n.children[i]])
        BY <1>3, <2>2, OverElements
      <4>2. PICK i \in DOMAIN n.children : c \in ToSet(w[n.children[i]])
        BY <2>4, <3>2, <4>1
      <4>3. n.children[i] \in B /\ n.children[i] \in ToSet(n.children)
        BY <2>2 DEF ToSet
      <4>4. c.row = n.children[i].row
        BY <1>1, <4>2, <4>3
      <4> QED
        BY <2>1, <2>2, <4>3, <4>4
    <3> QED
      BY <2>1, <2>2, <3>1, <3>2
  <2> QED
    BY <2>1, <2>3, <2>4
<1>9. Forest(A)
  BY <1>7, <1>8 DEF Forest
<1> QED
  BY <1>3, <1>5, <1>6, <1>9 DEF A

LEMMA SieveThere ==
  ASSUME NEW B, Forest(B), NEW q
  PROVE  \E w : SievedBy(w, B, q)
BY MadeOfAll DEF SievedBy

LEMMA SieveOf ==
  ASSUME NEW F, Table(F), Closed(F), NEW q
  PROVE  \E w : SievedBy(w, NodesOver(F, F), q) /\ Filtered(buildTree(F), q) = Over(w, buildTree(F))
<1> DEFINE B == NodesOver(F, F)
           t == buildTree(F)
           Step(f, n) == LET children == FlattenSeq([i \in DOMAIN n.children |-> f[n.children[i]]]) IN
                         IF matchPath(Last(n.row.path), q) # NoMatch THEN <<n>>
                         ELSE IF n.row.isDir /\ children # << >> THEN <<[n EXCEPT !.children = children]>>
                         ELSE << >>
           Is(f) == f = [n \in ToSet(Nodes(t)) |-> Step(f, n)]
           w == CHOOSE f : Is(f)
<1>1. ToSet(Nodes(t)) = B
  BY TreeHasRows
<1>2. \A f, n : Step(f, n) = Made(Sieve(q), n, [i \in DOMAIN n.children |-> f[n.children[i]]])
  BY DEF Made, Sieve
<1>3. Filtered(t, q) = Over(w, t)
  BY DEF Filtered, Over
<1> HIDE DEF t, B, Step
<1>4. \A f : Is(f) <=> SievedBy(f, B, q)
  <2> SUFFICES ASSUME NEW f PROVE Is(f) <=> SievedBy(f, B, q)
    OBVIOUS
  <2>1. [n \in B |-> Step(f, n)] = [n \in B |-> Made(Sieve(q), n, [i \in DOMAIN n.children |-> f[n.children[i]]])]
    BY <1>2
  <2> QED
    BY <1>1, <2>1 DEF SievedBy
<1>5. Forest(B)
  BY TreeForest DEF B
<1>6. PICK f : SievedBy(f, B, q)
  BY <1>5, SieveThere
<1>7. Is(f)
  BY <1>4, <1>6
<1> HIDE DEF Is
<1>8. Is(w)
  BY <1>7, Zenon
<1>9. SievedBy(w, B, q)
  BY <1>4, <1>8
<1> QED
  BY <1>3, <1>9 DEF B, t

(* The rows whose names match, the rows the filter is to keep, and a row     *)
(* that is in no directory whose name matches.                              *)
Named(F, q) == {o \in F : Matching(o, q)}
Way(F, q) ==
  {x \in F : \E o \in Named(F, q) : o = x \/ isDescendantOf(o.path, x.path) \/ isDescendantOf(x.path, o.path)}
Free(F, q, x) == \A o \in Named(F, q) : ~isDescendantOf(x.path, o.path)

LEMMA Between ==
  ASSUME NEW p \in Path, NEW a \in Path, NEW b \in Path, isDescendantOf(p, a), isDescendantOf(p, b)
  PROVE  a = b \/ isDescendantOf(a, b) \/ isDescendantOf(b, a)
<1>1. p \in Seq(Name) /\ a \in Seq(Name) /\ b \in Seq(Name)
  BY DEF Path
<1>2. /\ Len(a) < Len(p) /\ \A i \in 1..Len(a) : p[i] = a[i]
      /\ Len(b) < Len(p) /\ \A i \in 1..Len(b) : p[i] = b[i]
  BY <1>1, Below
<1>3. Len(a) \in Nat /\ Len(b) \in Nat
  BY <1>1
<1>4. CASE Len(a) = Len(b)
  <2>1. \A i \in 1..Len(a) : a[i] = b[i]
    BY <1>2, <1>4
  <2> QED
    BY <1>1, <1>4, <2>1, SeqEqual
<1>5. CASE Len(a) < Len(b)
  <2>1. \A i \in 1..Len(a) : b[i] = a[i]
    BY <1>2, <1>3, <1>5
  <2> QED
    BY <1>1, <1>5, <2>1, Below
<1>6. CASE Len(b) < Len(a)
  <2>1. \A i \in 1..Len(b) : a[i] = b[i]
    BY <1>2, <1>3, <1>6
  <2> QED
    BY <1>1, <1>6, <2>1, Below
<1> QED
  BY <1>3, <1>4, <1>5, <1>6

LEMMA FreeBelow ==
  ASSUME NEW F, Table(F), NEW q, NEW x \in F, NEW y \in F, Front(y.path) = x.path,
         Free(F, q, x), ~Matching(x, q)
  PROVE  Free(F, q, y)
<1> SUFFICES ASSUME NEW o \in Named(F, q), isDescendantOf(y.path, o.path) PROVE FALSE
  BY DEF Free
<1>1. o \in F /\ Matching(o, q)
  BY DEF Named
<1>2. x.path \in Path /\ y.path \in Path /\ o.path \in Path
  BY <1>1 DEF Table
<1>3. isDescendantOf(y.path, x.path)
  BY <1>2, FrontIs
<1>4. o.path = x.path \/ isDescendantOf(o.path, x.path) \/ isDescendantOf(x.path, o.path)
  BY <1>2, <1>3, Between
<1>5. CASE o.path = x.path
  <2>1. o = x
    BY <1>1, <1>5 DEF Table, Unique
  <2> QED
    BY <1>1, <2>1
<1>6. CASE isDescendantOf(o.path, x.path)
  <2>1. x.path \in Seq(Name) /\ y.path \in Seq(Name) /\ o.path \in Seq(Name)
    BY <1>2 DEF Path
  <2>2. Len(x.path) < Len(o.path) /\ Len(o.path) < Len(y.path)
    BY <1>6, <2>1, Below
  <2>3. Len(x.path) = Len(y.path) - 1
    BY <1>2, FrontIs
  <2>4. Len(x.path) \in Nat /\ Len(y.path) \in Nat /\ Len(o.path) \in Nat
    BY <2>1
  <2> QED
    BY <2>2, <2>3, <2>4
<1>7. CASE isDescendantOf(x.path, o.path)
  BY <1>7 DEF Free
<1> QED
  BY <1>4, <1>5, <1>6, <1>7

LEMMA WayBelow ==
  ASSUME NEW F, Table(F), NEW q, NEW x \in F, Free(F, q, x), ~Matching(x, q)
  PROVE  /\ \A y \in Beneath(F, x) : y \in Way(F, q) => x \in Way(F, q)
         /\ x \in Way(F, q) => \E y \in Beneath(F, x) : y # x /\ y \in Way(F, q)
<1>1. \A y \in F : y.path \in Path /\ y.path \in Seq(Name)
  BY DEF Table, Path
<1>2. ASSUME NEW y \in Beneath(F, x), y \in Way(F, q) PROVE x \in Way(F, q)
  <2>1. PICK o \in Named(F, q) : o = y \/ isDescendantOf(o.path, y.path) \/ isDescendantOf(y.path, o.path)
    BY <1>2 DEF Way
  <2>2. o \in F /\ Matching(o, q)
    BY DEF Named
  <2> SUFFICES ASSUME y # x PROVE isDescendantOf(o.path, x.path)
    BY <1>2, <2>1 DEF Way
  <2>3. y \in F /\ isDescendantOf(y.path, x.path)
    BY <1>2 DEF Beneath
  <2>4. CASE o = y
    BY <2>3, <2>4
  <2>5. CASE isDescendantOf(o.path, y.path)
    BY <1>1, <2>2, <2>3, <2>5, BelowBelow
  <2>6. CASE isDescendantOf(y.path, o.path)
    <3>1. o.path = x.path \/ isDescendantOf(o.path, x.path) \/ isDescendantOf(x.path, o.path)
      BY <1>1, <2>2, <2>3, <2>6, Between
    <3>2. o.path # x.path
      BY <2>2 DEF Table, Unique
    <3>3. ~isDescendantOf(x.path, o.path)
      BY DEF Free
    <3> QED
      BY <3>1, <3>2, <3>3
  <2> QED
    BY <2>1, <2>4, <2>5, <2>6
<1>3. ASSUME x \in Way(F, q) PROVE \E y \in Beneath(F, x) : y # x /\ y \in Way(F, q)
  <2>1. PICK o \in Named(F, q) : o = x \/ isDescendantOf(o.path, x.path) \/ isDescendantOf(x.path, o.path)
    BY <1>3 DEF Way
  <2>2. o \in F /\ Matching(o, q)
    BY DEF Named
  <2>3. o # x /\ ~isDescendantOf(x.path, o.path)
    BY <2>2 DEF Free
  <2>4. o \in Beneath(F, x)
    BY <2>1, <2>2, <2>3 DEF Beneath
  <2>5. o \in Way(F, q)
    BY <2>2 DEF Way
  <2> QED
    BY <2>3, <2>4, <2>5
<1> QED
  BY <1>2, <1>3

LEMMA RowsBeneath ==
  ASSUME NEW F, Table(F), Closed(F), NEW A, Forest(A), RowIn(A, F), NEW r, RowsOf(r, A),
         NEW n \in NodesOver(F, F), n \in A
  PROVE  n.row \in F /\ ToSet(r[n]) = Beneath(F, n.row)
<1>1. PICK x \in F : n = nodeFor(F)[x]
  BY DEF NodesOver
<1>2. n.row = x
  BY <1>1, NodeIs
<1>3. ToSet(flattenTree(<<n>>)) = Beneath(F, x)
  BY <1>1, SubtreeRows
<1>4. Gives(r, A, F)
  BY RowsType
<1>5. <<n>> \in Seq(A)
  OBVIOUS
<1>6. flattenTree(<<n>>) = Over(r, <<n>>)
  <2>1. \A t \in Seq(A) : flattenTree(t) = Over(r, t)
    BY Visited
  <2> QED
    BY <1>5, <2>1
<1>7. Over(r, <<n>>) = r[n]
  BY <1>4, OverOne
<1> QED
  BY <1>2, <1>3, <1>6, <1>7

(* What is below a node: of its children's rows, those on the way.          *)
LEMMA SievedBelow ==
  ASSUME NEW B, NEW A, NEW F, NEW K, NEW w, Gives(w, B, A), NEW r, Gives(r, A, F), B \subseteq A,
         NEW s \in Seq(B), \A i \in DOMAIN s : Over(r, w[s[i]]) = Among(r[s[i]], K)
  PROVE  Over(r, Over(w, s)) = Among(Over(r, s), K)
<1> DEFINE h == [x \in B |-> Over(r, w[x])]
           k == [x \in B |-> Among(r[x], K)]
<1>1. \A x \in B : h[x] = Over(r, w[x])
  OBVIOUS
<1>2. \A x \in B : k[x] = Among(r[x], K)
  OBVIOUS
<1>3. \A i \in DOMAIN s : s[i] \in B
  OBVIOUS
<1>4. Gives(r, B, F)
  BY DEF Gives
<1> HIDE DEF h, k
<1>5. Over(r, Over(w, s)) = Over(h, s)
  <2>1. Through(h, r, w, B)
    BY <1>1 DEF Through
  <2> QED
    BY <2>1, OverOver
<1>6. Among(Over(r, s), K) = Over(k, s)
  BY <1>2, <1>4, OverAmong
<1>7. \A i \in DOMAIN s : h[s[i]] = k[s[i]]
  BY <1>1, <1>2, <1>3
<1>8. Over(h, s) = Over(k, s)
  BY <1>7, OverSame
<1> QED
  BY <1>5, <1>6, <1>8

LEMMA SievedElse ==
  ASSUME NEW B, NEW w, NEW q, SievedBy(w, B, q), NEW n \in B, ~Matching(n.row, q)
  PROVE  /\ n.row.isDir /\ Over(w, n.children) # << >> => w[n] = <<Replant(n, Over(w, n.children))>>
         /\ ~(n.row.isDir /\ Over(w, n.children) # << >>) => w[n] = << >>
<1> DEFINE c == Over(w, n.children)
           p == Replant(n, c)
<1>1. w[n] = IF Matching(n.row, q) THEN <<n>> ELSE IF n.row.isDir /\ c # << >> THEN <<p>> ELSE << >>
  BY SieveIs, ZenonT(60)
<1> HIDE DEF c, p
<1>2. /\ n.row.isDir /\ c # << >> => w[n] = <<p>>
      /\ ~(n.row.isDir /\ c # << >>) => w[n] = << >>
  BY <1>1
<1> QED
  BY <1>2 DEF c, p

Onto(x, s) == <<x>> \o s

LEMMA OneAmong ==
  ASSUME NEW F, NEW x \in F, NEW rest \in Seq(F), NEW K
  PROVE  /\ x \in K => Among(Onto(x, rest), K) = Onto(x, Among(rest, K))
         /\ x \notin K => Among(Onto(x, rest), K) = Among(rest, K)
         /\ ToSet(Onto(x, rest)) = {x} \cup ToSet(rest)
<1> DEFINE s == <<x>>
<1>1. s \in Seq(F) /\ ToSet(s) = {x}
  BY OneOf
<1>2. Among(s \o rest, K) = Among(s, K) \o Among(rest, K)
  <2>1. \A u \in Seq(F) : \A v \in Seq(F) : Among(u \o v, K) = Among(u, K) \o Among(v, K)
    BY AmongConcat
  <2> QED
    BY <1>1, <2>1
<1>3. Among(rest, K) \in Seq(F)
  BY AmongIs
<1>4. x \in K => Among(s, K) = s
  BY <1>1, AmongAll
<1>5. x \notin K => Among(s, K) = << >>
  BY <1>1, AmongAll
<1>6. ToSet(s \o rest) = {x} \cup ToSet(rest)
  <2>1. \A u \in Seq(F) : \A v \in Seq(F) : ToSet(Joined(u, v)) = ToSet(u) \cup ToSet(v)
    BY ConcatSet
  <2>2. ToSet(Joined(s, rest)) = {x} \cup ToSet(rest)
    BY <1>1, <2>1
  <2> QED
    BY <2>2 DEF Joined
<1> DEFINE a == Among(rest, K)
<1>7. << >> \o a = a
  BY <1>3
<1> QED
  BY <1>2, <1>4, <1>5, <1>6, <1>7 DEF Onto

(* One node whose children are done: what it leaves in the tree has the     *)
(* rows that were to be kept.                                               *)
LEMMA SievedNode ==
  ASSUME NEW F, Table(F), Closed(F), NEW q, NEW B, B = NodesOver(F, F), Forest(B), Leafy(B), NodeLike(B), RowIn(B, F),
         NEW w, SievedBy(w, B, q), NEW A, A = All(B, w), Gives(w, B, A), Forest(A), RowIn(A, F),
         NEW r, RowsOf(r, A), NEW n \in B, Free(F, q, n.row), ~Matching(n.row, q),
         \A i \in DOMAIN n.children : Over(r, w[n.children[i]]) = Among(r[n.children[i]], Way(F, q))
  PROVE  Over(r, w[n]) = Among(r[n], Way(F, q))
<1> DEFINE x == n.row
           K == Way(F, q)
           c == Over(w, n.children)
           p == Replant(n, c)
           rest == Over(r, n.children)
<1>1. Gives(r, A, F) /\ \A m \in A : r[m] # << >> /\ r[m] = <<m.row>> \o Over(r, m.children)
  BY RowsType
<1>2. B \subseteq A /\ \A m \in ToSet(w[n]) : m \in A
  BY DEF All
<1>3. n.children \in Seq(B) /\ n.children \in Seq(A)
  BY <1>2 DEF Forest
<1>4. c \in Seq(A)
  BY <1>3, OverType
<1>5. rest \in Seq(F)
  BY <1>1, <1>3, OverType
<1>6. x \in F /\ ToSet(r[n]) = Beneath(F, x)
  BY <1>2, RowsBeneath
<1>7. r[n] = Onto(x, rest) /\ r[n] \in Seq(F)
  BY <1>1, <1>2 DEF Gives, Onto
<1>8. Over(r, c) = Among(rest, K)
  BY <1>1, <1>2, <1>3, SievedBelow
<1>9. /\ x.isDir /\ c # << >> => w[n] = <<p>>
      /\ ~(x.isDir /\ c # << >>) => w[n] = << >>
  BY SievedElse
<1>10. p.row = x /\ p.children = c
  BY Replanted
<1>11. ~x.isDir => c = << >>
  <2>1. ~x.isDir => n.children = << >>
    BY DEF Leafy
  <2> QED
    BY <2>1, OverNone
<1>12. \A m \in A : Over(r, <<m>>) = r[m]
  <2> SUFFICES ASSUME NEW m \in A PROVE Over(r, <<m>>) = r[m]
    OBVIOUS
  <2> QED
    BY <1>1, OverOne
<1>13. Over(r, << >>) = << >>
  BY OverNone
<1>14. Over(r, c) = << >> <=> c = << >>
  <2>1. \A m \in A : r[m] # << >>
    BY <1>1
  <2>2. ASSUME NEW u \in Seq(A) PROVE Over(r, u) = << >> <=> u = << >>
    BY <1>1, <2>1, OverEmpty
  <2> HIDE DEF c
  <2> QED
    BY <1>4, <2>2
<1>15. ToSet(Onto(x, rest)) = {x} \cup ToSet(rest)
  BY <1>5, <1>6, OneAmong
<1>16. Among(rest, K) \in Seq(F) /\ ToSet(Among(rest, K)) = ToSet(rest) \cap K
  BY <1>5, AmongIs
<1>17. Among(rest, K) = << >> <=> ToSet(rest) \cap K = {}
  BY <1>16, ElementsOf
<1> HIDE DEF x, c, p, rest
<1>18. /\ \A y \in Beneath(F, x) : y \in K => x \in K
       /\ x \in K => \E y \in Beneath(F, x) : y # x /\ y \in K
  BY <1>6, WayBelow DEF x
<1>19. Beneath(F, x) = {x} \cup ToSet(rest)
  BY <1>6, <1>7, <1>15
<1>20. x \in K <=> c # << >>
  <2> HIDE DEF K
  <2>1. c # << >> <=> ToSet(rest) \cap K # {}
    BY <1>8, <1>14, <1>17
  <2>2. x \in K => ToSet(rest) \cap K # {}
    BY <1>18, <1>19
  <2>3. ASSUME NEW y \in ToSet(rest), y \in K PROVE x \in K
    <3>1. y \in Beneath(F, x)
      BY <1>19
    <3> QED
      BY <1>18, <2>3, <3>1
  <2> QED
    BY <2>1, <2>2, <2>3
<1>21. CASE c # << >>
  <2>1. w[n] = <<p>>
    BY <1>9, <1>11, <1>21
  <2>2. p \in A
    <3>1. p \in ToSet(w[n])
      <4>1. ToSet(<<p>>) = {p}
        BY OneOf
      <4> QED
        BY <2>1, <4>1
    <3> QED
      BY <1>2, <3>1
  <2>3. Over(r, w[n]) = Onto(x, Over(r, c))
    BY <1>1, <1>10, <1>12, <2>1, <2>2 DEF Onto
  <2>4. Among(Onto(x, rest), K) = Onto(x, Among(rest, K))
    BY <1>5, <1>6, <1>20, <1>21, OneAmong
  <2> QED
    BY <1>7, <1>8, <2>3, <2>4
<1>22. CASE c = << >>
  <2>1. w[n] = << >>
    BY <1>9, <1>22
  <2>2. Among(Onto(x, rest), K) = Among(rest, K)
    BY <1>5, <1>6, <1>20, <1>22, OneAmong
  <2>3. Among(rest, K) = << >>
    BY <1>8, <1>14, <1>22
  <2> QED
    BY <1>7, <1>13, <2>1, <2>2, <2>3
<1> QED
  BY <1>21, <1>22

LEMMA SievedNodes ==
  ASSUME NEW F, Table(F), Closed(F), NEW q, NEW B, B = NodesOver(F, F), Forest(B), Leafy(B), NodeLike(B), RowIn(B, F),
         NEW w, SievedBy(w, B, q), NEW A, A = All(B, w), Gives(w, B, A), Forest(A), RowIn(A, F),
         NEW r, RowsOf(r, A)
  PROVE  \A n \in B : Free(F, q, n.row) => Over(r, w[n]) = Among(r[n], Way(F, q))
<1> DEFINE T == {n \in B : Free(F, q, n.row) => Over(r, w[n]) = Among(r[n], Way(F, q))}
<1>1. ASSUME NEW n \in B, \A i \in DOMAIN n.children : n.children[i] \in T PROVE n \in T
  <2> SUFFICES ASSUME Free(F, q, n.row) PROVE Over(r, w[n]) = Among(r[n], Way(F, q))
    OBVIOUS
  <2>1. B \subseteq A
    BY DEF All
  <2>2. CASE Matching(n.row, q)
    <3>1. ToSet(r[n]) = Beneath(F, n.row) /\ n.row \in F
      BY <2>1, RowsBeneath
    <3>2. Gives(r, A, F)
      BY RowsType
    <3>3. n.row \in Named(F, q)
      BY <2>2, <3>1 DEF Named
    <3>4. Beneath(F, n.row) \subseteq Way(F, q)
      BY <3>3 DEF Beneath, Way
    <3>5. r[n] \in Seq(F)
      BY <2>1, <3>2 DEF Gives
    <3>6. Among(r[n], Way(F, q)) = r[n]
      BY <3>1, <3>4, <3>5, AmongAll
    <3> DEFINE c == Over(w, n.children)
    <3>7. w[n] = IF Matching(n.row, q) THEN <<n>>
                 ELSE IF n.row.isDir /\ c # << >> THEN <<Replant(n, c)>> ELSE << >>
      BY SieveIs
    <3> HIDE DEF c
    <3>8. w[n] = <<n>>
      BY <2>2, <3>7
    <3>9. Over(r, <<n>>) = r[n]
      BY <2>1, <3>2, OverOne
    <3> QED
      BY <3>6, <3>8, <3>9
  <2>3. CASE ~Matching(n.row, q)
    <3>1. ASSUME NEW i \in DOMAIN n.children
          PROVE  Over(r, w[n.children[i]]) = Among(r[n.children[i]], Way(F, q))
      <4> DEFINE d == n.children[i]
      <4>1. d \in B /\ d \in ToSet(n.children)
        BY OneDeeper
      <4>2. n.row \in F /\ d.row \in F
        BY <4>1 DEF RowIn
      <4>3. Front(d.row.path) = n.row.path
        BY <4>1 DEF Forest
      <4>4. Free(F, q, d.row)
        BY <2>3, <4>2, <4>3, FreeBelow
      <4>5. d \in T
        BY <1>1
      <4> QED
        BY <4>4, <4>5
    <3> QED
      BY <2>3, <3>1, SievedNode
  <2> QED
    BY <2>2, <2>3
<1> HIDE DEF T
<1>2. \A n \in B : n \in T
  BY <1>1, ForestInduction
<1> QED
  BY <1>2 DEF T

(* A root is in no directory.                                               *)
LEMMA RootsFree ==
  ASSUME NEW F, Table(F), Closed(F), NEW q, NEW n \in NodesOver(F, Roots(F))
  PROVE  n.row \in F /\ Free(F, q, n.row)
<1>1. PICK x \in Roots(F) : n = nodeFor(F)[x]
  BY DEF NodesOver
<1>2. x \in F /\ n.row = x
  BY <1>1, NodeIs DEF Roots
<1>3. ASSUME NEW o \in Named(F, q), isDescendantOf(x.path, o.path) PROVE FALSE
  <2>1. x.path \in Path /\ o.path \in Path
    BY <1>2 DEF Named, Table
  <2>2. x.path \in Seq(Name) /\ o.path \in Seq(Name) /\ Len(o.path) >= 1
    BY <2>1, FrontIs DEF Path
  <2>3. Len(o.path) < Len(x.path)
    BY <1>3, <2>2, Below
  <2>4. Len(x.path) # 1
    <3>1. Len(o.path) \in Nat /\ Len(x.path) \in Nat
      BY <2>2
    <3> QED
      BY <2>2, <2>3, <3>1
  <2>5. Front(x.path) \in Path /\ isDescendantOf(x.path, Front(x.path))
    BY <2>1, <2>4, FrontIs
  <2>6. Front(x.path) \in Ancestors(x.path)
    BY <2>2, <2>5, AncestorsAre
  <2>7. At(F, Front(x.path)) # {}
    BY <1>2, <2>6 DEF Closed
  <2> QED
    BY <2>4, <2>7 DEF Roots
<1> QED
  BY <1>2, <1>3 DEF Free

(* The rows of what the filter leaves of a tree: those on the way, in the    *)
(* order they have in it; and with every folder open the sidebar draws all.  *)
LEMMA SievedTree ==
  ASSUME NEW F, Table(F), Closed(F), NEW q, NEW t, t = buildTree(F), NEW u, u = Filtered(t, q)
  PROVE  /\ ToSet(flattenTree(t)) = F
         /\ flattenTree(u) = Among(flattenTree(t), Way(F, q))
         /\ TreeRows(u, directoryPaths(u)) = flattenTree(u)
<1> DEFINE B == NodesOver(F, F)
           K == Way(F, q)
<1>1. ToSet(flattenTree(t)) = F
  BY TreeHasRows
<1>2. Forest(B) /\ RowIn(B, F) /\ Leafy(B) /\ NodeLike(B)
  BY TreeForest
<1>3. t \in Seq(B) /\ ToSet(t) = NodesOver(F, Roots(F))
  BY RootsAre
<1>4. PICK w : SievedBy(w, B, q) /\ u = Over(w, t)
  BY SieveOf
<1>5. PICK A : A = All(B, w)
  OBVIOUS
<1>6. \A n \in ToSet(t) : n \in B /\ Free(F, q, n.row)
  <2>1. ToSet(t) \subseteq B
    BY <1>3, ElementsOf
  <2> QED
    BY <1>3, <2>1, RootsFree
<1>7. B = NodesOver(F, F)
  OBVIOUS
<1> HIDE DEF B
<1>8. Gives(w, B, A) /\ Forest(A) /\ Leafy(A) /\ RowIn(A, F)
  BY <1>2, <1>4, <1>5, SievedForest
<1>9. PICK r : RowsOf(r, A)
  BY <1>8, RowsThere
<1>10. Gives(r, A, F)
  BY <1>8, <1>9, RowsType
<1>11. \A n \in B : Free(F, q, n.row) => Over(r, w[n]) = Among(r[n], K)
  BY <1>2, <1>4, <1>5, <1>7, <1>8, <1>9, SievedNodes
<1>12. B \subseteq A
  BY <1>5 DEF All
<1>13. \A i \in DOMAIN t : Over(r, w[t[i]]) = Among(r[t[i]], K)
  <2>1. \A i \in DOMAIN t : t[i] \in ToSet(t)
    BY DEF ToSet
  <2> QED
    BY <1>6, <1>11, <2>1
<1>14. t \in Seq(A) /\ u \in Seq(A)
  BY <1>3, <1>4, <1>8, <1>12, OverType
<1>15. flattenTree(t) = Over(r, t) /\ flattenTree(u) = Over(r, u)
  <2>1. \A s \in Seq(A) : flattenTree(s) = Over(r, s)
    BY <1>8, <1>9, Visited
  <2> QED
    BY <1>14, <2>1
<1>16. Over(r, Over(w, t)) = Among(Over(r, t), K)
  BY <1>3, <1>8, <1>10, <1>12, <1>13, SievedBelow
<1>17. TreeRows(u, directoryPaths(u)) = flattenTree(u)
  BY <1>8, <1>14, AllDrawn
<1> QED
  BY <1>1, <1>4, <1>15, <1>16, <1>17

LEMMA NothingTree == Table({}) /\ Closed({}) /\ buildTree({}) = << >>
<1>1. Table({}) /\ Closed({})
  BY FS_EmptySet DEF Table, Unique, Closed
<1>2. buildTree({}) \in Seq(NodesOver({}, {})) /\ ToSet(buildTree({})) = NodesOver({}, Roots({})) /\ Roots({}) = {}
  BY <1>1, RootsAre
<1>3. NodesOver({}, {}) = {}
  BY DEF NodesOver
<1>4. ToSet(buildTree({})) = {}
  BY <1>2, <1>3
<1> QED
  BY <1>1, <1>2, <1>4, ElementsOf

LEMMA WayIsKept ==
  ASSUME NEW F, Table(F), Closed(F), tree = buildTree(F)
  PROVE  FilterKeepsTheWay
<1> DEFINE nodes == flattenTree(tree)
           q == trim(query)
           named == {n \in ToSet(nodes) : matchPath(Last(n.path), q) # NoMatch}
           kept == {n \in ToSet(nodes) :
                      \E o \in named :
                        o = n \/ isDescendantOf(o.path, n.path) \/ isDescendantOf(n.path, o.path)}
           filtered == filterTree(tree, query)
           opened == effectiveExpanded(tree, query, {})
<1>1. CASE q = << >>
  <2>1. filtered = tree
    BY <1>1 DEF filterTree
  <2> QED
    BY <1>1, <2>1 DEF FilterKeepsTheWay
<1>2. CASE q # << >>
  <2>1. filtered = Filtered(tree, q) /\ opened = {} \cup directoryPaths(filtered)
    BY <1>2 DEF filterTree, effectiveExpanded
  <2>2. opened = directoryPaths(filtered)
    BY <2>1
  <2>3. ToSet(nodes) = F
    BY TreeHasRows
  <2>4. named = Named(F, q)
    BY <2>3 DEF Named, Matching
  <2>5. kept = Way(F, q)
    BY <2>3, <2>4 DEF Way
  <2> HIDE DEF filtered, q
  <2>6. /\ flattenTree(filtered) = Among(nodes, Way(F, q))
        /\ TreeRows(filtered, directoryPaths(filtered)) = flattenTree(filtered)
    BY <2>1, SievedTree
  <2> HIDE DEF opened, kept, nodes
  <2>7. flattenTree(filtered) = Among(nodes, kept) /\ TreeRows(filtered, opened) = flattenTree(filtered)
    BY <2>2, <2>5, <2>6
  <2>8. flattenTree(filtered) = IF q = << >> THEN nodes ELSE Among(nodes, kept)
    BY <1>2, <2>7
  <2> QED
    BY <2>7, <2>8 DEF FilterKeepsTheWay, filtered, q, opened, kept, nodes
<1> QED
  BY <1>1, <1>2

LEMMA TreesAreFiltered ==
  ASSUME SearchInv, ListInv
  PROVE  FilterKeepsTheWay
<1>1. Drawable(tree)
  BY DEF ListInv, TreeOf
<1>2. CASE tree = << >>
  BY <1>2, NothingTree, WayIsKept
<1>3. CASE \E F : Table(F) /\ Closed(F) /\ tree = buildTree(F)
  BY <1>3, WayIsKept
<1> QED
  BY <1>1, <1>2, <1>3 DEF Drawable

(* Whatever is typed, the sidebar's filter keeps the nodes whose name       *)
(* matches, what is in them and the directories on the way to them, and no  *)
(* other, in the order the tree has; with the folders it opens every row it *)
(* keeps is drawn (filterTree in features/search/match.ts, FileTree.tsx).   *)
THEOREM TheFilterKeepsTheWay == Spec => []FilterKeepsTheWay
<1>1. SearchInv /\ ListInv => FilterKeepsTheWay
  BY TreesAreFiltered
<1> QED
  BY <1>1, ListInvariance, PTL

(* What the palette and the sidebar show is genuine in every state: the      *)
(* names listed are those whose path has the query in it, the filter keeps   *)
(* the way to what matches, a line listed shows the query where it says, and *)
(* drawing a match loses no character (features/search/match.ts,            *)
(* SearchPalette.tsx, Highlight.tsx).                                       *)
THEOREM WhatIsShownIsGenuine == Spec => []HitsAreGenuine
<1>1. PathsMatch /\ FilterKeepsTheWay /\ SnippetsShowTheQuery /\ DrawnWhole => HitsAreGenuine
  BY DEF HitsAreGenuine, NamesMatch
<1> QED
  BY <1>1, PathsAreListed, TheFilterKeepsTheWay, SnippetsAreOfTheQuery, NothingIsLostInDrawing, PTL
=============================================================================
