------------------------------ MODULE TreeProofs ------------------------------
(***************************************************************************)
(* Lemmas about the trees and the filtered sequences the browser works     *)
(* with.  Induction is over sets: a predicate of naturals, or of finite    *)
(* sets, is the set of those that have it.                                 *)
(***************************************************************************)
EXTENDS Trees, Subsequences, SequenceTheorems, FiniteSetTheorems, TLAPS

(* Paths: what lies below what.                                             *)
LEMMA Below ==
  ASSUME NEW p \in Seq(Name), NEW d \in Seq(Name)
  PROVE  isDescendantOf(p, d) <=> Len(d) < Len(p) /\ \A i \in 1..Len(d) : p[i] = d[i]
<1>1. Len(d) \in Nat /\ Len(p) \in Nat
  OBVIOUS
<1>2. SubSeq(d, 1, Len(d)) = d
  BY SubSeqFull
<1>3. ASSUME Len(d) <= Len(p)
      PROVE  SubSeq(p, 1, Len(d)) = d <=> \A i \in 1..Len(d) : p[i] = d[i]
  <2>1. /\ SubSeq(p, 1, Len(d)) \in Seq(Name) /\ Len(SubSeq(p, 1, Len(d))) = Len(d)
        /\ \A i \in 1..Len(d) : SubSeq(p, 1, Len(d))[i] = p[i]
    BY <1>1, <1>3
  <2> QED
    BY <2>1, SeqEqual
<1>4. CASE Len(d) < Len(p)
  BY <1>1, <1>2, <1>3, <1>4 DEF isDescendantOf, IsStrictPrefix, IsPrefix
<1>5. CASE Len(d) = Len(p)
  <2>1. ASSUME SubSeq(p, 1, Len(d)) = d PROVE p = d
    BY <1>5, <2>1, SubSeqFull
  <2> QED
    BY <1>1, <1>2, <1>5, <2>1 DEF isDescendantOf, IsStrictPrefix, IsPrefix
<1> QED
  BY <1>1, <1>4, <1>5 DEF isDescendantOf, IsStrictPrefix, IsPrefix

LEMMA AncestorsAre ==
  ASSUME NEW p \in Seq(Name), NEW a
  PROVE  a \in Ancestors(p) <=> a \in Path /\ isDescendantOf(p, a)
<1>1. ASSUME NEW k \in 1..(Len(p) - 1)
      PROVE  SubSeq(p, 1, k) \in Path /\ isDescendantOf(p, SubSeq(p, 1, k))
  <2> DEFINE b == SubSeq(p, 1, k)
  <2>1. b \in Seq(Name) /\ Len(b) = k /\ \A i \in 1..k : b[i] = p[i]
    <3>1. 1 \in Int /\ k \in Int /\ 1 <= k /\ \A i \in 1..k : p[i] \in Name
      OBVIOUS
    <3>2. SubSeq(p, 1, k) \in Seq(Name)
      BY <3>1
    <3>3. Len(SubSeq(p, 1, k)) = k
      BY <3>1
    <3>4. \A i \in 1..k : SubSeq(p, 1, k)[i] = p[i]
      BY <3>1
    <3> QED
      BY <3>2, <3>3, <3>4
  <2> HIDE DEF b
  <2>2. b # << >>
    BY <2>1
  <2>3. Len(b) < Len(p) /\ \A i \in 1..Len(b) : p[i] = b[i]
    BY <2>1
  <2>4. isDescendantOf(p, b)
    BY <2>1, <2>3, Below
  <2> QED
    BY <2>1, <2>2, <2>4 DEF Path, b
<1>2. ASSUME a \in Path, isDescendantOf(p, a)
      PROVE  a = SubSeq(p, 1, Len(a)) /\ Len(a) \in 1..(Len(p) - 1)
  <2>1. a \in Seq(Name) /\ Len(a) < Len(p) /\ \A i \in 1..Len(a) : p[i] = a[i]
    BY <1>2, Below DEF Path
  <2>2. Len(a) \in Nat /\ Len(a) # 0 /\ Len(p) \in Nat
    BY <1>2, <2>1 DEF Path
  <2>3. /\ SubSeq(p, 1, Len(a)) \in Seq(Name) /\ Len(SubSeq(p, 1, Len(a))) = Len(a)
        /\ \A i \in 1..Len(a) : SubSeq(p, 1, Len(a))[i] = p[i]
    BY <2>1, <2>2
  <2> QED
    BY <2>1, <2>2, <2>3, SeqEqual
<1> QED
  BY <1>1, <1>2 DEF Ancestors

LEMMA BelowBelow ==
  ASSUME NEW p \in Seq(Name), NEW d \in Seq(Name), NEW e \in Seq(Name),
         isDescendantOf(p, d), isDescendantOf(d, e)
  PROVE  isDescendantOf(p, e) /\ p # e
<1>1. Len(d) < Len(p) /\ Len(e) < Len(d) /\ Len(e) \in Nat /\ Len(d) \in Nat /\ Len(p) \in Nat
  BY Below
<1>2. \A i \in 1..Len(e) : p[i] = e[i]
  <2> TAKE i \in 1..Len(e)
  <2>1. i \in 1..Len(d)
    BY <1>1
  <2>2. p[i] = d[i] /\ d[i] = e[i]
    BY <2>1, Below
  <2> QED
    BY <2>2
<1> QED
  BY <1>1, <1>2, Below

LEMMA Replaced ==
  ASSUME NEW p \in Seq(Name), NEW from \in Seq(Name), NEW to \in Path, isDescendantOf(p, from)
  PROVE  LET r == replacePathPrefix(p, from, to) IN
         /\ r \in Path /\ Len(r) = Len(to) + Len(p) - Len(from)
         /\ \A i \in 1..Len(to) : r[i] = to[i]
         /\ \A i \in 1..(Len(p) - Len(from)) : r[Len(to) + i] = p[Len(from) + i]
         /\ isDescendantOf(r, to)
<1> DEFINE t == SubSeq(p, Len(from) + 1, Len(p))
           r == to \o t
<1>1. Len(from) < Len(p) /\ Len(from) \in Nat /\ Len(p) \in Nat /\ to \in Seq(Name) /\ Len(to) \in Nat
  BY Below DEF Path
<1>2. /\ t \in Seq(Name) /\ Len(t) = Len(p) - Len(from)
      /\ \A i \in 1..(Len(p) - Len(from)) : t[i] = p[Len(from) + i]
  BY <1>1
<1> HIDE DEF t
<1>3. /\ r \in Seq(Name) /\ Len(r) = Len(to) + Len(t)
      /\ \A i \in 1..Len(to) : r[i] = to[i]
      /\ \A i \in 1..Len(t) : r[Len(to) + i] = t[i]
  <2>0. r \in Seq(Name)
    BY <1>1, <1>2
  <2>1. Len(r) = Len(to) + Len(t)
    <3>1. to \in Seq(Name) /\ t \in Seq(Name)
      BY <1>1, <1>2
    <3> QED
      BY <3>1, ConcatProperties
  <2>2. \A i \in 1..Len(to) : r[i] = to[i]
    BY <1>1, <1>2
  <2>3. \A i \in 1..Len(t) : r[Len(to) + i] = t[i]
    BY <1>1, <1>2
  <2> QED
    BY <2>0, <2>1, <2>2, <2>3
<1>4. Len(to) < Len(r) /\ r # << >>
  BY <1>1, <1>2, <1>3
<1>5. isDescendantOf(r, to)
  BY <1>1, <1>3, <1>4, Below
<1>6. r = replacePathPrefix(p, from, to)
  BY DEF replacePathPrefix, t, r
<1> QED
  <2>1. r \in Path /\ Len(r) = Len(to) + Len(p) - Len(from)
    BY <1>1, <1>2, <1>3, <1>4 DEF Path
  <2>2. \A i \in 1..(Len(p) - Len(from)) : r[Len(to) + i] = p[Len(from) + i]
    BY <1>1, <1>2, <1>3
  <2> HIDE DEF r
  <2> QED
    BY <1>3, <1>5, <1>6, <2>1, <2>2

LEMMA ReplacedPath ==
  ASSUME NEW p \in Seq(Name), NEW from \in Seq(Name), NEW to \in Path, isDescendantOf(p, from)
  PROVE  /\ replacePathPrefix(p, from, to) \in Path
         /\ isDescendantOf(replacePathPrefix(p, from, to), to)
         /\ Len(replacePathPrefix(p, from, to)) = Len(to) + Len(p) - Len(from)
BY Replaced

(* What lies above a replaced path, and what a replacement keeps.           *)
LEMMA AboveReplaced ==
  ASSUME NEW p \in Seq(Name), NEW from \in Seq(Name), NEW to \in Path, isDescendantOf(p, from),
         NEW a \in Ancestors(replacePathPrefix(p, from, to))
  PROVE  \/ a \in Ancestors(to) \/ a = to
         \/ \E b \in Ancestors(p) : isDescendantOf(b, from) /\ a = replacePathPrefix(b, from, to)
<1> DEFINE r == replacePathPrefix(p, from, to)
<1>1. /\ r \in Path /\ Len(r) = Len(to) + Len(p) - Len(from)
      /\ \A i \in 1..Len(to) : r[i] = to[i]
      /\ \A i \in 1..(Len(p) - Len(from)) : r[Len(to) + i] = p[Len(from) + i]
  BY Replaced
<1>2. /\ Len(from) < Len(p) /\ Len(from) \in Nat /\ Len(p) \in Nat /\ Len(to) \in Nat
      /\ \A i \in 1..Len(from) : p[i] = from[i]
      /\ to \in Seq(Name) /\ r \in Seq(Name)
  <2>1. to \in Seq(Name) /\ r \in Seq(Name) /\ Len(to) \in Nat
    BY <1>1 DEF Path
  <2> HIDE DEF r
  <2>2. Len(from) < Len(p) /\ \A i \in 1..Len(from) : p[i] = from[i]
    BY Below
  <2> QED
    BY <2>1, <2>2
<1> HIDE DEF r
<1>3. a \in Path /\ isDescendantOf(r, a)
  BY <1>2, AncestorsAre DEF r
<1>4. /\ a \in Seq(Name) /\ Len(a) \in Nat /\ Len(a) > 0 /\ Len(a) < Len(r)
      /\ \A i \in 1..Len(a) : r[i] = a[i]
  BY <1>2, <1>3, Below DEF Path
<1>5. CASE Len(a) < Len(to)
  <2>1. ASSUME NEW i \in 1..Len(a) PROVE to[i] = a[i]
    <3>1. i \in 1..Len(to)
      BY <1>2, <1>4, <1>5
    <3>2. r[i] = to[i] /\ r[i] = a[i]
      BY <1>1, <1>4, <3>1
    <3> QED
      BY <3>2
  <2>2. isDescendantOf(to, a)
    BY <1>2, <1>4, <1>5, <2>1, Below
  <2> QED
    BY <1>2, <1>3, <2>2, AncestorsAre
<1>6. CASE Len(a) = Len(to)
  <2>1. \A i \in 1..Len(a) : to[i] = a[i]
    BY <1>1, <1>2, <1>4, <1>6
  <2> QED
    BY <1>2, <1>4, <1>6, <2>1, SeqEqual
<1>7. CASE Len(a) > Len(to)
  <2> DEFINE k == Len(from) + Len(a) - Len(to)
             b == SubSeq(p, 1, k)
  <2>1. k \in 1..(Len(p) - 1) /\ k > Len(from) /\ k \in Nat
    BY <1>1, <1>2, <1>4, <1>7
  <2>2. b \in Ancestors(p)
    BY <2>1 DEF Ancestors
  <2>3. b \in Seq(Name) /\ isDescendantOf(p, b)
    BY <2>2, AncestorsAre DEF Path
  <2>4. Len(b) = k
    BY <1>2, <2>1
  <2> HIDE DEF b
  <2>5. \A i \in 1..k : b[i] = p[i]
    BY <2>3, <2>4, Below
  <2>6. isDescendantOf(b, from)
    <3>1. Len(from) < Len(b) /\ \A i \in 1..Len(from) : b[i] = from[i]
      BY <1>2, <2>1, <2>4, <2>5
    <3> QED
      BY <2>3, <3>1, Below
  <2> DEFINE c == replacePathPrefix(b, from, to)
  <2>7. /\ c \in Path /\ Len(c) = Len(to) + Len(b) - Len(from)
        /\ \A i \in 1..Len(to) : c[i] = to[i]
        /\ \A i \in 1..(Len(b) - Len(from)) : c[Len(to) + i] = b[Len(from) + i]
    BY <2>3, <2>6, Replaced
  <2> HIDE DEF c, k
  <2>8. Len(c) = Len(a) /\ c \in Seq(Name)
    BY <1>2, <1>4, <2>4, <2>7 DEF k, Path
  <2>9. ASSUME NEW i \in 1..Len(a)
        PROVE  a[i] = c[i]
    <3>1. CASE i <= Len(to)
      <4>1. i \in 1..Len(to) /\ i \in 1..Len(a)
        BY <1>2, <3>1
      <4> QED
        BY <1>1, <1>4, <2>7, <4>1
    <3>2. CASE i > Len(to)
      <4> DEFINE j == i - Len(to)
      <4>1. /\ j \in 1..(Len(p) - Len(from)) /\ j \in 1..(Len(b) - Len(from)) /\ i = Len(to) + j
            /\ Len(from) + j \in 1..k
        BY <1>1, <1>2, <1>4, <2>4, <3>2 DEF k
      <4> HIDE DEF j
      <4>2. a[i] = r[i] /\ r[Len(to) + j] = p[Len(from) + j]
        BY <1>1, <1>4, <4>1
      <4>3. c[Len(to) + j] = b[Len(from) + j] /\ b[Len(from) + j] = p[Len(from) + j]
        BY <2>5, <2>7, <4>1
      <4> QED
        BY <4>1, <4>2, <4>3
    <3> QED
      BY <1>2, <1>4, <3>1, <3>2
  <2>10. a = c
    BY <1>4, <2>8, <2>9, SeqEqual
  <2> QED
    BY <2>2, <2>6, <2>10 DEF c
<1> QED
  BY <1>2, <1>4, <1>5, <1>6, <1>7

LEMMA StaysBelow ==
  ASSUME NEW p \in Seq(Name), NEW d \in Seq(Name), NEW from \in Seq(Name), NEW to \in Path,
         isDescendantOf(p, d), isDescendantOf(d, from)
  PROVE  LET r == replacePathPrefix(p, from, to)
             e == replacePathPrefix(d, from, to) IN
         isDescendantOf(r, e) /\ Len(r) - Len(e) = Len(p) - Len(d)
<1> DEFINE r == replacePathPrefix(p, from, to)
           e == replacePathPrefix(d, from, to)
<1>1. isDescendantOf(p, from)
  BY BelowBelow
<1>2. /\ r \in Path /\ Len(r) = Len(to) + Len(p) - Len(from)
      /\ \A i \in 1..Len(to) : r[i] = to[i]
      /\ \A i \in 1..(Len(p) - Len(from)) : r[Len(to) + i] = p[Len(from) + i]
  BY <1>1, Replaced
<1>3. /\ e \in Path /\ Len(e) = Len(to) + Len(d) - Len(from)
      /\ \A i \in 1..Len(to) : e[i] = to[i]
      /\ \A i \in 1..(Len(d) - Len(from)) : e[Len(to) + i] = d[Len(from) + i]
  BY Replaced
<1>4. /\ Len(from) < Len(d) /\ Len(d) < Len(p) /\ \A i \in 1..Len(d) : p[i] = d[i]
      /\ Len(from) \in Nat /\ Len(d) \in Nat /\ Len(p) \in Nat /\ Len(to) \in Nat
  BY Below DEF Path
<1> HIDE DEF r, e
<1>5. ASSUME NEW i \in 1..Len(e)
      PROVE  r[i] = e[i]
  <2>1. CASE i <= Len(to)
    BY <1>2, <1>3, <1>4, <2>1
  <2>2. CASE i > Len(to)
    <3> DEFINE j == i - Len(to)
    <3>1. /\ j \in 1..(Len(p) - Len(from)) /\ j \in 1..(Len(d) - Len(from)) /\ i = Len(to) + j
          /\ Len(from) + j \in 1..Len(d)
      BY <1>3, <1>4, <2>2
    <3> HIDE DEF j
    <3>2. r[i] = p[Len(from) + j] /\ e[i] = d[Len(from) + j]
      BY <1>2, <1>3, <3>1
    <3> QED
      BY <1>4, <3>1, <3>2
  <2> QED
    BY <1>3, <1>4, <2>1, <2>2
<1>6. Len(e) < Len(r) /\ Len(r) - Len(e) = Len(p) - Len(d)
  BY <1>2, <1>3, <1>4
<1>7. isDescendantOf(r, e)
  BY <1>2, <1>3, <1>5, <1>6, Below DEF Path
<1> QED
  BY <1>6, <1>7 DEF r, e
-----------------------------------------------------------------------------
(* The naturals are well founded.                                           *)
LEMMA Least ==
  ASSUME NEW T, T \subseteq Nat, T # {}
  PROVE  \E x \in T : \A y \in T : x <= y
<1> DEFINE R == OpToRel(<, Nat)
<1>1. IsWellFoundedOn(R, Nat)
  BY NatLessThanWellFounded, Zenon
<1>2. R = {ss \in Nat \X Nat : ss[1] < ss[2]}
  BY DEF OpToRel
<1> HIDE DEF R
<1>3. \E x \in T : \A y \in T : <<y, x>> \notin R
  BY <1>1, WFMin
<1>4. ASSUME NEW x \in T, NEW y \in T, <<y, x>> \notin R PROVE x <= y
  BY <1>2, <1>4
<1> QED
  BY <1>3, <1>4

LEMMA SetInduction ==
  ASSUME NEW T, 0 \in T, \A n \in Nat : n \in T => n + 1 \in T
  PROVE  \A n \in Nat : n \in T
<1> SUFFICES ASSUME Nat \ T # {} PROVE FALSE
  OBVIOUS
<1>1. PICK x \in Nat \ T : \A y \in Nat \ T : x <= y
  BY Least
<1>2. x - 1 \in Nat
  BY <1>1
<1>3. x - 1 \in T
  BY <1>1, <1>2
<1>4. (x - 1) + 1 \in T
  BY <1>2, <1>3
<1> QED
  BY <1>1, <1>4

LEMMA FiniteInduction ==
  ASSUME NEW S, IsFiniteSet(S), NEW T, {} \in T,
         \A U \in SUBSET S : \A x \in S \ U : U \in T => U \cup {x} \in T
  PROVE  S \in T
<1> DEFINE N == {n \in Nat : \A U \in SUBSET S : Cardinality(U) = n => U \in T}
<1>1. 0 \in N
  <2> SUFFICES ASSUME NEW U \in SUBSET S, Cardinality(U) = 0 PROVE U \in T
    OBVIOUS
  <2>1. IsFiniteSet(U)
    BY FS_Subset
  <2> QED
    BY <2>1, FS_EmptySet
<1>2. ASSUME NEW n \in Nat, n \in N PROVE n + 1 \in N
  <2> SUFFICES ASSUME NEW U \in SUBSET S, Cardinality(U) = n + 1 PROVE U \in T
    OBVIOUS
  <2>1. IsFiniteSet(U)
    BY FS_Subset
  <2>2. PICK x \in U : TRUE
    BY FS_EmptySet
  <2>3. Cardinality(U \ {x}) = n
    <3>1. Cardinality(U \ {x}) = Cardinality(U) - 1
      BY <2>1, <2>2, FS_RemoveElement, Zenon
    <3> QED
      BY <3>1
  <2>4. U \ {x} \in T
    BY <1>2, <2>3
  <2>5. (U \ {x}) \cup {x} = U
    BY <2>2
  <2> QED
    BY <2>2, <2>4, <2>5
<1> HIDE DEF N
<1>3. \A n \in Nat : n \in N
  BY <1>1, <1>2, SetInduction
<1>4. Cardinality(S) \in Nat
  BY FS_CardinalityType
<1> QED
  BY <1>3, <1>4 DEF N

(* A function defined by its value at 0 and a step exists.                  *)
Steps(V) == [Nat \X V -> V]
Recurs(f, V, base, step) ==
  f \in [Nat -> V] /\ f[0] = base /\ \A n \in Nat : f[n + 1] = step[<<n, f[n]>>]

LEMMA Recursion ==
  ASSUME NEW V, NEW base \in V, NEW step \in Steps(V)
  PROVE  \E f : Recurs(f, V, base, step)
<1> USE DEF Steps, Recurs
<1> DEFINE UpTo(g, n) == /\ g \in [0..n -> V] /\ g[0] = base
                         /\ \A i \in 0..n : i < n => g[i + 1] = step[<<i, g[i]>>]
           T == {n \in Nat : \E g : UpTo(g, n)}
           U == {i \in Nat : \A n, m \in Nat : \A g, h : i <= n /\ i <= m /\ UpTo(g, n) /\ UpTo(h, m)
                                                  => g[i] = h[i]}
<1>1. 0 \in T
  <2>1. UpTo([i \in 0..0 |-> base], 0)
    OBVIOUS
  <2> QED
    BY <2>1
<1>2. ASSUME NEW n \in Nat, n \in T PROVE n + 1 \in T
  <2>1. PICK g : UpTo(g, n)
    BY <1>2
  <2> DEFINE h == [i \in 0..(n + 1) |-> IF i <= n THEN g[i] ELSE step[<<n, g[n]>>]]
  <2>2. h \in [0..(n + 1) -> V]
    BY <2>1
  <2>3. ASSUME NEW i \in 0..(n + 1), i < n + 1 PROVE h[i + 1] = step[<<i, h[i]>>]
    BY <2>1, <2>3
  <2>4. h[0] = base
    BY <2>1
  <2>5. UpTo(h, n + 1)
    BY <2>2, <2>3, <2>4
  <2>6. n + 1 \in Nat
    OBVIOUS
  <2> HIDE DEF UpTo, h
  <2> QED
    BY <2>5, <2>6
<1>3. 0 \in U
  OBVIOUS
<1>4. ASSUME NEW i \in Nat, i \in U PROVE i + 1 \in U
  <2> SUFFICES ASSUME NEW n \in Nat, NEW m \in Nat, NEW g, NEW h, i + 1 <= n, i + 1 <= m,
                      UpTo(g, n), UpTo(h, m)
               PROVE  g[i + 1] = h[i + 1]
    OBVIOUS
  <2>1. g[i] = h[i]
    <3>1. i <= n /\ i <= m
      OBVIOUS
    <3> HIDE DEF UpTo
    <3> QED
      BY <1>4, <3>1
  <2>2. i \in 0..n /\ i < n /\ i \in 0..m /\ i < m
    OBVIOUS
  <2>3. g[i + 1] = step[<<i, g[i]>>] /\ h[i + 1] = step[<<i, h[i]>>]
    BY <2>2
  <2> QED
    BY <2>1, <2>3
<1> HIDE DEF T, U
<1>5. (\A n \in Nat : n \in T) /\ (\A i \in Nat : i \in U)
  BY <1>1, <1>2, <1>3, <1>4, SetInduction
<1> DEFINE G(n) == CHOOSE g : UpTo(g, n)
           f == [n \in Nat |-> G(n)[n]]
<1>6. ASSUME NEW n \in Nat PROVE UpTo(G(n), n)
  BY <1>5, Zenon DEF T
<1>7. f \in [Nat -> V]
  <2> SUFFICES ASSUME NEW n \in Nat PROVE G(n)[n] \in V
    OBVIOUS
  <2> HIDE DEF G
  <2> QED
    BY <1>6
<1>8. f[0] = base
  <2> HIDE DEF G
  <2> QED
    BY <1>6
<1>9. ASSUME NEW n \in Nat PROVE f[n + 1] = step[<<n, f[n]>>]
  <2> HIDE DEF G
  <2>1. G(n + 1)[n + 1] = step[<<n, G(n + 1)[n]>>]
    BY <1>6, n + 1 \in Nat, n \in 0..(n + 1), n < n + 1
  <2>2. n <= n + 1 /\ n <= n /\ n + 1 \in Nat
    OBVIOUS
  <2>3. G(n + 1)[n] = G(n)[n]
    <3>1. UpTo(G(n), n) /\ UpTo(G(n + 1), n + 1)
      BY <1>6, <2>2, Zenon
    <3> HIDE DEF UpTo
    <3> QED
      BY <1>5, <2>2, <3>1, Zenon DEF U
  <2> QED
    BY <2>1, <2>3
<1> QED
  BY <1>7, <1>8, <1>9
-----------------------------------------------------------------------------
(* Sequences, one element at a time.                                        *)
LEMMA SeqInduction ==
  ASSUME NEW R, NEW T, << >> \in T,
         \A s \in Seq(R) : \A x \in R : s \in T => Append(s, x) \in T
  PROVE  \A s \in Seq(R) : s \in T
<1> DEFINE N == {n \in Nat : \A s \in Seq(R) : Len(s) = n => s \in T}
<1>1. 0 \in N
  OBVIOUS
<1>2. ASSUME NEW n \in Nat, n \in N PROVE n + 1 \in N
  <2> SUFFICES ASSUME NEW s \in Seq(R), Len(s) = n + 1 PROVE s \in T
    OBVIOUS
  <2> DEFINE t == SubSeq(s, 1, n)
  <2>1. t \in Seq(R) /\ Len(t) = n /\ s[n + 1] \in R /\ \A i \in 1..n : t[i] = s[i]
    OBVIOUS
  <2> HIDE DEF t
  <2>2. s = Append(t, s[n + 1])
    <3>1. Append(t, s[n + 1]) \in Seq(R) /\ Len(Append(t, s[n + 1])) = n + 1
      BY <2>1
    <3>2. \A i \in 1..(n + 1) : Append(t, s[n + 1])[i] = s[i]
      BY <2>1
    <3> QED
      BY <3>1, <3>2, SeqEqual
  <2>3. t \in T
    BY <1>2, <2>1
  <2> QED
    BY <2>1, <2>2, <2>3
<1> HIDE DEF N
<1>3. \A n \in Nat : n \in N
  BY <1>1, <1>2, SetInduction
<1> QED
  BY <1>3 DEF N

(* What a filter has kept of each prefix.                                   *)
Keeps(f, s, S) ==
  /\ DOMAIN f = 0..Len(s) /\ f[0] = << >>
  /\ \A i \in 0..Len(s) : i < Len(s) =>
       f[i + 1] = IF s[i + 1] \in S THEN Append(f[i], s[i + 1]) ELSE f[i]

LEMMA KeptIs ==
  ASSUME NEW R, NEW s \in Seq(R), NEW S
  PROVE  \E f \in [0..Len(s) -> Seq(R)] : Keeps(f, s, S) /\ Among(s, S) = f[Len(s)]
<1> DEFINE step == [a \in Nat \X Seq(R) |->
                      IF a[1] < Len(s) /\ s[a[1] + 1] \in S THEN Append(a[2], s[a[1] + 1]) ELSE a[2]]
           Is(f) == f = [i \in 0..Len(s) |->
                           IF i = 0 THEN << >>
                           ELSE IF s[i] \in S THEN Append(f[i - 1], s[i]) ELSE f[i - 1]]
<1>1. Len(s) \in Nat /\ \A i \in 1..Len(s) : s[i] \in R
  OBVIOUS
<1>2. step \in [Nat \X Seq(R) -> Seq(R)]
  BY <1>1
<1>3. << >> \in Seq(R)
  OBVIOUS
<1>4. \A i \in Nat, q \in Seq(R) :
        step[<<i, q>>] = IF i < Len(s) /\ s[i + 1] \in S THEN Append(q, s[i + 1]) ELSE q
  OBVIOUS
<1> HIDE DEF step
<1>5. PICK F \in [Nat -> Seq(R)] : F[0] = << >> /\ \A n \in Nat : F[n + 1] = step[<<n, F[n]>>]
  <2>1. << >> \in Seq(R) /\ step \in Steps(Seq(R))
    BY <1>2, <1>3 DEF Steps
  <2>2. \E F : Recurs(F, Seq(R), << >>, step)
    BY <2>1, Recursion
  <2> QED
    BY <2>2 DEF Recurs
<1> DEFINE g == [i \in 0..Len(s) |-> F[i]]
<1>6. Is(g)
  <2> SUFFICES ASSUME NEW i \in 0..Len(s)
               PROVE  g[i] = IF i = 0 THEN << >>
                             ELSE IF s[i] \in S THEN Append(g[i - 1], s[i]) ELSE g[i - 1]
    BY DOMAIN g = 0..Len(s)
  <2>1. CASE i = 0
    BY <1>5, <2>1
  <2>2. CASE i # 0
    <3>1. i - 1 \in Nat /\ i - 1 \in 0..Len(s) /\ (i - 1) + 1 = i /\ i - 1 < Len(s)
      BY <2>2
    <3>2. F[i] = step[<<i - 1, F[i - 1]>>]
      BY <1>5, <3>1
    <3>3. F[i - 1] \in Seq(R) /\ g[i] = F[i] /\ g[i - 1] = F[i - 1]
      BY <3>1
    <3>4. F[i] = IF s[i] \in S THEN Append(F[i - 1], s[i]) ELSE F[i - 1]
      BY <1>4, <3>1, <3>2, <3>3
    <3> QED
      BY <2>2, <3>3, <3>4
  <2> QED
    BY <2>1, <2>2
<1> DEFINE f == CHOOSE f : Is(f)
<1>7. Is(f)
  <2> HIDE DEF Is, g
  <2> QED
    BY <1>6, Zenon
<1>8. Among(s, S) = f[Len(s)]
  BY DEF Among
<1> HIDE DEF f
<1>9. Keeps(f, s, S)
  <2>1. DOMAIN f = 0..Len(s) /\ f[0] = << >>
    BY <1>1, <1>7
  <2>2. ASSUME NEW i \in 0..Len(s), i < Len(s)
        PROVE  f[i + 1] = IF s[i + 1] \in S THEN Append(f[i], s[i + 1]) ELSE f[i]
    <3>1. i + 1 \in 0..Len(s) /\ i + 1 # 0 /\ (i + 1) - 1 = i
      BY <2>2, <1>1
    <3> QED
      BY <1>7, <3>1
  <2> QED
    BY <2>1, <2>2 DEF Keeps
<1>10. f \in [0..Len(s) -> Seq(R)]
  <2> DEFINE T == {i \in Nat : i <= Len(s) => f[i] \in Seq(R)}
  <2>1. 0 \in T
    BY <1>3, <1>9 DEF Keeps
  <2>2. ASSUME NEW i \in Nat, i \in T PROVE i + 1 \in T
    <3> SUFFICES ASSUME i + 1 <= Len(s) PROVE f[i + 1] \in Seq(R)
      OBVIOUS
    <3>1. i \in 0..Len(s) /\ i < Len(s) /\ f[i] \in Seq(R) /\ s[i + 1] \in R
      <4>1. i \in 0..Len(s) /\ i < Len(s) /\ i + 1 \in 1..Len(s)
        <5> DEFINE l == Len(s)
        <5>1. l \in Nat /\ i + 1 <= l
          BY <1>1
        <5> HIDE DEF l
        <5>2. i \in 0..l /\ i < l /\ i + 1 \in 1..l
          BY <5>1
        <5> QED
          BY <5>2 DEF l
      <4>2. f[i] \in Seq(R)
        <5>1. i <= Len(s)
          BY <1>1, <4>1
        <5> QED
          BY <2>2, <5>1
      <4>3. s[i + 1] \in R
        BY <1>1, <4>1
      <4> QED
        BY <4>1, <4>2, <4>3
    <3>2. f[i + 1] = IF s[i + 1] \in S THEN Append(f[i], s[i + 1]) ELSE f[i]
      BY <1>9, <3>1 DEF Keeps
    <3> QED
      BY <3>1, <3>2
  <2> HIDE DEF T
  <2>3. \A i \in Nat : i \in T
    BY <2>1, <2>2, SetInduction
  <2>4. \A i \in 0..Len(s) : f[i] \in Seq(R)
    BY <2>3, <1>1 DEF T
  <2>5. f = [i \in 0..Len(s) |-> f[i]]
    BY <1>7
  <2> QED
    BY <2>4, <2>5
<1> QED
  BY <1>8, <1>9, <1>10

LEMMA AmongNothing ==
  ASSUME NEW S PROVE Among(<< >>, S) = << >>
<1> DEFINE s == << >>
<1>1. s \in Seq({}) /\ Len(s) = 0
  OBVIOUS
<1> HIDE DEF s
<1>2. PICK f \in [0..Len(s) -> Seq({})] : Keeps(f, s, S) /\ Among(s, S) = f[Len(s)]
  BY <1>1, KeptIs
<1>3. Among(s, S) = << >>
  BY <1>1, <1>2 DEF Keeps
<1> QED
  BY <1>3 DEF s

LEMMA AmongAppend ==
  ASSUME NEW R, NEW s \in Seq(R), NEW x \in R, NEW S
  PROVE  /\ Among(s, S) \in Seq(R)
         /\ Among(Append(s, x), S) = IF x \in S THEN Append(Among(s, S), x) ELSE Among(s, S)
<1> DEFINE t == Append(s, x)
<1>1. t \in Seq(R) /\ Len(t) = Len(s) + 1 /\ t[Len(s) + 1] = x /\ \A i \in 1..Len(s) : t[i] = s[i]
  OBVIOUS
<1>2. PICK f \in [0..Len(s) -> Seq(R)] : Keeps(f, s, S) /\ Among(s, S) = f[Len(s)]
  BY KeptIs
<1> HIDE DEF t
<1>3. PICK g \in [0..Len(t) -> Seq(R)] : Keeps(g, t, S) /\ Among(t, S) = g[Len(t)]
  BY <1>1, KeptIs
<1> DEFINE T == {i \in Nat : i <= Len(s) => f[i] = g[i]}
<1>4. 0 \in T
  BY <1>2, <1>3 DEF Keeps
<1>5. ASSUME NEW i \in Nat, i \in T PROVE i + 1 \in T
  <2> SUFFICES ASSUME i + 1 <= Len(s) PROVE f[i + 1] = g[i + 1]
    OBVIOUS
  <2>1. /\ f[i] = g[i] /\ t[i + 1] = s[i + 1]
        /\ i \in 0..Len(s) /\ i < Len(s) /\ i \in 0..Len(t) /\ i < Len(t)
    BY <1>1, <1>5
  <2>2. f[i + 1] = IF s[i + 1] \in S THEN Append(f[i], s[i + 1]) ELSE f[i]
    BY <1>2, <2>1 DEF Keeps
  <2>3. g[i + 1] = IF t[i + 1] \in S THEN Append(g[i], t[i + 1]) ELSE g[i]
    BY <1>3, <2>1 DEF Keeps
  <2> QED
    BY <2>1, <2>2, <2>3
<1> HIDE DEF T
<1>6. \A i \in Nat : i \in T
  BY <1>4, <1>5, SetInduction
<1>7. f[Len(s)] = g[Len(s)]
  BY <1>6 DEF T
<1>8. g[Len(s) + 1] = IF x \in S THEN Append(g[Len(s)], x) ELSE g[Len(s)]
  <2>1. Len(s) \in 0..Len(t) /\ Len(s) < Len(t)
    BY <1>1
  <2>2. t[Len(s) + 1] = x
    BY <1>1
  <2> QED
    BY <1>3, <2>1, <2>2 DEF Keeps
<1>9. Among(t, S) = g[Len(s) + 1] /\ Among(s, S) = g[Len(s)]
  BY <1>1, <1>2, <1>3, <1>7
<1>10. Among(s, S) \in Seq(R)
  <2>1. Len(s) \in 0..Len(s)
    OBVIOUS
  <2> QED
    BY <1>2, <2>1
<1> QED
  BY <1>8, <1>9, <1>10 DEF t

LEMMA AmongStep ==
  ASSUME NEW R, NEW s \in Seq(R), NEW x \in R, NEW S, NEW t, t = Append(s, x)
  PROVE  Among(t, S) = IF x \in S THEN Append(Among(s, S), x) ELSE Among(s, S)
<1>1. Among(Append(s, x), S) = IF x \in S THEN Append(Among(s, S), x) ELSE Among(s, S)
  BY AmongAppend
<1> QED
  BY <1>1

LEMMA Appended ==
  ASSUME NEW R, NEW s \in Seq(R), NEW x \in R, NEW t, t = Append(s, x)
  PROVE  /\ DOMAIN t = 1..(Len(s) + 1) /\ DOMAIN s = 1..Len(s) /\ Len(s) \in Nat
         /\ t[Len(s) + 1] = x /\ \A i \in 1..Len(s) : t[i] = s[i]
  OBVIOUS

LEMMA AppendedSet ==
  ASSUME NEW R, NEW s \in Seq(R), NEW x \in R
  PROVE  ToSet(Append(s, x)) = ToSet(s) \cup {x}
<1> DEFINE t == Append(s, x)
<1>1. /\ DOMAIN t = 1..(Len(s) + 1) /\ DOMAIN s = 1..Len(s) /\ Len(s) \in Nat
      /\ t[Len(s) + 1] = x /\ \A i \in 1..Len(s) : t[i] = s[i]
  BY Appended
<1>2. 1..(Len(s) + 1) = 1..Len(s) \cup {Len(s) + 1}
  BY <1>1
<1> HIDE DEF t
<1>3. ToSet(t) = ToSet(s) \cup {x}
  BY <1>1, <1>2 DEF ToSet
<1> QED
  BY <1>3 DEF t

LEMMA NoElements == ToSet(<< >>) = {}
  BY DEF ToSet

LEMMA ElementsOf ==
  ASSUME NEW R, NEW s \in Seq(R)
  PROVE  ToSet(s) \subseteq R /\ (ToSet(s) = {} <=> s = << >>)
<1>1. DOMAIN s = 1..Len(s) /\ \A i \in 1..Len(s) : s[i] \in R
  OBVIOUS
<1>2. s # << >> => 1 \in DOMAIN s
  OBVIOUS
<1>3. s # << >> => s[1] \in ToSet(s)
  BY <1>2 DEF ToSet
<1>4. ToSet(s) \subseteq R
  BY <1>1 DEF ToSet
<1> QED
  BY <1>3, <1>4, NoElements

(* A filter keeps what it is to keep, and all of that.                       *)
LEMMA AmongIs ==
  ASSUME NEW R, NEW s \in Seq(R), NEW S
  PROVE  Among(s, S) \in Seq(R) /\ ToSet(Among(s, S)) = ToSet(s) \cap S
<1> DEFINE T == {t \in Seq(R) : Among(t, S) \in Seq(R) /\ ToSet(Among(t, S)) = ToSet(t) \cap S}
<1>1. << >> \in T
  <2>1. Among(<< >>, S) = << >> /\ << >> \in Seq(R)
    BY AmongNothing
  <2>2. Among(<< >>, S) \in Seq(R) /\ ToSet(Among(<< >>, S)) = ToSet(<< >>) \cap S
    BY <2>1, NoElements
  <2> QED
    BY <2>1, <2>2
<1>2. ASSUME NEW t \in Seq(R), NEW x \in R, t \in T PROVE Append(t, x) \in T
  <2>1. /\ Among(t, S) \in Seq(R)
        /\ Among(Append(t, x), S) = IF x \in S THEN Append(Among(t, S), x) ELSE Among(t, S)
    BY AmongAppend
  <2>2. ToSet(Append(t, x)) = ToSet(t) \cup {x}
    BY AppendedSet
  <2>3. ToSet(Append(Among(t, S), x)) = ToSet(Among(t, S)) \cup {x}
    BY <2>1, AppendedSet
  <2>4. Append(t, x) \in Seq(R) /\ Append(Among(t, S), x) \in Seq(R)
    BY <2>1
  <2> QED
    BY <1>2, <2>1, <2>2, <2>3, <2>4
<1> HIDE DEF T
<1>3. \A t \in Seq(R) : t \in T
  BY <1>1, <1>2, SeqInduction
<1> QED
  BY <1>3 DEF T

LEMMA AmongAll ==
  ASSUME NEW R, NEW s \in Seq(R), NEW S
  PROVE  /\ ToSet(s) \subseteq S => Among(s, S) = s
         /\ ToSet(s) \cap S = {} => Among(s, S) = << >>
<1> DEFINE T == {t \in Seq(R) : ToSet(t) \subseteq S => Among(t, S) = t}
<1>1. << >> \in T
  BY AmongNothing
<1>2. ASSUME NEW t \in Seq(R), NEW x \in R, t \in T PROVE Append(t, x) \in T
  <2>1. Among(Append(t, x), S) = IF x \in S THEN Append(Among(t, S), x) ELSE Among(t, S)
    BY AmongAppend
  <2>2. ToSet(Append(t, x)) = ToSet(t) \cup {x}
    BY AppendedSet
  <2>3. Append(t, x) \in Seq(R)
    OBVIOUS
  <2> QED
    BY <1>2, <2>1, <2>2, <2>3
<1> HIDE DEF T
<1>3. \A t \in Seq(R) : t \in T
  BY <1>1, <1>2, SeqInduction
<1>4. ToSet(s) \cap S = {} => Among(s, S) = << >>
  BY AmongIs, ElementsOf
<1> QED
  BY <1>3, <1>4 DEF T

LEMMA AmongConcat ==
  ASSUME NEW R, NEW s \in Seq(R), NEW t \in Seq(R), NEW S
  PROVE  Among(s \o t, S) = Among(s, S) \o Among(t, S)
<1> DEFINE T == {u \in Seq(R) : Among(s \o u, S) = Among(s, S) \o Among(u, S)}
<1>0. Among(s, S) \in Seq(R)
  BY AmongIs
<1>1. << >> \in T
  <2>1. << >> \in Seq(R) /\ s \o << >> = s /\ Among(s, S) \o << >> = Among(s, S)
    BY <1>0
  <2> QED
    BY <2>1, AmongNothing
<1>2. ASSUME NEW u \in Seq(R), NEW x \in R, u \in T PROVE Append(u, x) \in T
  <2>1. /\ Among(u, S) \in Seq(R)
        /\ Among(Append(u, x), S) = IF x \in S THEN Append(Among(u, S), x) ELSE Among(u, S)
    BY AmongAppend
  <2>2. s \o u \in Seq(R) /\ s \o Append(u, x) = Append(s \o u, x) /\ Append(u, x) \in Seq(R)
    OBVIOUS
  <2>3. Among(Append(s \o u, x), S) = IF x \in S THEN Append(Among(s \o u, S), x) ELSE Among(s \o u, S)
    BY <2>2, AmongStep
  <2>4. Among(s, S) \o Append(Among(u, S), x) = Append(Among(s, S) \o Among(u, S), x)
    BY <1>0, <2>1
  <2> QED
    BY <1>2, <2>1, <2>2, <2>3, <2>4
<1> HIDE DEF T
<1>3. \A u \in Seq(R) : u \in T
  BY <1>1, <1>2, SeqInduction
<1> QED
  BY <1>3 DEF T

(* What comes once in a sequence comes once in what is kept of it.          *)
Distinct(s) == \A i, j \in DOMAIN s : s[i] = s[j] => i = j

LEMMA DistinctAppend ==
  ASSUME NEW R, NEW s \in Seq(R), NEW x \in R
  PROVE  Distinct(Append(s, x)) <=> Distinct(s) /\ x \notin ToSet(s)
<1> DEFINE t == Append(s, x)
<1>1. /\ DOMAIN t = 1..(Len(s) + 1) /\ DOMAIN s = 1..Len(s) /\ Len(s) \in Nat
      /\ t[Len(s) + 1] = x /\ \A i \in 1..Len(s) : t[i] = s[i]
  BY Appended
<1> HIDE DEF t
<1>2. \A i \in 1..Len(s) : i \in 1..(Len(s) + 1) /\ i # Len(s) + 1
  BY <1>1
<1>3. Len(s) + 1 \in 1..(Len(s) + 1) /\ \A i \in 1..(Len(s) + 1) : i \in 1..Len(s) \/ i = Len(s) + 1
  BY <1>1
<1>4. ASSUME Distinct(t) PROVE Distinct(s) /\ x \notin ToSet(s)
  BY <1>1, <1>2, <1>3, <1>4 DEF Distinct, ToSet
<1>5. ASSUME Distinct(s), x \notin ToSet(s) PROVE Distinct(t)
  BY <1>1, <1>3, <1>5 DEF Distinct, ToSet
<1> QED
  BY <1>4, <1>5 DEF t

LEMMA AmongDistinct ==
  ASSUME NEW R, NEW s \in Seq(R), NEW S, Distinct(s)
  PROVE  Distinct(Among(s, S))
<1> DEFINE T == {t \in Seq(R) : Distinct(t) => Distinct(Among(t, S))}
<1>1. << >> \in T
  <2>1. Distinct(<< >>)
    BY DEF Distinct
  <2> QED
    BY <2>1, AmongNothing
<1>2. ASSUME NEW t \in Seq(R), NEW x \in R, t \in T PROVE Append(t, x) \in T
  <2>1. Among(Append(t, x), S) = IF x \in S THEN Append(Among(t, S), x) ELSE Among(t, S)
    BY AmongAppend
  <2>2. Among(t, S) \in Seq(R) /\ ToSet(Among(t, S)) = ToSet(t) \cap S
    BY AmongIs
  <2>3. Append(t, x) \in Seq(R)
    OBVIOUS
  <2>4. Distinct(Append(t, x)) <=> Distinct(t) /\ x \notin ToSet(t)
    BY DistinctAppend
  <2>5. Distinct(Append(Among(t, S), x)) <=> Distinct(Among(t, S)) /\ x \notin ToSet(Among(t, S))
    BY <2>2, DistinctAppend
  <2> QED
    BY <1>2, <2>1, <2>2, <2>3, <2>4, <2>5
<1> HIDE DEF T
<1>3. \A t \in Seq(R) : t \in T
  BY <1>1, <1>2, SeqInduction
<1> QED
  BY <1>3 DEF T
-----------------------------------------------------------------------------
(* Sequences put together, mapped and cut.                                  *)
Joined(s, t) == s \o t

LEMMA ConcatSet ==
  ASSUME NEW R, NEW s \in Seq(R), NEW t \in Seq(R)
  PROVE  /\ Joined(s, t) \in Seq(R) /\ ToSet(Joined(s, t)) = ToSet(s) \cup ToSet(t)
         /\ Distinct(s) /\ Distinct(t) /\ ToSet(s) \cap ToSet(t) = {} => Distinct(Joined(s, t))
<1> DEFINE u == s \o t
<1>1. /\ u \in Seq(R) /\ Len(s) \in Nat /\ Len(t) \in Nat /\ Len(u) = Len(s) + Len(t)
      /\ DOMAIN s = 1..Len(s) /\ DOMAIN t = 1..Len(t) /\ DOMAIN u = 1..(Len(s) + Len(t))
      /\ \A i \in 1..(Len(s) + Len(t)) : u[i] = IF i <= Len(s) THEN s[i] ELSE t[i - Len(s)]
  OBVIOUS
<1> HIDE DEF u
<1>2. \A i \in 1..(Len(s) + Len(t)) : i \in 1..Len(s) \/ (i > Len(s) /\ i - Len(s) \in 1..Len(t))
  BY <1>1
<1>3. ASSUME NEW i \in 1..Len(t) PROVE u[i + Len(s)] = t[i] /\ i + Len(s) \in DOMAIN u
  BY <1>1
<1>4. \A i \in 1..Len(s) : u[i] = s[i] /\ i \in DOMAIN u
  BY <1>1
<1>5. ToSet(u) = ToSet(s) \cup ToSet(t)
  <2>1. ASSUME NEW i \in DOMAIN u PROVE u[i] \in ToSet(s) \cup ToSet(t)
    <3>1. CASE i \in 1..Len(s)
      BY <1>1, <1>4, <3>1 DEF ToSet
    <3>2. CASE i > Len(s) /\ i - Len(s) \in 1..Len(t)
      <4>1. u[i] = t[i - Len(s)]
        BY <1>1, <3>2
      <4> QED
        BY <1>1, <3>2, <4>1 DEF ToSet
    <3> QED
      BY <1>1, <1>2, <3>1, <3>2
  <2>2. ASSUME NEW i \in 1..Len(s) PROVE s[i] \in ToSet(u)
    BY <1>4 DEF ToSet
  <2>3. ASSUME NEW i \in 1..Len(t) PROVE t[i] \in ToSet(u)
    BY <1>3 DEF ToSet
  <2>4. ToSet(u) = {u[i] : i \in DOMAIN u} /\ ToSet(s) = {s[i] : i \in 1..Len(s)}
          /\ ToSet(t) = {t[i] : i \in 1..Len(t)}
    BY <1>1 DEF ToSet
  <2> HIDE DEF ToSet
  <2> QED
    BY <2>1, <2>2, <2>3, <2>4
<1>6. ASSUME Distinct(s), Distinct(t), ToSet(s) \cap ToSet(t) = {},
             NEW i \in DOMAIN u, NEW j \in DOMAIN u, u[i] = u[j]
      PROVE  i = j
  <2>1. \A k \in 1..Len(s) : s[k] \in ToSet(s)
    BY <1>1 DEF ToSet
  <2>2. \A k \in 1..Len(t) : t[k] \in ToSet(t)
    BY <1>1 DEF ToSet
  <2>3. CASE i <= Len(s) /\ j <= Len(s)
    BY <1>1, <1>6, <2>3 DEF Distinct
  <2>4. CASE i > Len(s) /\ j > Len(s)
    <3>1. t[i - Len(s)] = t[j - Len(s)] /\ i - Len(s) \in 1..Len(t) /\ j - Len(s) \in 1..Len(t)
      BY <1>1, <1>6, <2>4
    <3>2. i - Len(s) = j - Len(s)
      BY <1>1, <1>6, <3>1 DEF Distinct
    <3> QED
      BY <1>1, <3>2
  <2>5. ASSUME NEW k \in 1..Len(s), NEW m \in 1..Len(t) PROVE s[k] # t[m]
    BY <1>6, <2>1, <2>2
  <2>6. CASE i <= Len(s) /\ j > Len(s)
    <3>1. i \in 1..Len(s) /\ j - Len(s) \in 1..Len(t) /\ u[i] = s[i] /\ u[j] = t[j - Len(s)]
      BY <1>1, <1>6, <2>6
    <3> QED
      BY <1>6, <2>5, <3>1
  <2>7. CASE i > Len(s) /\ j <= Len(s)
    <3>1. j \in 1..Len(s) /\ i - Len(s) \in 1..Len(t) /\ u[j] = s[j] /\ u[i] = t[i - Len(s)]
      BY <1>1, <1>6, <2>7
    <3> QED
      BY <1>6, <2>5, <3>1
  <2> QED
    BY <1>1, <2>3, <2>4, <2>6, <2>7
<1> QED
  BY <1>1, <1>5, <1>6 DEF Distinct, Joined, u

LEMMA Parts ==
  ASSUME NEW R, NEW s \in Seq(R), s # << >>
  PROVE  /\ Head(s) \in R /\ Tail(s) \in Seq(R) /\ ToSet(s) = {Head(s)} \cup ToSet(Tail(s))
         /\ Distinct(s) => Distinct(Tail(s)) /\ Head(s) \notin ToSet(Tail(s))
<1> DEFINE t == Tail(s)
<1>1. /\ Head(s) \in R /\ t \in Seq(R) /\ Len(s) \in Nat /\ Len(s) >= 1 /\ Head(s) = s[1]
      /\ DOMAIN s = 1..Len(s) /\ DOMAIN t = 1..(Len(s) - 1) /\ \A i \in 1..(Len(s) - 1) : t[i] = s[i + 1]
  OBVIOUS
<1> HIDE DEF t
<1>2. ToSet(s) = {Head(s)} \cup ToSet(t)
  <2>1. ASSUME NEW i \in 1..Len(s) PROVE s[i] = Head(s) \/ s[i] \in ToSet(t)
    <3>1. CASE i # 1
      <4>1. i - 1 \in 1..(Len(s) - 1) /\ (i - 1) + 1 = i
        BY <1>1, <3>1
      <4>2. t[i - 1] = s[i]
        BY <1>1, <4>1
      <4> QED
        BY <1>1, <4>1, <4>2 DEF ToSet
    <3> QED
      BY <1>1, <3>1
  <2>2. ASSUME NEW i \in 1..(Len(s) - 1) PROVE t[i] \in ToSet(s)
    <3>1. i + 1 \in 1..Len(s)
      BY <1>1
    <3> QED
      BY <1>1, <3>1 DEF ToSet
  <2>3. Head(s) \in ToSet(s)
    BY <1>1, 1 \in 1..Len(s) DEF ToSet
  <2>4. ToSet(s) = {s[i] : i \in 1..Len(s)} /\ ToSet(t) = {t[i] : i \in 1..(Len(s) - 1)}
    BY <1>1 DEF ToSet
  <2> QED
    BY <2>1, <2>2, <2>3, <2>4
<1>3. ASSUME Distinct(s) PROVE Distinct(t) /\ Head(s) \notin ToSet(t)
  <2>1. \A i \in 1..(Len(s) - 1) : i + 1 \in 1..Len(s) /\ i + 1 # 1
    BY <1>1
  <2>2. ASSUME NEW i \in 1..(Len(s) - 1), NEW j \in 1..(Len(s) - 1), t[i] = t[j] PROVE i = j
    <3>1. i + 1 = j + 1
      BY <1>1, <1>3, <2>1, <2>2 DEF Distinct
    <3> QED
      BY <3>1
  <2>3. ASSUME NEW i \in 1..(Len(s) - 1) PROVE t[i] # s[1]
    BY <1>1, <1>3, <2>1 DEF Distinct
  <2> QED
    BY <1>1, <2>2, <2>3 DEF Distinct, ToSet
<1> QED
  BY <1>1, <1>2, <1>3 DEF t

Maps(f, s, t) == t = [i \in DOMAIN s |-> f[s[i]]]

LEMMA MappedSet ==
  ASSUME NEW R, NEW s \in Seq(R), NEW f, NEW t, Maps(f, s, t)
  PROVE  /\ Len(t) = Len(s) /\ DOMAIN t = 1..Len(s) /\ ToSet(t) = {f[x] : x \in ToSet(s)}
         /\ Distinct(s) /\ (\A x, y \in ToSet(s) : f[x] = f[y] => x = y) => Distinct(t)
<1>1. DOMAIN s = 1..Len(s) /\ Len(s) \in Nat /\ t = [i \in 1..Len(s) |-> f[s[i]]]
  BY DEF Maps
<1>2. Len(t) = Len(s) /\ DOMAIN t = 1..Len(s)
  BY <1>1
<1>3. \A i \in 1..Len(s) : t[i] = f[s[i]] /\ s[i] \in ToSet(s)
  BY <1>1 DEF ToSet
<1>4. ToSet(t) = {f[x] : x \in ToSet(s)}
  BY <1>1, <1>2, <1>3 DEF ToSet
<1> QED
  BY <1>1, <1>2, <1>3, <1>4 DEF Distinct

LEMMA MappedSeq ==
  ASSUME NEW R, NEW s \in Seq(R), NEW V, NEW f \in [R -> V], NEW t, Maps(f, s, t)
  PROVE  t \in Seq(V)
<1>1. DOMAIN s = 1..Len(s) /\ Len(s) \in Nat /\ \A i \in 1..Len(s) : s[i] \in R
  OBVIOUS
<1>2. t \in [1..Len(s) -> V]
  BY <1>1 DEF Maps
<1> QED
  BY <1>1, <1>2

LEMMA DistinctLength ==
  ASSUME NEW R, IsFiniteSet(R), NEW s \in Seq(R), Distinct(s)
  PROVE  Len(s) <= Cardinality(R)
<1> DEFINE T == {t \in Seq(R) : Distinct(t) => Cardinality(ToSet(t)) = Len(t)}
<1>1. << >> \in T
  <2>1. Cardinality(ToSet(<< >>)) = 0
    BY NoElements, FS_EmptySet, Zenon
  <2> QED
    BY <2>1
<1>2. ASSUME NEW t \in Seq(R), NEW x \in R, t \in T PROVE Append(t, x) \in T
  <2> SUFFICES ASSUME Distinct(Append(t, x)) PROVE Cardinality(ToSet(Append(t, x))) = Len(Append(t, x))
    OBVIOUS
  <2>1. Distinct(t) /\ x \notin ToSet(t)
    BY DistinctAppend
  <2>2. ToSet(Append(t, x)) = ToSet(t) \cup {x}
    BY AppendedSet
  <2>3. IsFiniteSet(ToSet(t))
    BY ElementsOf, FS_Subset
  <2>4. Cardinality(ToSet(t) \cup {x}) = Cardinality(ToSet(t)) + 1
    BY <2>1, <2>3, FS_AddElement
  <2>5. Len(Append(t, x)) = Len(t) + 1
    OBVIOUS
  <2> QED
    BY <1>2, <2>1, <2>2, <2>4, <2>5
<1> HIDE DEF T
<1>3. \A t \in Seq(R) : t \in T
  BY <1>1, <1>2, SeqInduction
<1>4. Cardinality(ToSet(s)) = Len(s)
  BY <1>3 DEF T
<1>5. Cardinality(ToSet(s)) <= Cardinality(R)
  BY ElementsOf, FS_Subset
<1> QED
  BY <1>4, <1>5

(* A finite set, put into some order.                                       *)
LEMMA Enumerated ==
  ASSUME NEW S, IsFiniteSet(S)
  PROVE  SetToSeq(S) \in Seq(S) /\ ToSet(SetToSeq(S)) = S /\ Distinct(SetToSeq(S))
<1> DEFINE f == SetToSeq(S)
<1>1. Cardinality(S) \in Nat /\ ExistsBijection(1..Cardinality(S), S)
  BY FS_CardinalityType
<1>2. \E g \in [1..Cardinality(S) -> S] : IsInjective(g)
  BY <1>1 DEF ExistsBijection, Bijection, Injection
<1>3. f \in [1..Cardinality(S) -> S] /\ IsInjective(f)
  BY <1>2 DEF SetToSeq
<1> HIDE DEF f
<1>4. f \in Seq(S) /\ DOMAIN f = 1..Cardinality(S)
  BY <1>1, <1>3
<1>5. Distinct(f)
  BY <1>3 DEF IsInjective, Distinct
<1>6. f \in Injection(1..Cardinality(S), S)
  BY <1>3 DEF Injection
<1>7. f \in Surjection(1..Cardinality(S), S)
  <2>1. Cardinality(1..Cardinality(S)) = Cardinality(S)
    BY <1>1, FS_Interval
  <2> QED
    BY <1>6, <2>1, FS_Injection
<1>8. ToSet(f) = S
  BY <1>3, <1>4, <1>7 DEF Surjection, ToSet
<1> QED
  BY <1>4, <1>5, <1>8 DEF f
-----------------------------------------------------------------------------
(* Nodes whose children are among them, each child of one parent only.       *)
Grove(B) ==
  /\ IsFiniteSet(B)
  /\ \A n \in B : n.children \in Seq(B) /\ Distinct(n.children)
  /\ \A m, n \in B : ToSet(m.children) \cap ToSet(n.children) # {} => m = n
Planted(B, start) ==
  start \in Seq(B) /\ Distinct(start) /\ \A n \in B : ToSet(n.children) \cap ToSet(start) = {}

Knit(B) == \A n \in B : n.children \in Seq(B)
Walk(B) == [out : Seq(B), todo : Seq(B)]
Walking(w, tree) ==
  /\ w[0] = [out |-> << >>, todo |-> tree]
  /\ \A k \in Nat :
       w[k + 1] = IF w[k].todo = << >> THEN w[k]
                  ELSE [out |-> Append(w[k].out, Head(w[k].todo)),
                        todo |-> Head(w[k].todo).children \o Tail(w[k].todo)]

LEMMA WalkIs ==
  ASSUME NEW B, Knit(B), NEW tree \in Seq(B)
  PROVE  Walked(tree) \in [Nat -> Walk(B)] /\ Walking(Walked(tree), tree)
<1> DEFINE Next(u) == IF u.todo = << >> THEN u
                      ELSE [out |-> Append(u.out, Head(u.todo)),
                            todo |-> Head(u.todo).children \o Tail(u.todo)]
           base == [out |-> << >>, todo |-> tree]
           step == [a \in Nat \X Walk(B) |-> Next(a[2])]
           Is(w) == w = [k \in Nat |-> IF k = 0 THEN base ELSE Next(w[k - 1])]
<1>1. base \in Walk(B)
  BY DEF Walk
<1>2. ASSUME NEW u \in Walk(B) PROVE Next(u) \in Walk(B)
  <2>1. CASE u.todo # << >>
    <3>1. u.out \in Seq(B) /\ u.todo \in Seq(B)
      BY DEF Walk
    <3>2. Head(u.todo) \in B /\ Tail(u.todo) \in Seq(B)
      BY <2>1, <3>1
    <3>3. Head(u.todo).children \in Seq(B)
      BY <3>2 DEF Knit
    <3>4. Head(u.todo).children \o Tail(u.todo) \in Seq(B) /\ Append(u.out, Head(u.todo)) \in Seq(B)
      BY <3>1, <3>2, <3>3
    <3> QED
      BY <2>1, <3>4 DEF Walk
  <2> QED
    BY <2>1
<1> HIDE DEF Next, base
<1>3. step \in Steps(Walk(B))
  BY <1>2 DEF Steps
<1>4. \A k \in Nat, u \in Walk(B) : step[<<k, u>>] = Next(u)
  OBVIOUS
<1> HIDE DEF step
<1>5. PICK F : Recurs(F, Walk(B), base, step)
  BY <1>1, <1>3, Recursion
<1>6. F \in [Nat -> Walk(B)] /\ F[0] = base /\ \A k \in Nat : F[k + 1] = Next(F[k])
  BY <1>4, <1>5 DEF Recurs
<1>7. Is(F)
  <2> SUFFICES ASSUME NEW k \in Nat PROVE F[k] = IF k = 0 THEN base ELSE Next(F[k - 1])
    BY <1>6
  <2>1. CASE k # 0
    <3>1. k - 1 \in Nat /\ (k - 1) + 1 = k
      BY <2>1
    <3>2. F[(k - 1) + 1] = Next(F[k - 1])
      BY <1>6, <3>1
    <3> QED
      BY <2>1, <3>1, <3>2
  <2> QED
    BY <1>6, <2>1
<1> DEFINE w == CHOOSE w : Is(w)
<1>8. Is(w)
  <2> HIDE DEF Is
  <2> QED
    BY <1>7, Zenon
<1>9. Walked(tree) = w
  BY DEF Walked, Next, base
<1> HIDE DEF w
<1>10. w[0] = base
  BY <1>8
<1>11. ASSUME NEW k \in Nat PROVE w[k + 1] = Next(w[k])
  <2>1. k + 1 \in Nat /\ k + 1 # 0 /\ (k + 1) - 1 = k
    OBVIOUS
  <2>2. w[k + 1] = IF k + 1 = 0 THEN base ELSE Next(w[(k + 1) - 1])
    BY <1>8, <2>1
  <2> QED
    BY <2>1, <2>2
<1>12. w \in [Nat -> Walk(B)]
  <2> DEFINE T == {k \in Nat : w[k] \in Walk(B)}
  <2>1. 0 \in T
    BY <1>1, <1>10
  <2>2. ASSUME NEW k \in Nat, k \in T PROVE k + 1 \in T
    <3>1. k + 1 \in Nat /\ w[k] \in Walk(B)
      BY <2>2
    <3>2. w[k + 1] \in Walk(B)
      BY <1>2, <1>11, <3>1
    <3> QED
      BY <3>1, <3>2
  <2> HIDE DEF T
  <2>3. \A k \in Nat : k \in T
    BY <2>1, <2>2, SetInduction
  <2>4. \A k \in Nat : w[k] \in Walk(B)
    BY <2>3 DEF T
  <2>5. w = [k \in Nat |-> w[k]]
    BY <1>8
  <2> QED
    BY <2>4, <2>5
<1> QED
  BY <1>9, <1>10, <1>11, <1>12 DEF Walking, Next, base

(* What has been visited and what is to be: no node twice, the children of   *)
(* every node visited, and none that is neither a first one nor a child.     *)
Halfway(B, start, u, k) ==
  /\ Distinct(u.out) /\ Distinct(u.todo) /\ ToSet(u.out) \cap ToSet(u.todo) = {}
  /\ ToSet(start) \subseteq ToSet(u.out) \cup ToSet(u.todo)
  /\ \A n \in ToSet(u.out) : ToSet(n.children) \subseteq ToSet(u.out) \cup ToSet(u.todo)
  /\ \A n \in ToSet(u.out) \cup ToSet(u.todo) :
       n \in ToSet(start) \/ \E m \in ToSet(u.out) : n \in ToSet(m.children)
  /\ u.todo # << >> => Len(u.out) = k

LEMMA WalkStep ==
  ASSUME NEW B, Grove(B), NEW start, Planted(B, start), NEW u \in Walk(B), NEW k \in Nat,
         Halfway(B, start, u, k), u.todo # << >>,
         NEW v \in Walk(B), v.out = Append(u.out, Head(u.todo)),
         v.todo = Head(u.todo).children \o Tail(u.todo)
  PROVE  Halfway(B, start, v, k + 1)
<1> DEFINE h == Head(u.todo)
           t == Tail(u.todo)
           c == h.children
<1>1. u.out \in Seq(B) /\ u.todo \in Seq(B) /\ v.out \in Seq(B) /\ v.todo \in Seq(B)
  BY DEF Walk
<1>2. /\ h \in B /\ t \in Seq(B) /\ ToSet(u.todo) = {h} \cup ToSet(t)
      /\ Distinct(t) /\ h \notin ToSet(t)
  BY <1>1, Parts DEF Halfway
<1>3. c \in Seq(B) /\ Distinct(c)
  BY <1>2 DEF Grove
<1> HIDE DEF h, t
<1>4. v.out = Append(u.out, h) /\ v.todo = c \o t
  BY DEF h, t
<1> HIDE DEF c
<1>5. h \notin ToSet(u.out) /\ ToSet(t) \cap ToSet(u.out) = {}
  BY <1>2 DEF Halfway
<1>6. ToSet(v.out) = ToSet(u.out) \cup {h} /\ Distinct(v.out)
  BY <1>1, <1>2, <1>4, <1>5, AppendedSet, DistinctAppend DEF Halfway
<1>7. ASSUME NEW n \in ToSet(c) PROVE n \notin ToSet(u.out) \cup ToSet(u.todo)
  <2>1. n \notin ToSet(start)
    BY <1>2 DEF Planted, c
  <2>2. ASSUME NEW m \in ToSet(u.out), n \in ToSet(m.children) PROVE FALSE
    <3>1. m \in B
      BY <1>1, ElementsOf
    <3>2. m = h
      BY <1>2, <2>2, <3>1 DEF Grove, c
    <3> QED
      BY <1>5, <3>2
  <2> QED
    BY <2>1, <2>2 DEF Halfway
<1>8. ToSet(v.todo) = ToSet(c) \cup ToSet(t) /\ Distinct(v.todo)
  <2>1. ToSet(c) \cap ToSet(t) = {}
    BY <1>2, <1>7
  <2>2. v.todo = Joined(c, t)
    BY <1>4 DEF Joined
  <2>3. ToSet(Joined(c, t)) = ToSet(c) \cup ToSet(t) /\ Distinct(Joined(c, t))
    BY <1>2, <1>3, <2>1, ConcatSet
  <2> QED
    BY <2>2, <2>3
<1>9. ToSet(v.out) \cap ToSet(v.todo) = {}
  BY <1>2, <1>5, <1>6, <1>7, <1>8
<1>10. ToSet(start) \subseteq ToSet(v.out) \cup ToSet(v.todo)
  BY <1>2, <1>6, <1>8 DEF Halfway
<1>11. ASSUME NEW n \in ToSet(v.out) PROVE ToSet(n.children) \subseteq ToSet(v.out) \cup ToSet(v.todo)
  <2>1. CASE n = h
    BY <1>8, <2>1 DEF c
  <2>2. CASE n \in ToSet(u.out)
    BY <1>2, <1>6, <1>8, <2>2 DEF Halfway
  <2> QED
    BY <1>6, <2>1, <2>2
<1>12. ASSUME NEW n \in ToSet(v.out) \cup ToSet(v.todo)
       PROVE  n \in ToSet(start) \/ \E m \in ToSet(v.out) : n \in ToSet(m.children)
  <2>1. CASE n \in ToSet(c)
    BY <1>6, <2>1 DEF c
  <2>2. CASE n \in ToSet(u.out) \cup ToSet(u.todo)
    BY <1>6, <2>2 DEF Halfway
  <2> QED
    BY <1>2, <1>6, <1>8, <2>1, <2>2
<1>13. Len(v.out) = k + 1
  <2>1. Len(v.out) = Len(u.out) + 1
    BY <1>1, <1>4
  <2> QED
    BY <2>1 DEF Halfway
<1> QED
  BY <1>6, <1>8, <1>9, <1>10, <1>11, <1>12, <1>13 DEF Halfway

LEMMA WalkHolds ==
  ASSUME NEW B, Grove(B), NEW start, Planted(B, start)
  PROVE  \A k \in Nat : Halfway(B, start, Walked(start)[k], k)
<1> DEFINE w == Walked(start)
           T == {k \in Nat : Halfway(B, start, w[k], k)}
<1>1. w \in [Nat -> Walk(B)] /\ Walking(w, start)
  BY WalkIs DEF Planted, Grove, Knit
<1> HIDE DEF w
<1>2. 0 \in T
  <2>1. w[0].out = << >> /\ w[0].todo = start
    BY <1>1 DEF Walking
  <2>2. Distinct(<< >>)
    BY DEF Distinct
  <2>3. Len(<< >>) = 0
    OBVIOUS
  <2> QED
    BY <2>1, <2>2, <2>3, NoElements DEF Halfway, Planted
<1>3. ASSUME NEW k \in Nat, k \in T PROVE k + 1 \in T
  <2>0. w[k] \in Walk(B) /\ w[k + 1] \in Walk(B) /\ k + 1 \in Nat
    BY <1>1
  <2>1. CASE w[k].todo = << >>
    <3>1. w[k + 1] = w[k]
      BY <1>1, <2>1 DEF Walking
    <3> QED
      BY <1>3, <2>0, <2>1, <3>1 DEF Halfway
  <2>2. CASE w[k].todo # << >>
    <3>1. w[k + 1].out = Append(w[k].out, Head(w[k].todo))
            /\ w[k + 1].todo = Head(w[k].todo).children \o Tail(w[k].todo)
      <4>1. w[k + 1] = [out |-> Append(w[k].out, Head(w[k].todo)),
                        todo |-> Head(w[k].todo).children \o Tail(w[k].todo)]
        BY <1>1, <2>2 DEF Walking
      <4>2. \A a, b, v : v = [out |-> a, todo |-> b] => v.out = a /\ v.todo = b
        OBVIOUS
      <4> DEFINE a == Append(w[k].out, Head(w[k].todo))
                 b == Head(w[k].todo).children \o Tail(w[k].todo)
                 v == w[k + 1]
      <4>3. v = [out |-> a, todo |-> b]
        BY <4>1
      <4> HIDE DEF a, b, v
      <4>4. v.out = a /\ v.todo = b
        BY <4>2, <4>3
      <4> QED
        BY <4>4 DEF a, b, v
    <3>2. Halfway(B, start, w[k + 1], k + 1)
      BY <1>3, <2>0, <2>2, <3>1, WalkStep
    <3> QED
      BY <2>0, <3>2
  <2> QED
    BY <2>1, <2>2
<1> HIDE DEF T
<1>4. \A k \in Nat : k \in T
  BY <1>2, <1>3, SetInduction
<1> QED
  BY <1>4 DEF T, w

(* The walk that has come to its end is what there is of nodes.             *)
LEMMA NodesEnd ==
  ASSUME NEW B, Knit(B), NEW start \in Seq(B), NEW last \in Nat, Walked(start)[last].todo = << >>
  PROVE  \E K \in Nat : Walked(start)[K].todo = << >> /\ Nodes(start) = Walked(start)[K].out
<1> DEFINE w == Walked(start)
           NodesOver == {k \in Nat : w[k].todo = << >>}
           Is(f) == f = [k \in Nat |-> IF w[k].todo = << >> THEN w[k].out ELSE f[k + 1]]
           f == CHOOSE f : Is(f)
<1>1. w \in [Nat -> Walk(B)] /\ Walking(w, start)
  BY WalkIs
<1>3. Nodes(start) = f[0]
  BY DEF Nodes
<1> HIDE DEF w
<1>4. NodesOver # {}
  BY DEF w
<1>5. PICK K \in NodesOver : \A k \in NodesOver : K <= k
  BY <1>4, Least
<1>6. K \in Nat /\ w[K].todo = << >> /\ \A k \in Nat : k < K => w[k].todo # << >>
  BY <1>5
<1>7. ASSUME NEW k \in Nat PROVE w[K + k] = w[K]
  <2> DEFINE T == {i \in Nat : w[K + i] = w[K]}
  <2>1. 0 \in T
    BY <1>6
  <2>2. ASSUME NEW i \in Nat, i \in T PROVE i + 1 \in T
    <3>1. K + i \in Nat /\ (K + i) + 1 = K + (i + 1) /\ w[K + i] = w[K]
      BY <1>6, <2>2
    <3>2. w[(K + i) + 1] = w[K + i]
      BY <1>1, <1>6, <3>1 DEF Walking
    <3> QED
      BY <3>1, <3>2
  <2> HIDE DEF T
  <2>3. \A i \in Nat : i \in T
    BY <2>1, <2>2, SetInduction
  <2> QED
    BY <2>3 DEF T
<1>8. Is([k \in Nat |-> IF k <= K THEN w[K].out ELSE w[k].out])
  <2> DEFINE g == [k \in Nat |-> IF k <= K THEN w[K].out ELSE w[k].out]
  <2> SUFFICES ASSUME NEW k \in Nat
               PROVE  g[k] = IF w[k].todo = << >> THEN w[k].out ELSE g[k + 1]
    BY DOMAIN g = Nat
  <2>1. CASE k < K
    <3>1. w[k].todo # << >> /\ k + 1 <= K /\ k <= K /\ k + 1 \in Nat
      BY <1>6, <2>1
    <3> QED
      BY <3>1
  <2>2. CASE ~(k < K)
    <3>1. k - K \in Nat /\ K + (k - K) = k
      BY <1>6, <2>2
    <3>2. w[k] = w[K]
      BY <1>7, <3>1
    <3> QED
      BY <1>6, <3>2
  <2> QED
    BY <2>1, <2>2
<1>9. Is(f)
  <2> HIDE DEF Is
  <2> QED
    BY <1>8, Zenon
<1> HIDE DEF f
<1>10. f[0] = w[K].out
  <2> DEFINE T == {i \in Nat : i <= K => f[K - i] = w[K].out}
  <2>1. 0 \in T
    BY <1>6, <1>9
  <2>2. ASSUME NEW i \in Nat, i \in T PROVE i + 1 \in T
    <3> SUFFICES ASSUME i + 1 <= K PROVE f[K - (i + 1)] = w[K].out
      OBVIOUS
    <3>1. K - (i + 1) \in Nat /\ K - (i + 1) < K /\ (K - (i + 1)) + 1 = K - i /\ i <= K
      BY <1>6
    <3>2. f[K - (i + 1)] = f[(K - (i + 1)) + 1]
      BY <1>6, <1>9, <3>1
    <3> QED
      BY <2>2, <3>1, <3>2
  <2> HIDE DEF T
  <2>3. \A i \in Nat : i \in T
    BY <2>1, <2>2, SetInduction
  <2>4. K <= K => f[K - K] = w[K].out
    BY <1>6, <2>3 DEF T
  <2> QED
    BY <1>6, <2>4
<1> QED
  BY <1>3, <1>6, <1>10 DEF w

(* The walk ends, and Nodes is what it has visited then.                     *)
LEMMA NodesAre ==
  ASSUME NEW B, Grove(B), NEW start, Planted(B, start)
  PROVE  /\ Nodes(start) \in Seq(B) /\ Distinct(Nodes(start))
         /\ ToSet(start) \subseteq ToSet(Nodes(start))
         /\ \A n \in ToSet(Nodes(start)) :
              /\ ToSet(n.children) \subseteq ToSet(Nodes(start))
              /\ n \in ToSet(start) \/ \E m \in ToSet(Nodes(start)) : n \in ToSet(m.children)
<1> DEFINE w == Walked(start)
           K == Cardinality(B) + 1
<1>1. w \in [Nat -> Walk(B)] /\ Walking(w, start)
  BY WalkIs DEF Planted, Grove, Knit
<1>2. \A k \in Nat : Halfway(B, start, w[k], k)
  BY WalkHolds
<1> HIDE DEF w
<1>3. K \in Nat
  BY FS_CardinalityType DEF Grove
<1>4. w[K].out \in Seq(B) /\ Distinct(w[K].out)
  BY <1>1, <1>2, <1>3 DEF Walk, Halfway
<1>5. Len(w[K].out) <= Cardinality(B)
  BY <1>4, DistinctLength DEF Grove
<1>6. Len(w[K].out) # K
  BY <1>3, <1>5, FS_CardinalityType DEF Grove
<1>7. w[K].todo = << >>
  BY <1>2, <1>3, <1>6 DEF Halfway
<1>8. PICK k \in Nat : w[k].todo = << >> /\ Nodes(start) = w[k].out
  BY <1>3, <1>7, NodesEnd DEF w, Planted, Grove, Knit
<1>9. w[k].out \in Seq(B) /\ Halfway(B, start, w[k], k)
  BY <1>1, <1>2, <1>8 DEF Walk
<1> QED
  BY <1>8, <1>9, NoElements DEF Halfway
-----------------------------------------------------------------------------
(* Rows as a tree is built of.                                              *)
Table(S) ==
  IsFiniteSet(S) /\ Unique(S) /\ \A x \in S : x.path \in Path /\ x.isDir \in BOOLEAN

LEMMA SortedIs ==
  ASSUME NEW S, IsFiniteSet(S), \A x \in S : x.isDir \in BOOLEAN
  PROVE  Sorted(S) \in Seq(S) /\ ToSet(Sorted(S)) = S /\ Distinct(Sorted(S))
<1> DEFINE A == {x \in S : x.isDir}
           B == {x \in S : ~x.isDir}
           s == SetToSeq(A)
           t == SetToSeq(B)
<1>1. IsFiniteSet(A) /\ IsFiniteSet(B) /\ A \cup B = S /\ A \cap B = {}
  BY FS_Subset
<1>2. Sorted(S) = Joined(s, t)
  BY DEF Sorted, Joined
<1> HIDE DEF A, B
<1>3. s \in Seq(A) /\ ToSet(s) = A /\ Distinct(s) /\ t \in Seq(B) /\ ToSet(t) = B /\ Distinct(t)
  BY <1>1, Enumerated
<1> HIDE DEF s, t
<1>4. s \in Seq(S) /\ t \in Seq(S)
  <2>1. A \subseteq S /\ B \subseteq S
    BY <1>1
  <2> QED
    BY <1>3, <2>1
<1>5. /\ Joined(s, t) \in Seq(S) /\ ToSet(Joined(s, t)) = ToSet(s) \cup ToSet(t)
      /\ Distinct(Joined(s, t))
  BY <1>1, <1>3, <1>4, ConcatSet
<1> QED
  BY <1>1, <1>2, <1>3, <1>5

LEMMA FrontIs ==
  ASSUME NEW p \in Path
  PROVE  /\ Front(p) \in Seq(Name) /\ Len(Front(p)) = Len(p) - 1 /\ Len(p) \in Nat /\ Len(p) >= 1
         /\ \A i \in 1..(Len(p) - 1) : Front(p)[i] = p[i]
         /\ Len(p) # 1 => Front(p) \in Path
         /\ isDescendantOf(p, Front(p))
<1>1. p \in Seq(Name) /\ p # << >>
  BY DEF Path
<1>2. Len(p) \in Nat /\ Len(p) >= 1 /\ \A i \in 1..(Len(p) - 1) : p[i] \in Name
  BY <1>1
<1> DEFINE f == SubSeq(p, 1, Len(p) - 1)
<1>3. f \in Seq(Name) /\ Len(f) = Len(p) - 1 /\ \A i \in 1..(Len(p) - 1) : f[i] = p[i]
  <2>1. 1 \in Int /\ Len(p) - 1 \in Int /\ Len(p) - 1 >= 0
    BY <1>2
  <2>2. f \in Seq(Name)
    BY <1>2, <2>1
  <2>3. Len(f) = Len(p) - 1
    <3> DEFINE m == Len(p) - 1
    <3>1. m \in Nat /\ 1 \in Int /\ m \in Int /\ \A i \in 1..m : p[i] \in Name
      BY <1>2, <2>1
    <3> HIDE DEF m
    <3>2. Len(SubSeq(p, 1, m)) = IF 1 <= m THEN m - 1 + 1 ELSE 0
      BY <3>1, SubSeqProperties
    <3>3. Len(SubSeq(p, 1, m)) = m
      BY <3>1, <3>2
    <3> QED
      BY <3>3 DEF m
  <2>4. \A i \in 1..(Len(p) - 1) : f[i] = p[i]
    BY <2>1
  <2> QED
    BY <2>2, <2>3, <2>4
<1>4. Front(p) = f
  BY DEF Front
<1> HIDE DEF f
<1>5. Len(p) # 1 => f # << >>
  BY <1>2, <1>3
<1>6. isDescendantOf(p, f)
  BY <1>1, <1>2, <1>3, Below
<1> QED
  BY <1>2, <1>3, <1>4, <1>5, <1>6 DEF Path

LEMMA DepthOf ==
  ASSUME NEW S, IsFiniteSet(S), \A x \in S : x.path \in Path
  PROVE  \E d \in Nat : \A x \in S : Len(x.path) <= d
<1> DEFINE T == {U \in SUBSET S : \E d \in Nat : \A x \in U : Len(x.path) <= d}
<1>1. {} \in T
  OBVIOUS
<1>2. ASSUME NEW U \in SUBSET S, NEW y \in S \ U, U \in T PROVE U \cup {y} \in T
  <2>1. PICK d \in Nat : \A x \in U : Len(x.path) <= d
    BY <1>2
  <2>2. \A x \in S : Len(x.path) \in Nat
    BY FrontIs
  <2>3. d + Len(y.path) \in Nat
    BY <2>2
  <2>4. \A x \in U \cup {y} : Len(x.path) <= d + Len(y.path)
    BY <2>1, <2>2
  <2> QED
    BY <2>3, <2>4
<1> HIDE DEF T
<1>3. S \in T
  BY <1>1, <1>2, FiniteInduction
<1> QED
  BY <1>3 DEF T

LEMMA SiblingsAre ==
  ASSUME NEW S, Table(S), NEW p
  PROVE  /\ Siblings(S, p) \in Seq(S) /\ Distinct(Siblings(S, p))
         /\ ToSet(Siblings(S, p)) = {y \in S : Front(y.path) = p}
<1> DEFINE B == {y \in S : Front(y.path) = p}
<1>1. IsFiniteSet(B) /\ B \subseteq S /\ \A x \in B : x.isDir \in BOOLEAN
  BY FS_Subset DEF Table
<1>2. Siblings(S, p) = Sorted(B)
  BY DEF Siblings
<1> HIDE DEF B
<1>3. Sorted(B) \in Seq(B) /\ ToSet(Sorted(B)) = B /\ Distinct(Sorted(B))
  BY <1>1, SortedIs
<1>4. Sorted(B) \in Seq(S)
  BY <1>1, <1>3
<1> QED
  BY <1>2, <1>3, <1>4 DEF B

Grown(g, S, X) ==
  \A x \in X : g[x] = [row |-> x, children |-> [i \in DOMAIN Siblings(S, x.path) |->
                                                  g[Siblings(S, x.path)[i]]]]

LEMMA NodeForIs ==
  ASSUME NEW S, Table(S)
  PROVE  DOMAIN nodeFor(S) = S /\ Grown(nodeFor(S), S, S)
<1>1. PICK d \in Nat : \A x \in S : Len(x.path) <= d
  BY DepthOf DEF Table
<1> DEFINE Deep(k) == {x \in S : Len(x.path) + k > d}
           T == {k \in Nat : \E g : DOMAIN g = Deep(k) /\ Grown(g, S, Deep(k))}
<1>2. \A x \in S : Len(x.path) \in Nat /\ Len(x.path) >= 1
  BY FrontIs DEF Table
<1>3. 0 \in T
  <2>1. Deep(0) = {}
    BY <1>1, <1>2
  <2> DEFINE g == [x \in {} |-> x]
  <2>2. DOMAIN g = {} /\ Grown(g, S, {})
    BY DEF Grown
  <2> HIDE DEF g, Deep
  <2> QED
    BY <2>1, <2>2
<1>4. ASSUME NEW k \in Nat, k \in T PROVE k + 1 \in T
  <2>1. PICK g : DOMAIN g = Deep(k) /\ Grown(g, S, Deep(k))
    BY <1>4
  <2> DEFINE kids(x) == Siblings(S, x.path)
             Node(x) == [row |-> x, children |-> [i \in DOMAIN kids(x) |-> g[kids(x)[i]]]]
             h == [x \in Deep(k + 1) |-> Node(x)]
  <2>2. Deep(k) \subseteq Deep(k + 1)
    <3> SUFFICES ASSUME NEW x \in Deep(k) PROVE x \in Deep(k + 1)
      OBVIOUS
    <3>1. x \in S /\ Len(x.path) + k > d
      OBVIOUS
    <3>2. Len(x.path) \in Nat
      BY <1>2, <3>1
    <3>3. Len(x.path) + (k + 1) > d
      <4> DEFINE l == Len(x.path)
      <4>1. l \in Nat /\ l + k > d
        BY <3>1, <3>2
      <4> HIDE DEF l
      <4>2. l + (k + 1) > d
        BY <4>1
      <4> QED
        BY <4>2 DEF l
    <3> QED
      BY <3>1, <3>3
  <2>3. \A x \in Deep(k) : h[x] = g[x]
    <3> SUFFICES ASSUME NEW x \in Deep(k) PROVE h[x] = g[x]
      OBVIOUS
    <3>1. g[x] = Node(x)
      BY <2>1 DEF Grown
    <3>2. x \in Deep(k + 1)
      BY <2>2
    <3> HIDE DEF Node, Deep
    <3> QED
      BY <3>1, <3>2
  <2>4. ASSUME NEW x \in Deep(k + 1), NEW i \in DOMAIN kids(x) PROVE h[kids(x)[i]] = g[kids(x)[i]]
    <3> DEFINE y == kids(x)[i]
    <3>1. y \in ToSet(kids(x))
      BY DEF ToSet
    <3>2. y \in S /\ Front(y.path) = x.path
      BY <3>1, SiblingsAre
    <3> HIDE DEF y
    <3>3. y.path \in Path
      BY <3>2 DEF Table
    <3>4. Len(Front(y.path)) = Len(y.path) - 1
      BY <3>3, FrontIs
    <3>5. y \in Deep(k)
      <4>1. x \in S /\ Len(x.path) + (k + 1) > d
        OBVIOUS
      <4>2. Len(x.path) \in Nat /\ Len(y.path) \in Nat
        BY <1>2, <3>2, <4>1
      <4>3. Len(x.path) = Len(y.path) - 1
        BY <3>2, <3>4
      <4>4. Len(y.path) + k > d
        <5> DEFINE l == Len(x.path)
                   m == Len(y.path)
        <5>1. l \in Nat /\ l + (k + 1) > d /\ m \in Nat /\ l = m - 1
          BY <4>1, <4>2, <4>3
        <5> HIDE DEF l, m
        <5>2. m + k > d
          BY <5>1
        <5> QED
          BY <5>2 DEF m
      <4> QED
        BY <3>2, <4>4
    <3> QED
      BY <2>3, <3>5 DEF y
  <2>5. Grown(h, S, Deep(k + 1))
    <3> SUFFICES ASSUME NEW x \in Deep(k + 1)
                 PROVE  h[x] = [row |-> x, children |-> [i \in DOMAIN kids(x) |-> h[kids(x)[i]]]]
      BY DEF Grown
    <3>1. [i \in DOMAIN kids(x) |-> h[kids(x)[i]]] = [i \in DOMAIN kids(x) |-> g[kids(x)[i]]]
      <4> HIDE DEF h, kids
      <4> QED
        BY <2>4
    <3>2. h[x] = Node(x)
      <4> HIDE DEF Node, Deep
      <4> QED
        OBVIOUS
    <3> QED
      BY <3>1, <3>2
  <2>6. DOMAIN h = Deep(k + 1) /\ k + 1 \in Nat
    OBVIOUS
  <2> HIDE DEF h, Deep
  <2> QED
    BY <2>5, <2>6
<1> HIDE DEF T
<1>5. \A k \in Nat : k \in T
  BY <1>3, <1>4, SetInduction
<1>6. Deep(d) = S
  BY <1>2
<1>7. PICK g : DOMAIN g = S /\ Grown(g, S, S)
  <2>1. \E g : DOMAIN g = Deep(d) /\ Grown(g, S, Deep(d))
    BY <1>5 DEF T
  <2> HIDE DEF Deep
  <2> QED
    BY <1>6, <2>1
<1> DEFINE Is(f) == f = [x \in S |-> [row |-> x, children |-> LET below == Siblings(S, x.path) IN
                                        [i \in DOMAIN below |-> f[below[i]]]]]
           n == CHOOSE f : Is(f)
           G == [x \in S |-> g[x]]
<1>8. Is(G)
  <2> SUFFICES ASSUME NEW x \in S
               PROVE  G[x] = [row |-> x, children |-> [i \in DOMAIN Siblings(S, x.path) |->
                                                         G[Siblings(S, x.path)[i]]]]
    BY DOMAIN G = S
  <2>1. ASSUME NEW i \in DOMAIN Siblings(S, x.path) PROVE Siblings(S, x.path)[i] \in S
    <3>1. Siblings(S, x.path)[i] \in ToSet(Siblings(S, x.path))
      BY DEF ToSet
    <3> QED
      BY <3>1, SiblingsAre
  <2>2. [i \in DOMAIN Siblings(S, x.path) |-> G[Siblings(S, x.path)[i]]]
          = [i \in DOMAIN Siblings(S, x.path) |-> g[Siblings(S, x.path)[i]]]
    BY <2>1
  <2>3. G[x] = g[x]
    OBVIOUS
  <2> HIDE DEF G
  <2> QED
    BY <1>7, <2>2, <2>3 DEF Grown
<1>9. Is(n)
  <2> HIDE DEF Is, G
  <2> QED
    BY <1>8, Zenon
<1>10. nodeFor(S) = n
  BY DEF nodeFor
<1> HIDE DEF n
<1>11. DOMAIN n = S /\ Grown(n, S, S)
  BY <1>9 DEF Grown
<1> QED
  BY <1>10, <1>11

(* The nodes of some rows, when the children's rows are among them.          *)
NodesOver(S, X) == {nodeFor(S)[x] : x \in X}
Downward(S, X) == X \subseteq S /\ \A x \in X, y \in S : Front(y.path) = x.path => y \in X

LEMMA NodeIs ==
  ASSUME NEW S, Table(S), NEW x \in S
  PROVE  /\ nodeFor(S)[x].row = x
         /\ nodeFor(S)[x].children = [i \in DOMAIN Siblings(S, x.path) |->
                                        nodeFor(S)[Siblings(S, x.path)[i]]]
<1> DEFINE n == nodeFor(S)
           c == [i \in DOMAIN Siblings(S, x.path) |-> n[Siblings(S, x.path)[i]]]
<1>1. n[x] = [row |-> x, children |-> c]
  BY NodeForIs DEF Grown
<1> HIDE DEF c, n
<1>2. n[x].row = x /\ n[x].children = c
  BY <1>1
<1> QED
  BY <1>2 DEF c, n

LEMMA OneNode ==
  ASSUME NEW S, Table(S), NEW x \in S, NEW y \in S, nodeFor(S)[x] = nodeFor(S)[y]
  PROVE  x = y
<1>1. nodeFor(S)[x].row = x /\ nodeFor(S)[y].row = y
  BY NodeIs
<1> QED
  BY <1>1

Kids(S, x) == {y \in S : Front(y.path) = x.path}

LEMMA ChildrenAre ==
  ASSUME NEW S, Table(S), NEW X, Downward(S, X), NEW x \in X
  PROVE  /\ nodeFor(S)[x].children \in Seq(NodesOver(S, X)) /\ Distinct(nodeFor(S)[x].children)
         /\ ToSet(nodeFor(S)[x].children) = NodesOver(S, Kids(S, x))
<1> DEFINE f == [y \in X |-> nodeFor(S)[y]]
           s == Siblings(S, x.path)
           c == nodeFor(S)[x].children
<1>1. x \in S /\ X \subseteq S
  BY DEF Downward
<1>2. s \in Seq(S) /\ Distinct(s) /\ ToSet(s) = {y \in S : Front(y.path) = x.path}
  BY SiblingsAre
<1>3. nodeFor(S)[x].row = x /\ c = [i \in DOMAIN s |-> nodeFor(S)[s[i]]]
  BY <1>1, NodeIs
<1> HIDE DEF s, c
<1>4. ToSet(s) \subseteq X
  BY <1>2 DEF Downward
<1>5. DOMAIN s = 1..Len(s) /\ Len(s) \in Nat /\ \A i \in DOMAIN s : s[i] \in X
  BY <1>2, <1>4 DEF ToSet
<1>6. s \in Seq(X)
  <2>1. s = [i \in 1..Len(s) |-> s[i]]
    BY <1>2
  <2> QED
    BY <1>5, <2>1
<1>7. Maps(f, s, c)
  BY <1>3, <1>5 DEF Maps
<1>8. f \in [X -> NodesOver(S, X)]
  BY DEF NodesOver
<1>9. \A y, z \in X : nodeFor(S)[y] = nodeFor(S)[z] => y = z
  BY <1>1, OneNode
<1>10. \A y, z \in ToSet(s) : f[y] = f[z] => y = z
  BY <1>4, <1>9
<1>11. \A y \in X : f[y] = nodeFor(S)[y]
  OBVIOUS
<1> HIDE DEF f
<1>12. c \in Seq(NodesOver(S, X)) /\ ToSet(c) = {f[y] : y \in ToSet(s)} /\ Distinct(c)
  BY <1>2, <1>6, <1>7, <1>8, <1>10, MappedSeq, MappedSet
<1>13. ToSet(c) = NodesOver(S, ToSet(s))
  BY <1>4, <1>11, <1>12 DEF NodesOver
<1> QED
  BY <1>2, <1>12, <1>13 DEF c, Kids

LEMMA GroveIs ==
  ASSUME NEW S, Table(S), NEW X, Downward(S, X)
  PROVE  Grove(NodesOver(S, X))
<1>1. IsFiniteSet(NodesOver(S, X))
  <2> DEFINE f == [x \in X |-> nodeFor(S)[x]]
  <2>1. f \in Surjection(X, NodesOver(S, X))
    BY DEF Surjection, NodesOver
  <2>2. IsFiniteSet(X)
    BY FS_Subset DEF Table, Downward
  <2> QED
    BY <2>1, <2>2, FS_Surjection
<1>2. ASSUME NEW n \in NodesOver(S, X) PROVE n.children \in Seq(NodesOver(S, X)) /\ Distinct(n.children)
  <2>1. PICK x \in X : n = nodeFor(S)[x]
    BY DEF NodesOver
  <2> QED
    BY <2>1, ChildrenAre
<1>3. ASSUME NEW m \in NodesOver(S, X), NEW n \in NodesOver(S, X), ToSet(m.children) \cap ToSet(n.children) # {}
      PROVE  m = n
  <2>1. PICK x \in X, y \in X : m = nodeFor(S)[x] /\ n = nodeFor(S)[y]
    BY DEF NodesOver
  <2>2. ToSet(m.children) = NodesOver(S, Kids(S, x)) /\ ToSet(n.children) = NodesOver(S, Kids(S, y))
    BY <2>1, ChildrenAre
  <2>3. PICK a \in S, b \in S : /\ Front(a.path) = x.path /\ Front(b.path) = y.path
                                /\ nodeFor(S)[a] = nodeFor(S)[b]
    BY <1>3, <2>2 DEF NodesOver, Kids
  <2>4. a = b
    BY <2>3, OneNode
  <2>5. x = y
    BY <2>3, <2>4 DEF Downward, Table, Unique
  <2> QED
    BY <2>1, <2>5
<1> QED
  BY <1>1, <1>2, <1>3 DEF Grove

(* What is walked over from the nodes of some rows that are no one's         *)
(* children: their nodes, and those of the rows below.                      *)
LEMMA WalkedOver ==
  ASSUME NEW S, Table(S), NEW X, Downward(S, X), NEW R, R \subseteq X,
         \A x \in X : Front(x.path) # x.path /\ (x \in R => \A y \in X : Front(x.path) # y.path),
         \A x \in X : x \in R \/ \E y \in X : y.path = Front(x.path),
         NEW start \in Seq(NodesOver(S, X)), Distinct(start), ToSet(start) = NodesOver(S, R)
  PROVE  Nodes(start) \in Seq(NodesOver(S, X)) /\ Distinct(Nodes(start)) /\ ToSet(Nodes(start)) = NodesOver(S, X)
<1> DEFINE all == ToSet(Nodes(start))
<1>1. Grove(NodesOver(S, X))
  BY GroveIs
<1>2. ASSUME NEW n \in NodesOver(S, X) PROVE ToSet(n.children) \cap ToSet(start) = {}
  <2> SUFFICES ASSUME NEW m \in ToSet(n.children), m \in NodesOver(S, R) PROVE FALSE
    OBVIOUS
  <2>1. PICK x \in X : n = nodeFor(S)[x]
    BY DEF NodesOver
  <2>2. ToSet(n.children) = NodesOver(S, Kids(S, x))
    BY <2>1, ChildrenAre
  <2>3. PICK y \in S : Front(y.path) = x.path /\ m = nodeFor(S)[y]
    BY <2>2 DEF NodesOver, Kids
  <2>4. PICK z \in R : m = nodeFor(S)[z]
    BY DEF NodesOver
  <2>5. z \in X /\ z \in S
    BY DEF Downward
  <2>6. y = z
    BY <2>3, <2>4, <2>5, OneNode
  <2> QED
    BY <2>3, <2>5, <2>6
<1>3. Planted(NodesOver(S, X), start)
  BY <1>2 DEF Planted
<1>4. /\ Nodes(start) \in Seq(NodesOver(S, X)) /\ Distinct(Nodes(start)) /\ ToSet(start) \subseteq all
      /\ \A n \in all : ToSet(n.children) \subseteq all
  BY <1>1, <1>3, NodesAre
<1>5. all \subseteq NodesOver(S, X)
  BY <1>4, ElementsOf
<1> DEFINE T == {k \in Nat : \A x \in X : Len(x.path) <= k => nodeFor(S)[x] \in all}
<1>6. \A x \in X : x \in S /\ x.path \in Path /\ Len(x.path) \in Nat /\ Len(x.path) >= 1
  BY FrontIs DEF Downward, Table
<1> HIDE DEF all
<1>7. 0 \in T
  BY <1>6
<1>8. ASSUME NEW k \in Nat, k \in T PROVE k + 1 \in T
  <2> SUFFICES ASSUME NEW x \in X, Len(x.path) <= k + 1 PROVE nodeFor(S)[x] \in all
    OBVIOUS
  <2>1. CASE x \in R
    BY <1>4, <2>1 DEF NodesOver
  <2>2. CASE \E y \in X : y.path = Front(x.path)
    <3>1. PICK y \in X : y.path = Front(x.path)
      BY <2>2
    <3>2. Len(y.path) = Len(x.path) - 1
      BY <1>6, <3>1, FrontIs
    <3>3. Len(y.path) <= k
      <4> DEFINE a == Len(x.path)
                 b == Len(y.path)
      <4>1. a \in Nat /\ b \in Nat /\ b = a - 1 /\ a <= k + 1
        BY <1>6, <3>2
      <4> HIDE DEF a, b
      <4>2. b <= k
        BY <4>1
      <4> QED
        BY <4>2 DEF b
    <3>4. nodeFor(S)[y] \in all
      BY <1>8, <3>3
    <3>5. nodeFor(S)[x] \in ToSet(nodeFor(S)[y].children)
      <4>1. ToSet(nodeFor(S)[y].children) = NodesOver(S, Kids(S, y))
        BY ChildrenAre
      <4> QED
        BY <1>6, <3>1, <4>1 DEF NodesOver, Kids
    <3> QED
      BY <1>4, <3>4, <3>5
  <2> QED
    BY <2>1, <2>2
<1> HIDE DEF T
<1>9. \A k \in Nat : k \in T
  BY <1>7, <1>8, SetInduction
<1>10. ASSUME NEW x \in X PROVE nodeFor(S)[x] \in all
  <2>1. Len(x.path) \in T /\ Len(x.path) <= Len(x.path)
    BY <1>6, <1>9
  <2> QED
    BY <2>1 DEF T
<1>11. NodesOver(S, X) \subseteq all
  BY <1>10 DEF NodesOver
<1> QED
  BY <1>4, <1>5, <1>11 DEF all

(* The rows of a tree, in the order it has them.                             *)
LEMMA Flattened ==
  ASSUME NEW S, Table(S), NEW X, X \subseteq S, NEW t,
         Nodes(t) \in Seq(NodesOver(S, X)), Distinct(Nodes(t)), ToSet(Nodes(t)) = NodesOver(S, X)
  PROVE  flattenTree(t) \in Seq(X) /\ Distinct(flattenTree(t)) /\ ToSet(flattenTree(t)) = X
<1> DEFINE f == [n \in NodesOver(S, X) |-> n.row]
           s == Nodes(t)
           r == [i \in DOMAIN s |-> s[i].row]
<1>1. \A x \in X : nodeFor(S)[x].row = x
  BY NodeIs
<1>2. f \in [NodesOver(S, X) -> X]
  BY <1>1 DEF NodesOver
<1>3. \A m, n \in NodesOver(S, X) : f[m] = f[n] => m = n
  BY <1>1 DEF NodesOver
<1>4. \A n \in NodesOver(S, X) : f[n] = n.row
  OBVIOUS
<1> HIDE DEF f, s
<1>5. s \in Seq(NodesOver(S, X)) /\ \A i \in DOMAIN s : s[i] \in NodesOver(S, X)
  BY DEF s
<1>6. Maps(f, s, r)
  BY <1>4, <1>5 DEF Maps
<1>7. flattenTree(t) = r
  BY DEF flattenTree, s
<1> HIDE DEF r
<1>8. Distinct(s) /\ ToSet(s) = NodesOver(S, X)
  BY DEF s
<1>9. \A m, n \in ToSet(s) : f[m] = f[n] => m = n
  BY <1>3, <1>8
<1>10. r \in Seq(X) /\ ToSet(r) = {f[n] : n \in ToSet(s)} /\ Distinct(r)
  <2>1. s \in Seq(NodesOver(S, X)) /\ f \in [NodesOver(S, X) -> X]
    BY <1>2, <1>5
  <2>2. r \in Seq(X)
    BY <1>6, <2>1, MappedSeq, MappedSet
  <2>3. ToSet(r) = {f[n] : n \in ToSet(s)}
    BY <1>6, <2>1, MappedSeq, MappedSet
  <2>4. Distinct(r)
    BY <1>6, <1>8, <1>9, <2>1, MappedSeq, MappedSet
  <2> QED
    BY <2>2, <2>3, <2>4
<1>11. {f[n] : n \in ToSet(s)} = X
  BY <1>1, <1>4, <1>8 DEF NodesOver
<1> QED
  BY <1>7, <1>10, <1>11

(* The first nodes are those of the roots.                                  *)
LEMMA RootsAre ==
  ASSUME NEW S, Table(S)
  PROVE  /\ buildTree(S) \in Seq(NodesOver(S, S)) /\ Distinct(buildTree(S))
         /\ ToSet(buildTree(S)) = NodesOver(S, Roots(S)) /\ Roots(S) \subseteq S
<1> DEFINE t == buildTree(S)
           s == Sorted(Roots(S))
           f == [x \in S |-> nodeFor(S)[x]]
<1>1. Roots(S) \subseteq S /\ IsFiniteSet(Roots(S)) /\ \A x \in Roots(S) : x.isDir \in BOOLEAN
  BY FS_Subset DEF Roots, Table
<1>2. s \in Seq(Roots(S)) /\ ToSet(s) = Roots(S) /\ Distinct(s)
  BY <1>1, SortedIs
<1>3. t = [i \in DOMAIN s |-> nodeFor(S)[s[i]]]
  BY DEF buildTree
<1> HIDE DEF s, t
<1>4. s \in Seq(S) /\ \A i \in DOMAIN s : s[i] \in S
  BY <1>1, <1>2
<1>5. f \in [S -> NodesOver(S, S)] /\ Maps(f, s, t)
  BY <1>3, <1>4 DEF NodesOver, Maps
<1>6. \A x, y \in ToSet(s) : f[x] = f[y] => x = y
  BY <1>1, <1>2, OneNode
<1>7. \A x \in Roots(S) : f[x] = nodeFor(S)[x]
  BY <1>1
<1> HIDE DEF f
<1>8. t \in Seq(NodesOver(S, S)) /\ ToSet(t) = {f[x] : x \in ToSet(s)} /\ Distinct(t)
  <2>1. s \in Seq(S) /\ f \in [S -> NodesOver(S, S)]
    BY <1>4, <1>5
  <2>2. /\ t \in Seq(NodesOver(S, S)) /\ ToSet(t) = {f[x] : x \in ToSet(s)}
        /\ Distinct(s) /\ (\A x, y \in ToSet(s) : f[x] = f[y] => x = y) => Distinct(t)
    BY <1>5, <2>1, MappedSeq, MappedSet
  <2> QED
    BY <1>2, <1>6, <2>2
<1>9. ToSet(t) = NodesOver(S, Roots(S))
  BY <1>2, <1>7, <1>8 DEF NodesOver
<1> QED
  BY <1>1, <1>8, <1>9 DEF t

(* A tree has every row once.                                               *)
THEOREM TreeHasRows ==
  ASSUME NEW S, Table(S)
  PROVE  /\ flattenTree(buildTree(S)) \in Seq(S) /\ Distinct(flattenTree(buildTree(S)))
         /\ ToSet(flattenTree(buildTree(S))) = S
         /\ ToSet(Nodes(buildTree(S))) = NodesOver(S, S)
<1> DEFINE t == buildTree(S)
<1>1. Roots(S) \subseteq S
  BY DEF Roots
<1>8. t \in Seq(NodesOver(S, S)) /\ Distinct(t)
  BY RootsAre
<1>9. ToSet(t) = NodesOver(S, Roots(S))
  BY RootsAre
<1> HIDE DEF t
<1>10. Downward(S, S)
  BY DEF Downward
<1>11. \A x \in S : x.path \in Path /\ Front(x.path) # x.path /\ Len(x.path) \in Nat
                      /\ Len(Front(x.path)) = Len(x.path) - 1
  BY FrontIs DEF Table
<1>12. ASSUME NEW x \in Roots(S), NEW y \in S PROVE Front(x.path) # y.path
  <2>1. CASE Len(x.path) = 1
    <3>1. Front(x.path) \in Seq(Name) /\ Len(Front(x.path)) = 0
      <4>1. x.path \in Path /\ Len(Front(x.path)) = 1 - 1
        BY <1>1, <1>11, <2>1
      <4> QED
        BY <4>1, FrontIs
    <3>2. Front(x.path) = << >>
      BY <3>1
    <3> QED
      BY <1>11, <3>2 DEF Path
  <2>2. CASE At(S, Front(x.path)) = {}
    BY <2>2 DEF At
  <2> QED
    BY <2>1, <2>2 DEF Roots
<1>13. \A x \in S : x \in Roots(S) \/ \E y \in S : y.path = Front(x.path)
  BY DEF Roots, At
<1>14. /\ Nodes(t) \in Seq(NodesOver(S, S)) /\ Distinct(Nodes(t))
       /\ ToSet(Nodes(t)) = NodesOver(S, S)
  BY <1>1, <1>8, <1>9, <1>10, <1>11, <1>12, <1>13, WalkedOver
<1>15. /\ flattenTree(t) \in Seq(S) /\ Distinct(flattenTree(t)) /\ ToSet(flattenTree(t)) = S
  BY <1>14, Flattened
<1> QED
  BY <1>14, <1>15 DEF t

(* What a directory's subtree is.                                           *)
Beneath(S, x) == {y \in S : y = x \/ isDescendantOf(y.path, x.path)}

LEMMA OneOf ==
  ASSUME NEW V, NEW n \in V, NEW s, s = <<n>>
  PROVE  s \in Seq(V) /\ ToSet(s) = {n} /\ Distinct(s)
<1>1. s \in Seq(V) /\ DOMAIN s = {1} /\ s[1] = n
  OBVIOUS
<1> QED
  BY <1>1 DEF ToSet, Distinct

LEMMA BeneathIs ==
  ASSUME NEW S, Table(S), Closed(S), NEW x \in S
  PROVE  /\ Downward(S, Beneath(S, x)) /\ x \in Beneath(S, x)
         /\ \A y \in Beneath(S, x) : Front(y.path) # x.path
                                       => y = x \/ \E z \in Beneath(S, x) : z.path = Front(y.path)
         /\ \A y \in Beneath(S, x) : Front(x.path) # y.path
<1>1. \A y \in S : y.path \in Path /\ y.path \in Seq(Name) /\ Len(y.path) \in Nat
  BY FrontIs DEF Table, Path
<1>2. ASSUME NEW y \in Beneath(S, x), NEW z \in S, Front(z.path) = y.path PROVE z \in Beneath(S, x)
  <2>1. isDescendantOf(z.path, y.path) /\ y \in S
    BY <1>1, <1>2, FrontIs DEF Beneath
  <2>2. y = x \/ isDescendantOf(y.path, x.path)
    BY DEF Beneath
  <2>3. isDescendantOf(z.path, x.path)
    BY <1>1, <2>1, <2>2, BelowBelow
  <2> QED
    BY <2>3 DEF Beneath
<1>3. ASSUME NEW y \in Beneath(S, x), Front(y.path) # x.path, y # x
      PROVE  \E z \in Beneath(S, x) : z.path = Front(y.path)
  <2> DEFINE f == Front(y.path)
             p == y.path
             a == x.path
  <2>1. y \in S /\ isDescendantOf(p, a)
    BY <1>3 DEF Beneath
  <2>2. /\ f \in Seq(Name) /\ Len(f) = Len(p) - 1 /\ Len(p) \in Nat
        /\ (\A i \in 1..(Len(p) - 1) : f[i] = p[i]) /\ isDescendantOf(p, f)
        /\ (Len(p) # 1 => f \in Path)
    BY <1>1, <2>1, FrontIs
  <2>3. p \in Path /\ p \in Seq(Name) /\ a \in Path /\ a \in Seq(Name)
    BY <1>1, <2>1
  <2>4. Len(a) < Len(p) /\ \A i \in 1..Len(a) : p[i] = a[i]
    BY <2>1, <2>3, Below
  <2>5. Len(a) >= 1 /\ Len(a) \in Nat
    BY <2>3, FrontIs
  <2> HIDE DEF f, p, a
  <2>6. \A i \in 1..Len(a) : f[i] = a[i]
    BY <2>2, <2>4, <2>5
  <2>7. Len(a) # Len(f)
    <3>1. Len(a) = Len(f) => a = f
      BY <2>2, <2>3, <2>6, SeqEqual
    <3> QED
      BY <1>3, <3>1 DEF f, a
  <2>8. Len(a) < Len(f) /\ f \in Path
    BY <2>2, <2>4, <2>5, <2>7
  <2>9. isDescendantOf(f, a)
    BY <2>2, <2>3, <2>6, <2>8, Below
  <2>10. f \in Ancestors(p)
    BY <2>2, <2>3, <2>8, AncestorsAre
  <2>11. PICK z \in S : z.path = f
    BY <2>1, <2>10 DEF Closed, At, p
  <2> QED
    BY <2>9, <2>11 DEF Beneath, f, a
<1>4. ASSUME NEW y \in Beneath(S, x) PROVE Front(x.path) # y.path
  <2>1. Len(Front(x.path)) = Len(x.path) - 1 /\ Len(x.path) \in Nat
    BY <1>1, FrontIs
  <2>2. y \in S /\ (y = x \/ isDescendantOf(y.path, x.path))
    BY DEF Beneath
  <2>3. isDescendantOf(y.path, x.path) => Len(x.path) < Len(y.path)
    BY <1>1, <2>2, Below
  <2> DEFINE a == Len(x.path)
             b == Len(y.path)
             c == Len(Front(x.path))
  <2>4. a \in Nat /\ b \in Nat /\ c = a - 1 /\ (b = a \/ a < b)
    BY <1>1, <2>1, <2>2, <2>3
  <2> HIDE DEF a, b, c
  <2>5. c # b
    BY <2>4
  <2> QED
    BY <2>5 DEF b, c
<1>5. x \in Beneath(S, x) /\ Beneath(S, x) \subseteq S
  BY DEF Beneath
<1> QED
  BY <1>2, <1>3, <1>4, <1>5 DEF Downward

(* The rows of a directory's subtree are the directory's and those below it. *)
LEMMA SubtreeRows ==
  ASSUME NEW S, Table(S), Closed(S), NEW x \in S
  PROVE  ToSet(flattenTree(<<nodeFor(S)[x]>>)) = Beneath(S, x)
<1> DEFINE n == nodeFor(S)[x]
           X == Beneath(S, x)
           s == <<n>>
<1>3. Downward(S, X) /\ x \in X /\ X \subseteq S
  BY BeneathIs DEF Downward
<1>4. /\ \A y \in X : Front(x.path) # y.path
      /\ \A y \in X : Front(y.path) # x.path => y = x \/ \E z \in X : z.path = Front(y.path)
  BY BeneathIs
<1>5. \A y \in X : Front(y.path) # y.path
  <2> SUFFICES ASSUME NEW y \in X PROVE Front(y.path) # y.path
    OBVIOUS
  <2>1. y.path \in Path
    BY <1>3 DEF Table
  <2>2. Len(Front(y.path)) = Len(y.path) - 1 /\ Len(y.path) \in Nat
    BY <2>1, FrontIs
  <2> QED
    BY <2>2
<1>6. \A y \in X : y \in {x} \/ \E z \in X : z.path = Front(y.path)
  BY <1>3, <1>4
<1>7. n \in NodesOver(S, X) /\ NodesOver(S, {x}) = {n}
  BY <1>3 DEF NodesOver
<1> HIDE DEF n, X, s
<1>8. s \in Seq(NodesOver(S, X)) /\ ToSet(s) = {n} /\ Distinct(s)
  BY <1>7, OneOf DEF s
<1>9. Nodes(s) \in Seq(NodesOver(S, X)) /\ Distinct(Nodes(s)) /\ ToSet(Nodes(s)) = NodesOver(S, X)
  <2> DEFINE R == {x}
  <2>1. /\ R \subseteq X /\ ToSet(s) = NodesOver(S, R)
        /\ \A y \in X : Front(y.path) # y.path /\ (y \in R => \A z \in X : Front(y.path) # z.path)
        /\ \A y \in X : y \in R \/ \E z \in X : z.path = Front(y.path)
    BY <1>3, <1>4, <1>5, <1>6, <1>7, <1>8
  <2> HIDE DEF R
  <2> QED
    BY <1>3, <1>8, <2>1, WalkedOver
<1>10. ToSet(flattenTree(s)) = X
  BY <1>3, <1>9, Flattened
<1> QED
  BY <1>10 DEF s, n, X

(* The ids a deletion takes from the browser's page: those of the node and  *)
(* of all that lies below it, or of a node that is not in the tree its own   *)
(* (subtreeIds, of the tree that buildTree made of a closed table).         *)
THEOREM SubtreeIs ==
  ASSUME NEW S, Table(S), Closed(S), NEW id
  PROVE  /\ \A x \in S : x.id = id => subtreeIds(buildTree(S), id) = Ids(Beneath(S, x))
         /\ id \notin Ids(S) => subtreeIds(buildTree(S), id) = {id}
<1> DEFINE found == {n \in ToSet(Nodes(buildTree(S))) : n.row.id = id}
<1>1. ToSet(Nodes(buildTree(S))) = NodesOver(S, S)
  BY TreeHasRows
<1>2. \A x \in S : nodeFor(S)[x].row = x
  BY NodeIs
<1>3. subtreeIds(buildTree(S), id)
        = IF found = {} THEN {id} ELSE Ids(ToSet(flattenTree(<<CHOOSE n \in found : TRUE>>)))
  BY DEF subtreeIds
<1>4. ASSUME id \notin Ids(S) PROVE found = {}
  BY <1>1, <1>2, <1>4 DEF NodesOver, Ids
<1>5. ASSUME NEW x \in S, x.id = id
      PROVE  subtreeIds(buildTree(S), id) = Ids(Beneath(S, x))
  <2> DEFINE n == nodeFor(S)[x]
             X == Beneath(S, x)
             s == <<n>>
  <2>1. found = {n}
    BY <1>1, <1>2, <1>5 DEF NodesOver, Table, Unique
  <2>2. (CHOOSE m \in found : TRUE) = n
    BY <2>1
  <2>10. ToSet(flattenTree(s)) = X
    BY SubtreeRows
  <2> HIDE DEF n
  <2> QED
    BY <1>3, <2>1, <2>2, <2>10 DEF s, X
<1> QED
  BY <1>3, <1>4, <1>5

(* A page with no tree has no rows.                                         *)
LEMMA NoTreeNoRows ==
  flattenTree(<< >>) = << >> /\ Nodes(<< >>) = << >>
<1>1. Grove({})
  BY FS_EmptySet DEF Grove
<1>2. << >> \in Seq({}) /\ Distinct(<< >>) /\ ToSet(<< >>) = {}
  BY NoElements DEF Distinct
<1>3. Planted({}, << >>)
  BY <1>2 DEF Planted
<1> DEFINE s == << >>
<1>4. Planted({}, s)
  BY <1>3
<1> HIDE DEF s
<1>5. Nodes(s) \in Seq({})
  BY <1>1, <1>4, NodesAre
<1>6. Nodes(s) = << >>
  BY <1>5
<1>7. Nodes(<< >>) = << >>
  BY <1>6 DEF s
<1>8. flattenTree(<< >>) = << >>
  BY <1>7 DEF flattenTree
<1> QED
  BY <1>7, <1>8
-----------------------------------------------------------------------------
(* A fold over a finite set, taken apart one chosen element at a time.       *)
Pick(s) == CHOOSE x \in s : TRUE
Folds(it, S, V, base, step) ==
  /\ it \in [SUBSET S -> V] /\ it[{}] = base
  /\ \A s \in SUBSET S : s # {} => it[s] = step[<<Pick(s), it[s \ {Pick(s)}]>>]

LEMMA Folding ==
  ASSUME NEW S, IsFiniteSet(S), NEW V, NEW base \in V, NEW step \in [S \X V -> V]
  PROVE  \E it : Folds(it, S, V, base, step)
<1> DEFINE Upto(k) == {s \in SUBSET S : Cardinality(s) <= k}
           Is(g, k) == /\ g \in [Upto(k) -> V] /\ g[{}] = base
                       /\ \A s \in Upto(k) : s # {} => g[s] = step[<<Pick(s), g[s \ {Pick(s)}]>>]
           T == {k \in Nat : \E g : Is(g, k)}
<1>1. ASSUME NEW s \in SUBSET S
      PROVE  /\ IsFiniteSet(s) /\ Cardinality(s) \in Nat /\ Cardinality(s) <= Cardinality(S)
             /\ (Cardinality(s) = 0 <=> s = {})
             /\ s # {} => /\ Pick(s) \in s /\ s \ {Pick(s)} \in SUBSET S
                          /\ Cardinality(s \ {Pick(s)}) = Cardinality(s) - 1
  <2>1. IsFiniteSet(s) /\ Cardinality(s) <= Cardinality(S)
    BY FS_Subset
  <2>2. Cardinality(s) \in Nat /\ (Cardinality(s) = 0 <=> s = {})
    BY <2>1, FS_CardinalityType, FS_EmptySet
  <2>3. s # {} => Pick(s) \in s
    BY DEF Pick
  <2>4. ASSUME s # {} PROVE Cardinality(s \ {Pick(s)}) = Cardinality(s) - 1
    <3> DEFINE x == Pick(s)
    <3>1. x \in s
      BY <2>3, <2>4
    <3> HIDE DEF x
    <3>2. Cardinality(s \ {x}) = Cardinality(s) - 1
      BY <2>1, <3>1, FS_RemoveElement, Zenon
    <3> QED
      BY <3>2 DEF x
  <2> QED
    BY <2>1, <2>2, <2>3, <2>4
<1>2. 0 \in T
  <2> DEFINE g == [s \in {{}} |-> base]
  <2>1. Upto(0) = {{}}
    <3>1. ASSUME NEW s \in Upto(0) PROVE s = {}
      <4>1. Cardinality(s) \in Nat /\ Cardinality(s) <= 0 /\ (Cardinality(s) = 0 <=> s = {})
        BY <1>1
      <4> QED
        BY <4>1
    <3>2. {} \in Upto(0)
      <4>1. Cardinality({}) = 0
        BY FS_EmptySet, Zenon
      <4> QED
        BY <4>1
    <3> HIDE DEF Upto
    <3> QED
      BY <3>1, <3>2
  <2>2. g \in [{{}} -> V] /\ g[{}] = base
    OBVIOUS
  <2>3. Is(g, 0)
    <3> HIDE DEF g
    <3> QED
      BY <2>1, <2>2
  <2> HIDE DEF Is
  <2> QED
    BY <2>3
<1>3. ASSUME NEW k \in Nat, k \in T PROVE k + 1 \in T
  <2>1. PICK g : Is(g, k)
    BY <1>3
  <2> DEFINE Next(s) == step[<<Pick(s), g[s \ {Pick(s)}]>>]
             h == [s \in Upto(k + 1) |-> IF s = {} THEN base ELSE Next(s)]
  <2>2. ASSUME NEW s \in Upto(k + 1), s # {}
        PROVE  s \ {Pick(s)} \in Upto(k) /\ g[s \ {Pick(s)}] \in V /\ Pick(s) \in S
    <3>1. /\ s \in SUBSET S /\ Pick(s) \in s /\ s \ {Pick(s)} \in SUBSET S
          /\ Cardinality(s \ {Pick(s)}) = Cardinality(s) - 1 /\ Cardinality(s) <= k + 1
          /\ Cardinality(s) \in Nat
      BY <1>1, <2>2
    <3>2. Cardinality(s \ {Pick(s)}) <= k
      BY <3>1
    <3> QED
      BY <2>1, <3>1, <3>2
  <2>3. ASSUME NEW s \in Upto(k + 1), s # {} PROVE Next(s) \in V
    BY <2>2, <2>3
  <2>4. {} \in Upto(k) /\ {} \in Upto(k + 1)
    <3>1. Cardinality({}) = 0
      BY FS_EmptySet, Zenon
    <3> QED
      BY <3>1
  <2>5. h \in [Upto(k + 1) -> V] /\ h[{}] = base
    <3> HIDE DEF Next, Upto
    <3> QED
      BY <2>3, <2>4
  <2>6. ASSUME NEW s \in Upto(k), s \in Upto(k + 1) PROVE h[s] = g[s]
    <3>1. s # {} => g[s] = Next(s)
      BY <2>1
    <3>2. g[{}] = base
      BY <2>1
    <3> HIDE DEF Next, Upto, Is
    <3> QED
      BY <2>6, <3>1, <3>2
  <2>7. ASSUME NEW s \in Upto(k + 1), s # {} PROVE h[s] = step[<<Pick(s), h[s \ {Pick(s)}]>>]
    <3>1. s \ {Pick(s)} \in Upto(k)
      BY <2>2, <2>7
    <3>2. s \ {Pick(s)} \in Upto(k + 1)
      <4>1. s \ {Pick(s)} \in SUBSET S /\ Cardinality(s \ {Pick(s)}) <= k
        BY <3>1
      <4>2. Cardinality(s \ {Pick(s)}) \in Nat
        BY <1>1, <4>1
      <4> QED
        BY <4>1, <4>2
    <3>3. h[s \ {Pick(s)}] = g[s \ {Pick(s)}]
      <4> HIDE DEF h, Upto
      <4> QED
        BY <2>6, <3>1, <3>2
    <3>4. h[s] = Next(s)
      <4> HIDE DEF Next, Upto
      <4> QED
        BY <2>7
    <3> HIDE DEF h
    <3> QED
      BY <3>3, <3>4
  <2>8. Is(h, k + 1)
    <3> HIDE DEF h, Upto
    <3> QED
      BY <2>5, <2>7
  <2> HIDE DEF Is
  <2> QED
    BY <2>8
<1> HIDE DEF T
<1>4. \A k \in Nat : k \in T
  BY <1>2, <1>3, SetInduction
<1>5. Upto(Cardinality(S)) = SUBSET S /\ Cardinality(S) \in Nat
  BY <1>1
<1>6. PICK g : Is(g, Cardinality(S))
  BY <1>4, <1>5 DEF T
<1>7. Folds(g, S, V, base, step)
  <2> HIDE DEF Upto
  <2> QED
    BY <1>5, <1>6 DEF Folds
<1> QED
  BY <1>7

LEMMA MaxIs ==
  ASSUME NEW S, IsFiniteSet(S), S # {}, S \subseteq Nat
  PROVE  Max(S) \in S /\ \A y \in S : y <= Max(S)
<1> DEFINE T == {U \in SUBSET S : U = {} \/ \E x \in U : \A y \in U : x >= y}
<1>1. {} \in T
  OBVIOUS
<1>2. ASSUME NEW U \in SUBSET S, NEW z \in S \ U, U \in T PROVE U \cup {z} \in T
  <2>1. CASE U = {}
    BY <2>1
  <2>2. CASE \E x \in U : \A y \in U : x >= y
    <3>1. PICK x \in U : \A y \in U : x >= y
      BY <2>2
    <3>2. CASE z >= x
      <4>1. \A y \in U \cup {z} : z >= y
        BY <3>1, <3>2
      <4> QED
        BY <4>1
    <3>3. CASE ~(z >= x)
      <4>1. \A y \in U \cup {z} : x >= y
        BY <3>1, <3>3
      <4> QED
        BY <4>1
    <3> QED
      BY <3>2, <3>3
  <2> QED
    BY <1>2, <2>1, <2>2
<1> HIDE DEF T
<1>3. S \in T
  BY <1>1, <1>2, FiniteInduction
<1>4. \E x \in S : \A y \in S : x >= y
  BY <1>3 DEF T
<1>5. Max(S) \in S /\ \A y \in S : Max(S) >= y
  <2> DEFINE m == Max(S)
  <2>1. m = CHOOSE x \in S : \A y \in S : x >= y
    BY DEF Max
  <2> HIDE DEF m
  <2> QED
    BY <1>4, <2>1 DEF m
<1> QED
  BY <1>5

LEMMA MinIs ==
  ASSUME NEW S, S # {}, S \subseteq Nat
  PROVE  Min(S) \in S /\ \A y \in S : Min(S) <= y
<1>1. \E x \in S : \A y \in S : x <= y
  BY Least
<1> DEFINE m == Min(S)
<1>2. m = CHOOSE x \in S : \A y \in S : x <= y
  BY DEF Min
<1> HIDE DEF m
<1>3. m \in S /\ \A y \in S : m <= y
  BY <1>1, <1>2
<1> QED
  BY <1>3 DEF m

LEMMA MaxOfTwo ==
  ASSUME NEW a \in Nat, NEW b \in Nat
  PROVE  /\ Max({a, b}) \in {a, b} /\ Max({a, b}) >= a /\ Max({a, b}) >= b
         /\ Min({a, b}) \in {a, b} /\ Min({a, b}) <= a /\ Min({a, b}) <= b
<1> DEFINE S == {a, b}
<1>1. IsFiniteSet(S)
  <2>1. IsFiniteSet({}) /\ S = ({} \cup {a}) \cup {b}
    BY FS_EmptySet
  <2>2. IsFiniteSet({} \cup {a})
    BY <2>1, FS_AddElement
  <2>3. IsFiniteSet(({} \cup {a}) \cup {b})
    BY <2>2, FS_AddElement
  <2> QED
    BY <2>1, <2>3
<1>2. S # {} /\ S \subseteq Nat /\ a \in S /\ b \in S
  OBVIOUS
<1> HIDE DEF S
<1>3. Max(S) \in S /\ Max(S) >= a /\ Max(S) >= b
  BY <1>1, <1>2, MaxIs
<1>4. Min(S) \in S /\ Min(S) <= a /\ Min(S) <= b
  BY <1>2, MinIs
<1> QED
  BY <1>3, <1>4 DEF S
===============================================================================
