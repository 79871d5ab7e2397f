-------------------------------- MODULE Paths --------------------------------
(***************************************************************************)
(* Paths of a project (modules/files/paths.ts), as sequences of names, and *)
(* sets of rows that have one.                                             *)
(***************************************************************************)
EXTENDS Naturals, FiniteSets, Sequences, SequencesExt

CONSTANT Name  \* names of files and directories

Path == Seq(Name) \ {<< >>}
Row == [id : Nat \ {0}, path : Path, isDir : BOOLEAN]

(* Every ancestor of a path, and what a prefix test with a trailing slash    *)
(* comes to.                                                                 *)
Ancestors(p) == {SubSeq(p, 1, k) : k \in 1..(Len(p) - 1)}
isDescendantOf(p, dir) == IsStrictPrefix(dir, p)
replacePathPrefix(p, from, to) == to \o SubSeq(p, Len(from) + 1, Len(p))

Ids(S) == {x.id : x \in S}
Paths(S) == {x.path : x \in S}
At(S, p) == {x \in S : x.path = p}
RowOf(S, id) == CHOOSE x \in S : x.id = id

(* What the database sees to, and what every change keeps up.               *)
Unique(S) == \A x, y \in S : x.id = y.id \/ x.path = y.path => x = y
Closed(S) == \A x \in S : \A p \in Ancestors(x.path) : \E d \in At(S, p) : d.isDir
Tidy(S) == Unique(S) /\ Closed(S)
=============================================================================
