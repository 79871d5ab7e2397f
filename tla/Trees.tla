-------------------------------- MODULE Trees --------------------------------
(***************************************************************************)
(* The nested tree that GET /files answers with (buildTree in              *)
(* modules/files/service.ts), and what the browser reads off it.  A node   *)
(* is a row and its children; nothing but directories-first is said here   *)
(* of the order of siblings, which is one fixed order everywhere.          *)
(***************************************************************************)
EXTENDS Paths, TLC

Sorted(S) == SetToSeq({x \in S : x.isDir}) \o SetToSeq({x \in S : ~x.isDir})

(* The node of every row.                                                   *)
Siblings(S, path) == Sorted({y \in S : Front(y.path) = path})
nodeFor(S) ==
  LET node[x \in S] ==
        [row |-> x, children |-> LET below == Siblings(S, x.path) IN
                                 [i \in DOMAIN below |-> node[below[i]]]]
  IN node

(* A row whose parent has no row is a root.                                 *)
Roots(S) == {x \in S : Len(x.path) = 1 \/ At(S, Front(x.path)) = {}}
buildTree(S) ==
  LET roots == Sorted(Roots(S)) IN [i \in DOMAIN roots |-> nodeFor(S)[roots[i]]]

(* Every node, depth first: todo is the stack of those still to be visited.  *)
Walked(tree) ==
  LET walk[k \in Nat] ==
        IF k = 0 THEN [out |-> << >>, todo |-> tree]
        ELSE LET now == walk[k - 1] IN
             IF now.todo = << >> THEN now
             ELSE [out |-> Append(now.out, Head(now.todo)),
                   todo |-> Head(now.todo).children \o Tail(now.todo)]
  IN walk
Nodes(tree) ==
  LET walk == Walked(tree)
      from[k \in Nat] == IF walk[k].todo = << >> THEN walk[k].out ELSE from[k + 1]
  IN from[0]

flattenTree(tree) == LET all == Nodes(tree) IN [i \in DOMAIN all |-> all[i].row]

directoryPaths(tree) == {x.path : x \in {x \in ToSet(flattenTree(tree)) : x.isDir}}

(* The ids a deletion takes; of a node that is not in the tree, its own.    *)
subtreeIds(tree, id) ==
  LET found == {n \in ToSet(Nodes(tree)) : n.row.id = id} IN
  IF found = {} THEN {id} ELSE Ids(ToSet(flattenTree(<<CHOOSE n \in found : TRUE>>)))

(* The directories to open so that a path can be seen.                      *)
ancestorPaths(path) == Ancestors(path)
=============================================================================
