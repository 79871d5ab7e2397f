-------------------------------- MODULE Filter --------------------------------
(***************************************************************************)
(* The sidebar's filter: the nodes it keeps (filterTree in                 *)
(* features/search/match.ts), and the rows that FileTree.tsx draws.        *)
(***************************************************************************)
EXTENDS Match

(* The nodes whose name matches: a directory with all it has, and the        *)
(* directories on the way to what is kept.                                   *)
Filtered(nodes, query) ==
  LET walk[n \in ToSet(Nodes(nodes))] ==
        LET children == FlattenSeq([i \in DOMAIN n.children |-> walk[n.children[i]]]) IN
        IF matchPath(Last(n.row.path), query) # NoMatch THEN <<n>>
        ELSE IF n.row.isDir /\ children # << >> THEN <<[n EXCEPT !.children = children]>>
        ELSE << >>
  IN FlattenSeq([i \in DOMAIN nodes |-> walk[nodes[i]]])

filterTree(tree, query) == IF trim(query) = << >> THEN tree ELSE Filtered(tree, trim(query))

(* The rows the sidebar draws: what is in folders that are open.  A filter   *)
(* opens every folder it keeps.                                             *)
effectiveExpanded(tree, query, expanded) ==
  IF trim(query) = << >> THEN expanded ELSE expanded \cup directoryPaths(filterTree(tree, query))

TreeRows(nodes, expanded) ==
  LET drawn[n \in ToSet(Nodes(nodes))] ==
        <<n.row>> \o (IF n.row.isDir /\ n.row.path \in expanded
                      THEN FlattenSeq([i \in DOMAIN n.children |-> drawn[n.children[i]]])
                      ELSE << >>)
  IN FlattenSeq([i \in DOMAIN nodes |-> drawn[nodes[i]]])
=============================================================================
