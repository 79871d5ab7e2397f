------------------------------ MODULE SearchHits ------------------------------
(***************************************************************************)
(* What the palette, the sidebar's filter and the highlights show is what  *)
(* was typed, where it is: Search, with the filter given the same text.    *)
(***************************************************************************)
EXTENDS Search, Filter

(* What is typed is found exactly where it is.  A path is listed, and once,  *)
(* when the characters of the query come in it in that order, and what is    *)
(* marked spells the query, if the path is as long in lower case; the        *)
(* sidebar's filter, were it given the same text, keeps the nodes whose name *)
(* matches, what is in a directory that does, and the way to them, and draws *)
(* all that, whichever folders were open.                                   *)
Whole(parts) == FlattenSeq([i \in DOMAIN parts |-> parts[i].text])
Marked(text, ranges) ==
  LET parts == Highlight(text, ranges) IN
  FlattenSeq([i \in DOMAIN parts |-> IF parts[i].marked THEN parts[i].text ELSE << >>])
ComesIn(q, text) ==
  \E f \in [DOMAIN q -> DOMAIN text] :
    \A i \in DOMAIN q : text[f[i]] = q[i] /\ \A j \in 1..(i - 1) : f[j] < f[i]
Even(text) == Len(toLowerCase(text)) = Len(text)
PathsMatch ==
  LET q == toLowerCase(trim(query)) IN
  \A n \in ToSet(flattenTree(tree)) :
    LET text == Text(n.path)
        listed == {i \in DOMAIN names : names[i].node = n}
    IN /\ listed # {} <=> q # << >> /\ ComesIn(q, toLowerCase(text))
       /\ \A i, j \in listed : i = j
       /\ Even(text) =>
            \A i \in listed : toLowerCase(Marked(text, names[i].match.ranges)) = q
FilterKeepsTheWay ==
  LET nodes == flattenTree(tree)
      named == {n \in ToSet(nodes) : matchPath(Last(n.path), trim(query)) # NoMatch}
      kept == {n \in ToSet(nodes) :
                 \E o \in named :
                   o = n \/ isDescendantOf(o.path, n.path) \/ isDescendantOf(n.path, o.path)}
      filtered == filterTree(tree, query)
  IN /\ flattenTree(filtered) = IF trim(query) = << >> THEN nodes ELSE Among(nodes, kept)
     /\ trim(query) # << >> =>
          TreeRows(filtered, effectiveExpanded(tree, query, {})) = flattenTree(filtered)

NamesMatch == PathsMatch /\ FilterKeepsTheWay

(* A line that is listed shows the query: the marked part of its snippet     *)
(* spells it, and the place the editor is sent to is on the line that is     *)
(* named; no line is listed twice.  Not so in a text with a letter that is   *)
(* longer in lower case: positions are found in one and used in the other.   *)
LineOf(text, place) == 1 + Cardinality({i \in DOMAIN text : i < place /\ text[i] = Newline})
Spelled(hit, text) ==
  LET shown == hit.match.snippet
      place == hit.match.offset
  IN /\ toLowerCase(Marked(shown.text, <<shown.range>>)) = toLowerCase(hit.for)
     /\ toLowerCase(SubSeq(text, place, place + Len(toLowerCase(hit.for)) - 1)) = toLowerCase(hit.for)
     /\ LineOf(text, place) = hit.match.line
SnippetsShowTheQuery ==
  \A i, j \in DOMAIN result.contents :
    LET hit == result.contents[i]
        other == result.contents[j]
        even == {v \in DOMAIN Contents[hit.node.id] : Even(Contents[hit.node.id][v])}
    IN even = DOMAIN Contents[hit.node.id] =>
         /\ \E v \in even : Spelled(hit, Contents[hit.node.id][v])
         /\ hit.node.id = other.node.id /\ hit.match.line = other.match.line => i = j

(* Whatever range a match comes with, drawing it loses no character of the   *)
(* text and repeats none (Highlight.tsx:13).                                 *)
DrawnWhole ==
  /\ \A i \in DOMAIN names :
       LET text == Text(names[i].node.path) IN Whole(Highlight(text, names[i].match.ranges)) = text
  /\ \A i \in DOMAIN result.contents :
       LET shown == result.contents[i].match.snippet IN
       Whole(Highlight(shown.text, <<shown.range>>)) = shown.text

(* All of it: what a search lists, the sidebar's filter keeps and the        *)
(* highlights mark is what was typed, where it is.                           *)
HitsAreGenuine == NamesMatch /\ SnippetsShowTheQuery /\ DrawnWhole
=============================================================================
