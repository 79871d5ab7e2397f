-------------------------------- MODULE Match --------------------------------
(***************************************************************************)
(* How a search matches (features/search/match.ts) and draws its matches   *)
(* (Highlight.tsx), on strings that are sequences of characters.           *)
(* Positions count from 1 and 0 is "nowhere"; a range is its first and its *)
(* last position.                                                          *)
(***************************************************************************)
EXTENDS Trees

CONSTANTS
  Lower,               \* of a character: the characters it is in lower case,
                       \* one or, for a few letters, more
  Slash, Newline, Space, Dot, Nul, Ellipsis,
  IGNORED_SEGMENTS,    \* names never searched
  BINARY_EXTENSIONS,
  MAX_SEARCHABLE_BYTES,
  BINARY_HEAD,         \* characters that are looked at for a NUL
  SNIPPET_BEFORE, SNIPPET_AFTER

Char == DOMAIN Lower

ASSUME MatchAssumption ==
  /\ {MAX_SEARCHABLE_BYTES, BINARY_HEAD, SNIPPET_BEFORE, SNIPPET_AFTER} \subseteq Nat
  /\ {Slash, Newline, Space} \subseteq Char /\ Name \subseteq Seq(Char)
  /\ \A c \in Char : Lower[c] \in Seq(Char) \ {<< >>}
  /\ \A white \in {Newline, Space} :  \* is no letter, nor part of one
       Lower[white] = <<white>> /\ \A c \in Char : white \in ToSet(Lower[c]) => c = white

NoMatch == [score |-> 0, ranges |-> << >>]

toLowerCase(s) == FlattenSeq([i \in DOMAIN s |-> Lower[s[i]]])
indexOf(s, part, from) ==
  LET places == {i \in from..(Len(s) - Len(part) + 1) : SubSeq(s, i, i + Len(part) - 1) = part} IN
  IF places = {} THEN 0 ELSE Min(places)
lastIndexOf(s, c) == Max({0} \cup {i \in DOMAIN s : s[i] = c})
trim(s) ==
  LET ink == {i \in DOMAIN s : s[i] # Space} IN
  IF ink = {} THEN << >> ELSE SubSeq(s, Min(ink), Max(ink))

(* A path of names as the text that is drawn and searched.                  *)
Text(path) ==
  LET text[k \in 1..Len(path)] ==
        IF k = 1 THEN path[1] ELSE text[k - 1] \o <<Slash>> \o path[k]
  IN text[Len(path)]

extensionOf(name) ==
  LET dot == lastIndexOf(name, Dot) IN
  IF dot <= 1 THEN << >> ELSE toLowerCase(SubSeq(name, dot + 1, Len(name)))
isContentSearchable(path) ==
  ToSet(path) \cap IGNORED_SEGMENTS = {} /\ extensionOf(Last(path)) \notin BINARY_EXTENSIONS

looksBinary(content) == Nul \in ToSet(SubSeq(content, 1, Min({BINARY_HEAD, Len(content)})))
-----------------------------------------------------------------------------
(* The query's characters one after another from a position on, each at the  *)
(* first place there is; neighbours share a range.                           *)
Extended(ranges, found) ==
  IF ranges # << >> /\ Last(ranges).last = found - 1
  THEN [ranges EXCEPT ![Len(ranges)].last = found]
  ELSE Append(ranges, [first |-> found, last |-> found])

FollowedInPlace(haystack, so, char) ==
  LET found == indexOf(haystack, <<char>>, so.cursor) IN
  IF ~so.ok \/ found = 0 THEN [so EXCEPT !.ok = FALSE]
  ELSE [so EXCEPT !.cursor = found, !.ranges = Extended(@, found)]

Followed(haystack, so, char) ==
  LET found == indexOf(haystack, <<char>>, so.cursor) IN
  IF ~so.ok \/ found = 0 THEN [so EXCEPT !.ok = FALSE]
  ELSE [so EXCEPT !.cursor = found + 1, !.ranges = Extended(@, found)]

subsequenceRanges(haystack, needle, from, base) ==
  LET walk[k \in 0..Len(needle)] ==
        IF k = 0 THEN [ok |-> TRUE, cursor |-> from, ranges |-> << >>]
        ELSE Followed(haystack, walk[k - 1], needle[k])
      end == walk[Len(needle)]
  IN IF ~end.ok THEN NoMatch
     ELSE [score |-> base + end.cursor - Head(end.ranges).first - Len(needle),
           ranges |-> end.ranges]

(* The whole query in one place, else in pieces in the name, else anywhere.  *)
Contiguous(direct, nameStart, length) ==
  [score |-> direct - 1 + (IF direct < nameStart THEN 300 ELSE IF direct = nameStart THEN 0 ELSE 100),
   ranges |-> <<[first |-> direct, last |-> direct + length - 1]>>]

matchPath(path, query) ==
  LET haystack == toLowerCase(path)
      needle == toLowerCase(query)
      nameStart == lastIndexOf(path, Slash) + 1
      direct == indexOf(haystack, needle, 1)
      inName == subsequenceRanges(haystack, needle, nameStart, 1000)
  IN IF query = << >> THEN NoMatch
     ELSE IF direct # 0 THEN Contiguous(direct, nameStart, Len(needle))
     ELSE IF inName # NoMatch THEN inName
     ELSE subsequenceRanges(haystack, needle, 1, 2000)
-----------------------------------------------------------------------------
LineStart(content, found) ==
  Max({0} \cup {i \in DOMAIN content : i < found /\ content[i] = Newline}) + 1
LineEnd(content, found) ==
  LET end == indexOf(content, <<Newline>>, found) IN IF end = 0 THEN Len(content) + 1 ELSE end

(* A line clipped around the match and freed of its indentation.            *)
Indent(raw) ==
  LET ink == {i \in DOMAIN raw : raw[i] # Space} IN IF ink = {} THEN Len(raw) ELSE Min(ink) - 1

MarkStart(prefix, column, from) == Len(prefix) + (column - from)

Snippet(raw, column, length) ==
  LET from == Max({Indent(raw), column - SNIPPET_BEFORE})
      to == Min({Len(raw), column + length + SNIPPET_AFTER})
      prefix == IF from > Indent(raw) THEN <<Ellipsis>> ELSE << >>
      suffix == IF to < Len(raw) THEN <<Ellipsis>> ELSE << >>
      start == MarkStart(prefix, column, from)
  IN [text |-> prefix \o SubSeq(raw, from + 1, to) \o suffix,
      range |-> [first |-> start + 1, last |-> start + length]]

LineHit(content, found, length) ==
  LET start == LineStart(content, found) IN
  [line |-> 1 + Cardinality({i \in DOMAIN content : i < found /\ content[i] = Newline}),
   offset |-> found,
   snippet |-> Snippet(SubSeq(content, start, LineEnd(content, found) - 1), found - start, length)]

(* The first match of each line, up to the limit; the search goes on after   *)
(* the line the match is on.                                                *)
matchContent(content, query, limit) ==
  LET haystack == toLowerCase(content)
      needle == toLowerCase(query)
      from[left \in 0..limit] == [cursor \in Nat |->
        LET found == indexOf(haystack, needle, cursor) IN
        IF left = 0 \/ found = 0 THEN << >>
        ELSE <<LineHit(content, found, Len(needle))>>
               \o from[left - 1][LineEnd(content, found) + 1]]
  IN IF query = << >> THEN << >> ELSE from[limit][1]
-----------------------------------------------------------------------------
(* A text in pieces, marked and not; a range that is out of order or ends    *)
(* beyond the text is skipped.                                              *)
Piece(text, marked) == IF text = << >> THEN << >> ELSE <<[text |-> text, marked |-> marked]>>

Drawn(text, so, r) ==
  IF r.first < so.cursor \/ r.last > Len(text) THEN so
  ELSE [cursor |-> r.last + 1,
        parts |-> so.parts \o Piece(SubSeq(text, so.cursor, r.first - 1), FALSE)
                           \o Piece(SubSeq(text, r.first, r.last), TRUE)]

Highlight(text, ranges) ==
  LET so[k \in 0..Len(ranges)] ==
        IF k = 0 THEN [cursor |-> 1, parts |-> << >>] ELSE Drawn(text, so[k - 1], ranges[k])
      end == so[Len(ranges)]
  IN end.parts \o Piece(SubSeq(text, end.cursor, Len(text)), FALSE)
=============================================================================
