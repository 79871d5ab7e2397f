-------------------------------- MODULE Search --------------------------------
(***************************************************************************)
(* The search palette (SearchPalette.tsx, useProjectSearch.ts): names are  *)
(* matched at every keystroke against the tree the page has, contents      *)
(* after a pause, by a few workers that read the files one GET at a time   *)
(* and stop when the query they are for is gone.                           *)
(*                                                                         *)
(* An action is an event, the commit it causes and its effects.  A file is *)
(* read when its GET is answered.  The project changes at the server, and  *)
(* the page's tree is fetched anew, when others or an own change under way *)
(* cause it.                                                               *)
(***************************************************************************)
EXTENDS Match, OpenFiles

CONSTANTS
  Start,                  \* rows of the project at first
  Contents,               \* of each file: its successive texts
  Typeable,               \* characters that are typed
  CONCURRENCY,            \* workers
  NULL,                   \* a file that could not be read
  MAX_FILES_SCANNED, MAX_MATCHES_PER_FILE, MAX_CONTENT_MATCHES, MIN_CONTENT_QUERY,
  MAX_FILE_ROWS,
  MaxLength,              \* of a query
  MaxKeys,                \* keystrokes and moves of the selection
  MaxEdits, MaxFetches,   \* of each
  MaxTroubles,            \* files deleted and reads that fail
  MaxOpenings

FileRows == [id : Nat \ {0}, path : Path, isDir : BOOLEAN, ver : Nat \ {0}]

ASSUME SearchAssumption ==
  /\ {CONCURRENCY, MAX_FILES_SCANNED, MAX_MATCHES_PER_FILE, MAX_CONTENT_MATCHES,
      MIN_CONTENT_QUERY, MAX_FILE_ROWS} \subseteq Nat \ {0}
  /\ {MaxLength, MaxKeys, MaxEdits, MaxFetches, MaxTroubles,
      MaxOpenings} \subseteq Nat
  /\ IsFiniteSet(Start) /\ Start \subseteq FileRows /\ Tidy(Start)
  /\ \A x \in Start : ~x.isDir => x.ver \in DOMAIN Contents[x.id]
  /\ \A x \in Start : ~x.isDir => Contents[x.id] \in Seq(Seq(Char))
  /\ Typeable \subseteq Char \ {Newline} /\ NULL \notin Seq(Char)

VARIABLES
  files,      \* the rows at the server, with the number of the text a file has
  tree,       \* the page's tree; << >> when it could not be fetched
  recentIds,  \* of the page
  palette,    \* "closed", or the mode it is open in: "all", "files"
  query, debounced, selected,
  names,      \* the nodes whose path matches the query
  scan,       \* what the content search's effect is doing
  stray,      \* workers of cancelled scans with a GET under way: [node, for]
  cache,      \* texts read: [id, ver, text], ver the tree's
  result,     \* what the hook has published
  left        \* how much of each bound is left

vars == <<files, tree, recentIds, palette, query, debounced, selected, names, scan, stray,
          cache, result, left>>

Worker == 1..CONCURRENCY
FileIds == {x.id : x \in {x \in Start : ~x.isDir}}
TextOf(x) == Contents[x.id][x.ver]
Listed(nodes) == {[id |-> nodes[i].id, path |-> nodes[i].path] : i \in DOMAIN nodes}
-----------------------------------------------------------------------------
(* Name matching, best first, the shorter path where scores are equal.      *)
Better(a, b) ==
  \/ a.match.score < b.match.score
  \/ a.match.score = b.match.score /\ Len(Text(a.node.path)) < Len(Text(b.node.path))

searchNames(nodes, text) ==
  LET hits == {[at |-> i, node |-> nodes[i], match |-> matchPath(Text(nodes[i].path), text)] :
                 i \in DOMAIN nodes}
      found == {h \in hits : h.match # NoMatch}
      before(g, h) == Better(g, h) \/ (~Better(h, g) /\ g.at < h.at)
      rank(h) == Cardinality({g \in found : before(g, h)})
  IN [k \in 1..Cardinality(found) |-> CHOOSE h \in found : rank(h) = k - 1]

(* The rows: what was opened lately while nothing is typed, else names, then *)
(* lines.                                                                   *)
FileRow(id) == [kind |-> "file", id |-> id, at |-> 0]
LineRow(hit) == [kind |-> "content", id |-> hit.node.id, at |-> hit.match.offset]

Recent(t) ==
  LET nodes == flattenTree(t)
      here == Among(recentIds, {nodes[i].id : i \in DOMAIN nodes})
  IN [i \in DOMAIN here |-> FileRow(here[i])]

NameRows(hits) == [i \in 1..Min({MAX_FILE_ROWS, Len(hits)}) |-> FileRow(hits[i].node.id)]
LineRows(res) == [i \in DOMAIN res.contents |-> LineRow(res.contents[i])]

LinesFirst(t, q, hits, res) ==
  IF trim(q) = << >> THEN Recent(t) ELSE LineRows(res) \o NameRows(hits)

rowsOf(t, q, hits, res) ==
  IF trim(q) = << >> THEN Recent(t) ELSE NameRows(hits) \o LineRows(res)

rows == rowsOf(tree, query, names, result)
-----------------------------------------------------------------------------
Idle == [contents |-> << >>, contentState |-> "idle", scanned |-> 0, total |-> 0, skipped |-> 0,
         partial |-> FALSE, capped |-> FALSE, error |-> FALSE]
NoRead == [node |-> NULL, how |-> "none", text |-> NULL]
NoScan == [on |-> FALSE, query |-> << >>, targets |-> << >>, cursor |-> 1, scanned |-> 0,
           skipped |-> 0, partial |-> FALSE, hits |-> << >>, capped |-> FALSE, error |-> FALSE,
           reading |-> [w \in Worker |-> NoRead]]

Wanted(mode, text) == mode = "all" /\ Len(trim(text)) >= MIN_CONTENT_QUERY

(* read(): from the cache, or a GET.  A text is cached under the version the *)
(* tree gives of its file.                                                  *)
CachedById(node) == {c \in cache : c.id = node.id}
Cached(node) == {c \in cache : c.id = node.id /\ c.ver = node.ver}
Asked(node) ==
  IF Cached(node) = {} THEN [node |-> node, how |-> "asked", text |-> NULL]
  ELSE [node |-> node, how |-> "cached", text |-> (CHOOSE c \in Cached(node) : TRUE).text]
Key(node) == [id |-> node.id, ver |-> node.ver]
AskedReads(s) == {[node |-> s.reading[w].node, for |-> s.query] :
                    w \in {w \in Worker : s.reading[w].how = "asked"}}

(* A worker at the top of its loop takes the next target, or returns.       *)
Takes(s, w) ==
  IF s.capped \/ s.cursor > Len(s.targets) THEN [s EXCEPT !.reading[w] = NoRead]
  ELSE [s EXCEPT !.cursor = @ + 1, !.reading[w] = Asked(s.targets[s.cursor])]

Returned(s) == \A w \in Worker : s.reading[w] = NoRead

Published(s, contentState) ==
  [contents |-> SubSeq(s.hits, 1, Min({MAX_CONTENT_MATCHES, Len(s.hits)})),
   contentState |-> contentState, scanned |-> s.scanned, total |-> Len(s.targets),
   skipped |-> s.skipped, partial |-> s.partial, capped |-> s.capped, error |-> s.error]

(* The effect: the workers are started, one after another.                  *)
Started(text, nodes) ==
  LET candidates == Among(nodes, {n \in ToSet(nodes) : ~n.isDir /\ isContentSearchable(n.path)})
      targets == SubSeq(candidates, 1, Min({MAX_FILES_SCANNED, Len(candidates)}))
      over == Len(candidates) - Len(targets)
  IN [NoScan EXCEPT !.on = TRUE, !.query = trim(text), !.targets = targets,
                    !.cursor = Min({CONCURRENCY, Len(targets)}) + 1,
                    !.skipped = over, !.partial = over > 0,
                    !.reading = [w \in Worker |-> IF w > Len(targets) THEN NoRead
                                                  ELSE Asked(targets[w])]]

(* The commit of whatever has changed.  The content search is restarted when *)
(* the text it is for, or the files there are, or the mode, has; the         *)
(* selection goes to the first row with a new query and is kept among the    *)
(* rows.                                                                    *)
Restarts ==
  \/ trim(debounced') # trim(debounced) \/ Wanted(palette', debounced') # Wanted(palette, debounced)
  \/ tree' # tree /\ Listed(flattenTree(tree')) # Listed(flattenTree(tree))

ContentSearch ==
  IF ~Restarts THEN UNCHANGED <<scan, stray, result>>
  ELSE /\ stray' = IF scan.on THEN stray \cup AskedReads(scan) ELSE stray
       /\ IF Wanted(palette', debounced')
          THEN /\ scan' = Started(debounced', flattenTree(tree'))
               /\ result' = Published(scan', IF Returned(scan') THEN "done" ELSE "searching")
          ELSE scan' = NoScan /\ result' = Idle

Selects(n) ==
  LET now == Len(rowsOf(tree', query', names', result'))
      aimed == IF trim(query') # trim(query) THEN 0 ELSE n
  IN selected' = IF now # Len(rows) /\ aimed >= now THEN Max({0, now - 1}) ELSE aimed

Commit ==
  /\ names' = IF query' = query /\ tree' = tree THEN names
              ELSE searchNames(flattenTree(tree'), trim(query'))
  /\ ContentSearch /\ Selects(selected) /\ UNCHANGED <<recentIds, cache>>
-----------------------------------------------------------------------------
Init ==
  /\ files = Start /\ tree = buildTree(Start) /\ recentIds = << >>
  /\ palette = "closed" /\ query = << >> /\ debounced = << >> /\ selected = 0 /\ names = << >>
  /\ scan = NoScan /\ stray = {} /\ cache = {} /\ result = Idle
  /\ left = [keys |-> MaxKeys, edits |-> MaxEdits, fetches |-> MaxFetches,
             troubles |-> MaxTroubles, openings |-> MaxOpenings]

Spend(what) == left[what] > 0 /\ left' = [left EXCEPT ![what] = @ - 1]

(* Ctrl+K and Ctrl+P open the palette, and change the mode of an open one.  *)
Open(mode) ==
  /\ palette = "closed" /\ Spend("openings") /\ palette' = mode
  /\ UNCHANGED <<files, tree, recentIds, query, debounced, selected, names, scan, stray, cache, result>>

SwitchMode(mode) ==
  /\ palette # "closed" /\ palette # mode /\ Spend("keys") /\ palette' = mode
  /\ UNCHANGED <<files, tree, query, debounced>>
  /\ Commit

(* onClose unmounts it: its scan is cancelled, its cache dropped.           *)
Closes ==
  /\ palette' = "closed"
  /\ query' = << >> /\ debounced' = << >> /\ selected' = 0 /\ names' = << >>
  /\ scan' = NoScan /\ stray' = {} /\ cache' = {} /\ result' = Idle
  /\ UNCHANGED <<files, tree>>

Dismiss == palette # "closed" /\ Closes /\ UNCHANGED <<recentIds, left>>

Typed(text) ==
  /\ palette # "closed" /\ text # query /\ Len(text) <= MaxLength /\ Spend("keys")
  /\ query' = text
  /\ UNCHANGED <<files, tree, palette, debounced>>
  /\ Commit

Types == \E c \in Typeable : Typed(Append(query, c))
Deletes == query # << >> /\ Typed(Front(query))
Escapes == query # << >> /\ Typed(<< >>)

DebounceFires ==
  /\ debounced # query /\ debounced' = query
  /\ UNCHANGED <<files, tree, palette, query, left>>
  /\ Commit

(* The arrows, Home and End; and the pointer, which may come to any row.    *)
Moves ==
  /\ rows # << >> /\ Spend("keys")
  /\ \/ selected' \in {(selected + 1) % Len(rows), (selected - 1 + Len(rows)) % Len(rows),
                       0, Len(rows) - 1}
     \/ selected' \in 0..(Len(rows) - 1)
  /\ UNCHANGED <<files, tree, recentIds, palette, query, debounced, names, scan, stray, cache, result>>

(* Enter, or a click on the row under the pointer.                          *)
IsDir(id) == \E n \in ToSet(flattenTree(tree)) : n.id = id /\ n.isDir

Choose ==
  /\ selected < Len(rows)
  /\ LET row == rows[selected + 1] IN
       /\ ~IsDir(row.id) /\ recentIds' = recall(recentIds, row.id)
  /\ Closes /\ UNCHANGED left
-----------------------------------------------------------------------------
(* The answer to a worker's read: what it does up to its next await.        *)
Hits(s, node, text) ==
  IF text = NULL \/ Len(text) > MAX_SEARCHABLE_BYTES \/ looksBinary(text) THEN << >>
  ELSE LET found == matchContent(text, s.query, MAX_MATCHES_PER_FILE) IN
       [i \in DOMAIN found |-> [node |-> node, match |-> found[i], for |-> s.query]]

Scanned(s, w, text, failed) ==
  LET node == s.reading[w].node
      hits == s.hits \o Hits(s, node, text)
      read == [s EXCEPT !.scanned = @ + 1, !.error = @ \/ failed, !.hits = hits,
                        !.skipped = IF text # NULL /\ (Len(text) > MAX_SEARCHABLE_BYTES
                                                        \/ looksBinary(text))
                                    THEN @ + 1 ELSE @,
                        !.capped = @ \/ Len(hits) >= MAX_CONTENT_MATCHES]
  IN Takes(read, w)

(* Results are published when enough time has passed, and at the end.       *)
Resumes(w, text, failed) ==
  /\ scan' = Scanned(scan, w, text, failed)
  /\ result' \in IF Returned(scan') THEN {Published(scan', "done")}
                 ELSE {result, Published(scan', "searching")}
  /\ UNCHANGED <<files, tree, recentIds, palette, query, debounced, names, stray>>
  /\ Selects(selected)

FromCache(w) ==
  /\ scan.reading[w].how = "cached"
  /\ Resumes(w, scan.reading[w].text, FALSE) /\ UNCHANGED <<cache, left>>

Stored(key, text) == cache \cup {[id |-> key.id, ver |-> key.ver, text |-> text]}

(* A file that is gone answers 404, which is no error; the answers to the    *)
(* GETs of a cancelled scan still fill the cache.                           *)
Answered(w) ==
  /\ scan.reading[w].how = "asked"
  /\ LET key == Key(scan.reading[w].node)
         there == {x \in files : x.id = key.id}
         text == IF there = {} THEN NULL ELSE TextOf(CHOOSE x \in there : TRUE)
     IN /\ cache' = IF there = {} THEN cache ELSE Stored(key, text)
        /\ Resumes(w, text, FALSE)
  /\ UNCHANGED left

Failed(w) ==
  /\ scan.reading[w].how = "asked" /\ Spend("troubles")
  /\ Resumes(w, NULL, TRUE) /\ UNCHANGED cache

(* ... and the worker that waited finds itself cancelled, and returns.      *)
LatePublishes(read, text) == [result EXCEPT !.contents = Hits([query |-> read.for], read.node, text)]
Cancelled(read, text) == result

StrayAnswered ==
  /\ \E read \in stray :
       LET there == {x \in files : x.id = read.node.id}
           text == IF there = {} THEN NULL ELSE TextOf(CHOOSE x \in there : TRUE)
       IN /\ stray' = stray \ {read}
          /\ cache' = IF there = {} THEN cache ELSE Stored(Key(read.node), text)
          /\ result' = Cancelled(read, text)
  /\ UNCHANGED <<files, tree, recentIds, palette, query, debounced, selected, names, scan, left>>
-----------------------------------------------------------------------------
(* An edit reaches the file's text (materialize), or a file is deleted.     *)
Edited ==
  /\ Spend("edits")
  /\ \E x \in files : /\ ~x.isDir /\ x.ver < Len(Contents[x.id])
                      /\ files' = (files \ {x}) \cup {[x EXCEPT !.ver = @ + 1]}
  /\ UNCHANGED <<tree, recentIds, palette, query, debounced, selected, names, scan, stray, cache, result>>

Deleted ==
  /\ Spend("troubles")
  /\ \E x \in files : ~x.isDir /\ files' = files \ {x}
  /\ UNCHANGED <<tree, recentIds, palette, query, debounced, selected, names, scan, stray, cache, result>>

(* The page's tree is fetched again, or could not be.                       *)
Fetched ==
  /\ Spend("fetches") /\ tree' \in {buildTree(files), << >>}
  /\ UNCHANGED <<files, palette, query, debounced>>
  /\ Commit

Reads == \E w \in Worker : FromCache(w) \/ Answered(w) \/ Failed(w)

Next ==
  \/ \E mode \in {"all", "files"} : Open(mode) \/ SwitchMode(mode)
  \/ Dismiss \/ Types \/ Deletes \/ Escapes \/ DebounceFires \/ Moves \/ Choose
  \/ Reads \/ StrayAnswered \/ Edited \/ Deleted \/ Fetched

Spec == Init /\ [][Next]_vars
-----------------------------------------------------------------------------
TypeOK ==
  /\ palette \in {"closed", "all", "files"} /\ selected \in Nat
  /\ result.contentState \in {"idle", "searching", "done"}
  /\ scan.cursor \in 1..(Len(scan.targets) + 1) /\ scan.scanned \in 0..Len(scan.targets)
  /\ \A c \in cache \cup {Key(read.node) : read \in stray} : c.id \in FileIds /\ c.ver \in DOMAIN Contents[c.id]

(* "The alternative is results from two different queries interleaved in one *)
(* list" (useProjectSearch.ts:189): every line that is listed is of the      *)
(* query as it stood when the typing paused, of a file at the path the page's *)
(* tree has it at, and all the lines of a file are of one text it has had    *)
(* since that tree was fetched -- though workers of earlier queries and      *)
(* trees are still answered, and files are edited between two reads.  A      *)
(* query that is too short, or a palette that looks at names, lists none.    *)
OfOneText(id) ==
  \E v \in DOMAIN Contents[id] :
    /\ \A x \in files : x.id = id => v <= x.ver
    /\ \A i \in DOMAIN result.contents :
         LET hit == result.contents[i] IN
         hit.node.id = id =>
           /\ hit.node.ver <= v
           /\ hit.match \in ToSet(matchContent(Contents[id][v], hit.for, MAX_MATCHES_PER_FILE))
OneQueryPerList ==
  /\ result.contents # << >> => Wanted(palette, debounced)
  /\ \A i \in DOMAIN result.contents :
       LET hit == result.contents[i] IN
       /\ hit.for = trim(debounced)
       /\ [id |-> hit.node.id, path |-> hit.node.path] \in Listed(flattenTree(tree))
       /\ OfOneText(hit.node.id)

(* A search that says it goes on has a read to wait for.  One that says it   *)
(* is done, stopped at no limit and met no error has read every file it      *)
(* meant to, in a text the file has had since the page's tree was fetched,   *)
(* once each, and lists that text's first lines.                            *)
LinesOf(id) == Among(result.contents, {hit \in ToSet(result.contents) : hit.node.id = id})
Listing(id, text) ==
  LET found == matchContent(text, scan.query, MAX_MATCHES_PER_FILE)
      shown == IF Len(text) > MAX_SEARCHABLE_BYTES \/ looksBinary(text) THEN << >> ELSE found
  IN [i \in DOMAIN LinesOf(id) |-> LinesOf(id)[i].match] = shown
NothingIsMissed ==
  /\ result.contentState = "searching" => ~Returned(scan)
  /\ result.contentState = "done" /\ ~result.capped /\ ~result.error =>
       /\ result.scanned = result.total
       /\ \A n \in ToSet(scan.targets) :
            \/ \A x \in files : x.id # n.id
            \/ \E x \in files, v \in n.ver..Len(Contents[n.id]) :
                 x.id = n.id /\ v <= x.ver /\ Listing(n.id, Contents[n.id][v])

(* While results come in nothing but the reader moves the selection: the row *)
(* that is marked stays the same one.                                       *)
SelectionStays ==
  [][Reads /\ selected < Len(rows) =>
       rows'[selected' + 1] = rows[selected + 1]]_vars
=============================================================================
