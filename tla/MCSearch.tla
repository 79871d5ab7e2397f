------------------------------- MODULE MCSearch -------------------------------
EXTENDS SearchHits

(* "A" is "a" in lower case; "I" is a letter with a dot on it, which is two   *)
(* characters in lower case.                                                 *)
MCLower == [c \in {"a", "b", "A", "I", "/", "-", " ", "n", "0", "i", "dot"} |->
              CASE c = "A" -> <<"a">> [] c = "I" -> <<"i", "dot">> [] OTHER -> <<c>>]

(* Ab/, Ab/a, "ba-", "b", and "b-a", whose extension is that of a binary.    *)
MCStart ==
  {[id |-> 1, path |-> <<<<"A", "b">>>>, isDir |-> TRUE, ver |-> 1],
   [id |-> 2, path |-> <<<<"A", "b">>, <<"a">>>>, isDir |-> FALSE, ver |-> 1],
   [id |-> 3, path |-> <<<<"b", "a", "-">>>>, isDir |-> FALSE, ver |-> 1],
   [id |-> 4, path |-> <<<<"b">>>>, isDir |-> FALSE, ver |-> 1],
   [id |-> 5, path |-> <<<<"b", "-", "a">>>>, isDir |-> FALSE, ver |-> 1]}

(* Texts of one and two lines, one too long, one that is not text, and one   *)
(* that is longer in lower case.                                             *)
MCContents ==
  2 :> << <<" ", "a", "a", "A", "b">>, <<"b", "n", "a", "a", "b", "b", "b">> >>
    @@ 3 :> << <<"a", "b", "n", "a", "b">>, <<"0", "a", "b">> >>
    @@ 4 :> << <<"I", "I", "I", "a", "b">> >>
    @@ 5 :> << <<"0">> >>

MCBinary == {<<"a">>}

MCName == UNION {ToSet(x.path) : x \in MCStart}
=============================================================================
