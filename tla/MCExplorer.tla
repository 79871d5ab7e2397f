------------------------------ MODULE MCExplorer ------------------------------
EXTENDS Explorer

(* a/ and a/b *)
MCStart ==
  {[id |-> 1, path |-> <<"a">>, isDir |-> TRUE],
   [id |-> 2, path |-> <<"a", "b">>, isDir |-> FALSE]}

(* A path in the way of the other, whose directory is new or was created.    *)
MCAskedPath == {<<"b">>, <<"b", "a">>}

Alike == Permutations(Op)
=============================================================================
