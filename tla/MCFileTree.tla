----------------------------- MODULE MCFileTree -----------------------------
EXTENDS FileTree, TLC

(* Two directories and a file in one of them. *)
TwoDirectories ==
  {[id |-> 1, path |-> <<"a">>, isDir |-> TRUE],
   [id |-> 2, path |-> <<"b">>, isDir |-> TRUE],
   [id |-> 3, path |-> <<"a", "b">>, isDir |-> FALSE]}

(* Requests are alike, and so are sockets.                                   *)
Alike == Permutations(Req) \cup Permutations(Sock)
=============================================================================
