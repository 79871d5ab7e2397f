--------------------------- MODULE MCRunRegistry ---------------------------
(* RunRegistry with two runs, one of them silent, and two stream requests. *)
EXTENDS RunRegistry

CONSTANTS j1, j2, w1, w2

MCJob == {j1, j2}
MCWatcher == {w1, w2}
MCMaxOutput == [j \in Job |-> IF j = j1 THEN 2 ELSE 0]
=============================================================================
