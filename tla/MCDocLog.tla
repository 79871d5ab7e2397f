----------------------------- MODULE MCDocLog -----------------------------
(* DocLog on two server instances, two payloads and a short sequence. *)
EXTENDS DocLog

CONSTANTS s1, s2, u1, u2

MCInstance == {s1, s2}
MCUpdate == {u1, u2}
MCSeed == [i \in MCInstance |-> <<"seed", i>>]
=============================================================================
