----------------------------- MODULE MCWorkArea -----------------------------
EXTENDS WorkArea, TLC

(* Files and runs are alike; no property of the run is a liveness property. *)
Alike == Permutations(Files) \cup Permutations(Runs)
=============================================================================
