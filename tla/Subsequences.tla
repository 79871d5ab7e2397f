----------------------------- MODULE Subsequences -----------------------------
(***************************************************************************)
(* Array.prototype.filter, as the part of a sequence whose elements are in *)
(* a set, in the order they have there.                                    *)
(***************************************************************************)
EXTENDS Naturals, Sequences

Among(s, S) ==
  LET kept[i \in 0..Len(s)] ==
        IF i = 0 THEN << >>
        ELSE IF s[i] \in S THEN Append(kept[i - 1], s[i]) ELSE kept[i - 1]
  IN kept[Len(s)]
=============================================================================
