------------------------------- MODULE Lists -------------------------------
(* Rows that are read in an order: what is left of a list when some go, by  *)
(* a recursive function, which proofs can expand and SelectSeq cannot.      *)
EXTENDS Naturals, Sequences

Without(s, out) ==
    LET kept[i \in 0 .. Len(s)] ==
            IF i = 0 THEN <<>>
            ELSE IF s[i] \in out THEN kept[i - 1] ELSE Append(kept[i - 1], s[i])
    IN  kept[Len(s)]
=============================================================================
