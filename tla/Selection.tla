------------------------------ MODULE Selection ------------------------------
(***************************************************************************)
(* What is left of a sequence without some of its elements: SelectSeq as a *)
(* recursive function, about which the lemmas of SequenceLemmas are        *)
(* proved.                                                                 *)
(***************************************************************************)
EXTENDS Naturals, Sequences

Without(s, dropped) ==
  LET left[i \in 0 .. Len(s)] ==
        IF i = 0 THEN <<>>
        ELSE IF s[i] \in dropped THEN left[i - 1] ELSE Append(left[i - 1], s[i])
  IN  left[Len(s)]
=============================================================================
