------------------------------ MODULE Selection ------------------------------
(***************************************************************************)
(* Subsequences by their positions, which proofs can speak about as sets   *)
(* (SelectSeq takes an operator).                                          *)
(***************************************************************************)
EXTENDS SequencesExt

\* The elements of s at the positions in I, in their order.
Picked(s, I) ==
  LET upTo[n \in 0..Len(s)] ==
        IF n = 0 THEN <<>>
        ELSE IF n \in I THEN Append(upTo[n - 1], s[n]) ELSE upTo[n - 1]
  IN upTo[Len(s)]
=============================================================================
