----------------------------- MODULE Selection ------------------------------
(***************************************************************************)
(* What SelectSeq does, for a set of values in place of a test: the        *)
(* members of S among the elements of s, in their order.  A set can be an  *)
(* argument of a lemma, and a test cannot.                                 *)
(***************************************************************************)
EXTENDS Integers, Sequences

Select(s, S) ==
  LET kept[i \in 0..Len(s)] ==
        IF i = 0 THEN <<>>
        ELSE IF s[i] \in S THEN Append(kept[i - 1], s[i]) ELSE kept[i - 1]
  IN  kept[Len(s)]
=============================================================================
