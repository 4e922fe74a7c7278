----------------------------- MODULE Selection -----------------------------
(***************************************************************************)
(* The list comprehension [x for x in s if x in S] of the Python sources.  *)
(* It is a recursive function and not SelectSeq, whose definition the      *)
(* provers cannot unfold.                                                  *)
(***************************************************************************)
EXTENDS Naturals, Sequences

\* The members of S in s, in their order.
Only(s, S) ==
  LET first[n \in 0..Len(s)] ==
        IF n = 0 THEN <<>>
        ELSE IF s[n] \in S THEN Append(first[n - 1], s[n]) ELSE first[n - 1]
  IN  first[Len(s)]
=============================================================================
