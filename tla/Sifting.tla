------------------------------ MODULE Sifting -------------------------------
(***************************************************************************)
(* The elements of a sequence that are in a set, in their order: what a    *)
(* list comprehension with a condition returns.  It is SelectSeq with a    *)
(* set for the condition, and a recursive function for the recursion, so   *)
(* that it can be reasoned about.                                          *)
(***************************************************************************)
EXTENDS Integers, Sequences

Sift(seq, S) ==
  LET Upto[i \in 0 .. Len(seq)] ==
        IF i = 0 THEN <<>>
        ELSE IF seq[i] \in S THEN Append(Upto[i - 1], seq[i])
        ELSE Upto[i - 1]
  IN Upto[Len(seq)]
=============================================================================
