------------------------------ MODULE Selection ------------------------------
(***************************************************************************)
(* What a loop or a comprehension that tests each element takes from a     *)
(* list.                                                                   *)
(***************************************************************************)
EXTENDS SequencesExt

\* The members of S in a sequence, in its order.
Those(seq, S) ==
    FoldLeft(LAMBDA found, x : IF x \in S THEN Append(found, x) ELSE found, <<>>, seq)

=============================================================================
