--------------------------- MODULE MCIntervalTree ---------------------------
(* A small instance of IntervalTree for TLC. *)
EXTENDS IntervalTree, TLC

\* Two intervals with the same begin, a long one that outlasts its successors,
\* and short ones after and before them.
MCSpans == {<<1, 2>>, <<1, 5>>, <<2, 3>>, <<3, 4>>, <<0, 1>>}

Symmetry == Permutations(Handles)

=============================================================================
