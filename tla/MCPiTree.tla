------------------------------ MODULE MCPiTree ------------------------------
(* Small instances of PiTree for TLC. *)
EXTENDS PiTree, TLC

\* An interval in one page, of length one, and one that straddles two pages.
MCSpans == {<<0, 1>>, <<1, 3>>}

\* Adds a short interval in the second page, next to the straddling one.
MCSpans3 == MCSpans \cup {<<2, 3>>}

Symmetry == Permutations(Handles)

=============================================================================
