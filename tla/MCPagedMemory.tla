--------------------------- MODULE MCPagedMemory ---------------------------
(* Small instances of PagedMemory for TLC. *)
EXTENDS PagedMemory, TLC

\* Memories and stored items are interchangeable.
Symmetry == Permutations(Handles) \cup Permutations(Values)

=============================================================================
