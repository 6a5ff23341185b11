-------------------------- MODULE MCUnpagedMemory --------------------------
(* Small instances of UnpagedMemory for TLC. *)
EXTENDS UnpagedMemory, TLC

\* Memories and stored items are interchangeable.
Symmetry == Permutations(Handles) \cup Permutations(Values)

=============================================================================
