--------------------------- MODULE MCAddressSpace ---------------------------
(* A small instance of AddressSpace for TLC. *)
EXTENDS AddressSpace

MCPermissions == {{"r"}, {"r", "w"}}

\* A client that follows no rule, so that regions nest, overlap and touch, but
\* unmaps nothing; and one that follows them all.
MCRuleSets == {{}, Rules}
MCMaxIntegers == [r \in MCRuleSets |-> IF r = Rules THEN NumAddrs ELSE 0]

=============================================================================
