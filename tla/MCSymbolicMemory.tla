--------------------------- MODULE MCSymbolicMemory ---------------------------
(* Small instances of SymbolicMemory for TLC. *)
EXTENDS SymbolicMemory, TLC

MCWorlds == 1 .. 3
MCAddrs  == 0 .. 2

\* A segment of two equal bytes that fills a page, one that spans two pages.
MCAligned   == {[addr |-> 0, bytes |-> <<1, 1>>]}
MCStraddling == {[addr |-> 1, bytes |-> <<1, 1>>]}

\* Addresses: constants, one that may be any of two, one any of three.
Low  == [w \in MCWorlds |-> IF w = 1 THEN 0 ELSE 1]
Wide == [w \in MCWorlds |-> w - 1]
MCLowPair == {[w \in MCWorlds |-> 1], Low}
MCPair == {[w \in MCWorlds |-> 1], Wide}
MCShortAddrExprs == {[w \in MCWorlds |-> a] : a \in 0 .. 1} \cup {Low}

\* Four worlds, and an address that two of them agree on: a state of these two
\* has a concrete address, and so has a state of one world.
MCFourWorlds == 1 .. 4
MCSpread == {[w \in MCFourWorlds |-> IF w <= 2 THEN 0 ELSE w - 2]}
MCOneOfFour == {[w \in MCFourWorlds |-> 1]}
MCCuts == {{1, 2}, {1, 3}}

\* Sizes: one byte, and one or two bytes depending on the world.
One == [w \in MCWorlds |-> 1]
OneOrTwo == [w \in MCWorlds |-> IF w = 1 THEN 1 ELSE 2]
MCOne == {One}
MCSymbolicSize == {One, OneOrTwo}

MCBytes == {<<b>> : b \in Bytes}
MCPayloads == MCBytes \cup {<<b, b>> : b \in Bytes}

MCConditions == {{1}}
NoConditions == {}

Symmetry == Permutations(States) \cup Permutations(Bytes)

=============================================================================
