--------------------------- MODULE MCMemorySearch ---------------------------
(* A small instance of MemorySearch for TLC. *)
EXTENDS MemorySearch

\* Two worlds and two bytes: both constants, one of them as a value of an
\* expression with symbols, too, and an expression that tells the worlds apart.
MCWorlds == {1, 2}
Expr(x, y, s) == [val |-> <<x, y>>, symbolic |-> s]
MCExprs == {Expr(0, 0, FALSE), Expr(1, 1, FALSE), Expr(1, 1, TRUE), Expr(0, 1, TRUE)}

\* The bytes the search may look at vary, the rest of the last window is zero.
MCHorizon == 8
Varied == 5
MCTexts == {[o \in 0 .. MCHorizon |-> IF o < Varied THEN f[o] ELSE Expr(0, 0, FALSE)] :
              f \in [0 .. Varied - 1 -> MCExprs]}
MCReadables == {0 .. n : n \in {1, MCHorizon}} \cup {{}}

MCWhats == {<<Expr(0, 0, FALSE)>>, <<Expr(0, 1, TRUE)>>,
            <<Expr(0, 0, FALSE), Expr(1, 1, FALSE)>>}
MCMaxSearches == {2, 5}
MCSteps == {1, 2}
MCBudgets == {Unlimited, 0, 2}

=============================================================================
