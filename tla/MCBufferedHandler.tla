------------------------- MODULE MCBufferedHandler -------------------------
(* Finite values for the constants of BufferedHandler.                       *)
EXTENDS BufferedHandler, TLC

\* Calls of one kind differ only in their names.
Symmetry ==
    Permutations(Records) \cup Permutations(Flushes) \cup Permutations(Shutdowns)
=============================================================================
