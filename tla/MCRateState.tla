----------------------------- MODULE MCRateState -----------------------------
(* Symmetry for the model checking of RateState.                             *)
EXTENDS RateState, TLC

Symmetry == Permutations(Goroutines) \cup Permutations(Keys)
=============================================================================
