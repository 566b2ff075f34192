----------------------------- MODULE KeyEviction -----------------------------
(***************************************************************************)
(* The second pass of evictLocked, which sampling_handler.go and rate.go   *)
(* share: at its bound, a map of time stamps is cut down to a target.      *)
(***************************************************************************)
EXTENDS Integers, FiniteSets

\* The keys that are not before the cutoff, the n-th newest stamp.
NotBeforeCutoff(stamp, n) ==
    {k \in DOMAIN stamp : Cardinality({j \in DOMAIN stamp : stamp[j] > stamp[k]}) < n}

\* What a cut to n keys may leave: stamps may tie at the cutoff, and the ties are
\* broken by the order in which Go ranges over the map. A cut to none clears it.
Cut(stamp, n) == {kept \in SUBSET NotBeforeCutoff(stamp, n) : Cardinality(kept) = n}
=============================================================================
