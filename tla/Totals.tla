------------------------------- MODULE Totals -------------------------------
(* Sums of what a function gives, over a finite set and along a sequence.    *)
EXTENDS Integers, Sequences, FiniteSetsExt

Total(f, S) == FoldSet(LAMBDA x, n : n + f[x], 0, S)

\* The sum of a sequence of numbers.
Along(p) == Total(p, DOMAIN p)

\* How often an element of S occurs in a sequence.
Occurrences(S, q) == Along([k \in DOMAIN q |-> IF q[k] \in S THEN 1 ELSE 0])
=============================================================================
