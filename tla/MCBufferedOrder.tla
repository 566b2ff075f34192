-------------------------- MODULE MCBufferedOrder --------------------------
(* BufferedHandler with three Handle calls made in an order.                 *)
EXTENDS BufferedHandler

CONSTANTS r1, r2, r3

\* The first call is over before the second is made; the third is the last of all
\* calls to be made, whatever the others wait for by then.
InOrder ==
    /\ pc[r2] # "idle" => pc[r1] = "done"
    /\ pc[r3] # "idle" => \A c \in Waiters \cup {r2} : pc[c] # "idle"

OrderedSpec == Init /\ [][Next /\ InOrder']_vars /\ Fairness
=============================================================================
