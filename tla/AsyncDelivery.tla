---------------------------- MODULE AsyncDelivery ----------------------------
(***************************************************************************)
(* What an asynchronous log handler promises its callers, with no queue,   *)
(* no worker and no lock: items are accepted while the handler is open and *)
(* handed downstream one at a time, in the order of acceptance; a flush    *)
(* succeeds once everything accepted before it was called is delivered; a  *)
(* shutdown succeeds once admission is closed and nothing is left.         *)
(***************************************************************************)
EXTENDS Naturals, Sequences

CONSTANTS Items,        \* records and flush checkpoints
          Flushes,      \* calls of Flush
          Shutdowns     \* calls of Shutdown

VARIABLES log,          \* items accepted, in order
          delivered,    \* items handed downstream, in order
          open,         \* are items still accepted?
          begun,        \* calls that have been made
          mark,         \* length of log when a Flush call was made
          succeeded     \* Flush and Shutdown calls that kept their promise

absVars == <<log, delivered, open, begun, mark, succeeded>>

Init ==
    /\ log = << >>
    /\ delivered = << >>
    /\ open = TRUE
    /\ begun = {}
    /\ mark = [f \in Flushes |-> 0]
    /\ succeeded = {}

Begin(c) ==
    /\ c \notin begun
    /\ begun' = begun \cup {c}
    /\ mark' = IF c \in Flushes THEN [mark EXCEPT ![c] = Len(log)] ELSE mark
    /\ UNCHANGED <<log, delivered, open, succeeded>>

\* An item is accepted on behalf of a call in progress, at most once.
Accept(i) ==
    /\ open
    /\ i \in begun
    /\ \A k \in DOMAIN log : log[k] # i
    /\ log' = Append(log, i)
    /\ UNCHANGED <<delivered, open, begun, mark, succeeded>>

Deliver ==
    /\ Len(delivered) < Len(log)
    /\ delivered' = Append(delivered, log[Len(delivered) + 1])
    /\ UNCHANGED <<log, open, begun, mark, succeeded>>

Close ==
    /\ open
    /\ open' = FALSE
    /\ UNCHANGED <<log, delivered, begun, mark, succeeded>>

FlushSucceeds(f) ==
    /\ f \in begun \ succeeded
    /\ Len(delivered) >= mark[f]
    /\ succeeded' = succeeded \cup {f}
    /\ UNCHANGED <<log, delivered, open, begun, mark>>

ShutdownSucceeds(s) ==
    /\ s \in begun \ succeeded
    /\ ~open
    /\ Len(delivered) = Len(log)
    /\ succeeded' = succeeded \cup {s}
    /\ UNCHANGED <<log, delivered, open, begun, mark>>

Next ==
    \/ \E c \in Items \cup Flushes \cup Shutdowns : Begin(c)
    \/ \E i \in Items : Accept(i)
    \/ Deliver
    \/ Close
    \/ \E f \in Flushes : FlushSucceeds(f)
    \/ \E s \in Shutdowns : ShutdownSucceeds(s)

Spec == Init /\ [][Next]_absVars
=============================================================================
