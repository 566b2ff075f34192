------------------------------ MODULE RateState ------------------------------
(***************************************************************************)
(* rate.go and logRateAware of slog_logger.go: a log call that carries a   *)
(* WithRateLimit option is emitted once per key and interval, and reports  *)
(* how many records of its key were suppressed before it.                  *)
(*                                                                         *)
(* rateState is shared by every derived logger. shouldLog decides under    *)
(* its lock, in one step; the record is emitted after the lock is          *)
(* released, in another. Warnings on stderr are left out, with the flag    *)
(* that limits them; the counters behind them are kept.                    *)
(***************************************************************************)
EXTENDS KeyEviction, Totals

CONSTANTS Goroutines,   \* they make log calls that carry a WithRateLimit option
          Keys,         \* rate-limit keys
          Intervals,    \* the intervals that call sites present
          MaxKeys,      \* Config.RateLimit.MaxKeys, resolved by newRateState
          MaxTime,      \* bound: clock readings are 0 .. MaxTime
          MaxCalls,     \* bound: log calls
          None

ASSUME ConstantsAssumption ==
    /\ Intervals \subseteq Int
    /\ MaxKeys \in Nat \ {0}
    /\ MaxTime \in Nat /\ MaxCalls \in Nat
    /\ None \notin Keys

\* rate.Limiter with a burst of one, before it has admitted anything.
Unused == -1

VARIABLES
    now,                                    \* what the clock reads
    limiters,                               \* rateState.limiters
    evicted, invalidConfigs, conflicts,     \* its counters
    key, carries,                           \* a record to emit: its key and count
    calls, owed, lastAdmit, early, faithful \* history, see below

(***************************************************************************)
(* calls counts the log calls. owed[k] is how many records were suppressed *)
(* for key k and neither reported nor lost with an entry that was dropped  *)
(* to keep the bound. lastAdmit[k] is the time and interval of the key's   *)
(* last admission; early says that one came within the interval of the one *)
(* before. faithful says that the clock was never set back and that no     *)
(* entry was dropped that could still suppress or report.                  *)
(***************************************************************************)
stateVars == <<limiters, evicted, invalidConfigs, conflicts>>
history == <<calls, owed, lastAdmit, early, faithful>>
vars == <<now, stateVars, key, carries, history>>

Tracked == DOMAIN limiters

Entries == [interval : Int, admitted : {Unused} \cup Nat, suppressed : Nat, lastSeen : Nat]

TypeOK ==
    /\ now \in 0 .. MaxTime
    /\ Tracked \subseteq Keys /\ limiters \in [Tracked -> Entries]
    /\ evicted \in Nat /\ invalidConfigs \in Nat /\ conflicts \in Nat
    /\ key \in [Goroutines -> Keys \cup {None}] /\ carries \in [Goroutines -> Nat]
    /\ \A k \in Tracked : limiters[k].interval <= 0 => limiters[k].suppressed = 0
    /\ calls \in 0 .. MaxCalls /\ owed \in [Keys -> Nat]
    /\ DOMAIN lastAdmit \subseteq Keys
    /\ lastAdmit \in [DOMAIN lastAdmit -> [at : Nat, interval : Int]]
    /\ early \in BOOLEAN /\ faithful \in BOOLEAN

Init ==
    /\ now = 0
    /\ limiters = << >> /\ evicted = 0 /\ invalidConfigs = 0 /\ conflicts = 0
    /\ key = [g \in Goroutines |-> None] /\ carries = [g \in Goroutines |-> 0]
    /\ calls = 0 /\ owed = [k \in Keys |-> 0]
    /\ lastAdmit = << >> /\ early = FALSE /\ faithful = TRUE
-----------------------------------------------------------------------------
(* The decision on entry e at time t.                                      *)

\* AllowN(t, 1): the token of the last admission is back after one interval. An
\* entry with an invalid interval has no limiter and always allows.
Allows(e, t) ==
    e.interval <= 0 \/ e.admitted = Unused \/ t - e.admitted >= e.interval

\* Mutant: the count is reported and stays on the entry.
SettledKeepsCount(e, t) ==
    IF ~Allows(e, t) THEN [e EXCEPT !.suppressed = @ + 1]
    ELSE IF e.interval <= 0 THEN e
    ELSE [e EXCEPT !.admitted = t]

\* The entry after it: a suppressed record is counted, an admitted one takes the
\* count with it.
Settled(e, t) ==
    IF ~Allows(e, t) THEN [e EXCEPT !.suppressed = @ + 1]
    ELSE IF e.interval <= 0 THEN e
    ELSE [e EXCEPT !.admitted = t, !.suppressed = 0]

\* The call's side of it: the record is discarded, or to be emitted.
Decide(g, k, e, t) ==
    /\ calls < MaxCalls /\ calls' = calls + 1
    /\ IF Allows(e, t)
       THEN /\ key' = [key EXCEPT ![g] = k]
            /\ carries' = [carries EXCEPT ![g] = e.suppressed]
            /\ lastAdmit' = [j \in DOMAIN lastAdmit \cup {k} |->
                                IF j = k THEN [at |-> t, interval |-> e.interval]
                                         ELSE lastAdmit[j]]
            /\ early' = (early \/ (/\ k \in DOMAIN lastAdmit
                                   /\ t - lastAdmit[k].at < lastAdmit[k].interval))
       ELSE UNCHANGED <<key, carries, lastAdmit, early>>

-----------------------------------------------------------------------------
(* shouldLog.                                                              *)

\* The time of a hit on a known key, never before the one before.
SeenAt(e) == IF now < e.lastSeen THEN e.lastSeen ELSE now

\* Mutant: the latest interval wins.
ShouldLogKnownLatest(g, k, interval) ==
    LET t == SeenAt(limiters[k])
        e == [limiters[k] EXCEPT !.lastSeen = t, !.interval = interval]
    IN  /\ key[g] = None /\ k \in Tracked
        /\ conflicts' = conflicts
        /\ limiters' = [limiters EXCEPT ![k] = Settled(e, t)]
        /\ Decide(g, k, e, t)
        /\ owed' = [owed EXCEPT ![k] = @ + (IF Allows(e, t) THEN 0 ELSE 1)]
        /\ UNCHANGED <<now, evicted, invalidConfigs, faithful>>

\* A known key: its first interval stays, another one is counted.
ShouldLogKnown(g, k, interval) ==
    LET t == SeenAt(limiters[k])
        e == [limiters[k] EXCEPT !.lastSeen = t]
    IN  /\ key[g] = None /\ k \in Tracked
        /\ conflicts' = conflicts + (IF interval # e.interval THEN 1 ELSE 0)
        /\ limiters' = [limiters EXCEPT ![k] = Settled(e, t)]
        /\ Decide(g, k, e, t)
        /\ owed' = [owed EXCEPT ![k] = @ + (IF Allows(e, t) THEN 0 ELSE 1)]
        /\ UNCHANGED <<now, evicted, invalidConfigs, faithful>>

Idle(e) == LET elapsed == IF now < e.lastSeen THEN 0 ELSE now - e.lastSeen
           IN  elapsed >= e.interval

\* Mutant: an entry that has something to report is spent.
LiveUnlessIdle == {k \in Tracked : ~Idle(limiters[k])}

\* The entries that can still suppress a record, or have something to report.
Live == {k \in Tracked : ~Idle(limiters[k]) \/ limiters[k].suppressed > 0}

\* Mutant: the bound is on the map before the insertion.
EvictionTargetFull == MaxKeys - MaxKeys \div 4

\* Three quarters of the bound, and one less than the bound at most.
EvictionTarget == IF MaxKeys \div 4 = 0 THEN MaxKeys - 1 ELSE MaxKeys - MaxKeys \div 4

\* What evictLocked may leave of the tracked keys.
Survivors ==
    IF Cardinality(Tracked) < MaxKeys THEN {Tracked}
    ELSE IF Cardinality(Live) < MaxKeys THEN {Live}
    ELSE Cut([k \in Live |-> limiters[k].lastSeen], EvictionTarget)

\* An unknown key: evictLocked makes room, and the new entry admits the record.
ShouldLogUnknown(g, k, interval) ==
    LET e == [interval |-> interval, admitted |-> Unused, suppressed |-> 0, lastSeen |-> now]
    IN  /\ key[g] = None /\ k \notin Tracked
        /\ \E kept \in Survivors :
             /\ limiters' = [j \in kept \cup {k} |-> IF j = k THEN Settled(e, now)
                                                              ELSE limiters[j]]
             /\ evicted' = evicted + (Cardinality(Tracked) - Cardinality(kept))
             /\ owed' = [j \in Keys |-> owed[j] - IF j \in Live \ kept
                                                  THEN limiters[j].suppressed ELSE 0]
             /\ faithful' = (faithful /\ Live \subseteq kept)
        /\ invalidConfigs' = invalidConfigs + (IF interval <= 0 THEN 1 ELSE 0)
        /\ Decide(g, k, e, now)
        /\ UNCHANGED <<now, conflicts>>

\* emit, with the suppressed_count that the record carries.
Emit(g) ==
    /\ key[g] # None
    /\ owed' = [owed EXCEPT ![key[g]] = @ - carries[g]]
    /\ key' = [key EXCEPT ![g] = None]
    /\ carries' = [carries EXCEPT ![g] = 0]
    /\ UNCHANGED <<now, stateVars, calls, lastAdmit, early, faithful>>

\* The clock is injected: it may be set back.
Clock ==
    /\ now' \in 0 .. MaxTime
    /\ faithful' = (faithful /\ now <= now')
    /\ UNCHANGED <<stateVars, key, carries, calls, owed, lastAdmit, early>>

LogCall(g) ==
    \/ \E k \in Keys, interval \in Intervals :
         ShouldLogKnown(g, k, interval) \/ ShouldLogUnknown(g, k, interval)
    \/ Emit(g)

Next == (\E g \in Goroutines : LogCall(g)) \/ Clock

Spec == Init /\ [][Next]_vars

-----------------------------------------------------------------------------
\* "At most Config.RateLimit.MaxKeys of them are tracked" (WithRateLimit).
Bounded == Cardinality(Tracked) <= MaxKeys

\* suppressed_count "is reset to zero on the emission that reports it, so
\* consecutive emissions never double-count" (WithRateLimit): what is owed for a
\* key is on its entry or with a record about to be emitted, each once, and the
\* first pass of evictLocked loses none of it.
SuppressedReported ==
    \A k \in Keys :
        owed[k] = (IF k \in Tracked THEN limiters[k].suppressed ELSE 0)
                    + Total(carries, {g \in Goroutines : key[g] = k})

\* "One emission per key per interval", the first one presented (WithRateLimit),
\* whatever intervals the other call sites present: until the bound or a clock set
\* back makes it forget, a key is never admitted early.
OncePerFirstInterval == faithful => ~early
=============================================================================
