--------------------------- MODULE SamplingHandler ---------------------------
(***************************************************************************)
(* handler/sampling_handler.go: for each key, the records that follow an   *)
(* emitted one within Interval are suppressed; the memory of the keys is   *)
(* bounded by MaxKeys.                                                     *)
(*                                                                         *)
(* The state is shared by every derived handler and by concurrent Handle   *)
(* calls. Everything that a decision reads and writes, the clock included, *)
(* is inside one critical section, so a call is one step. A record below   *)
(* MinLevel goes past the sampler and changes nothing here.                *)
(***************************************************************************)
EXTENDS KeyEviction

CONSTANTS Keys,             \* sampling keys
          Configs,          \* SamplingConfig values, probabilities in percent
          DefaultMaxKeys,   \* DefaultSamplingMaxKeys
          MaxTime,          \* bound: clock readings are 0 .. MaxTime
          MaxCalls          \* bound: Handle calls

ASSUME ConstantsAssumption ==
    /\ Configs \subseteq [Interval : Int, Probability : Int, MaxKeys : Int]
    /\ DefaultMaxKeys \in Nat \ {0}
    /\ MaxTime \in Nat /\ MaxCalls \in Nat

\* Mutant: an unset MaxKeys stays unset.
NewKeepsMaxKeys(cfg) ==
    [interval    |-> IF cfg.Interval < 0 THEN 0 ELSE cfg.Interval,
     probability |-> IF cfg.Probability \in 1 .. 100 THEN cfg.Probability ELSE 100,
     maxKeys     |-> IF cfg.MaxKeys < 0 THEN DefaultMaxKeys ELSE cfg.MaxKeys]

\* newSamplingHandler: an unset or invalid Interval or Probability lets records
\* through, an unset or invalid MaxKeys becomes the default.
New(cfg) ==
    [interval    |-> IF cfg.Interval < 0 THEN 0 ELSE cfg.Interval,
     probability |-> IF cfg.Probability \in 1 .. 100 THEN cfg.Probability ELSE 100,
     maxKeys     |-> IF cfg.MaxKeys <= 0 THEN DefaultMaxKeys ELSE cfg.MaxKeys]

VARIABLES
    h,                      \* the handler's resolved configuration
    now,                    \* what the clock reads
    last,                   \* samplingState: the time of each tracked key
    suppressed, evicted,    \* its counters
    calls, created,         \* history: Handle calls, keys ever tracked
    lastEmit,               \* history: when a record of a key was last emitted
    early,                  \* history: one was, within Interval of the one before
    late,                   \* history: one was silenced, and there was none before
                            \* within Interval
    faithful                \* history: the clock was never set back and no key
                            \* was dropped that could still suppress

vars == <<h, now, last, suppressed, evicted, calls, created, lastEmit, early, late,
          faithful>>

Tracked == DOMAIN last

TypeOK ==
    /\ h \in [interval : Nat, probability : 1 .. 100, maxKeys : Nat \ {0}]
    /\ now \in 0 .. MaxTime
    /\ Tracked \subseteq Keys /\ last \in [Tracked -> 0 .. MaxTime]
    /\ suppressed \in Nat /\ evicted \in Nat /\ created \in Nat
    /\ calls \in 0 .. MaxCalls
    /\ DOMAIN lastEmit \subseteq Keys /\ lastEmit \in [DOMAIN lastEmit -> 0 .. MaxTime]
    /\ early \in BOOLEAN /\ late \in BOOLEAN /\ faithful \in BOOLEAN

Empty == [k \in {} |-> 0]

Init ==
    /\ h \in {New(cfg) : cfg \in Configs}
    /\ now = 0
    /\ last = Empty /\ suppressed = 0 /\ evicted = 0
    /\ calls = 0 /\ created = 0 /\ lastEmit = Empty
    /\ early = FALSE /\ late = FALSE /\ faithful = TRUE

-----------------------------------------------------------------------------
With(f, k, v) == [j \in DOMAIN f \cup {k} |-> IF j = k THEN v ELSE f[j]]

Elapsed(k) == IF now < last[k] THEN 0 ELSE now - last[k]

\* The keys that can still suppress a record.
Live == {k \in Tracked : now - last[k] < h.interval}

\* Mutant: a quarter of a small bound is nothing.
EvictionTargetRoundsDown(maxKeys) == maxKeys - maxKeys \div 4

EvictionTarget(maxKeys) ==
    maxKeys - (IF maxKeys \div 4 > 1 THEN maxKeys \div 4 ELSE 1)

\* What evictLocked may leave of the tracked keys.
Survivors ==
    IF Cardinality(Tracked) < h.maxKeys THEN {Tracked}
    ELSE IF Cardinality(Live) < h.maxKeys THEN {Live}
    ELSE Cut([k \in Live |-> last[k]], EvictionTarget(h.maxKeys))

\* By the clock, the last record of k was emitted less than an interval ago.
Recent(k) == k \in DOMAIN lastEmit /\ now - lastEmit[k] < h.interval

Emit(k) ==
    /\ lastEmit' = With(lastEmit, k, now)
    /\ early' = (early \/ Recent(k))
    /\ UNCHANGED late

Suppress == suppressed' = suppressed + 1 /\ UNCHANGED <<lastEmit, early>>

Silence(k) == Suppress /\ late' = (late \/ ~Recent(k))

Call == calls < MaxCalls /\ calls' = calls + 1 /\ UNCHANGED <<h, now>>

\* The probability gate discards the record.
HandleUnlucky(k) ==
    /\ Call /\ h.probability < 100
    /\ Suppress
    /\ UNCHANGED <<last, evicted, created, late, faithful>>

\* Without an interval nothing is remembered.
HandleUnkeyed(k) ==
    /\ Call /\ h.interval = 0
    /\ Emit(k)
    /\ UNCHANGED <<last, suppressed, evicted, created, faithful>>

\* Mutant: a suppressed record starts the interval over.
HandleSuppressedRenews(k) ==
    /\ Call /\ h.interval > 0
    /\ k \in Tracked /\ Elapsed(k) < h.interval
    /\ Silence(k)
    /\ last' = [last EXCEPT ![k] = now]
    /\ UNCHANGED <<evicted, created, faithful>>

HandleSuppressed(k) ==
    /\ Call /\ h.interval > 0
    /\ k \in Tracked /\ Elapsed(k) < h.interval
    /\ Silence(k)
    /\ UNCHANGED <<last, evicted, created, faithful>>

\* Mutant: the limit of the interval is one tick short.
HandleRenewedOneEarly(k) ==
    /\ Call /\ h.interval > 0
    /\ k \in Tracked /\ Elapsed(k) + 1 >= h.interval
    /\ last' = [last EXCEPT ![k] = now]
    /\ Emit(k)
    /\ UNCHANGED <<suppressed, evicted, created, faithful>>

HandleRenewed(k) ==
    /\ Call /\ h.interval > 0
    /\ k \in Tracked /\ Elapsed(k) >= h.interval
    /\ last' = [last EXCEPT ![k] = now]
    /\ Emit(k)
    /\ UNCHANGED <<suppressed, evicted, created, faithful>>

\* A new key is tracked, after evictLocked has made room for it.
HandleTracked(k) ==
    /\ Call /\ h.interval > 0
    /\ k \notin Tracked
    /\ \E kept \in Survivors :
         /\ last' = With([j \in kept |-> last[j]], k, now)
         /\ evicted' = evicted + (Cardinality(Tracked) - Cardinality(kept))
         /\ faithful' = (faithful /\ Live \subseteq kept)
    /\ created' = created + 1
    /\ Emit(k)
    /\ UNCHANGED suppressed

\* SamplingConfig.Now is the caller's: it may be set back.
Clock ==
    /\ now' \in 0 .. MaxTime
    /\ faithful' = (faithful /\ now <= now')
    /\ UNCHANGED <<h, last, suppressed, evicted, calls, created, lastEmit, early, late>>

Handle(k) ==
    \/ HandleUnlucky(k) \/ HandleUnkeyed(k)
    \/ HandleSuppressed(k) \/ HandleRenewed(k) \/ HandleTracked(k)

Next == (\E k \in Keys : Handle(k)) \/ Clock

Spec == Init /\ [][Next]_vars

-----------------------------------------------------------------------------
\* TrackedKeys "never exceeds MaxKeys", whatever the clock does.
Bounded == Cardinality(Tracked) <= h.maxKeys

\* Evicted is "an exact count of reclaimed keys": every key that was ever tracked
\* is tracked or counted, on each of evictLocked's paths.
EvictedExact == created = Cardinality(Tracked) + evicted

\* "Within Interval, only the first record for a key is emitted" (SamplingHandler),
\* and none is silenced for longer: what allow discards follows an emission of
\* its key by less than Interval as the clock reads, through evictions, with the
\* key made anew, and also when the clock is set back.
SilencedForAnInterval == ~late

\* Why: the memory holds the time of a key's last emission and no other.
RemembersEmissions ==
    \A k \in Tracked : k \in DOMAIN lastEmit /\ last[k] = lastEmit[k]

\* evictLocked "first drops entries that can no longer suppress anything": unless
\* it has to go further, or the clock is set back, forgetting a key is invisible.
ForgetsInvisibly == faithful => ~early

\* "Within Interval, only the first record for a key is emitted"
\* (SamplingHandler), and MaxKeys "changes how many keys are tracked, never which
\* records are emitted" (NewSamplingHandler).
OncePerInterval == ~early
=============================================================================
