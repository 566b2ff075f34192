------------------------ MODULE SamplingHandlerProofs ------------------------
(***************************************************************************)
(* Proofs about SamplingHandler, for every set of keys, finite or not, and *)
(* every configuration.                                                    *)
(***************************************************************************)
EXTENDS SamplingHandler, DataLemmas

-----------------------------------------------------------------------------
\* evictionTarget leaves room for the key that is inserted next, at every bound.
LEMMA TargetLeavesRoom ==
    ASSUME NEW m \in Nat \ {0}
    PROVE  EvictionTarget(m) \in 0 .. m - 1
<1>1. CASE m \div 4 > 1
  BY <1>1, SMT DEF EvictionTarget
<1>2. CASE ~(m \div 4 > 1)
  BY <1>2, SMT DEF EvictionTarget
<1> QED BY <1>1, <1>2

\* New resolves every configuration to a usable one.
LEMMA NewType ==
    ASSUME NEW cfg \in Configs
    PROVE  New(cfg) \in [interval : Nat, probability : 1 .. 100, maxKeys : Nat \ {0}]
BY ConstantsAssumption DEF New

\* The parts of TypeOK: data, and flags.
DataOK ==
    /\ h \in [interval : Nat, probability : 1 .. 100, maxKeys : Nat \ {0}]
    /\ now \in 0 .. MaxTime
    /\ DOMAIN last \subseteq Keys /\ last \in [DOMAIN last -> 0 .. MaxTime]
    /\ suppressed \in Nat /\ evicted \in Nat /\ created \in Nat
    /\ calls \in 0 .. MaxCalls
    /\ DOMAIN lastEmit \subseteq Keys /\ lastEmit \in [DOMAIN lastEmit -> 0 .. MaxTime]

FlagsOK == early \in BOOLEAN /\ late \in BOOLEAN /\ faithful \in BOOLEAN

\* The memory is finite and within its bound.
MemoryOK == IsFiniteSet(Tracked) /\ Bounded

\* evictLocked makes room, and never adds a key: on each of its paths.
LEMMA SurvivorsFit ==
    ASSUME DataOK, MemoryOK, NEW kept \in Survivors
    PROVE  /\ kept \subseteq Tracked /\ IsFiniteSet(kept)
           /\ Cardinality(kept) \in Nat /\ Cardinality(Tracked) \in Nat
           /\ Cardinality(kept) < h.maxKeys
           /\ Cardinality(kept) <= Cardinality(Tracked)
<1>1. Live \subseteq Tracked
  BY DEF Live
<1>2. EvictionTarget(h.maxKeys) \in 0 .. h.maxKeys - 1
  BY TargetLeavesRoom DEF DataOK
<1>3. /\ kept \subseteq Tracked
      /\ \/ Cardinality(kept) < h.maxKeys
         \/ Cardinality(kept) = EvictionTarget(h.maxKeys)
  <2>1. CASE Cardinality(Tracked) < h.maxKeys
    BY <2>1 DEF Survivors
  <2>2. CASE ~(Cardinality(Tracked) < h.maxKeys) /\ Cardinality(Live) < h.maxKeys
    BY <2>2, <1>1 DEF Survivors
  <2>3. CASE ~(Cardinality(Tracked) < h.maxKeys) /\ ~(Cardinality(Live) < h.maxKeys)
    <3>1. kept \in Cut([k \in Live |-> last[k]], EvictionTarget(h.maxKeys))
      BY <2>3 DEF Survivors
    <3> QED BY <3>1, <1>1, CutKeeps
  <2> QED BY <2>1, <2>2, <2>3
<1>4. IsFiniteSet(kept) /\ Cardinality(kept) <= Cardinality(Tracked)
  BY <1>3, FS_Subset DEF MemoryOK
<1>5. Cardinality(kept) \in Nat /\ Cardinality(Tracked) \in Nat
  BY <1>4, FS_CardinalityType DEF MemoryOK
<1> QED BY <1>2, <1>3, <1>4, <1>5 DEF DataOK

\* What the insertion of a new key does to the memory.
LEMMA TrackedStep ==
    ASSUME DataOK, MemoryOK, NEW k \in Keys, HandleTracked(k)
    PROVE  \E kept \in Survivors :
             /\ kept \subseteq Tracked /\ k \notin kept
             /\ last' = With([j \in kept |-> last[j]], k, now)
             /\ evicted' = evicted + (Cardinality(Tracked) - Cardinality(kept))
             /\ faithful' = (faithful /\ Live \subseteq kept)
             /\ Tracked' = kept \cup {k} /\ IsFiniteSet(Tracked')
             /\ Cardinality(Tracked') = Cardinality(kept) + 1
<1>1. PICK kept \in Survivors :
             /\ last' = With([j \in kept |-> last[j]], k, now)
             /\ evicted' = evicted + (Cardinality(Tracked) - Cardinality(kept))
             /\ faithful' = (faithful /\ Live \subseteq kept)
  BY Zenon DEF HandleTracked
<1>2. kept \subseteq Tracked /\ IsFiniteSet(kept)
  BY SurvivorsFit
<1>3. k \notin kept
  BY <1>2 DEF HandleTracked
<1>4. Tracked' = kept \cup {k}
  BY <1>1 DEF With, Tracked
<1>5. IsFiniteSet(Tracked') /\ Cardinality(Tracked') = Cardinality(kept) + 1
  BY <1>2, <1>3, <1>4, FS_AddElement
<1> QED BY <1>1, <1>2, <1>3, <1>4, <1>5

\* Every Handle call and clock reading keeps types and the bound together: the
\* count of evicted keys is a natural number because the memory is finite.
LEMMA DataStep == DataOK /\ MemoryOK /\ [Next]_vars => DataOK' /\ MemoryOK'
<1> SUFFICES ASSUME DataOK, MemoryOK, [Next]_vars PROVE DataOK' /\ MemoryOK'
  OBVIOUS
<1>0. MaxCalls \in Nat
  BY ConstantsAssumption
<1> USE <1>0 DEF DataOK, Call, Suppress, Silence, Emit, With
<1>1. ASSUME NEW k \in Keys, HandleUnlucky(k) PROVE DataOK' /\ MemoryOK'
  BY <1>1 DEF HandleUnlucky, MemoryOK, Bounded, Tracked
<1>2. ASSUME NEW k \in Keys, HandleUnkeyed(k) PROVE DataOK' /\ MemoryOK'
  BY <1>2 DEF HandleUnkeyed, MemoryOK, Bounded, Tracked
<1>3. ASSUME NEW k \in Keys, HandleSuppressed(k) PROVE DataOK' /\ MemoryOK'
  BY <1>3 DEF HandleSuppressed, MemoryOK, Bounded, Tracked
<1>4. ASSUME NEW k \in Keys, HandleRenewed(k) PROVE DataOK' /\ MemoryOK'
  <2>1. DOMAIN last' = DOMAIN last
    BY <1>4 DEF HandleRenewed, Tracked
  <2>2. MemoryOK'
    BY <1>4, <2>1 DEF HandleRenewed, MemoryOK, Bounded, Tracked
  <2> QED BY <1>4, <2>2 DEF HandleRenewed, Tracked
<1>5. ASSUME NEW k \in Keys, HandleTracked(k) PROVE DataOK' /\ MemoryOK'
  <2>1. PICK kept \in Survivors :
             /\ kept \subseteq Tracked /\ k \notin kept
             /\ last' = With([j \in kept |-> last[j]], k, now)
             /\ evicted' = evicted + (Cardinality(Tracked) - Cardinality(kept))
             /\ Tracked' = kept \cup {k} /\ IsFiniteSet(Tracked')
             /\ Cardinality(Tracked') = Cardinality(kept) + 1
    BY <1>5, TrackedStep
  <2>2. /\ Cardinality(kept) \in Nat /\ Cardinality(Tracked) \in Nat
        /\ Cardinality(kept) < h.maxKeys /\ Cardinality(kept) <= Cardinality(Tracked)
    BY SurvivorsFit
  <2>3. h' = h
    BY <1>5 DEF HandleTracked
  <2>4. MemoryOK'
    BY <2>1, <2>2, <2>3 DEF MemoryOK, Bounded
  <2>5. evicted' \in Nat
    BY <2>1, <2>2
  <2>6. DOMAIN last' \subseteq Keys /\ last' \in [DOMAIN last' -> 0 .. MaxTime]
    BY <2>1 DEF Tracked
  <2> QED BY <1>5, <2>4, <2>5, <2>6 DEF HandleTracked
<1>6. ASSUME Clock PROVE DataOK' /\ MemoryOK'
  BY <1>6 DEF Clock, MemoryOK, Bounded, Tracked
<1>7. CASE UNCHANGED vars
  BY <1>7 DEF vars, MemoryOK, Bounded, Tracked
<1> QED BY <1>1, <1>2, <1>3, <1>4, <1>5, <1>6, <1>7 DEF Next, Handle

\* The handler starts with an empty memory.
LEMMA DataInit == Init => DataOK /\ MemoryOK
<1> SUFFICES ASSUME Init PROVE DataOK /\ MemoryOK
  OBVIOUS
<1>1. h \in [interval : Nat, probability : 1 .. 100, maxKeys : Nat \ {0}]
  BY NewType DEF Init
<1>2. DataOK
  BY <1>1, ConstantsAssumption DEF Init, DataOK, Empty
<1>3. Tracked = {}
  BY DEF Init, Empty, Tracked
<1>4. MemoryOK
  BY <1>1, <1>3, FS_EmptySet DEF MemoryOK, Bounded
<1> QED BY <1>2, <1>4

-----------------------------------------------------------------------------
\* newSamplingHandler, Handle and evictLocked keep every variable in its type.
THEOREM TypeCorrect == Spec => []TypeOK
<1>1. Init => FlagsOK
  BY Zenon DEF Init, FlagsOK
<1>2. FlagsOK /\ [Next]_vars => FlagsOK'
  BY Zenon DEF FlagsOK, Next, Handle, HandleUnlucky, HandleUnkeyed, HandleSuppressed,
               HandleRenewed, HandleTracked, Clock, vars, Suppress, Silence, Emit
<1>3. DataOK /\ FlagsOK => TypeOK
  BY DEF DataOK, FlagsOK, TypeOK, Tracked
<1> QED BY <1>1, <1>2, <1>3, DataInit, DataStep, PTL DEF Spec

\* TrackedKeys never exceeds MaxKeys: evictLocked keeps the memory within its
\* bound, for every bound, number of keys, interval and clock.
THEOREM MemoryBounded == Spec => []Bounded
<1>1. MemoryOK => Bounded
  BY DEF MemoryOK
<1> QED BY <1>1, DataInit, DataStep, PTL DEF Spec

\* Evicted is an exact count: every key ever tracked is tracked or was counted.
THEOREM EvictionsCounted == Spec => []EvictedExact
<1>1. Init => EvictedExact
  <2> SUFFICES ASSUME Init PROVE EvictedExact
    OBVIOUS
  <2>1. Tracked = {}
    BY DEF Init, Empty, Tracked
  <2> QED BY <2>1, FS_EmptySet DEF Init, EvictedExact
<1>2. DataOK /\ MemoryOK /\ EvictedExact /\ [Next]_vars => EvictedExact'
  <2> SUFFICES ASSUME DataOK, MemoryOK, EvictedExact, [Next]_vars PROVE EvictedExact'
    OBVIOUS
  <2>1. ASSUME NEW k \in Keys, HandleUnlucky(k) PROVE EvictedExact'
    BY <2>1 DEF HandleUnlucky, EvictedExact, Tracked
  <2>2. ASSUME NEW k \in Keys, HandleUnkeyed(k) PROVE EvictedExact'
    BY <2>2 DEF HandleUnkeyed, EvictedExact, Tracked
  <2>3. ASSUME NEW k \in Keys, HandleSuppressed(k) PROVE EvictedExact'
    BY <2>3 DEF HandleSuppressed, EvictedExact, Tracked
  <2>4. ASSUME NEW k \in Keys, HandleRenewed(k) PROVE EvictedExact'
    <3>1. DOMAIN last' = DOMAIN last
      BY <2>4 DEF HandleRenewed, Tracked, DataOK
    <3> QED BY <2>4, <3>1 DEF HandleRenewed, EvictedExact, Tracked
  <2>5. ASSUME NEW k \in Keys, HandleTracked(k) PROVE EvictedExact'
    <3>1. PICK kept \in Survivors :
               /\ evicted' = evicted + (Cardinality(Tracked) - Cardinality(kept))
               /\ Cardinality(Tracked') = Cardinality(kept) + 1
      BY <2>5, TrackedStep
    <3>2. Cardinality(kept) \in Nat /\ Cardinality(Tracked) \in Nat
      BY SurvivorsFit
    <3>3. created' = created + 1
      BY <2>5 DEF HandleTracked
    <3> QED BY <3>1, <3>2, <3>3 DEF EvictedExact, DataOK
  <2>6. ASSUME Clock PROVE EvictedExact'
    BY <2>6 DEF Clock, EvictedExact, Tracked
  <2>7. CASE UNCHANGED vars
    BY <2>7 DEF vars, EvictedExact, Tracked
  <2> QED BY <2>1, <2>2, <2>3, <2>4, <2>5, <2>6, <2>7 DEF Next, Handle
<1> QED BY <1>1, <1>2, DataInit, DataStep, PTL DEF Spec

-----------------------------------------------------------------------------
\* Without an interval the memory is empty.
UnkeyedEmpty == h.interval = 0 => Tracked = {}

\* Until a live key is dropped or the clock is set back, what the memory has
\* forgotten of a key no longer matters, and no time lies ahead of the clock.
Forgetting ==
    faithful => /\ ~early
                /\ \A k \in DOMAIN lastEmit :
                     /\ lastEmit[k] <= now
                     /\ k \notin Tracked => now - lastEmit[k] >= h.interval

\* Handle touches the memory only when there is an interval.
LEMMA UnkeyedStep == UnkeyedEmpty /\ [Next]_vars => UnkeyedEmpty'
BY SMT DEF UnkeyedEmpty, Next, Handle, HandleUnlucky, HandleUnkeyed, HandleSuppressed,
    HandleRenewed, HandleTracked, Clock, vars, Call, Tracked

\* The memory holds the time of a key's last emission and no other.
THEOREM EmissionsRemembered == Spec => []RemembersEmissions
<1>1. Init => RemembersEmissions /\ UnkeyedEmpty
  BY DEF Init, Empty, Tracked, RemembersEmissions, UnkeyedEmpty
<1>2. DataOK /\ MemoryOK /\ UnkeyedEmpty /\ RemembersEmissions /\ [Next]_vars
        => RemembersEmissions'
  <2> SUFFICES ASSUME DataOK, MemoryOK, UnkeyedEmpty, RemembersEmissions, [Next]_vars
               PROVE  RemembersEmissions'
    OBVIOUS
  <2> USE DEF RemembersEmissions, Tracked
  <2>1. ASSUME NEW k \in Keys, HandleUnlucky(k) PROVE RemembersEmissions'
    BY <2>1 DEF HandleUnlucky, Suppress
  <2>2. ASSUME NEW k \in Keys, HandleUnkeyed(k) PROVE RemembersEmissions'
    BY <2>2 DEF HandleUnkeyed, UnkeyedEmpty
  <2>3. ASSUME NEW k \in Keys, HandleSuppressed(k) PROVE RemembersEmissions'
    BY <2>3 DEF HandleSuppressed, Silence, Suppress
  <2>4. ASSUME NEW k \in Keys, HandleRenewed(k) PROVE RemembersEmissions'
    BY <2>4 DEF HandleRenewed, Emit, With, DataOK
  <2>5. ASSUME NEW k \in Keys, HandleTracked(k) PROVE RemembersEmissions'
    <3>1. PICK kept \in Survivors :
               /\ kept \subseteq Tracked /\ k \notin kept
               /\ last' = With([j \in kept |-> last[j]], k, now)
      BY <2>5, TrackedStep
    <3>2. lastEmit' = With(lastEmit, k, now)
      BY <2>5 DEF HandleTracked, Emit
    <3> QED BY <3>1, <3>2 DEF With
  <2>6. ASSUME Clock PROVE RemembersEmissions'
    BY <2>6 DEF Clock
  <2>7. CASE UNCHANGED vars
    BY <2>7 DEF vars
  <2> QED BY <2>1, <2>2, <2>3, <2>4, <2>5, <2>6, <2>7 DEF Next, Handle
<1> QED BY <1>1, <1>2, DataInit, DataStep, UnkeyedStep, PTL DEF Spec

\* No record is silenced unless its key was emitted less than an interval before,
\* whatever was evicted in between and however the clock is set (allow).
THEOREM NoneSilencedLate == Spec => []SilencedForAnInterval
<1>1. Init => SilencedForAnInterval
  BY DEF Init, SilencedForAnInterval
<1>2. DataOK /\ RemembersEmissions /\ SilencedForAnInterval /\ [Next]_vars
        => SilencedForAnInterval'
  <2> SUFFICES ASSUME DataOK, RemembersEmissions, ~late, [Next]_vars PROVE ~late'
    BY DEF SilencedForAnInterval
  <2>1. ASSUME NEW k \in Keys, HandleSuppressed(k) PROVE ~late'
    <3>1. /\ k \in Tracked /\ Elapsed(k) < h.interval
          /\ late' = (late \/ ~Recent(k))
      BY <2>1 DEF HandleSuppressed, Silence
    <3>2. k \in DOMAIN lastEmit /\ last[k] = lastEmit[k]
      BY <3>1 DEF RemembersEmissions
    <3>3. now \in Int /\ last[k] \in Int /\ h.interval \in Nat
      BY <3>1 DEF DataOK, Tracked
    <3>4. now - last[k] < h.interval
      BY <3>1, <3>3 DEF Elapsed
    <3>5. Recent(k)
      BY <3>2, <3>4 DEF Recent
    <3> QED BY <3>1, <3>5, Zenon
  <2>2. ASSUME late' = late PROVE ~late'
    BY <2>2
  <2>3. CASE \E k \in Keys : \/ HandleUnlucky(k) \/ HandleUnkeyed(k)
                             \/ HandleRenewed(k) \/ HandleTracked(k)
    BY <2>2, <2>3, Zenon DEF HandleUnlucky, HandleUnkeyed, HandleRenewed, HandleTracked, Emit
  <2>4. CASE Clock \/ UNCHANGED vars
    BY <2>2, <2>4, Zenon DEF Clock, vars
  <2> QED BY <2>1, <2>3, <2>4, Zenon DEF Next, Handle
<1> QED BY <1>1, <1>2, EmissionsRemembered, DataInit, DataStep, PTL DEF Spec

\* No Handle call emits a key early or forgets one that matters, unless a live
\* key is dropped or the clock is set back.
LEMMA ForgettingStep ==
    DataOK /\ MemoryOK /\ UnkeyedEmpty /\ RemembersEmissions /\ Forgetting /\ [Next]_vars
      => Forgetting'
<1> SUFFICES ASSUME DataOK, MemoryOK, UnkeyedEmpty, RemembersEmissions, Forgetting,
                    [Next]_vars, faithful'
             PROVE  /\ ~early'
                    /\ \A k \in DOMAIN lastEmit' :
                         /\ lastEmit'[k] <= now'
                         /\ k \notin Tracked' => now' - lastEmit'[k] >= h'.interval
  BY Zenon DEF Forgetting
<1> DEFINE Past == \A k \in DOMAIN lastEmit :
                     /\ lastEmit[k] <= now
                     /\ k \notin Tracked => now - lastEmit[k] >= h.interval
           Kept == /\ ~early' /\ Past'
<1>a. ASSUME faithful PROVE ~early /\ Past
  BY <1>a, Zenon DEF Forgetting
<1>b. /\ now \in Int /\ h.interval \in Nat
      /\ \A k \in DOMAIN lastEmit : lastEmit[k] \in Int
      /\ \A k \in Tracked : last[k] \in Int
  BY DEF DataOK, Tracked
<1>1. ASSUME NEW k \in Keys, HandleUnlucky(k) PROVE Kept
  <2>1. faithful /\ UNCHANGED <<h, now, last, lastEmit, early>>
    BY <1>1, Zenon DEF HandleUnlucky, Suppress, Call
  <2> QED BY <2>1, <1>a DEF Tracked
<1>2. ASSUME NEW k \in Keys, HandleUnkeyed(k) PROVE Kept
  <2>1. faithful /\ UNCHANGED <<h, now, last>> /\ h.interval = 0
    BY <1>2, Zenon DEF HandleUnkeyed, Call
  <2>2. /\ lastEmit' = With(lastEmit, k, now)
        /\ early' = (early \/ (k \in DOMAIN lastEmit /\ now - lastEmit[k] < h.interval))
    BY <1>2, Zenon DEF HandleUnkeyed, Emit, Recent
  <2>3. ~(k \in DOMAIN lastEmit /\ now - lastEmit[k] < h.interval)
    BY <2>1, <1>a, <1>b
  <2>4. ~early'
    BY <2>1, <2>2, <2>3, <1>a, Zenon
  <2>5. Past'
    BY <2>1, <2>2, <1>a, <1>b DEF With, Tracked
  <2> QED BY <2>4, <2>5
<1>3. ASSUME NEW k \in Keys, HandleSuppressed(k) PROVE Kept
  <2>1. faithful /\ UNCHANGED <<h, now, last, lastEmit, early>>
    BY <1>3, Zenon DEF HandleSuppressed, Silence, Suppress, Call
  <2> QED BY <2>1, <1>a DEF Tracked
<1>4. ASSUME NEW k \in Keys, HandleRenewed(k) PROVE Kept
  <2>1. /\ faithful /\ UNCHANGED <<h, now>> /\ h.interval > 0
        /\ k \in Tracked /\ Elapsed(k) >= h.interval
        /\ last' = [last EXCEPT ![k] = now]
    BY <1>4, Zenon DEF HandleRenewed, Call
  <2>2. /\ lastEmit' = With(lastEmit, k, now)
        /\ early' = (early \/ (k \in DOMAIN lastEmit /\ now - lastEmit[k] < h.interval))
    BY <1>4, Zenon DEF HandleRenewed, Emit, Recent
  <2>3. now - last[k] >= h.interval
    BY <2>1, <1>b DEF Elapsed
  <2>4. last[k] = lastEmit[k]
    BY <2>1 DEF RemembersEmissions
  <2>5. ~(k \in DOMAIN lastEmit /\ now - lastEmit[k] < h.interval)
    BY <2>3, <2>4, <2>1, <1>b
  <2>6. ~early'
    BY <2>1, <2>2, <2>5, <1>a, Zenon
  <2>7. Tracked' = Tracked
    BY <2>1 DEF Tracked, DataOK
  <2>8. Past'
    BY <2>1, <2>2, <2>7, <1>a, <1>b DEF With
  <2> QED BY <2>6, <2>8
<1>5. ASSUME NEW k \in Keys, HandleTracked(k) PROVE Kept
  <2>1. PICK kept \in Survivors :
             /\ kept \subseteq Tracked
             /\ faithful' = (faithful /\ Live \subseteq kept)
             /\ Tracked' = kept \cup {k}
    BY <1>5, TrackedStep
  <2>2. faithful /\ Live \subseteq kept
    BY <2>1, Zenon
  <2>3. UNCHANGED <<h, now>> /\ k \notin Tracked
    BY <1>5, Zenon DEF HandleTracked, Call
  <2>4. /\ lastEmit' = With(lastEmit, k, now)
        /\ early' = (early \/ (k \in DOMAIN lastEmit /\ now - lastEmit[k] < h.interval))
    BY <1>5, Zenon DEF HandleTracked, Emit, Recent
  <2>5. ~(k \in DOMAIN lastEmit /\ now - lastEmit[k] < h.interval)
    BY <2>2, <2>3, <1>a, <1>b
  <2>6. ~early'
    BY <2>2, <2>4, <2>5, <1>a, Zenon
  <2>7. ASSUME NEW j \in DOMAIN lastEmit, j \notin kept
        PROVE  now - lastEmit[j] >= h.interval
    <3>1. CASE j \in Tracked
      BY <3>1, <2>2, <2>7, <1>b DEF Live, RemembersEmissions
    <3>2. CASE j \notin Tracked
      BY <3>2, <2>2, <1>a
    <3> QED BY <3>1, <3>2
  <2>8. Past'
    BY <2>1, <2>2, <2>3, <2>4, <2>7, <1>a, <1>b DEF With
  <2> QED BY <2>6, <2>8
<1>6. ASSUME Clock PROVE Kept
  <2>1. /\ faithful /\ now <= now' /\ now' \in Int
        /\ UNCHANGED <<h, last, lastEmit, early>>
    <3>1. now' \in 0 .. MaxTime
      BY <1>6, Zenon DEF Clock
    <3>2. faithful /\ now <= now' /\ UNCHANGED <<h, last, lastEmit, early>>
      BY <1>6, Zenon DEF Clock
    <3> QED BY <3>1, <3>2
  <2>2. ~early'
    BY <2>1, <1>a
  <2>3. Past'
    BY <2>1, <1>a, <1>b DEF Tracked
  <2> QED BY <2>2, <2>3
<1>7. ASSUME UNCHANGED vars PROVE Kept
  <2>1. faithful /\ UNCHANGED <<h, now, last, lastEmit, early>>
    BY <1>7, Zenon DEF vars
  <2> QED BY <2>1, <1>a DEF Tracked
<1> HIDE DEF Kept
<1>8. Kept
  BY <1>1, <1>2, <1>3, <1>4, <1>5, <1>6, <1>7, Zenon DEF Next, Handle
<1> QED BY <1>8 DEF Kept

\* What evictLocked's first pass forgets is invisible: as long as no live key is
\* dropped and the clock is not set back, no key is emitted early.
THEOREM ForgettingInvisible == Spec => []ForgetsInvisibly
<1>1. Init => /\ RemembersEmissions /\ UnkeyedEmpty
              /\ Forgetting
  BY DEF Init, Empty, Tracked, RemembersEmissions, UnkeyedEmpty, Forgetting
<1>2. Forgetting => ForgetsInvisibly
  BY Zenon DEF Forgetting, ForgetsInvisibly
<1>3. Spec => []RemembersEmissions
  BY EmissionsRemembered
<1> QED BY <1>1, <1>2, <1>3, DataInit, DataStep, UnkeyedStep, ForgettingStep, PTL DEF Spec
=============================================================================
