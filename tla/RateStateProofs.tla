-------------------------- MODULE RateStateProofs --------------------------
(***************************************************************************)
(* Theorems about RateState, for every set of keys, finite or not, every   *)
(* set of intervals, every bound on the map and any number of goroutines.  *)
(***************************************************************************)
EXTENDS RateState, DataLemmas

-----------------------------------------------------------------------------
(* The map and its bound.                                                  *)

\* evictionTarget leaves room for the entry that is inserted next.
LEMMA TargetLeavesRoom == EvictionTarget \in 0 .. MaxKeys - 1
<1>1. MaxKeys \in Nat \ {0}
  BY ConstantsAssumption
<1>2. CASE MaxKeys \div 4 = 0
  BY <1>1, <1>2, SMT DEF EvictionTarget
<1>3. CASE MaxKeys \div 4 # 0
  BY <1>1, <1>3, SMT DEF EvictionTarget
<1> QED BY <1>2, <1>3

\* The map is finite and within its bound.
MapOK == IsFiniteSet(Tracked) /\ Bounded

\* evictLocked makes room and adds nothing, on each of its paths.
LEMMA SurvivorsFit ==
    ASSUME MapOK, NEW kept \in Survivors
    PROVE  /\ kept \subseteq Tracked /\ IsFiniteSet(kept)
           /\ Cardinality(kept) \in Nat /\ Cardinality(kept) < MaxKeys
<1>1. Live \subseteq Tracked
  BY DEF Live
<1>2. kept \subseteq Tracked /\ Cardinality(kept) < MaxKeys
  <2>1. CASE Cardinality(Tracked) < MaxKeys
    BY <2>1 DEF Survivors
  <2>2. CASE ~(Cardinality(Tracked) < MaxKeys) /\ Cardinality(Live) < MaxKeys
    BY <2>2, <1>1 DEF Survivors
  <2>3. CASE ~(Cardinality(Tracked) < MaxKeys) /\ ~(Cardinality(Live) < MaxKeys)
    <3>1. kept \in Cut([k \in Live |-> limiters[k].lastSeen], EvictionTarget)
      BY <2>3 DEF Survivors
    <3>2. kept \subseteq Live /\ Cardinality(kept) = EvictionTarget
      BY <3>1, CutKeeps
    <3> QED BY <3>2, <1>1, TargetLeavesRoom, ConstantsAssumption
  <2> QED BY <2>1, <2>2, <2>3
<1>3. IsFiniteSet(kept) /\ Cardinality(kept) \in Nat
  BY <1>2, FS_Subset, FS_CardinalityType DEF MapOK
<1> QED BY <1>2, <1>3

\* What a hit on an unknown key does to the map.
LEMMA UnknownStep ==
    ASSUME MapOK, NEW g, NEW k, NEW interval, ShouldLogUnknown(g, k, interval)
    PROVE  \E kept \in Survivors :
             /\ kept \subseteq Tracked /\ k \notin kept
             /\ limiters' = [j \in kept \cup {k} |->
                  IF j = k THEN Settled([interval |-> interval, admitted |-> Unused,
                                         suppressed |-> 0, lastSeen |-> now], now)
                           ELSE limiters[j]]
             /\ Tracked' = kept \cup {k}
             /\ faithful' = (faithful /\ Live \subseteq kept)
             /\ MapOK'
<1>1. PICK kept \in Survivors :
             /\ limiters' = [j \in kept \cup {k} |->
                  IF j = k THEN Settled([interval |-> interval, admitted |-> Unused,
                                         suppressed |-> 0, lastSeen |-> now], now)
                           ELSE limiters[j]]
             /\ faithful' = (faithful /\ Live \subseteq kept)
  BY Zenon DEF ShouldLogUnknown
<1>2. /\ kept \subseteq Tracked /\ IsFiniteSet(kept)
      /\ Cardinality(kept) \in Nat /\ Cardinality(kept) < MaxKeys
  BY SurvivorsFit
<1>3. k \notin kept
  BY <1>2 DEF ShouldLogUnknown
<1>4. Tracked' = kept \cup {k}
  BY <1>1 DEF Tracked
<1>5. IsFiniteSet(Tracked') /\ Cardinality(Tracked') = Cardinality(kept) + 1
  BY <1>2, <1>3, <1>4, FS_AddElement
<1>6. MapOK'
  BY <1>2, <1>5, ConstantsAssumption DEF MapOK, Bounded
<1> QED BY <1>1, <1>2, <1>3, <1>4, <1>6

\* Every log call and clock reading keeps the map within its bound.
LEMMA MapStep == MapOK /\ [Next]_vars => MapOK'
<1> SUFFICES ASSUME MapOK, [Next]_vars PROVE MapOK'
  OBVIOUS
<1>1. ASSUME NEW g, NEW k, NEW interval, ShouldLogKnown(g, k, interval) PROVE MapOK'
  <2>1. Tracked' = Tracked
    BY <1>1 DEF ShouldLogKnown, Tracked
  <2> QED BY <2>1 DEF MapOK, Bounded
<1>2. ASSUME NEW g, NEW k, NEW interval, ShouldLogUnknown(g, k, interval) PROVE MapOK'
  BY <1>2, UnknownStep
<1>3. ASSUME UNCHANGED limiters PROVE MapOK'
  BY <1>3 DEF MapOK, Bounded, Tracked
<1>4. ASSUME NEW g, Emit(g) PROVE UNCHANGED limiters
  BY <1>4 DEF Emit, stateVars
<1>5. Clock => UNCHANGED limiters
  BY DEF Clock, stateVars
<1>6. UNCHANGED vars => UNCHANGED limiters
  BY DEF vars, stateVars
<1> QED BY <1>1, <1>2, <1>3, <1>4, <1>5, <1>6 DEF Next, LogCall

\* newRateState starts with an empty map.
LEMMA MapInit == Init => MapOK
<1> SUFFICES ASSUME Init PROVE MapOK
  OBVIOUS
<1>1. Tracked = {}
  BY DEF Init, Tracked
<1> QED BY <1>1, FS_EmptySet, ConstantsAssumption DEF MapOK, Bounded

\* evictLocked: at most MaxKeys keys are tracked, for every bound, number of keys,
\* intervals and clock.
THEOREM MapBounded == Spec => []Bounded
<1>1. MapOK => Bounded
  BY DEF MapOK
<1> QED BY <1>1, MapInit, MapStep, PTL DEF Spec

-----------------------------------------------------------------------------
(* Admissions.                                                             *)

\* The part of TypeOK that the decisions need.
DataOK ==
    /\ now \in Nat
    /\ limiters \in [Tracked -> Entries]
    /\ lastAdmit \in [DOMAIN lastAdmit -> [at : Nat, interval : Int]]

\* Until an entry that matters is dropped or the clock set back, an entry tells the
\* key's last admission, and what is no longer tracked can no longer suppress.
Admissions ==
    /\ ~early
    /\ \A k \in DOMAIN lastAdmit :
         /\ lastAdmit[k].at <= now
         /\ k \notin Tracked => now - lastAdmit[k].at >= lastAdmit[k].interval
    /\ \A k \in Tracked :
         /\ k \in DOMAIN lastAdmit
         /\ limiters[k].interval = lastAdmit[k].interval
         /\ lastAdmit[k].at <= limiters[k].lastSeen /\ limiters[k].lastSeen <= now
         /\ limiters[k].interval > 0 => limiters[k].admitted = lastAdmit[k].at

\* A decision keeps an entry an entry, and its interval.
LEMMA SettledEntry ==
    ASSUME NEW e \in Entries, NEW t \in Nat
    PROVE  /\ Settled(e, t) \in Entries
           /\ Settled(e, t).interval = e.interval
           /\ Settled(e, t).lastSeen = e.lastSeen
           /\ e.interval > 0 => Settled(e, t).admitted = IF Allows(e, t) THEN t ELSE e.admitted
<1>1. CASE ~Allows(e, t)
  BY <1>1 DEF Settled, Entries, Unused
<1>2. CASE Allows(e, t) /\ e.interval <= 0
  BY <1>2 DEF Settled, Entries, Unused
<1>3. CASE Allows(e, t) /\ ~(e.interval <= 0)
  BY <1>3 DEF Settled, Entries, Unused
<1> QED BY <1>1, <1>2, <1>3

\* What Decide does to the history of admissions.
LEMMA DecideStep ==
    ASSUME DataOK, NEW g, NEW k, NEW e \in Entries, NEW t \in Nat, Decide(g, k, e, t)
    PROVE  /\ lastAdmit' \in [DOMAIN lastAdmit' -> [at : Nat, interval : Int]]
           /\ ~Allows(e, t) => UNCHANGED <<lastAdmit, early>>
           /\ Allows(e, t) =>
                /\ DOMAIN lastAdmit' = DOMAIN lastAdmit \cup {k}
                /\ lastAdmit'[k] = [at |-> t, interval |-> e.interval]
                /\ \A j \in DOMAIN lastAdmit \ {k} : lastAdmit'[j] = lastAdmit[j]
                /\ early' = (early \/ (/\ k \in DOMAIN lastAdmit
                                       /\ t - lastAdmit[k].at < lastAdmit[k].interval))
<1>1. CASE Allows(e, t)
  <2>1. lastAdmit' = [j \in DOMAIN lastAdmit \cup {k} |->
                         IF j = k THEN [at |-> t, interval |-> e.interval] ELSE lastAdmit[j]]
    BY <1>1, Zenon DEF Decide
  <2>2. early' = (early \/ (/\ k \in DOMAIN lastAdmit
                            /\ t - lastAdmit[k].at < lastAdmit[k].interval))
    BY <1>1, Zenon DEF Decide
  <2>3. [at |-> t, interval |-> e.interval] \in [at : Nat, interval : Int]
    BY DEF Entries
  <2>4. \A j \in DOMAIN lastAdmit : lastAdmit[j] \in [at : Nat, interval : Int]
    BY DEF DataOK
  <2>5. lastAdmit' \in [DOMAIN lastAdmit' -> [at : Nat, interval : Int]]
    BY <2>1, <2>3, <2>4, Zenon
  <2>6. /\ DOMAIN lastAdmit' = DOMAIN lastAdmit \cup {k}
        /\ lastAdmit'[k] = [at |-> t, interval |-> e.interval]
        /\ \A j \in DOMAIN lastAdmit \ {k} : lastAdmit'[j] = lastAdmit[j]
    BY <2>1
  <2> QED BY <1>1, <2>2, <2>5, <2>6, Zenon
<1>2. CASE ~Allows(e, t)
  <2>1. UNCHANGED <<lastAdmit, early>>
    BY <1>2, Zenon DEF Decide
  <2> QED BY <1>2, <2>1 DEF DataOK
<1> QED BY <1>1, <1>2

\* The entry that a hit on a known key is decided on.
Hit(k) == [limiters[k] EXCEPT !.lastSeen = SeenAt(limiters[k])]

\* It differs from the entry in the time it was last seen, which never goes back.
LEMMA HitEntry ==
    ASSUME DataOK, NEW k \in Tracked
    PROVE  /\ SeenAt(limiters[k]) \in Nat
           /\ Hit(k) \in Entries
           /\ Hit(k).interval = limiters[k].interval
           /\ Hit(k).admitted = limiters[k].admitted
           /\ Hit(k).lastSeen = SeenAt(limiters[k])
<1>1. limiters[k] \in Entries
  BY DEF DataOK
<1>2. SeenAt(limiters[k]) \in Nat
  BY <1>1 DEF SeenAt, Entries, DataOK
<1> QED BY <1>1, <1>2 DEF Hit, Entries

\* The entry that newRateEntry makes.
Fresh(interval) ==
    [interval |-> interval, admitted |-> Unused, suppressed |-> 0, lastSeen |-> now]

\* A new entry admits the record that made it.
LEMMA FreshEntry ==
    ASSUME now \in Nat, NEW interval \in Int
    PROVE  Fresh(interval) \in Entries /\ Allows(Fresh(interval), now)
BY DEF Fresh, Entries, Allows, Unused

\* A hit on a known key in the terms of the lemmas above.
LEMMA KnownStep ==
    ASSUME DataOK, NEW g, NEW k, NEW interval, ShouldLogKnown(g, k, interval)
    PROVE  /\ k \in Tracked /\ Tracked' = Tracked
           /\ limiters' = [limiters EXCEPT ![k] = Settled(Hit(k), SeenAt(limiters[k]))]
           /\ Decide(g, k, Hit(k), SeenAt(limiters[k]))
           /\ UNCHANGED <<now, faithful>>
<1>1. /\ k \in Tracked /\ UNCHANGED <<now, faithful>>
      /\ limiters' = [limiters EXCEPT ![k] = Settled(Hit(k), SeenAt(limiters[k]))]
      /\ Decide(g, k, Hit(k), SeenAt(limiters[k]))
  BY DEF ShouldLogKnown, Hit
<1>2. Tracked' = Tracked
  BY <1>1 DEF Tracked
<1> QED BY <1>1, <1>2

\* Every log call and clock reading keeps entries and admissions in their types.
LEMMA DataStep == MapOK /\ DataOK /\ [Next]_vars => DataOK'
<1> SUFFICES ASSUME MapOK, DataOK, [Next]_vars PROVE DataOK'
  OBVIOUS
<1>1. ASSUME NEW g, NEW k, NEW interval, ShouldLogKnown(g, k, interval) PROVE DataOK'
  <2> DEFINE t == SeenAt(limiters[k])
  <2>1. /\ k \in Tracked /\ Tracked' = Tracked /\ now' = now
        /\ limiters' = [limiters EXCEPT ![k] = Settled(Hit(k), t)]
        /\ Decide(g, k, Hit(k), t)
    BY <1>1, KnownStep
  <2>2. t \in Nat /\ Hit(k) \in Entries
    BY <2>1, HitEntry
  <2> HIDE DEF t
  <2>3. Settled(Hit(k), t) \in Entries
    BY <2>2, SettledEntry
  <2>4. limiters' \in [Tracked' -> Entries]
    BY <2>1, <2>3 DEF DataOK
  <2>5. lastAdmit' \in [DOMAIN lastAdmit' -> [at : Nat, interval : Int]]
    BY <2>1, <2>2, DecideStep
  <2> QED BY <2>1, <2>4, <2>5 DEF DataOK
<1>2. ASSUME NEW g, NEW k, NEW interval \in Intervals, ShouldLogUnknown(g, k, interval)
      PROVE  DataOK'
  <2>1. PICK kept \in Survivors :
             /\ kept \subseteq Tracked
             /\ limiters' = [j \in kept \cup {k} |->
                  IF j = k THEN Settled(Fresh(interval), now) ELSE limiters[j]]
             /\ Tracked' = kept \cup {k}
    BY <1>2, UnknownStep DEF Fresh
  <2>2. Fresh(interval) \in Entries
    BY FreshEntry, ConstantsAssumption DEF DataOK
  <2>3. Settled(Fresh(interval), now) \in Entries
    BY <2>2, SettledEntry DEF DataOK
  <2>4. limiters' \in [Tracked' -> Entries]
    BY <2>1, <2>3 DEF DataOK
  <2>5. Decide(g, k, Fresh(interval), now) /\ now' = now
    BY <1>2 DEF ShouldLogUnknown, Fresh
  <2>6. now \in Nat
    BY DEF DataOK
  <2>7. lastAdmit' \in [DOMAIN lastAdmit' -> [at : Nat, interval : Int]]
    BY <2>2, <2>5, <2>6, DecideStep
  <2> QED BY <2>4, <2>5, <2>6, <2>7 DEF DataOK
<1>3. ASSUME NEW g, Emit(g) PROVE DataOK'
  BY <1>3 DEF Emit, stateVars, DataOK, Tracked
<1>4. ASSUME Clock PROVE DataOK'
  <2>1. now' \in Nat
    BY <1>4, ConstantsAssumption DEF Clock
  <2> QED BY <1>4, <2>1 DEF Clock, stateVars, DataOK, Tracked
<1>5. CASE UNCHANGED vars
  BY <1>5 DEF vars, stateVars, history, DataOK, Tracked
<1> QED BY <1>1, <1>2, <1>3, <1>4, <1>5 DEF Next, LogCall

\* A hit on a known key admits it no earlier than its first interval allows.
LEMMA KnownInTime ==
    ASSUME DataOK, Admissions, NEW g, NEW k, NEW interval, ShouldLogKnown(g, k, interval)
    PROVE  Admissions'
<1> DEFINE e == limiters[k]
           a == lastAdmit[k]
<1>1. /\ k \in Tracked /\ Tracked' = Tracked /\ now' = now
      /\ limiters' = [limiters EXCEPT ![k] = Settled(Hit(k), SeenAt(e))]
      /\ Decide(g, k, Hit(k), SeenAt(e))
  BY KnownStep
<1>2. /\ e \in Entries /\ now \in Nat
      /\ k \in DOMAIN lastAdmit /\ a \in [at : Nat, interval : Int]
      /\ e.interval = a.interval /\ a.at <= e.lastSeen /\ e.lastSeen <= now
      /\ e.interval > 0 => e.admitted = a.at
  BY <1>1 DEF DataOK, Admissions
<1>3. SeenAt(e) = now
  BY <1>2 DEF SeenAt, Entries
<1>4. /\ Hit(k) \in Entries /\ Hit(k).interval = e.interval
      /\ Hit(k).admitted = e.admitted /\ Hit(k).lastSeen = now
  BY <1>1, <1>3, HitEntry
<1>5. /\ Settled(Hit(k), now).interval = e.interval
      /\ Settled(Hit(k), now).lastSeen = now
      /\ e.interval > 0 => Settled(Hit(k), now).admitted
                             = IF Allows(Hit(k), now) THEN now ELSE e.admitted
  BY <1>2, <1>4, SettledEntry
<1>6. /\ limiters'[k] = Settled(Hit(k), now)
      /\ \A j \in Tracked \ {k} : limiters'[j] = limiters[j]
  BY <1>1, <1>3 DEF DataOK, Tracked
<1>7. CASE ~Allows(Hit(k), now)
  <2>1. UNCHANGED <<lastAdmit, early>>
    BY <1>1, <1>2, <1>3, <1>4, <1>7, DecideStep
  <2> QED BY <1>1, <1>2, <1>5, <1>6, <1>7, <2>1 DEF Admissions, Entries
<1>8. CASE Allows(Hit(k), now)
  <2>1. /\ DOMAIN lastAdmit' = DOMAIN lastAdmit \cup {k}
        /\ lastAdmit'[k] = [at |-> now, interval |-> e.interval]
        /\ \A j \in DOMAIN lastAdmit \ {k} : lastAdmit'[j] = lastAdmit[j]
        /\ early' = (early \/ (k \in DOMAIN lastAdmit /\ now - a.at < a.interval))
    <3>1. /\ DOMAIN lastAdmit' = DOMAIN lastAdmit \cup {k}
          /\ lastAdmit'[k] = [at |-> SeenAt(e), interval |-> Hit(k).interval]
          /\ \A j \in DOMAIN lastAdmit \ {k} : lastAdmit'[j] = lastAdmit[j]
          /\ early' = (early \/ (k \in DOMAIN lastAdmit /\ SeenAt(e) - a.at < a.interval))
      <4>1. SeenAt(e) \in Nat /\ Allows(Hit(k), SeenAt(e))
        BY <1>2, <1>3, <1>8
      <4> QED BY <1>1, <1>4, <4>1, DecideStep, Zenon
    <3> QED BY <3>1, <1>3, <1>4, Zenon
  <2>2. ~(now - a.at < a.interval)
    BY <1>2, <1>4, <1>8 DEF Allows, Entries, Unused
  <2>3. ~early'
    BY <2>1, <2>2, Zenon DEF Admissions
  <2> HIDE DEF e, a
  <2>4. ASSUME NEW j \in DOMAIN lastAdmit'
        PROVE  /\ lastAdmit'[j].at <= now'
               /\ j \notin Tracked' => now' - lastAdmit'[j].at >= lastAdmit'[j].interval
    BY <1>1, <1>2, <2>1 DEF Admissions
  <2>5. ASSUME NEW j \in Tracked'
        PROVE  /\ j \in DOMAIN lastAdmit'
               /\ limiters'[j].interval = lastAdmit'[j].interval
               /\ lastAdmit'[j].at <= limiters'[j].lastSeen /\ limiters'[j].lastSeen <= now'
               /\ limiters'[j].interval > 0 => limiters'[j].admitted = lastAdmit'[j].at
    <3>1. CASE j = k
      BY <1>1, <1>2, <1>5, <1>6, <1>8, <2>1, <3>1
    <3>2. CASE j # k
      BY <1>1, <1>6, <2>1, <3>2 DEF Admissions
    <3> QED BY <3>1, <3>2
  <2> QED BY <2>3, <2>4, <2>5 DEF Admissions
<1> QED BY <1>7, <1>8

\* A hit on an unknown key: the interval of its last admission has passed, and what
\* evictLocked drops with every entry that matters kept can suppress no more.
LEMMA UnknownInTime ==
    ASSUME MapOK, DataOK, Admissions, faithful', NEW g, NEW k, NEW interval \in Intervals,
           ShouldLogUnknown(g, k, interval)
    PROVE  Admissions'
<1>1. PICK kept \in Survivors :
           /\ kept \subseteq Tracked /\ k \notin kept
           /\ limiters' = [j \in kept \cup {k} |->
                IF j = k THEN Settled(Fresh(interval), now) ELSE limiters[j]]
           /\ Tracked' = kept \cup {k}
           /\ faithful' = (faithful /\ Live \subseteq kept)
  BY UnknownStep DEF Fresh
<1>2. Live \subseteq kept
  BY <1>1, Zenon
<1>3. Decide(g, k, Fresh(interval), now) /\ now' = now /\ k \notin Tracked
  BY DEF ShouldLogUnknown, Fresh
<1>4. now \in Nat /\ Fresh(interval) \in Entries /\ Allows(Fresh(interval), now)
  BY FreshEntry, ConstantsAssumption DEF DataOK
<1>5. /\ Fresh(interval).interval = interval /\ Fresh(interval).lastSeen = now
      /\ interval \in Int
  BY ConstantsAssumption DEF Fresh
<1>6. /\ Settled(Fresh(interval), now).interval = interval
      /\ Settled(Fresh(interval), now).lastSeen = now
      /\ interval > 0 => Settled(Fresh(interval), now).admitted = now
  BY <1>4, <1>5, SettledEntry
<1>7. /\ DOMAIN lastAdmit' = DOMAIN lastAdmit \cup {k}
      /\ lastAdmit'[k] = [at |-> now, interval |-> interval]
      /\ \A j \in DOMAIN lastAdmit \ {k} : lastAdmit'[j] = lastAdmit[j]
      /\ early' = (early \/ (k \in DOMAIN lastAdmit
                             /\ now - lastAdmit[k].at < lastAdmit[k].interval))
  <2>1. /\ DOMAIN lastAdmit' = DOMAIN lastAdmit \cup {k}
        /\ lastAdmit'[k] = [at |-> now, interval |-> Fresh(interval).interval]
        /\ \A j \in DOMAIN lastAdmit \ {k} : lastAdmit'[j] = lastAdmit[j]
        /\ early' = (early \/ (k \in DOMAIN lastAdmit
                               /\ now - lastAdmit[k].at < lastAdmit[k].interval))
    BY <1>3, <1>4, DecideStep, Zenon
  <2> QED BY <2>1, <1>5, Zenon
<1>8. \A j \in DOMAIN lastAdmit : lastAdmit[j].at \in Nat /\ lastAdmit[j].interval \in Int
  BY DEF DataOK
<1>9. ~(k \in DOMAIN lastAdmit /\ now - lastAdmit[k].at < lastAdmit[k].interval)
  BY <1>3, <1>4, <1>8 DEF Admissions
<1>10. ~early'
  BY <1>7, <1>9, Zenon DEF Admissions
<1>11. ASSUME NEW j \in Tracked \ kept
       PROVE  now - lastAdmit[j].at >= lastAdmit[j].interval
  <2>1. /\ limiters[j] \in Entries /\ Idle(limiters[j])
        /\ lastAdmit[j].at <= limiters[j].lastSeen /\ limiters[j].lastSeen <= now
        /\ limiters[j].interval = lastAdmit[j].interval
        /\ lastAdmit[j].at \in Nat
    BY <1>2, <1>8 DEF Live, DataOK, Admissions
  <2>2. now - limiters[j].lastSeen >= limiters[j].interval
    BY <2>1, <1>4 DEF Idle, Entries
  <2> QED BY <2>1, <2>2, <1>4 DEF Entries
<1>12. ASSUME NEW j \in DOMAIN lastAdmit'
       PROVE  /\ lastAdmit'[j].at <= now'
              /\ j \notin Tracked' => now' - lastAdmit'[j].at >= lastAdmit'[j].interval
  <2>1. CASE j = k
    BY <1>1, <1>3, <1>4, <1>7, <2>1
  <2>2. CASE j # k
    BY <1>1, <1>3, <1>7, <1>11, <2>2 DEF Admissions
  <2> QED BY <2>1, <2>2
<1>13. ASSUME NEW j \in Tracked'
       PROVE  /\ j \in DOMAIN lastAdmit'
              /\ limiters'[j].interval = lastAdmit'[j].interval
              /\ lastAdmit'[j].at <= limiters'[j].lastSeen /\ limiters'[j].lastSeen <= now'
              /\ limiters'[j].interval > 0 => limiters'[j].admitted = lastAdmit'[j].at
  <2>1. CASE j = k
    BY <1>1, <1>3, <1>4, <1>6, <1>7, <2>1
  <2>2. CASE j # k
    BY <1>1, <1>3, <1>7, <2>2 DEF Admissions
  <2> QED BY <2>1, <2>2
<1> QED BY <1>10, <1>12, <1>13 DEF Admissions

\* Nothing else admits, and the clock only adds to the time since.
LEMMA AdmissionsStep ==
    MapOK /\ DataOK /\ (faithful => Admissions) /\ [Next]_vars => (faithful => Admissions)'
<1> SUFFICES ASSUME MapOK, DataOK, faithful => Admissions, [Next]_vars, faithful'
             PROVE  Admissions'
  OBVIOUS
<1>1. ASSUME NEW g, NEW k, NEW interval, ShouldLogKnown(g, k, interval) PROVE Admissions'
  <2>1. faithful
    BY <1>1, KnownStep, Zenon
  <2> QED BY <1>1, <2>1, KnownInTime
<1>2. ASSUME NEW g, NEW k, NEW interval \in Intervals, ShouldLogUnknown(g, k, interval)
      PROVE  Admissions'
  <2>1. faithful
    BY <1>2, Zenon DEF ShouldLogUnknown
  <2> QED BY <1>2, <2>1, UnknownInTime
<1>3. ASSUME NEW g, Emit(g) PROVE Admissions'
  <2>1. faithful /\ UNCHANGED <<now, limiters, lastAdmit, early>>
    BY <1>3, Zenon DEF Emit, stateVars
  <2> QED BY <2>1 DEF Admissions, Tracked
<1>4. ASSUME Clock PROVE Admissions'
  <2>1. faithful /\ now <= now' /\ UNCHANGED <<limiters, lastAdmit, early>>
    BY <1>4, Zenon DEF Clock, stateVars
  <2>2. now' \in Nat
    BY <1>4, ConstantsAssumption DEF Clock
  <2>3. /\ now \in Nat
        /\ \A j \in DOMAIN lastAdmit : lastAdmit[j].at \in Nat /\ lastAdmit[j].interval \in Int
        /\ \A j \in Tracked : limiters[j].lastSeen \in Nat
    BY DEF DataOK, Entries
  <2> QED BY <2>1, <2>2, <2>3 DEF Admissions, Tracked
<1>5. CASE UNCHANGED vars
  <2>1. faithful /\ UNCHANGED <<now, limiters, lastAdmit, early>>
    BY <1>5, Zenon DEF vars, stateVars, history
  <2> QED BY <2>1 DEF Admissions, Tracked
<1> QED BY <1>1, <1>2, <1>3, <1>4, <1>5 DEF Next, LogCall

\* shouldLog: until the bound or a clock set back makes it forget, a key is never
\* admitted within its first interval of the admission before, whatever intervals
\* the other call sites present.
THEOREM NeverEarly == Spec => []OncePerFirstInterval
<1>1. Init => DataOK /\ (faithful => Admissions)
  BY ConstantsAssumption DEF Init, DataOK, Admissions, Tracked
<1>2. (faithful => Admissions) => OncePerFirstInterval
  BY Zenon DEF Admissions, OncePerFirstInterval
<1> QED BY <1>1, <1>2, MapInit, MapStep, DataStep, AdmissionsStep, PTL DEF Spec
-----------------------------------------------------------------------------
(* What is suppressed and what is reported.                                *)

\* The records of a key that are about to be emitted, and what they report.
Emitting(k) == {g \in Goroutines : key[g] = k}
Carried(k) == Total(carries, Emitting(k))

\* The part of TypeOK that the counts need, with a debt of any sign: that it is
\* never negative is what SuppressedReported says.
CountsOK ==
    /\ Tracked \subseteq Keys
    /\ key \in [Goroutines -> Keys \cup {None}] /\ carries \in [Goroutines -> Nat]
    /\ \A k \in Tracked : limiters[k].interval <= 0 => limiters[k].suppressed = 0
    /\ \A k \in Keys : IsFiniteSet(Emitting(k))
    /\ owed \in [Keys -> Int]

\* What is suppressed on an entry, if there is one.
OnEntry(k) == IF k \in Tracked THEN limiters[k].suppressed ELSE 0

\* The property in these terms.
LEMMA ReportedInTerms ==
    SuppressedReported <=> \A k \in Keys : owed[k] = OnEntry(k) + Carried(k)
BY DEF SuppressedReported, OnEntry, Carried, Emitting

\* What a key's records report is a number.
LEMMA CarriedNat ==
    ASSUME CountsOK, NEW k \in Keys
    PROVE  Carried(k) \in Nat
<1>1. IsFiniteSet(Emitting(k)) /\ \A g \in Emitting(k) : carries[g] \in Nat
  BY DEF CountsOK, Emitting
<1> HIDE DEF Emitting
<1> QED BY <1>1, TotalNat DEF Carried

\* A goroutine with nothing to emit gets a record that carries a count, or nothing.
LEMMA DecideCounts ==
    ASSUME CountsOK, NEW g \in Goroutines, NEW k \in Keys, key[g] = None,
           NEW e \in Entries, NEW t, Decide(g, k, e, t)
    PROVE  /\ key' \in [Goroutines -> Keys \cup {None}] /\ carries' \in [Goroutines -> Nat]
           /\ \A j \in Keys : IsFiniteSet(Emitting(j)')
           /\ \A j \in Keys : Carried(j)' = Carried(j) + IF j = k /\ Allows(e, t)
                                                         THEN e.suppressed ELSE 0
<1>1. CASE ~Allows(e, t)
  <2>1. key' = key /\ carries' = carries
    BY <1>1, Zenon DEF Decide
  <2>2. \A j \in Keys : Emitting(j)' = Emitting(j) /\ Carried(j)' = Carried(j)
    BY <2>1 DEF Emitting, Carried
  <2> QED BY <1>1, <2>1, <2>2, CarriedNat DEF CountsOK
<1>2. CASE Allows(e, t)
  <2>1. /\ key' = [key EXCEPT ![g] = k]
        /\ carries' = [carries EXCEPT ![g] = e.suppressed]
    BY <1>2, Zenon DEF Decide
  <2>2. e.suppressed \in Nat
    BY DEF Entries
  <2>3. key' \in [Goroutines -> Keys \cup {None}] /\ carries' \in [Goroutines -> Nat]
    BY <2>1, <2>2 DEF CountsOK
  <2>4. None \notin Keys
    BY ConstantsAssumption
  <2>5. ASSUME NEW j \in Keys, j # k
        PROVE  IsFiniteSet(Emitting(j)') /\ Carried(j)' = Carried(j)
    <3>1. Emitting(j)' = Emitting(j) /\ g \notin Emitting(j)
      BY <2>1, <2>4, <2>5 DEF Emitting, CountsOK
    <3>2. \A h \in Emitting(j) : carries[h] \in Int /\ carries[h] = carries'[h]
      BY <2>1, <3>1 DEF Emitting, CountsOK
    <3>3. IsFiniteSet(Emitting(j))
      BY DEF CountsOK
    <3>4. Total(carries, Emitting(j)) = Total(carries', Emitting(j))
      <4> HIDE DEF Emitting
      <4> QED BY <3>2, <3>3, TotalSame
    <3> QED BY <3>1, <3>3, <3>4 DEF Carried
  <2>6. IsFiniteSet(Emitting(k)') /\ Carried(k)' = Carried(k) + e.suppressed
    <3>1. Emitting(k)' = Emitting(k) \cup {g} /\ g \notin Emitting(k)
      BY <2>1, <2>4 DEF Emitting, CountsOK
    <3>2. \A h \in Emitting(k) : carries[h] \in Int /\ carries[h] = carries'[h]
      BY <2>1, <3>1 DEF Emitting, CountsOK
    <3>3. IsFiniteSet(Emitting(k)) /\ IsFiniteSet(Emitting(k) \cup {g})
      BY FS_AddElement DEF CountsOK
    <3>4. Total(carries, Emitting(k)) = Total(carries', Emitting(k))
      <4> HIDE DEF Emitting
      <4> QED BY <3>2, <3>3, TotalSame
    <3>5. \A h \in Emitting(k) \cup {g} : carries'[h] \in Int
      BY <2>3 DEF Emitting
    <3>6. Total(carries', Emitting(k) \cup {g}) = Total(carries', Emitting(k)) + carries'[g]
      <4> HIDE DEF Emitting
      <4> QED BY <3>1, <3>3, <3>5, TotalAdd
    <3>7. carries'[g] = e.suppressed
      BY <2>1 DEF CountsOK
    <3> QED BY <3>1, <3>3, <3>4, <3>6, <3>7 DEF Carried
  <2>7. \A j \in Keys : Carried(j) \in Int
    BY CarriedNat
  <2> QED BY <1>2, <2>3, <2>5, <2>6, <2>7
<1> QED BY <1>1, <1>2

\* A decision counts a record that it suppresses, and an admitted one takes the
\* count of an entry that has a limiter.
LEMMA SettledCount ==
    ASSUME NEW e \in Entries, NEW t, e.interval <= 0 => e.suppressed = 0
    PROVE  /\ Settled(e, t).suppressed = IF Allows(e, t) THEN 0 ELSE e.suppressed + 1
           /\ Settled(e, t).interval = e.interval
           /\ Settled(e, t).interval <= 0 => Settled(e, t).suppressed = 0
<1>1. CASE ~Allows(e, t)
  BY <1>1 DEF Settled, Entries, Allows
<1>2. CASE Allows(e, t) /\ e.interval <= 0
  BY <1>2 DEF Settled, Entries
<1>3. CASE Allows(e, t) /\ ~(e.interval <= 0)
  BY <1>3 DEF Settled, Entries
<1> QED BY <1>1, <1>2, <1>3

\* A hit on a known key moves its count to the record, or adds one to it.
LEMMA KnownCounts ==
    ASSUME DataOK, CountsOK, SuppressedReported,
           NEW g \in Goroutines, NEW k \in Keys, NEW interval, ShouldLogKnown(g, k, interval)
    PROVE  CountsOK' /\ SuppressedReported'
<1> DEFINE t == SeenAt(limiters[k])
<1>1. /\ k \in Tracked /\ Tracked' = Tracked
      /\ limiters' = [limiters EXCEPT ![k] = Settled(Hit(k), t)]
      /\ Decide(g, k, Hit(k), t)
  BY KnownStep
<1>2. key[g] = None /\ owed' = [owed EXCEPT ![k] = @ + (IF Allows(Hit(k), t) THEN 0 ELSE 1)]
  BY DEF ShouldLogKnown, Hit
<1>3. t \in Nat /\ Hit(k) \in Entries /\ Hit(k).interval = limiters[k].interval
  BY <1>1, HitEntry
<1>4. limiters[k] \in Entries /\ limiters[k].suppressed \in Nat
  BY <1>1 DEF DataOK, Entries
<1>5. Hit(k).suppressed = limiters[k].suppressed
  BY <1>4 DEF Hit, Entries
<1> HIDE DEF t
<1>6. /\ Settled(Hit(k), t).suppressed = IF Allows(Hit(k), t) THEN 0
                                         ELSE limiters[k].suppressed + 1
      /\ Settled(Hit(k), t).interval <= 0 => Settled(Hit(k), t).suppressed = 0
  <2>1. Hit(k).interval <= 0 => Hit(k).suppressed = 0
    BY <1>1, <1>3, <1>5 DEF CountsOK
  <2> QED BY <1>3, <1>5, <2>1, SettledCount
<1>7. /\ key' \in [Goroutines -> Keys \cup {None}] /\ carries' \in [Goroutines -> Nat]
      /\ \A j \in Keys : IsFiniteSet(Emitting(j)')
      /\ \A j \in Keys : Carried(j)' = Carried(j) + IF j = k /\ Allows(Hit(k), t)
                                                    THEN limiters[k].suppressed ELSE 0
  BY <1>1, <1>2, <1>3, <1>5, DecideCounts
<1>8. /\ limiters'[k] = Settled(Hit(k), t)
      /\ \A j \in Tracked \ {k} : limiters'[j] = limiters[j]
  BY <1>1 DEF DataOK, Tracked
<1>9. owed' \in [Keys -> Int]
  BY <1>2 DEF CountsOK
<1>10. CountsOK'
  <2>1. Tracked' \subseteq Keys
    BY <1>1 DEF CountsOK
  <2>2. \A j \in Tracked' : limiters'[j].interval <= 0 => limiters'[j].suppressed = 0
    BY <1>1, <1>6, <1>8 DEF CountsOK
  <2> QED BY <1>7, <1>9, <2>1, <2>2 DEF CountsOK
<1>11. ASSUME NEW j \in Keys PROVE owed'[j] = OnEntry(j)' + Carried(j)'
  <2>1. owed[j] = OnEntry(j) + Carried(j) /\ owed[j] \in Int /\ Carried(j) \in Nat
    BY ReportedInTerms, CarriedNat DEF CountsOK
  <2>2. CASE j = k
    <3>1. owed'[j] = owed[j] + IF Allows(Hit(k), t) THEN 0 ELSE 1
      BY <1>2, <2>2 DEF CountsOK
    <3>2. OnEntry(j) = limiters[k].suppressed
          /\ OnEntry(j)' = IF Allows(Hit(k), t) THEN 0 ELSE limiters[k].suppressed + 1
      BY <1>1, <1>6, <1>8, <2>2 DEF OnEntry
    <3> QED BY <1>4, <1>7, <2>1, <2>2, <3>1, <3>2
  <2>3. CASE j # k
    <3>1. owed'[j] = owed[j] /\ OnEntry(j)' = OnEntry(j)
      BY <1>1, <1>2, <1>8, <2>3 DEF CountsOK, OnEntry
    <3> QED BY <1>7, <2>1, <2>3, <3>1
  <2> QED BY <2>2, <2>3
<1>12. SuppressedReported'
  BY <1>11 DEF SuppressedReported, OnEntry, Carried, Emitting
<1> QED BY <1>10, <1>12
\* evictLocked: what an entry that is dropped has suppressed is written off if the
\* first pass would have kept it, and nothing otherwise; the new entry has none.
LEMMA UnknownCounts ==
    ASSUME MapOK, DataOK, CountsOK, SuppressedReported, NEW g \in Goroutines, NEW k \in Keys,
           NEW interval \in Intervals, ShouldLogUnknown(g, k, interval)
    PROVE  CountsOK' /\ SuppressedReported' /\ (evicted \in Nat => evicted' \in Nat)
<1>1. PICK kept \in Survivors :
        /\ limiters' = [j \in kept \cup {k} |->
             IF j = k THEN Settled(Fresh(interval), now) ELSE limiters[j]]
        /\ evicted' = evicted + (Cardinality(Tracked) - Cardinality(kept))
        /\ owed' = [j \in Keys |-> owed[j] - IF j \in Live \ kept
                                             THEN limiters[j].suppressed ELSE 0]
  BY Zenon DEF ShouldLogUnknown, Fresh
<1>2. /\ kept \subseteq Tracked /\ IsFiniteSet(kept) /\ Cardinality(kept) \in Nat
      /\ Cardinality(kept) <= Cardinality(Tracked) /\ Cardinality(Tracked) \in Nat
  <2>1. kept \subseteq Tracked /\ IsFiniteSet(kept) /\ Cardinality(kept) \in Nat
    BY SurvivorsFit
  <2> QED BY <2>1, FS_Subset, FS_CardinalityType DEF MapOK
<1>3. key[g] = None /\ k \notin Tracked /\ Decide(g, k, Fresh(interval), now)
  BY Zenon DEF ShouldLogUnknown, Fresh
<1>4. /\ Fresh(interval) \in Entries /\ Allows(Fresh(interval), now)
      /\ Fresh(interval).suppressed = 0
  BY FreshEntry, ConstantsAssumption DEF DataOK, Fresh
<1>5. /\ Settled(Fresh(interval), now).suppressed = 0
      /\ Settled(Fresh(interval), now).interval <= 0
           => Settled(Fresh(interval), now).suppressed = 0
  BY <1>4, SettledCount
<1>6. Tracked' = kept \cup {k} /\ k \notin kept
  BY <1>1, <1>2, <1>3 DEF Tracked
<1>7. /\ limiters'[k] = Settled(Fresh(interval), now)
      /\ \A j \in kept : limiters'[j] = limiters[j]
  BY <1>1, <1>6
<1>8. /\ key' \in [Goroutines -> Keys \cup {None}] /\ carries' \in [Goroutines -> Nat]
      /\ \A j \in Keys : IsFiniteSet(Emitting(j)')
      /\ \A j \in Keys : Carried(j)' = Carried(j)
  <2>1. /\ key' \in [Goroutines -> Keys \cup {None}] /\ carries' \in [Goroutines -> Nat]
        /\ \A j \in Keys : IsFiniteSet(Emitting(j)')
        /\ \A j \in Keys : Carried(j)' = Carried(j)
             + IF j = k /\ Allows(Fresh(interval), now) THEN Fresh(interval).suppressed ELSE 0
    BY <1>3, <1>4, DecideCounts
  <2>2. \A j \in Keys : Carried(j) \in Nat
    BY CarriedNat
  <2> QED BY <2>1, <2>2, <1>4
<1>9. ASSUME NEW j \in Tracked
      PROVE  limiters[j].suppressed \in Nat /\ (j \notin Live => limiters[j].suppressed = 0)
  BY DEF DataOK, Entries, Live
<1>10. CountsOK'
  <2>1. Tracked' \subseteq Keys
    BY <1>2, <1>6 DEF CountsOK
  <2>2. \A j \in Tracked' : limiters'[j].interval <= 0 => limiters'[j].suppressed = 0
    BY <1>2, <1>5, <1>6, <1>7 DEF CountsOK
  <2>3. owed' \in [Keys -> Int]
    <3>1. \A j \in Keys : owed[j] - (IF j \in Live \ kept THEN limiters[j].suppressed ELSE 0)
                            \in Int
      BY <1>9 DEF CountsOK, Live
    <3> QED BY <1>1, <3>1
  <2> QED BY <1>8, <2>1, <2>2, <2>3 DEF CountsOK
<1>11. ASSUME NEW j \in Keys PROVE owed'[j] = OnEntry(j)' + Carried(j)'
  <2>1. owed[j] = OnEntry(j) + Carried(j) /\ owed[j] \in Int /\ Carried(j) \in Nat
    BY ReportedInTerms, CarriedNat DEF CountsOK
  <2>2. owed'[j] = owed[j] - IF j \in Live \ kept THEN limiters[j].suppressed ELSE 0
    BY <1>1
  <2>3. OnEntry(j)' = IF j \in kept THEN limiters[j].suppressed ELSE 0
    BY <1>5, <1>6, <1>7 DEF OnEntry
  <2>4. OnEntry(j) - (IF j \in Live \ kept THEN limiters[j].suppressed ELSE 0) = OnEntry(j)'
    <3>1. CASE j \in kept
      BY <1>2, <1>9, <2>3, <3>1 DEF OnEntry
    <3>2. CASE j \in Tracked \ kept
      BY <1>9, <2>3, <3>2 DEF OnEntry
    <3>3. CASE j \notin Tracked
      BY <1>2, <2>3, <3>3 DEF OnEntry, Live
    <3> QED BY <1>2, <3>1, <3>2, <3>3
  <2>5. Carried(j)' = Carried(j)
    BY <1>8
  <2>6. (IF j \in Live \ kept THEN limiters[j].suppressed ELSE 0) \in Int /\ OnEntry(j) \in Int
    BY <1>9 DEF OnEntry, Live
  <2> QED BY <2>1, <2>2, <2>4, <2>5, <2>6
<1>12. SuppressedReported'
  BY <1>11 DEF SuppressedReported, OnEntry, Carried, Emitting
<1>13. evicted \in Nat => evicted' \in Nat
  BY <1>1, <1>2
<1> QED BY <1>10, <1>12, <1>13
\* emit: a record that is emitted reports what it carries.
LEMMA EmitCounts ==
    ASSUME DataOK, CountsOK, SuppressedReported, NEW g \in Goroutines, Emit(g)
    PROVE  CountsOK' /\ SuppressedReported'
<1> DEFINE k == key[g]
<1>1. /\ k \in Keys /\ key' = [key EXCEPT ![g] = None] /\ carries' = [carries EXCEPT ![g] = 0]
      /\ owed' = [owed EXCEPT ![k] = @ - carries[g]] /\ UNCHANGED limiters
  BY DEF Emit, stateVars, CountsOK
<1>2. Tracked' = Tracked /\ \A j \in Keys : OnEntry(j)' = OnEntry(j)
  BY <1>1 DEF Tracked, OnEntry
<1>3. None \notin Keys /\ carries[g] \in Nat
  BY ConstantsAssumption DEF CountsOK
<1>4. ASSUME NEW j \in Keys
      PROVE  /\ IsFiniteSet(Emitting(j)')
             /\ Carried(j)' = Carried(j) - IF j = k THEN carries[g] ELSE 0
  <2>1. Emitting(j)' = Emitting(j) \ {g} /\ (g \in Emitting(j) <=> j = k)
    BY <1>1, <1>3 DEF Emitting, CountsOK
  <2>2. IsFiniteSet(Emitting(j)) /\ IsFiniteSet(Emitting(j) \ {g})
    BY FS_Subset DEF CountsOK
  <2>3. \A h \in Emitting(j) \ {g} : carries[h] \in Int /\ carries[h] = carries'[h]
    BY <1>1 DEF Emitting, CountsOK
  <2>4. \A h \in Emitting(j) : carries[h] \in Int
    BY DEF Emitting, CountsOK
  <2>5. Total(carries, Emitting(j) \ {g}) = Total(carries', Emitting(j) \ {g})
    <3> HIDE DEF Emitting
    <3> QED BY <2>2, <2>3, TotalSame
  <2>6. g \in Emitting(j) =>
           /\ Total(carries, Emitting(j)) = Total(carries, Emitting(j) \ {g}) + carries[g]
           /\ Total(carries, Emitting(j)) \in Int /\ Total(carries, Emitting(j) \ {g}) \in Int
    <3> HIDE DEF Emitting
    <3> QED BY <2>2, <2>3, <2>4, TotalRemove
  <2>7. g \notin Emitting(j) => Emitting(j) \ {g} = Emitting(j)
    OBVIOUS
  <2>8. Carried(j) \in Nat /\ Carried(j) = Total(carries, Emitting(j))
    BY CarriedNat DEF Carried
  <2>9. Carried(j)' = Total(carries', Emitting(j) \ {g})
    BY <2>1 DEF Carried
  <2>10. IsFiniteSet(Emitting(j)')
    BY <2>1, <2>2
  <2>11. CASE j = k
    <3>1. g \in Emitting(j)
      BY <2>1, <2>11
    <3> QED BY <1>3, <2>5, <2>6, <2>8, <2>9, <2>10, <2>11, <3>1
  <2>12. CASE j # k
    <3>1. Emitting(j) \ {g} = Emitting(j)
      BY <2>1, <2>7, <2>12
    <3> QED BY <1>3, <2>5, <2>8, <2>9, <2>10, <2>12, <3>1
  <2> QED BY <2>11, <2>12
<1>5. CountsOK'
  <2>1. /\ key' \in [Goroutines -> Keys \cup {None}] /\ carries' \in [Goroutines -> Nat]
        /\ owed' \in [Keys -> Int]
    BY <1>1, <1>3 DEF CountsOK
  <2> QED BY <1>1, <1>2, <1>4, <2>1 DEF CountsOK
<1>6. ASSUME NEW j \in Keys PROVE owed'[j] = OnEntry(j)' + Carried(j)'
  <2>1. owed[j] = OnEntry(j) + Carried(j) /\ owed[j] \in Int /\ Carried(j) \in Nat
    BY ReportedInTerms, CarriedNat DEF CountsOK
  <2>2. owed'[j] = owed[j] - IF j = k THEN carries[g] ELSE 0
    BY <1>1, <1>3 DEF CountsOK
  <2>3. OnEntry(j) \in Int
    BY DEF DataOK, Entries, OnEntry
  <2>4. OnEntry(j)' = OnEntry(j)
    BY <1>2
  <2>5. Carried(j)' = Carried(j) - IF j = k THEN carries[g] ELSE 0
    BY <1>4
  <2> QED BY <1>3, <2>1, <2>2, <2>3, <2>4, <2>5
<1>7. SuppressedReported'
  BY <1>6 DEF SuppressedReported, OnEntry, Carried, Emitting
<1> QED BY <1>5, <1>7
\* The rest of TypeOK.
RestOK ==
    /\ now <= MaxTime
    /\ evicted \in Nat /\ invalidConfigs \in Nat /\ conflicts \in Nat
    /\ calls \in 0 .. MaxCalls /\ DOMAIN lastAdmit \subseteq Keys
    /\ early \in BOOLEAN /\ faithful \in BOOLEAN

\* A decision counts the call and keeps to the keys.
LEMMA DecideRest ==
    ASSUME RestOK, NEW g, NEW k \in Keys, NEW e, NEW t, Decide(g, k, e, t)
    PROVE  calls' \in 0 .. MaxCalls /\ DOMAIN lastAdmit' \subseteq Keys /\ early' \in BOOLEAN
<1>1. calls' \in 0 .. MaxCalls
  <2>1. calls < MaxCalls /\ calls' = calls + 1
    BY Zenon DEF Decide
  <2> QED BY <2>1, ConstantsAssumption DEF RestOK
<1>2. CASE Allows(e, t)
  <2>1. /\ lastAdmit' = [j \in DOMAIN lastAdmit \cup {k} |->
              IF j = k THEN [at |-> t, interval |-> e.interval] ELSE lastAdmit[j]]
        /\ early' \in BOOLEAN
    BY <1>2, Zenon DEF Decide, RestOK
  <2>2. DOMAIN lastAdmit' = DOMAIN lastAdmit \cup {k}
    BY <2>1, Zenon
  <2> QED BY <1>1, <2>1, <2>2 DEF RestOK
<1>3. CASE ~Allows(e, t)
  <2>1. lastAdmit' = lastAdmit /\ early' = early
    BY <1>3, Zenon DEF Decide
  <2> QED BY <1>1, <2>1 DEF RestOK
<1> QED BY <1>2, <1>3

\* Every step keeps the counts and what is owed, whoever takes it.
LEMMA CountsStep ==
    ASSUME MapOK, DataOK, CountsOK, SuppressedReported, RestOK, [Next]_vars
    PROVE  CountsOK' /\ SuppressedReported' /\ RestOK'
<1>0. MaxCalls \in Nat /\ MaxTime \in Nat
  BY ConstantsAssumption
<1>1. ASSUME NEW g \in Goroutines, NEW k \in Keys, NEW interval, ShouldLogKnown(g, k, interval)
      PROVE  CountsOK' /\ SuppressedReported' /\ RestOK'
  <2>1. CountsOK' /\ SuppressedReported'
    BY <1>1, KnownCounts
  <2>2. /\ now' = now /\ evicted' = evicted /\ invalidConfigs' = invalidConfigs
        /\ conflicts' = conflicts + (IF interval # Hit(k).interval THEN 1 ELSE 0)
        /\ Decide(g, k, Hit(k), SeenAt(limiters[k])) /\ faithful' = faithful
    BY <1>1, Zenon DEF ShouldLogKnown, Hit
  <2>3. /\ calls' \in 0 .. MaxCalls /\ DOMAIN lastAdmit' \subseteq Keys /\ early' \in BOOLEAN
    BY <2>2, DecideRest
  <2> QED BY <2>1, <2>2, <2>3 DEF RestOK
<1>2. ASSUME NEW g \in Goroutines, NEW k \in Keys, NEW interval \in Intervals,
             ShouldLogUnknown(g, k, interval)
      PROVE  CountsOK' /\ SuppressedReported' /\ RestOK'
  <2>1. CountsOK' /\ SuppressedReported' /\ evicted' \in Nat
    BY <1>2, UnknownCounts DEF RestOK
  <2>2. /\ now' = now /\ conflicts' = conflicts
        /\ invalidConfigs' = invalidConfigs + (IF interval <= 0 THEN 1 ELSE 0)
        /\ Decide(g, k, Fresh(interval), now) /\ faithful' \in BOOLEAN
    BY <1>2, Zenon DEF ShouldLogUnknown, Fresh, RestOK
  <2>3. /\ calls' \in 0 .. MaxCalls /\ DOMAIN lastAdmit' \subseteq Keys /\ early' \in BOOLEAN
    BY <2>2, DecideRest
  <2> QED BY <2>1, <2>2, <2>3 DEF RestOK
<1>3. ASSUME NEW g \in Goroutines, Emit(g) PROVE CountsOK' /\ SuppressedReported' /\ RestOK'
  <2>1. CountsOK' /\ SuppressedReported'
    BY <1>3, EmitCounts
  <2>2. UNCHANGED <<now, evicted, invalidConfigs, conflicts, calls, lastAdmit, early, faithful>>
    BY <1>3 DEF Emit, stateVars
  <2> QED BY <2>1, <2>2 DEF RestOK
<1>4. ASSUME UNCHANGED <<limiters, key, carries, owed>>
      PROVE  CountsOK' /\ SuppressedReported'
  BY <1>4 DEF CountsOK, SuppressedReported, Emitting, Tracked
<1>5. ASSUME Clock PROVE CountsOK' /\ SuppressedReported' /\ RestOK'
  <2>1. /\ UNCHANGED <<limiters, key, carries, owed>>
        /\ UNCHANGED <<evicted, invalidConfigs, conflicts, calls, lastAdmit, early>>
        /\ now' \in 0 .. MaxTime /\ faithful' \in BOOLEAN
    BY <1>5 DEF Clock, stateVars, RestOK
  <2> QED BY <1>0, <1>4, <2>1 DEF RestOK
<1>6. CASE UNCHANGED vars
  <2>1. /\ UNCHANGED <<limiters, key, carries, owed>>
        /\ UNCHANGED <<now, evicted, invalidConfigs, conflicts, calls, lastAdmit, early, faithful>>
    BY <1>6 DEF vars, stateVars, history
  <2> QED BY <1>4, <2>1 DEF RestOK
<1> QED BY <1>1, <1>2, <1>3, <1>5, <1>6 DEF Next, LogCall

\* Nothing is suppressed or owed at the start.
LEMMA CountsInit == Init => DataOK /\ CountsOK /\ SuppressedReported /\ RestOK
<1> SUFFICES ASSUME Init PROVE DataOK /\ CountsOK /\ SuppressedReported /\ RestOK
  OBVIOUS
<1>1. /\ Tracked = {} /\ owed = [k \in Keys |-> 0]
      /\ key = [g \in Goroutines |-> None] /\ carries = [g \in Goroutines |-> 0]
  BY DEF Init, Tracked
<1>2. \A k \in Keys : Emitting(k) = {} /\ Carried(k) = 0
  BY <1>1, TotalEmpty, ConstantsAssumption DEF Emitting, Carried
<1>3. SuppressedReported
  BY <1>1, <1>2, ReportedInTerms DEF OnEntry
<1>4. CountsOK
  BY <1>1, <1>2, FS_EmptySet DEF CountsOK
<1>5. DataOK
  BY DEF Init, DataOK, Tracked
<1>6. RestOK
  <2>1. DOMAIN lastAdmit = {}
    BY DEF Init
  <2>2. /\ now = 0 /\ evicted = 0 /\ invalidConfigs = 0 /\ conflicts = 0
        /\ calls = 0
    BY DEF Init
  <2>3. early \in BOOLEAN /\ faithful \in BOOLEAN
    BY Zenon DEF Init
  <2>4. 0 <= MaxTime /\ 0 \in 0 .. MaxCalls
    BY ConstantsAssumption
  <2> QED BY <2>1, <2>2, <2>3, <2>4 DEF RestOK
<1> QED BY <1>3, <1>4, <1>5, <1>6

\* What the inductive invariant says of types; no debt is negative, because what is
\* suppressed and not yet reported is on an entry or with a record.
LEMMA CountsTypes == DataOK /\ CountsOK /\ SuppressedReported /\ RestOK => TypeOK
<1> SUFFICES ASSUME DataOK, CountsOK, SuppressedReported, RestOK PROVE TypeOK
  OBVIOUS
<1>1. \A k \in Keys : owed[k] \in Nat
  <2> TAKE k \in Keys
  <2>1. owed[k] = OnEntry(k) + Carried(k)
    BY ReportedInTerms
  <2>2. OnEntry(k) \in Nat
    BY DEF OnEntry, DataOK, Entries
  <2> QED BY <2>1, <2>2, CarriedNat
<1>2. owed \in [Keys -> Nat]
  BY <1>1 DEF CountsOK
<1>3. now \in 0 .. MaxTime
  BY ConstantsAssumption DEF DataOK, RestOK
<1> QED BY <1>2, <1>3 DEF TypeOK, DataOK, CountsOK, RestOK

\* shouldLog, evictLocked and emit: every record that was suppressed is on its key's
\* entry, with a record about to report it, or has been reported or written off by the
\* second pass of the eviction, and is never counted twice.
THEOREM ReportedOnce == Spec => []SuppressedReported
BY MapInit, MapStep, DataStep, CountsInit, CountsStep, PTL DEF Spec

\* Entries, counters and what is owed have their types: no debt is negative, so no
\* record reports what it did not suppress.
THEOREM TypesCorrect == Spec => []TypeOK
BY MapInit, MapStep, DataStep, CountsInit, CountsStep, CountsTypes, PTL DEF Spec
=============================================================================
