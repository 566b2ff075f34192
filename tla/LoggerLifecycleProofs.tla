------------------------ MODULE LoggerLifecycleProofs ------------------------
(***************************************************************************)
(* Proofs about LoggerLifecycle, for every graph of handlers, every order  *)
(* of calls and any capacity. The graph comes first: where records end and *)
(* by how many routes they get there. Then, in terms of the routes, what   *)
(* every step does to the records on their way.                            *)
(***************************************************************************)
EXTENDS LoggerLifecycle, DataLemmas

-----------------------------------------------------------------------------
(* Graphs of handlers.                                                     *)

Nexts(g, h) == g[h].next
Places(g) == 1 .. Len(g)

\* A graph, well-formed or cut somewhere.
Downward(g) ==
    /\ g \in Seq([kind : Kinds, next : Seq(Nat)])
    /\ \A h \in DOMAIN g : Nexts(g, h) \in Seq(1 .. h - 1)

\* What is in such a graph.
LEMMA DownwardParts ==
    ASSUME NEW g, Downward(g)
    PROVE  /\ Len(g) \in Nat /\ DOMAIN g = Places(g)
           /\ \A h \in Places(g) :
                 /\ g[h].kind \in Kinds /\ Nexts(g, h) \in Seq(1 .. h - 1)
                 /\ DOMAIN Nexts(g, h) = 1 .. Len(Nexts(g, h)) /\ Len(Nexts(g, h)) \in Nat
                 /\ \A i \in DOMAIN Nexts(g, h) :
                       Nexts(g, h)[i] \in 1 .. h - 1 /\ Nexts(g, h)[i] \in Places(g)
<1>1. Len(g) \in Nat /\ DOMAIN g = Places(g) /\ \A h \in Places(g) : g[h].kind \in Kinds
  <2> DEFINE T == [kind : Kinds, next : Seq(Nat)]
  <2>1. g \in Seq(T)
    BY DEF Downward
  <2>2. Len(g) \in Nat /\ DOMAIN g = 1 .. Len(g) /\ \A h \in 1 .. Len(g) : g[h] \in T
    <3> HIDE DEF T
    <3> QED BY <2>1, LenProperties, ElementOfSeq
  <2> QED BY <2>2 DEF Places
<1>2. ASSUME NEW h \in Places(g)
      PROVE  /\ Nexts(g, h) \in Seq(1 .. h - 1)
             /\ DOMAIN Nexts(g, h) = 1 .. Len(Nexts(g, h)) /\ Len(Nexts(g, h)) \in Nat
             /\ \A i \in DOMAIN Nexts(g, h) :
                   Nexts(g, h)[i] \in 1 .. h - 1 /\ Nexts(g, h)[i] \in Places(g)
  <2>1. Nexts(g, h) \in Seq(1 .. h - 1)
    BY <1>1 DEF Downward
  <2>2. DOMAIN Nexts(g, h) = 1 .. Len(Nexts(g, h)) /\ Len(Nexts(g, h)) \in Nat
          /\ \A i \in DOMAIN Nexts(g, h) : Nexts(g, h)[i] \in 1 .. h - 1
    BY <2>1, LenProperties, ElementOfSeq
  <2>3. \A k \in 1 .. h - 1 : k \in Places(g)
    BY <1>1 DEF Places
  <2> QED BY <2>1, <2>2, <2>3
<1> QED BY <1>1, <1>2

\* What a well-formed graph is.
LEMMA GraphParts ==
    ASSUME NEW g, WellFormed(g)
    PROVE  /\ Len(g) \in Nat /\ DOMAIN g = Places(g)
           /\ \A h \in Places(g) :
                 /\ g[h].kind \in Kinds /\ Nexts(g, h) \in Seq(1 .. h - 1)
                 /\ DOMAIN Nexts(g, h) = 1 .. Len(Nexts(g, h)) /\ Len(Nexts(g, h)) \in Nat
                 /\ \A i \in DOMAIN Nexts(g, h) :
                       Nexts(g, h)[i] \in 1 .. h - 1 /\ Nexts(g, h)[i] \in Places(g)
<1>1. Downward(g)
  BY DEF WellFormed, Downward, Nexts
<1> QED BY <1>1, DownwardParts

EndsBody(g, v) ==
    [h \in DOMAIN g |->
        IF g[h].kind \in {"buffer", "sink"} THEN <<h>>
        ELSE FlattenSeq([i \in DOMAIN g[h].next |-> v[g[h].next[i]]])]

\* The ends are what their definition says.
LEMMA EndsDefined ==
    ASSUME NEW g, WellFormed(g)
    PROVE  EndsOf(g) = EndsBody(g, EndsOf(g))
<1> DEFINE n == Len(g)
           V == Seq(1 .. n)
           F == [v \in [1 .. n -> V] |-> EndsBody(g, v)]
<1>1. n \in Nat /\ DOMAIN g = 1 .. n
  BY GraphParts DEF Places
<1>2. ASSUME NEW v \in [1 .. n -> V], NEW h \in 1 .. n PROVE EndsBody(g, v)[h] \in V
  <2> DEFINE q == [i \in DOMAIN g[h].next |-> v[g[h].next[i]]]
  <2>1. q \in Seq(V)
    <3>1. DOMAIN Nexts(g, h) = 1 .. Len(Nexts(g, h)) /\ Len(Nexts(g, h)) \in Nat
            /\ \A i \in DOMAIN Nexts(g, h) : Nexts(g, h)[i] \in 1 .. n
      BY GraphParts DEF Places
    <3> HIDE DEF V, n
    <3> QED BY <3>1 DEF Nexts
  <2>2. FlattenSeq(q) \in V
    <3> HIDE DEF q
    <3> QED BY <2>1, FlattenRange
  <2>3. <<h>> \in V
    OBVIOUS
  <2>4. EndsBody(g, v)[h] = IF g[h].kind \in {"buffer", "sink"} THEN <<h>> ELSE FlattenSeq(q)
    BY <1>1 DEF EndsBody
  <2> HIDE DEF q, V
  <2> QED BY <2>2, <2>3, <2>4
<1>3. \A v \in [1 .. n -> V] : F[v] = EndsBody(g, v) /\ EndsBody(g, v) \in [1 .. n -> V]
  <2> TAKE v \in [1 .. n -> V]
  <2>1. \A h \in 1 .. n : EndsBody(g, v)[h] \in V
    BY <1>2
  <2>2. EndsBody(g, v) = [h \in 1 .. n |-> EndsBody(g, v)[h]]
    BY <1>1 DEF EndsBody
  <2> HIDE DEF n, V
  <2> QED BY <2>1, <2>2
<1>4. F \in [[1 .. n -> V] -> [1 .. n -> V]]
  <2> HIDE DEF n, V
  <2> QED BY <1>3
<1>5. ASSUME NEW v \in [1 .. n -> V], NEW w \in [1 .. n -> V], NEW h \in 1 .. n,
             \A i \in 1 .. h - 1 : v[i] = w[i]
      PROVE  EndsBody(g, v)[h] = EndsBody(g, w)[h]
  <2>1. \A i \in DOMAIN g[h].next : v[g[h].next[i]] = w[g[h].next[i]]
    BY <1>5, GraphParts DEF Nexts, Places
  <2>2. [i \in DOMAIN g[h].next |-> v[g[h].next[i]]] = [i \in DOMAIN g[h].next |-> w[g[h].next[i]]]
    BY <2>1
  <2> QED BY <1>1, <2>2, Zenon DEF EndsBody
<1>6. FromBelow(F, 1, n, V)
  <2> HIDE DEF F, n, V
  <2> QED BY <1>3, <1>4, <1>5 DEF FromBelow
<1>7. \E w : w = EndsBody(g, w)
  <2>1. V # {}
    BY EmptySeq
  <2>2. \E w \in [1 .. n -> V] : w = F[w]
    <3> HIDE DEF F, n, V
    <3> QED BY <1>1, <1>6, <2>1, UpwardRecursion
  <2> QED BY <1>3, <2>2
<1>8. EndsOf(g) = (CHOOSE w : w = EndsBody(g, w))
  BY DEF EndsOf, EndsBody
<1> QED BY <1>7, <1>8

\* Where records end: at buffers and sinks, and every record somewhere.
LEMMA EndsType ==
    ASSUME NEW g, WellFormed(g)
    PROVE  \A h \in Places(g) :
              /\ EndsOf(g)[h] \in Seq({e \in Places(g) : g[e].kind \in {"buffer", "sink"}})
              /\ EndsOf(g)[h] # << >>
<1> DEFINE e == EndsOf(g)
           T == {x \in Places(g) : g[x].kind \in {"buffer", "sink"}}
           C == {h \in Places(g) : e[h] \in Seq(T) /\ e[h] # << >>}
<1>1. Len(g) \in Nat /\ DOMAIN g = Places(g)
  BY GraphParts
<1>2. \A h \in Places(g) :
          e[h] = IF g[h].kind \in {"buffer", "sink"} THEN <<h>>
                 ELSE FlattenSeq([i \in DOMAIN Nexts(g, h) |-> e[Nexts(g, h)[i]]])
  <2>1. e = EndsBody(g, e)
    BY EndsDefined
  <2> HIDE DEF e
  <2> QED BY <1>1, <2>1 DEF EndsBody, Nexts
<1> HIDE DEF e
<1>3. ASSUME NEW h \in 1 .. Len(g), (1 .. h - 1) \subseteq C PROVE h \in C
  <2>1. h \in Places(g)
    BY DEF Places
  <2>2. CASE g[h].kind \in {"buffer", "sink"}
    <3>1. e[h] = <<h>> /\ h \in T
      BY <1>2, <2>1, <2>2
    <3> HIDE DEF T
    <3>2. <<h>> \in Seq(T) /\ <<h>> # << >>
      BY <3>1
    <3> QED BY <2>1, <3>1, <3>2
  <2>3. CASE g[h].kind \notin {"buffer", "sink"}
    <3> DEFINE q == [i \in DOMAIN Nexts(g, h) |-> e[Nexts(g, h)[i]]]
    <3>1. e[h] = FlattenSeq(q)
      BY <1>2, <2>1, <2>3
    <3>2. /\ DOMAIN Nexts(g, h) = 1 .. Len(Nexts(g, h)) /\ Len(Nexts(g, h)) \in Nat
          /\ \A i \in DOMAIN Nexts(g, h) : Nexts(g, h)[i] \in 1 .. h - 1
      BY <2>1, GraphParts
    <3>3. Len(Nexts(g, h)) # 0
      <4>1. Nexts(g, h) # << >> /\ Nexts(g, h) \in Seq(1 .. h - 1)
        BY <1>1, <2>1, <2>3 DEF WellFormed, Nexts
      <4> QED BY <4>1, EmptySeq
    <3>4. \A i \in 1 .. Len(Nexts(g, h)) : e[Nexts(g, h)[i]] \in Seq(T) /\ e[Nexts(g, h)[i]] # << >>
      BY <1>3, <3>2
    <3> HIDE DEF T
    <3>5. q \in Seq(Seq(T)) /\ Len(q) = Len(Nexts(g, h)) /\ \A i \in 1 .. Len(q) : q[i] # << >>
      BY <3>2, <3>4
    <3>6. q # << >>
      BY <3>3, <3>5
    <3> HIDE DEF q
    <3>7. FlattenSeq(q) \in Seq(T) /\ FlattenSeq(q) # << >>
      BY <3>5, <3>6, FlattenRange, FlattenNonempty
    <3> QED BY <2>1, <3>1, <3>7
  <2> QED BY <2>2, <2>3
<1>4. 1 .. Len(g) \subseteq C
  <2> HIDE DEF C
  <2> QED BY <1>1, <1>3, UpwardInduction
<1> QED BY <1>4 DEF Places, e

\* What the ends of a handler are, in terms of the handlers below.
LEMMA EndsStep ==
    ASSUME NEW g, WellFormed(g), NEW h \in Places(g)
    PROVE  /\ g[h].kind \in {"buffer", "sink"} => EndsOf(g)[h] = <<h>>
           /\ g[h].kind \notin {"buffer", "sink"} =>
                 EndsOf(g)[h] = FlattenSeq([i \in DOMAIN Nexts(g, h) |-> EndsOf(g)[Nexts(g, h)[i]]])
<1> DEFINE e == EndsOf(g)
<1>1. e = EndsBody(g, e) /\ DOMAIN g = Places(g)
  BY EndsDefined, GraphParts
<1> HIDE DEF e
<1>2. e[h] = IF g[h].kind \in {"buffer", "sink"} THEN <<h>>
             ELSE FlattenSeq([i \in DOMAIN Nexts(g, h) |-> e[Nexts(g, h)[i]]])
  BY <1>1 DEF EndsBody, Nexts
<1> QED BY <1>2 DEF e

RoutesBody(g, v) ==
    [h \in DOMAIN g |->
        [t \in DOMAIN g |->
            IF t = h THEN 1 ELSE Along([i \in DOMAIN g[h].next |-> v[g[h].next[i]][t]])]]

\* The routes are what their definition says, and they are numbers.
LEMMA DownwardRoutes ==
    ASSUME NEW g, Downward(g)
    PROVE  /\ RoutesOf(g) = RoutesBody(g, RoutesOf(g))
           /\ RoutesOf(g) \in [Places(g) -> [Places(g) -> Nat]]
<1> DEFINE n == Len(g)
           V == [1 .. n -> Nat]
           F == [v \in [1 .. n -> V] |-> RoutesBody(g, v)]
           rts == RoutesOf(g)
<1>1. n \in Nat /\ DOMAIN g = 1 .. n
  BY DownwardParts DEF Places
<1>2. ASSUME NEW v, NEW h \in 1 .. n, NEW t \in 1 .. n,
             \A i \in 1 .. h - 1 : v[i] \in V
      PROVE  RoutesBody(g, v)[h][t] \in Nat
  <2> DEFINE q == [i \in DOMAIN g[h].next |-> v[g[h].next[i]][t]]
  <2>1. q \in Seq(Nat)
    <3>1. DOMAIN Nexts(g, h) = 1 .. Len(Nexts(g, h)) /\ Len(Nexts(g, h)) \in Nat
            /\ \A i \in DOMAIN Nexts(g, h) : Nexts(g, h)[i] \in 1 .. h - 1
      BY DownwardParts DEF Places
    <3>2. \A i \in DOMAIN Nexts(g, h) : v[Nexts(g, h)[i]][t] \in Nat
      BY <1>2, <3>1
    <3> HIDE DEF n
    <3> QED BY <3>1, <3>2 DEF Nexts
  <2>2. Along(q) \in Nat
    <3> HIDE DEF q
    <3> QED BY <2>1, AlongNat
  <2>3. RoutesBody(g, v)[h][t] = IF t = h THEN 1 ELSE Along(q)
    BY <1>1 DEF RoutesBody
  <2> HIDE DEF q
  <2> QED BY <2>2, <2>3
<1>3. \A v \in [1 .. n -> V] : F[v] = RoutesBody(g, v) /\ RoutesBody(g, v) \in [1 .. n -> V]
  <2> TAKE v \in [1 .. n -> V]
  <2>1. \A h \in 1 .. n, t \in 1 .. n : RoutesBody(g, v)[h][t] \in Nat
    <3> TAKE h \in 1 .. n, t \in 1 .. n
    <3>1. \A i \in 1 .. h - 1 : v[i] \in V
      BY <1>1, SMTT(20)
    <3> HIDE DEF n, V
    <3> QED BY <1>2, <3>1
  <2>2. RoutesBody(g, v) = [h \in 1 .. n |-> [t \in 1 .. n |-> RoutesBody(g, v)[h][t]]]
    BY <1>1 DEF RoutesBody
  <2>3. [h \in 1 .. n |-> [t \in 1 .. n |-> RoutesBody(g, v)[h][t]]] \in [1 .. n -> V]
    <3> HIDE DEF n
    <3> QED BY <2>1
  <2> HIDE DEF n, V
  <2> QED BY <2>2, <2>3
<1>4. F \in [[1 .. n -> V] -> [1 .. n -> V]]
  <2> HIDE DEF n, V
  <2> QED BY <1>3
<1>5. ASSUME NEW v \in [1 .. n -> V], NEW w \in [1 .. n -> V], NEW h \in 1 .. n,
             \A i \in 1 .. h - 1 : v[i] = w[i]
      PROVE  RoutesBody(g, v)[h] = RoutesBody(g, w)[h]
  <2>1. \A i \in DOMAIN g[h].next : v[g[h].next[i]] = w[g[h].next[i]]
    BY <1>5, DownwardParts DEF Nexts, Places
  <2>2. \A t : [i \in DOMAIN g[h].next |-> v[g[h].next[i]][t]]
                  = [i \in DOMAIN g[h].next |-> w[g[h].next[i]][t]]
    BY <2>1
  <2> DEFINE row(u) == [t \in 1 .. n |->
                           IF t = h THEN 1 ELSE Along([i \in DOMAIN g[h].next |-> u[g[h].next[i]][t]])]
  <2>3. row(v) = row(w)
    BY <2>2, Zenon
  <2>4. RoutesBody(g, v)[h] = row(v) /\ RoutesBody(g, w)[h] = row(w)
    BY <1>1, Zenon DEF RoutesBody
  <2> QED BY <2>3, <2>4
<1>6. FromBelow(F, 1, n, V)
  <2> HIDE DEF F, n, V
  <2> QED BY <1>3, <1>4, <1>5 DEF FromBelow
<1>7. rts = RoutesBody(g, rts)
  <2>1. V # {}
    <3>1. [t \in 1 .. n |-> 0] \in V
      OBVIOUS
    <3> QED BY <3>1
  <2>2. \E w \in [1 .. n -> V] : w = F[w]
    <3> HIDE DEF F, n, V
    <3> QED BY <1>1, <1>6, <2>1, UpwardRecursion
  <2>3. \E w : w = RoutesBody(g, w)
    BY <1>3, <2>2
  <2>4. rts = (CHOOSE w : w = RoutesBody(g, w))
    BY DEF RoutesOf, RoutesBody
  <2> QED BY <2>3, <2>4
<1> HIDE DEF rts
<1>8. rts = [h \in 1 .. n |-> rts[h]] /\ \A h \in 1 .. n : rts[h] = [t \in 1 .. n |-> rts[h][t]]
  <2>1. RoutesBody(g, rts) = [h \in 1 .. n |-> RoutesBody(g, rts)[h]]
          /\ \A h \in 1 .. n : RoutesBody(g, rts)[h] = [t \in 1 .. n |-> RoutesBody(g, rts)[h][t]]
    BY <1>1, Zenon DEF RoutesBody
  <2> QED BY <1>7, <2>1, Zenon
<1> DEFINE C == {h \in 1 .. n : rts[h] \in V}
<1>9. ASSUME NEW h \in 1 .. n, (1 .. h - 1) \subseteq C PROVE h \in C
  <2>1. \A i \in 1 .. h - 1 : rts[i] \in V
    BY <1>9
  <2>2. \A t \in 1 .. n : rts[h][t] \in Nat
    <3> HIDE DEF V, n
    <3> QED BY <1>2, <1>7, <2>1
  <2>3. rts[h] = [t \in 1 .. n |-> rts[h][t]]
    BY <1>8
  <2>4. rts[h] \in V
    <3>1. [t \in 1 .. n |-> rts[h][t]] \in V
      <4> HIDE DEF n
      <4> QED BY <2>2
    <3> QED BY <2>3, <3>1
  <2> QED BY <2>4
<1>10. 1 .. n \subseteq C
  <2> HIDE DEF C, n
  <2> QED BY <1>1, <1>9, UpwardInduction
<1>11. rts \in [1 .. n -> V]
  <2>1. \A h \in 1 .. n : rts[h] \in V
    BY <1>10
  <2> HIDE DEF V, n
  <2> QED BY <1>8, <2>1
<1> QED BY <1>7, <1>11 DEF Places, rts

\* So it is of a well-formed graph.
LEMMA RoutesDefined ==
    ASSUME NEW g, WellFormed(g)
    PROVE  /\ RoutesOf(g) = RoutesBody(g, RoutesOf(g))
           /\ RoutesOf(g) \in [Places(g) -> [Places(g) -> Nat]]
<1>1. Downward(g)
  BY DEF WellFormed, Downward, Nexts
<1> QED BY <1>1, DownwardRoutes

\* A sum of naturals is positive if one of them is.
LEMMA AlongPositive ==
    ASSUME NEW p \in Seq(Nat)
    PROVE  Along(p) > 0 <=> \E i \in DOMAIN p : p[i] > 0
<1>1. Len(p) \in Nat /\ DOMAIN p = 1 .. Len(p) /\ \A i \in DOMAIN p : p[i] \in Nat
  BY LenProperties, ElementOfSeq
<1>2. IsFiniteSet(DOMAIN p)
  BY <1>1, FS_Interval
<1>3. Along(p) \in Nat /\ \A i \in DOMAIN p : p[i] <= Along(p)
  BY AlongNat
<1>4. (\A i \in DOMAIN p : p[i] = 0) => Along(p) = 0
  BY <1>2, TotalZero DEF Along
<1>5. (\A i \in DOMAIN p : ~ (p[i] > 0)) => \A i \in DOMAIN p : p[i] = 0
  BY <1>1
<1>6. ASSUME NEW i \in DOMAIN p, p[i] > 0 PROVE Along(p) > 0
  BY <1>1, <1>3, <1>6
<1> QED BY <1>3, <1>4, <1>5, <1>6

\* The routes of the handlers that come next.
RoutesNext(g, h, t) == [i \in DOMAIN Nexts(g, h) |-> RoutesOf(g)[Nexts(g, h)[i]][t]]

\* What the routes of a handler are, in terms of the handlers below.
LEMMA DownwardStep ==
    ASSUME NEW g, Downward(g), NEW h \in Places(g), NEW t \in Places(g)
    PROVE  /\ RoutesNext(g, h, t) \in Seq(Nat) /\ RoutesOf(g)[h][t] \in Nat
           /\ RoutesOf(g)[h][t] = IF t = h THEN 1 ELSE Along(RoutesNext(g, h, t))
<1> DEFINE rts == RoutesOf(g)
           below == [i \in DOMAIN Nexts(g, h) |-> rts[Nexts(g, h)[i]][t]]
<1>1. rts = RoutesBody(g, rts) /\ DOMAIN g = Places(g) /\ rts \in [Places(g) -> [Places(g) -> Nat]]
  BY DownwardRoutes, DownwardParts
<1>2. DOMAIN Nexts(g, h) = 1 .. Len(Nexts(g, h)) /\ Len(Nexts(g, h)) \in Nat
        /\ \A i \in DOMAIN Nexts(g, h) : Nexts(g, h)[i] \in Places(g)
  BY DownwardParts
<1> HIDE DEF rts
<1>3. below \in Seq(Nat)
  BY <1>1, <1>2
<1>4. RoutesBody(g, rts)[h][t] = IF t = h THEN 1 ELSE Along(below)
  BY <1>1, Zenon DEF RoutesBody, Nexts
<1>5. RoutesNext(g, h, t) = below
  BY DEF RoutesNext, rts
<1> HIDE DEF below
<1>6. rts[h][t] \in Nat
  BY <1>1
<1>7. rts[h][t] = IF t = h THEN 1 ELSE Along(below)
  BY <1>1, <1>4
<1> QED BY <1>3, <1>5, <1>6, <1>7 DEF rts

\* So they are in a well-formed graph.
LEMMA RoutesStep ==
    ASSUME NEW g, WellFormed(g), NEW h \in Places(g), NEW t \in Places(g)
    PROVE  /\ RoutesNext(g, h, t) \in Seq(Nat) /\ RoutesOf(g)[h][t] \in Nat
           /\ RoutesOf(g)[h][t] = IF t = h THEN 1 ELSE Along(RoutesNext(g, h, t))
<1>1. Downward(g)
  BY DEF WellFormed, Downward, Nexts
<1> QED BY <1>1, DownwardStep

\* A route goes on where it leads to.
LEMMA RoutesTransitive ==
    ASSUME NEW g, WellFormed(g)
    PROVE  \A h \in Places(g), x \in Places(g), y \in Places(g) :
              RoutesOf(g)[h][x] > 0 /\ RoutesOf(g)[x][y] > 0 => RoutesOf(g)[h][y] > 0
<1> DEFINE rts == RoutesOf(g)
           C == {h \in Places(g) : \A x \in Places(g), y \in Places(g) :
                    rts[h][x] > 0 /\ rts[x][y] > 0 => rts[h][y] > 0}
<1>1. Len(g) \in Nat /\ DOMAIN g = Places(g)
  BY GraphParts
<1>2. ASSUME NEW h \in 1 .. Len(g), (1 .. h - 1) \subseteq C PROVE h \in C
  <2>1. h \in Places(g)
    BY DEF Places
  <2>2. SUFFICES ASSUME NEW x \in Places(g), NEW y \in Places(g), rts[h][x] > 0, rts[x][y] > 0
                 PROVE  rts[h][y] > 0
    BY <2>1
  <2>3. CASE x = h
    BY <2>2, <2>3
  <2>4. CASE y = h
    <3>1. rts[h][h] = 1
      BY <2>1, RoutesStep
    <3> QED BY <2>4, <3>1
  <2>5. CASE x # h /\ y # h
    <3> DEFINE below(t) == RoutesNext(g, h, t)
    <3>1. below(x) \in Seq(Nat) /\ rts[h][x] = Along(below(x))
      BY <2>1, <2>5, RoutesStep
    <3>2. below(y) \in Seq(Nat) /\ rts[h][y] = Along(below(y))
      BY <2>1, <2>5, RoutesStep
    <3>3. \E i \in DOMAIN below(x) : below(x)[i] > 0
      <4> HIDE DEF below
      <4> QED BY <2>2, <3>1, AlongPositive
    <3>4. PICK i \in DOMAIN Nexts(g, h) : rts[Nexts(g, h)[i]][x] > 0
      BY <3>3 DEF RoutesNext
    <3>5. Nexts(g, h)[i] \in 1 .. h - 1 /\ Nexts(g, h)[i] \in Places(g)
      BY <2>1, GraphParts
    <3>6. rts[Nexts(g, h)[i]][y] > 0
      BY <1>2, <2>2, <3>4, <3>5
    <3>7. \E j \in DOMAIN below(y) : below(y)[j] > 0
      BY <3>6 DEF RoutesNext
    <3> HIDE DEF below
    <3> QED BY <3>2, <3>7, AlongPositive
  <2> QED BY <2>3, <2>4, <2>5
<1>3. 1 .. Len(g) \subseteq C
  <2> HIDE DEF C
  <2> QED BY <1>1, <1>2, UpwardInduction
<1> QED BY <1>3 DEF Places, rts

\* Routes lead down.
LEMMA RoutesDown ==
    ASSUME NEW g, WellFormed(g)
    PROVE  \A h \in Places(g), x \in Places(g) : RoutesOf(g)[h][x] > 0 => x <= h
<1> DEFINE rts == RoutesOf(g)
           C == {h \in Places(g) : \A x \in Places(g) : rts[h][x] > 0 => x <= h}
<1>1. Len(g) \in Nat /\ Places(g) \subseteq Int
  BY GraphParts DEF Places
<1>2. ASSUME NEW h \in 1 .. Len(g), (1 .. h - 1) \subseteq C PROVE h \in C
  <2>1. h \in Places(g)
    BY DEF Places
  <2>2. SUFFICES ASSUME NEW x \in Places(g), rts[h][x] > 0 PROVE x <= h
    BY <2>1
  <2>3. CASE x = h
    BY <1>1, <2>3
  <2>4. CASE x # h
    <3> DEFINE below == RoutesNext(g, h, x)
    <3>1. below \in Seq(Nat) /\ rts[h][x] = Along(below)
      BY <2>1, <2>4, RoutesStep
    <3>2. \E i \in DOMAIN below : below[i] > 0
      <4> HIDE DEF below
      <4> QED BY <2>2, <3>1, AlongPositive
    <3>3. PICK i \in DOMAIN Nexts(g, h) : rts[Nexts(g, h)[i]][x] > 0
      BY <3>2 DEF RoutesNext
    <3>4. Nexts(g, h)[i] \in 1 .. h - 1
      BY <2>1, GraphParts
    <3>5. x <= Nexts(g, h)[i]
      BY <1>2, <3>3, <3>4
    <3> QED BY <1>1, <3>4, <3>5
  <2> QED BY <2>3, <2>4
<1>3. 1 .. Len(g) \subseteq C
  <2> HIDE DEF C
  <2> QED BY <1>1, <1>2, UpwardInduction
<1> QED BY <1>3 DEF Places, rts

\* A record reaches a buffer or a sink by as many routes as its first stops do.
LEMMA RoutesByEnds ==
    ASSUME NEW g, WellFormed(g), NEW t \in Places(g), g[t].kind \in {"buffer", "sink"}
    PROVE  \A h \in Places(g) :
              Weight([x \in Places(g) |-> RoutesOf(g)[x][t]], EndsOf(g)[h]) = RoutesOf(g)[h][t]
<1> DEFINE rts == RoutesOf(g)
           e == EndsOf(g)
           w == [x \in Places(g) |-> rts[x][t]]
           C == {h \in Places(g) : Weight(w, e[h]) = rts[h][t]}
<1>1. Len(g) \in Nat /\ rts \in [Places(g) -> [Places(g) -> Nat]]
  BY GraphParts, RoutesDefined
<1>2. w \in [Places(g) -> Int] /\ \A x \in Places(g) : w[x] = rts[x][t]
  <2> HIDE DEF rts
  <2> QED BY <1>1
<1>3. \A h \in Places(g) : e[h] \in Seq(Places(g))
  <2> TAKE h \in Places(g)
  <2>1. e[h] \in Seq({x \in Places(g) : g[x].kind \in {"buffer", "sink"}})
    BY EndsType
  <2> HIDE DEF e
  <2> QED BY <2>1, SeqMonotonic
<1>4. ASSUME NEW h \in 1 .. Len(g), (1 .. h - 1) \subseteq C PROVE h \in C
  <2>1. h \in Places(g)
    BY DEF Places
  <2>2. CASE g[h].kind \in {"buffer", "sink"}
    <3>1. e[h] = <<h>>
      BY <2>1, <2>2, EndsStep
    <3>2. Weight(w, <<h>>) = w[h]
      <4>1. <<h>> = Append(<< >>, h) /\ << >> \in Seq(Places(g))
        BY EmptySeq
      <4>2. Weight(w, Append(<< >>, h)) = Weight(w, << >>) + w[h]
        <5> HIDE DEF w
        <5> QED BY <1>2, <2>1, <4>1, WeightAppend
      <4>3. w[h] \in Int
        <5> HIDE DEF w
        <5> QED BY <1>2, <2>1
      <4> HIDE DEF w
      <4> QED BY <4>1, <4>2, <4>3, WeightEmpty
    <3>3. w[h] = rts[h][t]
      BY <2>1
    <3> QED BY <2>1, <3>1, <3>2, <3>3
  <2>3. CASE g[h].kind \notin {"buffer", "sink"}
    <3> DEFINE q == [i \in DOMAIN Nexts(g, h) |-> e[Nexts(g, h)[i]]]
               below == RoutesNext(g, h, t)
    <3>1. e[h] = FlattenSeq(q)
      BY <2>1, <2>3, EndsStep
    <3>2. rts[h][t] = Along(below)
      <4>1. t # h
        BY <2>3
      <4> QED BY <2>1, <4>1, RoutesStep
    <3>3. /\ DOMAIN Nexts(g, h) = 1 .. Len(Nexts(g, h)) /\ Len(Nexts(g, h)) \in Nat
          /\ \A i \in DOMAIN Nexts(g, h) : Nexts(g, h)[i] \in 1 .. h - 1 /\ Nexts(g, h)[i] \in Places(g)
      BY <2>1, GraphParts
    <3>4. q \in Seq(Seq(Places(g))) /\ DOMAIN q = DOMAIN Nexts(g, h)
      <4> HIDE DEF e
      <4> QED BY <1>3, <3>3
    <3>5. Weight(w, FlattenSeq(q)) = Along([i \in DOMAIN q |-> Weight(w, q[i])])
      <4> HIDE DEF q, w
      <4> QED BY <1>2, <3>4, FlattenWeight
    <3>6. \A i \in DOMAIN Nexts(g, h) : Weight(w, q[i]) = below[i]
      <4> TAKE i \in DOMAIN Nexts(g, h)
      <4>1. Weight(w, e[Nexts(g, h)[i]]) = rts[Nexts(g, h)[i]][t]
        <5>1. Nexts(g, h)[i] \in C
          BY <1>4, <3>3
        <5> HIDE DEF w, e, rts
        <5> QED BY <5>1
      <4>2. q[i] = e[Nexts(g, h)[i]] /\ below[i] = rts[Nexts(g, h)[i]][t]
        BY DEF RoutesNext
      <4> HIDE DEF q, below, w, e, rts
      <4> QED BY <4>1, <4>2
    <3>7. [i \in DOMAIN q |-> Weight(w, q[i])] = below
      <4>1. below = [i \in DOMAIN Nexts(g, h) |-> below[i]]
        BY DEF RoutesNext
      <4> HIDE DEF q, below, w
      <4> QED BY <3>4, <3>6, <4>1
    <3> HIDE DEF q, below, w, e, rts
    <3>8. Weight(w, e[h]) = rts[h][t]
      BY <3>1, <3>2, <3>5, <3>7
    <3> QED BY <2>1, <3>8
  <2> QED BY <2>2, <2>3
<1>5. 1 .. Len(g) \subseteq C
  <2> HIDE DEF C
  <2> QED BY <1>1, <1>4, UpwardInduction
<1>6. \A h \in Places(g) : Weight(w, e[h]) = rts[h][t]
  <2> HIDE DEF w, e, rts
  <2> QED BY <1>5 DEF Places
<1> QED BY <1>6

\* A sink is at the end of one route from itself; a buffer's routes are those of what
\* is below it.
LEMMA RoutesOfEnds ==
    ASSUME NEW g, WellFormed(g), NEW h \in Places(g), NEW t \in Places(g)
    PROVE  /\ RoutesOf(g)[h][h] = 1
           /\ g[h].kind = "sink" /\ t # h => RoutesOf(g)[h][t] = 0
           /\ g[h].kind \notin {"sink", "multi"} /\ t # h =>
                 RoutesOf(g)[h][t] = RoutesOf(g)[g[h].next[1]][t]
<1> DEFINE rts == RoutesOf(g)
           below == RoutesNext(g, h, t)
<1>1. rts[h][h] = 1
  BY RoutesStep
<1>2. t # h => rts[h][t] = Along(below)
  BY RoutesStep
<1>3. DOMAIN g = Places(g) /\ DOMAIN Nexts(g, h) = 1 .. Len(Nexts(g, h))
        /\ (DOMAIN Nexts(g, h) # {} => Nexts(g, h)[1] \in Places(g))
        /\ rts \in [Places(g) -> [Places(g) -> Nat]]
  <2>1. DOMAIN g = Places(g) /\ DOMAIN Nexts(g, h) = 1 .. Len(Nexts(g, h)) /\ Len(Nexts(g, h)) \in Nat
          /\ \A i \in DOMAIN Nexts(g, h) : Nexts(g, h)[i] \in Places(g)
    BY GraphParts
  <2>2. DOMAIN Nexts(g, h) # {} => 1 \in DOMAIN Nexts(g, h)
    BY <2>1
  <2>3. rts \in [Places(g) -> [Places(g) -> Nat]]
    BY RoutesDefined
  <2> HIDE DEF rts
  <2> QED BY <2>1, <2>2, <2>3
<1>4. ASSUME g[h].kind = "sink" PROVE Along(below) = 0
  <2>1. Nexts(g, h) = << >>
    BY <1>3, <1>4 DEF WellFormed, Nexts
  <2>2. DOMAIN below = {}
    BY <2>1 DEF RoutesNext
  <2> HIDE DEF below
  <2> QED BY <2>2, TotalEmpty DEF Along
<1>5. ASSUME g[h].kind \notin {"sink", "multi"} PROVE Along(below) = rts[g[h].next[1]][t]
  <2>1. Len(Nexts(g, h)) = 1
    BY <1>3, <1>5 DEF WellFormed, Nexts
  <2>2. DOMAIN below = {1} /\ below[1] = rts[Nexts(g, h)[1]][t]
    BY <1>3, <2>1 DEF RoutesNext
  <2>3. below[1] \in Nat
    <3>1. rts[Nexts(g, h)[1]][t] \in Nat
      <4> HIDE DEF rts
      <4> QED BY <1>3, <2>1
    <3> QED BY <2>2, <3>1
  <2> HIDE DEF below, rts
  <2>4. IsFiniteSet({1}) /\ {1} \ {1} = {}
    BY FS_Singleton
  <2>5. Total(below, {1}) = Total(below, {}) + below[1]
    BY <2>3, <2>4, TotalRemove
  <2>6. Total(below, {1}) = below[1]
    BY <2>3, <2>5, TotalEmpty
  <2> QED BY <2>2, <2>6 DEF Along, Nexts
<1> HIDE DEF below, rts
<1>6. g[h].kind = "sink" /\ t # h => rts[h][t] = 0
  BY <1>2, <1>4
<1>7. g[h].kind \notin {"sink", "multi"} /\ t # h => rts[h][t] = rts[g[h].next[1]][t]
  BY <1>2, <1>5
<1> QED BY <1>1, <1>6, <1>7 DEF rts

\* What a record may be offered to is below the handler that offers it.
LEMMA EndsReached ==
    ASSUME NEW g, WellFormed(g), NEW h \in Places(g), NEW t \in Range(EndsOf(g)[h])
    PROVE  /\ t \in Places(g) /\ g[t].kind \in {"buffer", "sink"}
           /\ RoutesOf(g)[h][t] > 0
<1> DEFINE T == {x \in Places(g) : g[x].kind \in {"buffer", "sink"}}
           p == EndsOf(g)[h]
           rts == RoutesOf(g)
           w == [x \in Places(g) |-> rts[x][t]]
<1>1. p \in Seq(T) /\ rts \in [Places(g) -> [Places(g) -> Nat]]
  BY EndsType, RoutesDefined
<1>2. T \subseteq Places(g)
  OBVIOUS
<1>3. p \in Seq(Places(g)) /\ \A i \in DOMAIN p : p[i] \in T
  <2> HIDE DEF T, p, rts
  <2> QED BY <1>1, <1>2, SeqMonotonic, LenProperties, ElementOfSeq
<1>4. PICK i \in DOMAIN p : t = p[i]
  BY DEF Range
<1>5. t \in T
  <2> HIDE DEF T, p
  <2> QED BY <1>3, <1>4
<1>6. w \in [Places(g) -> Nat]
  <2> HIDE DEF rts
  <2> QED BY <1>1, <1>5
<1>7. w[t] <= Weight(w, p)
  <2> HIDE DEF w, p
  <2> QED BY <1>3, <1>4, <1>6, WeightNat
<1>8. Weight(w, p) = rts[h][t]
  BY <1>5, RoutesByEnds
<1>9. w[t] = 1
  BY <1>5, RoutesOfEnds
<1>10. rts[h][t] \in Nat
  <2> HIDE DEF rts
  <2> QED BY <1>1, <1>5
<1>11. rts[h][t] > 0
  <2> HIDE DEF w, p, rts
  <2> QED BY <1>7, <1>8, <1>9, <1>10
<1> QED BY <1>5, <1>11

-----------------------------------------------------------------------------
(* What New builds.                                                        *)

\* One decorator more, around the outermost handler.
LEMMA WellFormedAppend ==
    ASSUME NEW g, WellFormed(g), Len(g) > 0, NEW kind \in Kinds \ {"sink"}
    PROVE  LET wider == Append(g, Handler(kind, <<Len(g)>>))
           IN  /\ WellFormed(wider) /\ Len(wider) = Len(g) + 1
               /\ wider[Len(g) + 1] = Handler(kind, <<Len(g)>>)
               /\ \A h \in Places(g) : wider[h] = g[h]
<1> DEFINE T == [kind : Kinds, next : Seq(Nat)]
           x == Handler(kind, <<Len(g)>>)
           n == Len(g)
           f == Append(g, x)
<1>1. g \in Seq(T) /\ n \in Nat /\ n > 0 /\ DOMAIN g = 1 .. n
  BY GraphParts DEF WellFormed, Places
<1>2. <<n>> \in Seq(Nat) /\ <<n>> \in Seq(1 .. n) /\ <<n>> # << >> /\ Len(<<n>>) = 1
  <2> HIDE DEF n
  <2> QED BY <1>1
<1>3. x \in T /\ x.kind = kind /\ x.next = <<n>>
  BY <1>2 DEF Handler
<1>4. f \in Seq(T) /\ Len(f) = n + 1 /\ (\A h \in 1 .. n : f[h] = g[h]) /\ f[n + 1] = x
  <2> HIDE DEF T, x
  <2> QED BY <1>1, <1>3, AppendProperties
<1>5. DOMAIN f = 1 .. n + 1
  <2> HIDE DEF T, f, n
  <2> QED BY <1>4, LenProperties
<1>6. ASSUME NEW h \in 1 .. n + 1
      PROVE  /\ f[h].next \in Seq(1 .. h - 1)
             /\ f[h].kind = "sink" <=> f[h].next = << >>
             /\ f[h].kind \notin {"sink", "multi"} => Len(f[h].next) = 1
  <2>1. CASE h \in 1 .. n
    <3>1. f[h] = g[h] /\ h \in DOMAIN g
      BY <1>1, <1>4, <2>1
    <3> HIDE DEF f, n
    <3> QED BY <3>1 DEF WellFormed
  <2>2. CASE h = n + 1
    <3>1. f[h] = x /\ h - 1 = n
      BY <1>1, <1>4, <2>2
    <3> HIDE DEF f, n, x
    <3> QED BY <1>2, <1>3, <3>1
  <2> QED BY <1>1, <2>1, <2>2
<1>7. WellFormed(f)
  <2> HIDE DEF f, n, x
  <2> QED BY <1>4, <1>5, <1>6 DEF WellFormed
<1> QED BY <1>4, <1>7 DEF Places

\* The base that New puts above what it is given.
Base(s) == Handler(IF s.use = "sink" THEN "level" ELSE "decorator", <<Len(s.given)>>)

\* What is assumed of a setup.
LEMMA SetupParts ==
    ASSUME NEW s \in Setups
    PROVE  /\ s.use \in Uses /\ s.own \in BOOLEAN /\ s.flips \in Nat
           /\ s.expiring \subseteq Flushes \cup Shutdowns
           /\ Len(s.given) > 0 /\ WellFormed(s.given) /\ Len(s.given) \in Nat
           /\ \A h \in DOMAIN s.given : s.given[h].kind # "level"
BY ConstantsAssumption, GraphParts

\* The graph by its three forms.
LEMMA GraphForms ==
    ASSUME NEW s \in Setups
    PROVE  /\ s.use = "override" => Graph(s) = s.given
           /\ s.use # "override" /\ ~s.own => Graph(s) = Append(s.given, Base(s))
           /\ s.use # "override" /\ s.own =>
                Graph(s) = Append(Append(s.given, Base(s)), Handler("buffer", <<Len(s.given) + 1>>))
BY DEF Graph, Base

\* What New builds is well-formed, and what it builds on is in it.
LEMMA GraphBuilt ==
    ASSUME NEW s \in Setups
    PROVE  /\ WellFormed(Graph(s)) /\ Entry(s) \in Places(Graph(s)) /\ Entry(s) = Len(Graph(s))
           /\ \A h \in Places(s.given) : h \in Places(Graph(s)) /\ Graph(s)[h] = s.given[h]
           /\ s.use # "override" /\ s.own =>
                 /\ Graph(s)[Entry(s)] = Handler("buffer", <<Entry(s) - 1>>)
                 /\ Graph(s)[Entry(s) - 1] = Base(s) /\ Entry(s) = Len(s.given) + 2
           /\ s.use # "override" /\ ~s.own =>
                 /\ Graph(s)[Entry(s)] = Base(s) /\ Entry(s) = Len(s.given) + 1
           /\ s.use = "override" => Graph(s) = s.given
<1> DEFINE n == Len(s.given)
           f == Append(s.given, Base(s))
           b == Handler("buffer", <<n + 1>>)
<1>1. WellFormed(s.given) /\ n > 0 /\ n \in Nat /\ s.own \in BOOLEAN
  BY SetupParts
<1>2. WellFormed(f) /\ Len(f) = n + 1 /\ f[n + 1] = Base(s) /\ \A h \in Places(s.given) : f[h] = s.given[h]
  BY <1>1, WellFormedAppend DEF Base, Kinds
<1>3. /\ WellFormed(Append(f, b)) /\ Len(Append(f, b)) = n + 2 /\ Append(f, b)[n + 2] = b
      /\ \A h \in Places(f) : Append(f, b)[h] = f[h]
  <2>1. Len(f) > 0 /\ Len(f) = n + 1 /\ (n + 1) + 1 = n + 2
    BY <1>1, <1>2
  <2>2. "buffer" \in Kinds \ {"sink"}
    BY DEF Kinds
  <2> HIDE DEF f
  <2>3. b = Handler("buffer", <<Len(f)>>)
    BY <2>1
  <2> HIDE DEF b, n
  <2>4. WellFormed(f)
    BY <1>2
  <2>5. /\ WellFormed(Append(f, b)) /\ Len(Append(f, b)) = Len(f) + 1
        /\ Append(f, b)[Len(f) + 1] = b /\ \A h \in Places(f) : Append(f, b)[h] = f[h]
    BY <2>1, <2>2, <2>3, <2>4, WellFormedAppend
  <2> QED BY <2>1, <2>5
<1>4. CASE s.use = "override"
  <2>1. Graph(s) = s.given
    BY <1>4, GraphForms
  <2> QED BY <1>1, <1>4, <2>1 DEF Entry, Places
<1>5. CASE s.use # "override" /\ ~s.own
  <2>1. Graph(s) = f
    BY <1>5, GraphForms
  <2> HIDE DEF f
  <2> QED BY <1>1, <1>2, <1>5, <2>1 DEF Entry, Places
<1>6. CASE s.use # "override" /\ s.own
  <2>1. Graph(s) = Append(f, b)
    BY <1>6, GraphForms
  <2>2. \A h \in Places(s.given) : h \in Places(f)
    BY <1>1, <1>2 DEF Places
  <2>3. n + 1 \in Places(f)
    BY <1>1, <1>2 DEF Places
  <2>4. Entry(s) = n + 2 /\ Entry(s) - 1 = n + 1
    BY <1>1, <1>3, <2>1 DEF Entry
  <2> HIDE DEF f, n
  <2>5. Graph(s)[Entry(s)] = Handler("buffer", <<Entry(s) - 1>>)
    BY <1>3, <2>1, <2>4
  <2>6. Graph(s)[Entry(s) - 1] = Base(s)
    BY <1>2, <1>3, <2>1, <2>3, <2>4
  <2>7. \A h \in Places(s.given) : h \in Places(Graph(s)) /\ Graph(s)[h] = s.given[h]
    BY <1>1, <1>2, <1>3, <2>1, <2>2 DEF Places, n
  <2>8. Entry(s) \in Places(Graph(s)) /\ Entry(s) = Len(Graph(s))
    BY <1>1, <1>3, <2>1, <2>4 DEF Places
  <2> QED BY <1>3, <1>6, <2>1, <2>4, <2>5, <2>6, <2>7, <2>8 DEF n
<1> QED BY <1>1, <1>4, <1>5, <1>6

\* From a Sink's gate a record comes to the same sinks as from the top.
LEMMA GateRoutes ==
    ASSUME NEW s \in Setups, NEW h \in Places(Graph(s)), Graph(s)[h].kind = "level",
           NEW t \in Places(Graph(s)), Graph(s)[t].kind = "sink"
    PROVE  RoutesOf(Graph(s))[h][t] = RoutesOf(Graph(s))[Entry(s)][t]
<1> DEFINE g == Graph(s)
           n == Len(s.given)
<1>1. n \in Nat /\ DOMAIN s.given = 1 .. n /\ Len(g) \in Nat /\ WellFormed(g)
  BY SetupParts, GraphParts, GraphBuilt DEF Places
<1>2. h \notin 1 .. n
  <2>1. \A x \in 1 .. n : g[x] = s.given[x] /\ s.given[x].kind # "level"
    BY <1>1, SetupParts, GraphBuilt DEF Places
  <2> QED BY <2>1
<1>3. CASE s.use = "override"
  BY <1>1, <1>2, <1>3, GraphBuilt DEF Places
<1>4. CASE s.use # "override" /\ ~s.own
  <2>1. Entry(s) = n + 1 /\ Len(g) = n + 1
    BY <1>4, GraphBuilt
  <2> QED BY <1>1, <1>2, <2>1 DEF Places
<1>5. CASE s.use # "override" /\ s.own
  <2>7. Entry(s) = n + 2 /\ Len(g) = n + 2 /\ g[Entry(s)] = Handler("buffer", <<Entry(s) - 1>>)
    BY <1>5, GraphBuilt
  <2>8. (n + 2) - 1 = n + 1
    BY <1>1
  <2>1. Entry(s) = n + 2 /\ Len(g) = n + 2 /\ g[Entry(s)] = Handler("buffer", <<n + 1>>)
    <3> HIDE DEF n, g
    <3> QED BY <2>7, <2>8
  <2>2. g[Entry(s)].kind = "buffer" /\ g[Entry(s)].next[1] = n + 1
    BY <2>1 DEF Handler
  <2>3. h # Entry(s) /\ t # Entry(s)
    BY <2>2
  <2>4. h = n + 1
    BY <1>1, <1>2, <2>1, <2>3 DEF Places
  <2>5. Entry(s) \in Places(g)
    BY GraphBuilt
  <2>6. RoutesOf(g)[Entry(s)][t] = RoutesOf(g)[g[Entry(s)].next[1]][t]
    <3> HIDE DEF g
    <3> QED BY <1>1, <2>2, <2>3, <2>5, RoutesOfEnds DEF g
  <2> QED BY <2>2, <2>4, <2>6
<1> QED BY <1>3, <1>4, <1>5, SetupParts

-----------------------------------------------------------------------------
(* What the logger finds.                                                  *)

BuffersIn(g) == {n \in Places(g) : g[n].kind = "buffer"}

WalkBody(g, v) ==
    [left \in 0 .. MaxUnwrapDepth + 1 |->
        [n \in DOMAIN g |->
            IF left = 0 THEN << >>
            ELSE (IF g[n].kind = "buffer" THEN <<n>> ELSE << >>)
                 \o IF g[n].kind = "opaque" THEN << >>
                    ELSE FlattenSeq([i \in DOMAIN g[n].next |-> v[left - 1][g[n].next[i]]])]]

WalksOf(g) == CHOOSE v : v = WalkBody(g, v)

\* What one step of the walk adds.
Underneath(g, n, v) == FlattenSeq([i \in DOMAIN Nexts(g, n) |-> v[Nexts(g, n)[i]]])
Itself(g, n) == IF g[n].kind = "buffer" THEN <<n>> ELSE << >>

\* The walk of collectFlushers is what its definition says, and finds buffers only.
LEMMA WalksDefined ==
    ASSUME NEW g, WellFormed(g)
    PROVE  /\ \A h : CollectFlushers(g, h) = WalksOf(g)[MaxUnwrapDepth + 1][h]
           /\ \A left \in 0 .. MaxUnwrapDepth + 1 : \A n \in Places(g) :
                 /\ WalksOf(g)[left][n] \in Seq(BuffersIn(g))
                 /\ WalksOf(g)[left][n] =
                       IF left = 0 THEN << >>
                       ELSE Itself(g, n) \o IF g[n].kind = "opaque" THEN << >>
                                            ELSE Underneath(g, n, WalksOf(g)[left - 1])
<1> DEFINE d == MaxUnwrapDepth + 1
           T == BuffersIn(g)
           V == [Places(g) -> Seq(T)]
           F == [v \in [0 .. d -> V] |-> WalkBody(g, v)]
           walks == WalksOf(g)
<1>1. d \in Nat /\ DOMAIN g = Places(g)
  BY GraphParts DEF MaxUnwrapDepth
<1>2. \A h : CollectFlushers(g, h) = walks[d][h]
  BY DEF CollectFlushers, WalksOf, WalkBody
<1>3. ASSUME NEW v, NEW left \in 0 .. d, NEW n \in Places(g)
      PROVE  WalkBody(g, v)[left][n] =
                IF left = 0 THEN << >>
                ELSE Itself(g, n) \o IF g[n].kind = "opaque" THEN << >>
                                     ELSE Underneath(g, n, v[left - 1])
  BY <1>1, Zenon DEF WalkBody, Itself, Underneath, Nexts
<1>4. ASSUME NEW v, NEW left \in 0 .. d, NEW n \in Places(g), left # 0 => v[left - 1] \in V
      PROVE  WalkBody(g, v)[left][n] \in Seq(T)
  <2>1. << >> \in Seq(T)
    BY EmptySeq
  <2>2. Itself(g, n) \in Seq(T)
    <3>1. g[n].kind = "buffer" => n \in T
      BY DEF BuffersIn
    <3> HIDE DEF T
    <3> QED BY <2>1, <3>1 DEF Itself
  <2>3. ASSUME left # 0 PROVE Underneath(g, n, v[left - 1]) \in Seq(T)
    <3> DEFINE q == [i \in DOMAIN Nexts(g, n) |-> v[left - 1][Nexts(g, n)[i]]]
    <3>1. DOMAIN Nexts(g, n) = 1 .. Len(Nexts(g, n)) /\ Len(Nexts(g, n)) \in Nat
            /\ \A i \in DOMAIN Nexts(g, n) : Nexts(g, n)[i] \in Places(g)
      BY GraphParts
    <3>2. q \in Seq(Seq(T))
      <4>1. v[left - 1] \in V
        BY <1>4, <2>3
      <4> HIDE DEF T
      <4> QED BY <3>1, <4>1
    <3> HIDE DEF q, T
    <3>3. FlattenSeq(q) \in Seq(T)
      BY <3>2, FlattenRange
    <3> QED BY <3>3 DEF Underneath, q
  <2> DEFINE rest == IF g[n].kind = "opaque" THEN << >> ELSE Underneath(g, n, v[left - 1])
  <2>4. left # 0 => rest \in Seq(T) /\ WalkBody(g, v)[left][n] = Itself(g, n) \o rest
    BY <1>3, <2>1, <2>3
  <2>5. left = 0 => WalkBody(g, v)[left][n] = << >>
    BY <1>3
  <2> HIDE DEF T, rest
  <2>6. left # 0 => Itself(g, n) \o rest \in Seq(T)
    BY <2>2, <2>4, ConcatProperties
  <2> QED BY <2>1, <2>4, <2>5, <2>6
<1>5. ASSUME NEW v, NEW left \in 0 .. d, left # 0 => v[left - 1] \in V
      PROVE  WalkBody(g, v)[left] \in V
  <2>1. WalkBody(g, v)[left] = [n \in Places(g) |-> WalkBody(g, v)[left][n]]
    BY <1>1, Zenon DEF WalkBody
  <2>2. \A n \in Places(g) : WalkBody(g, v)[left][n] \in Seq(T)
    BY <1>4, <1>5
  <2> HIDE DEF T
  <2> QED BY <2>1, <2>2
<1>6. \A v \in [0 .. d -> V] : F[v] = WalkBody(g, v) /\ WalkBody(g, v) \in [0 .. d -> V]
  <2> TAKE v \in [0 .. d -> V]
  <2>1. \A left \in 0 .. d : WalkBody(g, v)[left] \in V
    <3> TAKE left \in 0 .. d
    <3>1. left # 0 => v[left - 1] \in V
      <4>1. left # 0 => left - 1 \in 0 .. d
        BY <1>1
      <4> HIDE DEF V, d
      <4> QED BY <4>1
    <3> HIDE DEF V, d
    <3> QED BY <1>5, <3>1
  <2>2. WalkBody(g, v) = [left \in 0 .. d |-> WalkBody(g, v)[left]]
    BY Zenon DEF WalkBody
  <2> HIDE DEF V, d
  <2> QED BY <2>1, <2>2
<1>7. FromBelow(F, 0, d, V)
  <2>1. F \in [[0 .. d -> V] -> [0 .. d -> V]]
    <3> HIDE DEF V, d
    <3> QED BY <1>6
  <2>2. ASSUME NEW v \in [0 .. d -> V], NEW w \in [0 .. d -> V], NEW h \in 0 .. d,
               \A i \in 0 .. h - 1 : v[i] = w[i]
        PROVE  WalkBody(g, v)[h] = WalkBody(g, w)[h]
    <3>1. h # 0 => v[h - 1] = w[h - 1]
      BY <1>1, <2>2
    <3>2. ASSUME NEW n \in Places(g) PROVE WalkBody(g, v)[h][n] = WalkBody(g, w)[h][n]
      <4> DEFINE row(u) == IF h = 0 THEN << >>
                           ELSE Itself(g, n) \o IF g[n].kind = "opaque" THEN << >>
                                                ELSE Underneath(g, n, u[h - 1])
      <4>1. WalkBody(g, v)[h][n] = row(v) /\ WalkBody(g, w)[h][n] = row(w)
        BY <1>3
      <4>2. row(v) = row(w)
        BY <3>1, Zenon
      <4> QED BY <4>1, <4>2, Zenon
    <3>3. \A u : WalkBody(g, u)[h] = [n \in Places(g) |-> WalkBody(g, u)[h][n]]
      BY <1>1, Zenon DEF WalkBody
    <3>4. [n \in Places(g) |-> WalkBody(g, v)[h][n]] = [n \in Places(g) |-> WalkBody(g, w)[h][n]]
      BY <3>2
    <3> QED BY <3>3, <3>4, Zenon
  <2> HIDE DEF F, V, d
  <2> QED BY <1>6, <2>1, <2>2 DEF FromBelow
<1>8. walks = WalkBody(g, walks)
  <2>1. [n \in Places(g) |-> << >>] \in V
    <3>1. << >> \in Seq(T)
      BY EmptySeq
    <3> HIDE DEF T
    <3> QED BY <3>1
  <2>2. \E v \in [0 .. d -> V] : v = F[v]
    <3>1. V # {} /\ 0 \in Nat
      BY <2>1
    <3> HIDE DEF F, V, d
    <3> QED BY <1>1, <1>7, <3>1, UpwardRecursion
  <2>3. \E v : v = WalkBody(g, v)
    BY <1>6, <2>2
  <2> QED BY <2>3 DEF WalksOf
<1> DEFINE C == {left \in Nat : left <= d => walks[left] \in V}
<1>9. \A left \in Nat : left \in C
  <2>1. 0 \in C
    <3>1. 0 \in 0 .. d
      BY <1>1
    <3> HIDE DEF V, walks, d
    <3> QED BY <1>5, <1>8, <3>1
  <2>2. ASSUME NEW k \in Nat, k \in C PROVE k + 1 \in C
    <3>1. k + 1 <= d => k + 1 \in 0 .. d /\ (k + 1) - 1 = k /\ walks[k] \in V
      BY <1>1, <2>2
    <3> HIDE DEF V, walks, d
    <3> QED BY <1>5, <1>8, <3>1
  <2> HIDE DEF C
  <2> QED BY <2>1, <2>2, NatSetInduction
<1>10. \A left \in 0 .. d : walks[left] \in V
  <2>1. \A left \in 0 .. d : left \in Nat /\ left <= d
    BY <1>1
  <2> HIDE DEF V, walks, d
  <2> QED BY <1>9, <2>1
<1>11. \A left \in 0 .. d : \A n \in Places(g) : walks[left][n] \in Seq(T)
  <2> HIDE DEF T, walks, d
  <2> QED BY <1>10
<1> HIDE DEF walks
<1>12. \A left \in 0 .. d : \A n \in Places(g) :
          walks[left][n] = IF left = 0 THEN << >>
                           ELSE Itself(g, n) \o IF g[n].kind = "opaque" THEN << >>
                                                ELSE Underneath(g, n, walks[left - 1])
  <2> HIDE DEF d
  <2> QED BY <1>3, <1>8
<1> QED BY <1>2, <1>11, <1>12 DEF walks

\* A handler has a route to each that comes next.
LEMMA RoutesToNext ==
    ASSUME NEW g, WellFormed(g), NEW h \in Places(g), NEW i \in DOMAIN Nexts(g, h)
    PROVE  /\ Nexts(g, h)[i] \in Places(g) /\ RoutesOf(g)[h][Nexts(g, h)[i]] > 0
           /\ \A t \in Places(g) : RoutesOf(g)[Nexts(g, h)[i]][t] > 0 => RoutesOf(g)[h][t] > 0
<1> DEFINE x == Nexts(g, h)[i]
           below == RoutesNext(g, h, x)
<1>1. x \in Places(g) /\ x \in 1 .. h - 1 /\ h \in Nat
  BY GraphParts DEF Places
<1>2. x # h
  <2> HIDE DEF x
  <2> QED BY <1>1
<1>3. RoutesOf(g)[x][x] = 1
  BY <1>1, RoutesStep
<1>4. below \in Seq(Nat) /\ RoutesOf(g)[h][x] = Along(below)
  BY <1>1, <1>2, RoutesStep
<1>5. \E k \in DOMAIN below : below[k] > 0
  BY <1>3 DEF RoutesNext
<1>6. RoutesOf(g)[h][x] > 0
  <2> HIDE DEF below
  <2> QED BY <1>4, <1>5, AlongPositive
<1> QED BY <1>1, <1>6, RoutesTransitive

\* What is next of one that has a route, but for itself.
LEMMA RoutesVia ==
    ASSUME NEW g, Downward(g), NEW h \in Places(g), NEW t \in Places(g), t # h
    PROVE  RoutesOf(g)[h][t] > 0 <=> \E i \in DOMAIN Nexts(g, h) : RoutesOf(g)[Nexts(g, h)[i]][t] > 0
<1> DEFINE below == RoutesNext(g, h, t)
<1>1. below \in Seq(Nat) /\ RoutesOf(g)[h][t] = Along(below)
  BY DownwardStep
<1>2. (\E i \in DOMAIN below : below[i] > 0)
        <=> \E i \in DOMAIN Nexts(g, h) : RoutesOf(g)[Nexts(g, h)[i]][t] > 0
  BY DEF RoutesNext
<1> HIDE DEF below
<1> QED BY <1>1, <1>2, AlongPositive

\* The graph without what comes after c.
CutAt(g, c) == [g EXCEPT ![c].next = << >>]

\* It is still a graph whose children come first, and only c has lost its own.
LEMMA CutParts ==
    ASSUME NEW g, WellFormed(g), NEW c \in Places(g)
    PROVE  /\ Downward(CutAt(g, c)) /\ Places(CutAt(g, c)) = Places(g)
           /\ \A h \in Places(g) : h # c => Nexts(CutAt(g, c), h) = Nexts(g, h)
<1> DEFINE T == [kind : Kinds, next : Seq(Nat)]
           x == [g[c] EXCEPT !.next = << >>]
           f == CutAt(g, c)
<1>1. g \in Seq(T) /\ Len(g) \in Nat /\ DOMAIN g = Places(g) /\ c \in 1 .. Len(g)
  BY GraphParts DEF WellFormed, Places
<1>2. f = [g EXCEPT ![c] = x]
  BY DEF CutAt
<1>3. g[c] \in T
  <2> HIDE DEF T
  <2> QED BY <1>1, ElementOfSeq
<1>4. x \in T /\ x.next = << >>
  BY <1>3, EmptySeq
<1>5. f \in Seq(T) /\ Len(f) = Len(g) /\ f[c] = x /\ \A h \in Places(g) : h # c => f[h] = g[h]
  <2> HIDE DEF T, x, f
  <2> QED BY <1>1, <1>2, <1>4, ExceptSeq DEF Places
<1>6. Places(f) = Places(g) /\ DOMAIN f = Places(g)
  <2> HIDE DEF T, f
  <2> QED BY <1>5, LenProperties DEF Places
<1>7. \A h \in Places(g) : h # c => Nexts(f, h) = Nexts(g, h)
  <2> HIDE DEF f
  <2> QED BY <1>5 DEF Nexts
<1>8. ASSUME NEW h \in DOMAIN f PROVE Nexts(f, h) \in Seq(1 .. h - 1)
  <2>1. CASE h = c
    <3>1. Nexts(f, h) = << >>
      <4> HIDE DEF f, x
      <4> QED BY <1>4, <1>5, <2>1 DEF Nexts
    <3> QED BY <3>1, EmptySeq
  <2>2. CASE h # c
    <3>1. h \in Places(g)
      BY <1>6, <1>8
    <3> HIDE DEF f
    <3> QED BY <1>7, <2>2, <3>1, GraphParts
  <2> QED BY <2>1, <2>2
<1> QED BY <1>5, <1>6, <1>7, <1>8 DEF Downward

\* What comes underneath a handler in the walk, and the order it has.
LEMMA WalkUnder ==
    ASSUME NEW g, WellFormed(g), NEW n \in Places(g), NEW left \in 0 .. MaxUnwrapDepth
    PROVE  LET below == WalksOf(g)[left]
           IN  /\ Underneath(g, n, below) \in Seq(BuffersIn(g))
               /\ \A i \in DOMAIN Nexts(g, n) : \A t \in Range(below[Nexts(g, n)[i]]) :
                     t \in Range(Underneath(g, n, below))
               /\ \A c, d :
                     /\ (\A i \in DOMAIN Nexts(g, n) : Preceded(c, d, below[Nexts(g, n)[i]]))
                          => Preceded(c, d, Underneath(g, n, below))
                     /\ (\A i \in DOMAIN Nexts(g, n) : Followed(c, d, below[Nexts(g, n)[i]]))
                          => Followed(c, d, Underneath(g, n, below))
<1> DEFINE T == BuffersIn(g)
           below == WalksOf(g)[left]
           q == [i \in DOMAIN Nexts(g, n) |-> below[Nexts(g, n)[i]]]
<1>1. left \in 0 .. MaxUnwrapDepth + 1
  BY DEF MaxUnwrapDepth
<1>2. DOMAIN Nexts(g, n) = 1 .. Len(Nexts(g, n)) /\ Len(Nexts(g, n)) \in Nat
        /\ \A i \in DOMAIN Nexts(g, n) : Nexts(g, n)[i] \in Places(g)
  BY GraphParts
<1>3. \A i \in DOMAIN Nexts(g, n) : below[Nexts(g, n)[i]] \in Seq(T)
  BY <1>1, <1>2, WalksDefined
<1>4. /\ q \in Seq(Seq(T)) /\ Len(q) = Len(Nexts(g, n)) /\ DOMAIN q = DOMAIN Nexts(g, n)
      /\ \A i \in DOMAIN Nexts(g, n) : q[i] = below[Nexts(g, n)[i]]
  <2> HIDE DEF T, below
  <2> QED BY <1>2, <1>3
<1>5. Underneath(g, n, below) = FlattenSeq(q)
  BY DEF Underneath
<1> HIDE DEF T, below, q
<1>6. FlattenSeq(q) \in Seq(T) /\ Range(FlattenSeq(q)) = UNION {Range(q[i]) : i \in 1 .. Len(q)}
  BY <1>4, FlattenRange
<1>7. ASSUME NEW i \in DOMAIN Nexts(g, n), NEW t \in Range(below[Nexts(g, n)[i]])
      PROVE  t \in Range(FlattenSeq(q))
  BY <1>2, <1>4, <1>6, <1>7
<1>8. ASSUME NEW c, NEW d
      PROVE  /\ (\A i \in DOMAIN Nexts(g, n) : Preceded(c, d, below[Nexts(g, n)[i]]))
                   => Preceded(c, d, FlattenSeq(q))
             /\ (\A i \in DOMAIN Nexts(g, n) : Followed(c, d, below[Nexts(g, n)[i]]))
                   => Followed(c, d, FlattenSeq(q))
  <2>1. /\ (\A i \in 1 .. Len(q) : Preceded(c, d, q[i])) => Preceded(c, d, FlattenSeq(q))
        /\ (\A i \in 1 .. Len(q) : Followed(c, d, q[i])) => Followed(c, d, FlattenSeq(q))
    BY <1>4, FlattenOrder
  <2> QED BY <1>2, <1>4, <2>1
<1> QED BY <1>5, <1>6, <1>7, <1>8 DEF T, below

\* Where all routes to d lead through c, the walk comes to c ahead of d.
LEMMA WalkPreceded ==
    ASSUME NEW g, WellFormed(g), NEW c \in Places(g), g[c].kind = "buffer",
           NEW d \in Places(g), c # d
    PROVE  \A left \in 0 .. MaxUnwrapDepth + 1 : \A n \in Places(g) :
              ~(RoutesOf(CutAt(g, c))[n][d] > 0) => Preceded(c, d, WalksOf(g)[left][n])
<1> DEFINE far(n) == ~(RoutesOf(CutAt(g, c))[n][d] > 0)
           C == {left \in Nat : left <= MaxUnwrapDepth + 1 =>
                    \A n \in Places(g) : far(n) => Preceded(c, d, WalksOf(g)[left][n])}
<1>1. /\ Downward(CutAt(g, c)) /\ Places(CutAt(g, c)) = Places(g)
      /\ \A h \in Places(g) : h # c => Nexts(CutAt(g, c), h) = Nexts(g, h)
  BY CutParts
<1>2. ~far(d)
  <2>1. RoutesOf(CutAt(g, c))[d][d] = 1
    BY <1>1, DownwardStep
  <2> QED BY <2>1
<1>3. 0 \in C
  <2>1. 0 \in 0 .. MaxUnwrapDepth + 1
    BY DEF MaxUnwrapDepth
  <2>2. \A n \in Places(g) : WalksOf(g)[0][n] = << >>
    BY <2>1, WalksDefined
  <2>3. Preceded(c, d, << >>)
    BY DEF Preceded
  <2> QED BY <2>2, <2>3
<1>4. ASSUME NEW k \in Nat, k \in C PROVE k + 1 \in C
  <2> SUFFICES ASSUME k + 1 <= MaxUnwrapDepth + 1, NEW n \in Places(g), far(n)
               PROVE  Preceded(c, d, WalksOf(g)[k + 1][n])
    BY <1>4
  <2> DEFINE rest == IF g[n].kind = "opaque" THEN << >> ELSE Underneath(g, n, WalksOf(g)[k])
  <2>1. k \in 0 .. MaxUnwrapDepth /\ k + 1 \in 0 .. MaxUnwrapDepth + 1 /\ k + 1 # 0 /\ (k + 1) - 1 = k
    BY DEF MaxUnwrapDepth
  <2>2. WalksOf(g)[k + 1][n] = Itself(g, n) \o rest
    BY <2>1, WalksDefined
  <2>3. Underneath(g, n, WalksOf(g)[k]) \in Seq(BuffersIn(g))
    BY <2>1, WalkUnder
  <2>4. rest \in Seq(BuffersIn(g))
    BY <2>3, EmptySeq
  <2>5. CASE n = c
    <3>1. Itself(g, n) = <<c>> /\ c \in BuffersIn(g)
      BY <2>5 DEF Itself, BuffersIn
    <3>2. <<c>> \in Seq(BuffersIn(g)) /\ Len(<<c>>) = 1 /\ <<c>>[1] = c
      BY <3>1
    <3> DEFINE p == <<c>>
    <3> HIDE DEF p, rest
    <3>3. /\ Len(p) = 1 /\ p \in Seq(BuffersIn(g)) /\ p[1] = c
          /\ DOMAIN (p \o rest) = 1 .. Len(p) + Len(rest) /\ Len(rest) \in Nat
          /\ \A i \in 1 .. Len(p) : (p \o rest)[i] = p[i]
      BY <2>4, <3>2, ConcatPlaces DEF p
    <3>4. (p \o rest)[1] = c /\ 1 \in DOMAIN (p \o rest) /\ DOMAIN (p \o rest) \subseteq Nat \ {0}
      BY <3>3
    <3>5. ASSUME NEW i \in DOMAIN (p \o rest), (p \o rest)[i] = d PROVE 1 < i
      BY <3>4, <3>5
    <3>6. Preceded(c, d, p \o rest)
      BY <3>4, <3>5 DEF Preceded
    <3> QED BY <2>2, <3>1, <3>6 DEF p
  <2>6. CASE n # c
    <3>1. n # d
      BY <1>2
    <3>2. \A i \in DOMAIN Nexts(g, n) : far(Nexts(g, n)[i])
      BY <1>1, <2>6, <3>1, RoutesVia
    <3>3. \A i \in DOMAIN Nexts(g, n) : Preceded(c, d, WalksOf(g)[k][Nexts(g, n)[i]])
      <4>1. \A i \in DOMAIN Nexts(g, n) : Nexts(g, n)[i] \in Places(g)
        BY GraphParts
      <4>2. k <= MaxUnwrapDepth + 1
        BY DEF MaxUnwrapDepth
      <4> QED BY <1>4, <3>2, <4>1, <4>2
    <3>4. Preceded(c, d, Underneath(g, n, WalksOf(g)[k]))
      BY <2>1, <3>3, WalkUnder
    <3>5. Preceded(c, d, rest)
      BY <3>4 DEF Preceded
    <3>6. Preceded(c, d, Itself(g, n)) /\ Itself(g, n) \in Seq(BuffersIn(g))
      <4>1. CASE g[n].kind = "buffer"
        <5>1. Itself(g, n) = <<n>> /\ n \in BuffersIn(g)
          BY <4>1 DEF Itself, BuffersIn
        <5> QED BY <3>1, <5>1 DEF Preceded
      <4>2. CASE g[n].kind # "buffer"
        BY <4>2, EmptySeq DEF Itself, Preceded
      <4> QED BY <4>1, <4>2
    <3> HIDE DEF rest
    <3> QED BY <2>2, <2>4, <3>5, <3>6, ConcatOrder
  <2> QED BY <2>5, <2>6
<1>5. \A left \in Nat : left \in C
  <2> HIDE DEF C
  <2> QED BY <1>3, <1>4, NatSetInduction
<1> QED BY <1>5

\* With levels enough to go, the walk finds every buffer that it can see.
LEMMA WalkFinds ==
    ASSUME NEW g, WellFormed(g)
    PROVE  \A left \in 0 .. MaxUnwrapDepth + 1 : \A n \in Places(g) :
              n <= left /\ (\A h \in Places(g) : RoutesOf(g)[n][h] > 0 => g[h].kind # "opaque")
                => \A t \in BuffersIn(g) : RoutesOf(g)[n][t] > 0 => t \in Range(WalksOf(g)[left][n])
<1> DEFINE clear(n) == \A h \in Places(g) : RoutesOf(g)[n][h] > 0 => g[h].kind # "opaque"
           found(left, n) ==
              \A t \in BuffersIn(g) : RoutesOf(g)[n][t] > 0 => t \in Range(WalksOf(g)[left][n])
           C == {left \in Nat : left <= MaxUnwrapDepth + 1 =>
                    \A n \in Places(g) : n <= left /\ clear(n) => found(left, n)}
<1>0. \A n \in Places(g) : n \in Nat /\ ~(n <= 0) /\ RoutesOf(g)[n][n] = 1 /\ BuffersIn(g) \subseteq Places(g)
  BY GraphParts, RoutesStep DEF Places, BuffersIn
<1>1. 0 \in C
  BY <1>0
<1>2. ASSUME NEW k \in Nat, k \in C PROVE k + 1 \in C
  <2> SUFFICES ASSUME k + 1 <= MaxUnwrapDepth + 1, NEW n \in Places(g), n <= k + 1, clear(n),
                      NEW t \in BuffersIn(g), RoutesOf(g)[n][t] > 0
               PROVE  t \in Range(WalksOf(g)[k + 1][n])
    BY <1>2
  <2>1. k \in 0 .. MaxUnwrapDepth /\ k + 1 \in 0 .. MaxUnwrapDepth + 1 /\ k + 1 # 0 /\ (k + 1) - 1 = k
          /\ k <= MaxUnwrapDepth + 1
    BY DEF MaxUnwrapDepth
  <2>2. g[n].kind # "opaque" /\ t \in Places(g)
    BY <1>0
  <2>3. WalksOf(g)[k + 1][n] = Itself(g, n) \o Underneath(g, n, WalksOf(g)[k])
    BY <2>1, <2>2, WalksDefined
  <2> DEFINE p == Itself(g, n)
             q == Underneath(g, n, WalksOf(g)[k])
  <2>4. q \in Seq(BuffersIn(g))
    BY <2>1, WalkUnder
  <2>5. p \in Seq(BuffersIn(g))
    <3>1. g[n].kind = "buffer" => n \in BuffersIn(g)
      BY DEF BuffersIn
    <3> QED BY <3>1, EmptySeq DEF Itself
  <2>6. \A x : x \in Range(p) \/ x \in Range(q) => x \in Range(p \o q)
    <3> HIDE DEF p, q
    <3>1. /\ Len(p) \in Nat /\ Len(q) \in Nat /\ DOMAIN p = 1 .. Len(p) /\ DOMAIN q = 1 .. Len(q)
          /\ DOMAIN (p \o q) = 1 .. Len(p) + Len(q)
          /\ \A i \in 1 .. Len(p) : (p \o q)[i] = p[i]
          /\ \A i \in 1 .. Len(q) : (p \o q)[Len(p) + i] = q[i]
      BY <2>4, <2>5, ConcatPlaces
    <3>2. /\ \A i \in 1 .. Len(p) : i \in DOMAIN (p \o q)
          /\ \A i \in 1 .. Len(q) : Len(p) + i \in DOMAIN (p \o q)
      BY <3>1
    <3> QED BY <3>1, <3>2 DEF Range
  <2>7. CASE t = n
    <3>1. p = <<t>>
      BY <2>7 DEF Itself, BuffersIn
    <3>2. t \in Range(p)
      BY <3>1 DEF Range
    <3> HIDE DEF p, q
    <3> QED BY <2>3, <2>6, <3>2 DEF p, q
  <2>8. CASE t # n
    <3>1. Downward(g)
      BY DEF WellFormed, Downward, Nexts
    <3>2. PICK i \in DOMAIN Nexts(g, n) : RoutesOf(g)[Nexts(g, n)[i]][t] > 0
      BY <2>2, <2>8, <3>1, RoutesVia
    <3> DEFINE x == Nexts(g, n)[i]
    <3>3. x \in Places(g) /\ x \in 1 .. n - 1 /\ clear(x)
      BY GraphParts, RoutesToNext
    <3>4. x <= k
      <4> HIDE DEF x
      <4> QED BY <1>0, <3>3
    <3>5. t \in Range(WalksOf(g)[k][x])
      BY <1>2, <2>1, <3>2, <3>3, <3>4
    <3>6. t \in Range(q)
      BY <2>1, <3>5, WalkUnder
    <3> HIDE DEF p, q
    <3> QED BY <2>3, <2>6, <3>6 DEF p, q
  <2> QED BY <2>7, <2>8
<1>3. \A left \in Nat : left \in C
  <2> HIDE DEF C
  <2> QED BY <1>1, <1>2, NatSetInduction
<1> QED BY <1>3

\* If it can see d below c, it comes to d, once more at least, behind every c.
LEMMA WalkFollowed ==
    ASSUME NEW g, WellFormed(g), NEW c \in BuffersIn(g), NEW d \in BuffersIn(g), c # d,
           RoutesOf(g)[c][d] > 0,
           \A h \in Places(g) : RoutesOf(g)[c][h] > 0 => g[h].kind # "opaque"
    PROVE  \A left \in 0 .. MaxUnwrapDepth + 1 : \A n \in Places(g) :
              n <= left => Followed(c, d, WalksOf(g)[left][n])
<1> DEFINE C == {left \in Nat : left <= MaxUnwrapDepth + 1 =>
                    \A n \in Places(g) : n <= left => Followed(c, d, WalksOf(g)[left][n])}
<1>0. /\ \A n \in Places(g) : n \in Nat /\ ~(n <= 0)
      /\ c \in Places(g) /\ d \in Places(g) /\ g[c].kind = "buffer"
  BY GraphParts DEF Places, BuffersIn
<1>1. 0 \in C
  BY <1>0
<1>2. ASSUME NEW k \in Nat, k \in C PROVE k + 1 \in C
  <2> SUFFICES ASSUME k + 1 <= MaxUnwrapDepth + 1, NEW n \in Places(g), n <= k + 1
               PROVE  Followed(c, d, WalksOf(g)[k + 1][n])
    BY <1>2
  <2> DEFINE below == WalksOf(g)[k]
             rest == IF g[n].kind = "opaque" THEN << >> ELSE Underneath(g, n, below)
  <2>1. k \in 0 .. MaxUnwrapDepth /\ k + 1 \in 0 .. MaxUnwrapDepth + 1 /\ k + 1 # 0 /\ (k + 1) - 1 = k
          /\ k <= MaxUnwrapDepth + 1
    BY DEF MaxUnwrapDepth
  <2>2. WalksOf(g)[k + 1][n] = Itself(g, n) \o rest
    BY <2>1, WalksDefined
  <2>3. Underneath(g, n, below) \in Seq(BuffersIn(g))
    BY <2>1, WalkUnder
  <2>4. rest \in Seq(BuffersIn(g))
    BY <2>3, EmptySeq
  <2>5. \A i \in DOMAIN Nexts(g, n) : Nexts(g, n)[i] \in Places(g) /\ Nexts(g, n)[i] <= k
    <3>1. \A x \in 1 .. n - 1 : x <= k
      BY <1>0
    <3> QED BY <3>1, GraphParts
  <2>6. \A i \in DOMAIN Nexts(g, n) : Followed(c, d, below[Nexts(g, n)[i]])
    BY <1>2, <2>1, <2>5
  <2>7. Followed(c, d, Underneath(g, n, below))
    BY <2>1, <2>6, WalkUnder
  <2>8. Followed(c, d, rest)
    BY <2>7 DEF Followed
  <2>9. CASE n = c
    <3>1. Itself(g, n) = <<c>> /\ rest = Underneath(g, n, below)
      BY <1>0, <2>9 DEF Itself
    <3>2. <<c>> \in Seq(BuffersIn(g)) /\ Len(<<c>>) = 1 /\ <<c>>[1] = c
      OBVIOUS
    <3>3. Downward(g)
      BY DEF WellFormed, Downward, Nexts
    <3>4. PICK i \in DOMAIN Nexts(g, c) : RoutesOf(g)[Nexts(g, c)[i]][d] > 0
      BY <1>0, <3>3, RoutesVia
    <3>5. \A h \in Places(g) : RoutesOf(g)[Nexts(g, c)[i]][h] > 0 => g[h].kind # "opaque"
      BY <1>0, RoutesToNext
    <3>6. d \in Range(below[Nexts(g, c)[i]])
      <4>1. k \in 0 .. MaxUnwrapDepth + 1 /\ Nexts(g, c)[i] \in Places(g) /\ Nexts(g, c)[i] <= k
        BY <2>1, <2>5, <2>9
      <4> QED BY <3>4, <3>5, <4>1, WalkFinds
    <3>7. d \in Range(rest)
      BY <2>1, <2>9, <3>1, <3>6, WalkUnder
    <3> DEFINE p == <<c>>
    <3> HIDE DEF p, rest
    <3>8. p \in Seq(BuffersIn(g)) /\ Len(p) = 1 /\ p[1] = c
      BY <3>2 DEF p
    <3>9. /\ Len(p) = 1 /\ DOMAIN p = 1 .. Len(p) /\ p[1] = c
          /\ Len(rest) \in Nat /\ DOMAIN rest = 1 .. Len(rest)
          /\ DOMAIN (p \o rest) = 1 .. Len(p) + Len(rest)
          /\ \A j \in 1 .. Len(rest) : (p \o rest)[Len(p) + j] = rest[j]
          /\ \A j \in DOMAIN (p \o rest) : j # 1 => \E m \in 1 .. Len(rest) : j = Len(p) + m
      <4>1. /\ DOMAIN p = 1 .. Len(p) /\ Len(rest) \in Nat /\ DOMAIN rest = 1 .. Len(rest)
            /\ DOMAIN (p \o rest) = 1 .. Len(p) + Len(rest)
            /\ \A j \in 1 .. Len(rest) : (p \o rest)[Len(p) + j] = rest[j]
        <5>1. PICK S : S = BuffersIn(g)
          OBVIOUS
        <5>2. p \in Seq(S) /\ rest \in Seq(S)
          BY <2>4, <3>8, <5>1
        <5> QED BY <5>2, ConcatPlaces
      <4>2. ASSUME NEW j \in 1 .. 1 + Len(rest), j # 1 PROVE \E m \in 1 .. Len(rest) : j = 1 + m
        <5>1. j - 1 \in 1 .. Len(rest) /\ j = 1 + (j - 1)
          BY <4>1, <4>2
        <5> QED BY <5>1
      <4> QED BY <3>8, <4>1, <4>2
    <3>10. PICK m \in 1 .. Len(rest) : rest[m] = d
      BY <3>7, <3>9 DEF Range
    <3>11. (p \o rest)[1 + m] = d /\ 1 + m \in DOMAIN (p \o rest) /\ 1 < 1 + m
      BY <3>9, <3>10
    <3>12. ASSUME NEW j \in DOMAIN (p \o rest), (p \o rest)[j] = c
           PROVE  \E i2 \in DOMAIN (p \o rest) : j < i2 /\ (p \o rest)[i2] = d
      <4>1. CASE j = 1
        BY <3>11, <4>1
      <4>2. CASE j # 1
        <5>1. PICK o \in 1 .. Len(rest) : j = 1 + o
          BY <3>9, <3>12, <4>2
        <5>2. PICK x \in 1 .. Len(rest) : o < x /\ rest[x] = d
          BY <2>8, <3>9, <3>12, <5>1 DEF Followed
        <5>3. (p \o rest)[1 + x] = d /\ 1 + x \in DOMAIN (p \o rest) /\ j < 1 + x
          BY <3>9, <5>1, <5>2
        <5> QED BY <5>3
      <4> QED BY <4>1, <4>2
    <3> QED BY <2>2, <3>1, <3>12 DEF p, Followed
  <2>10. CASE n # c
    <3>1. Followed(c, d, Itself(g, n)) /\ Itself(g, n) \in Seq(BuffersIn(g))
      <4>1. CASE g[n].kind = "buffer"
        <5>1. Itself(g, n) = <<n>> /\ n \in BuffersIn(g)
          BY <4>1 DEF Itself, BuffersIn
        <5> QED BY <2>10, <5>1 DEF Followed
      <4>2. CASE g[n].kind # "buffer"
        BY <4>2, EmptySeq DEF Itself, Followed
      <4> QED BY <4>1, <4>2
    <3> HIDE DEF rest
    <3> QED BY <2>2, <2>4, <2>8, <3>1, ConcatOrder
  <2> QED BY <2>9, <2>10
<1>3. \A left \in Nat : left \in C
  <2> HIDE DEF C
  <2> QED BY <1>1, <1>2, NatSetInduction
<1> QED BY <1>3

-----------------------------------------------------------------------------
(* The plan of the setup at hand.                                          *)

Handlers == DOMAIN Plan.graph

\* What New has built is what the plan says.
LEMMA PlanParts ==
    ASSUME setup \in Setups
    PROVE  /\ Plan.graph = Graph(setup) /\ Plan.entry = Entry(setup)
           /\ Plan.flushers = Collected(setup) /\ WellFormed(Plan.graph)
           /\ Plan.ends = EndsOf(Plan.graph) /\ Plan.routes = RoutesOf(Plan.graph)
           /\ Handlers = Places(Plan.graph)
<1>1. Plan = [graph |-> Graph(setup), entry |-> Entry(setup), flushers |-> Collected(setup),
              ends |-> EndsOf(Graph(setup)), routes |-> RoutesOf(Graph(setup))]
  BY DEF Plan, Plans
<1>2. WellFormed(Graph(setup))
  BY GraphBuilt
<1>3. DOMAIN Graph(setup) = Places(Graph(setup))
  BY <1>2, GraphParts
<1> QED BY <1>1, <1>2, <1>3 DEF Handlers

\* Handlers are numbers; the ends of each are buffers and sinks, at least one.
LEMMA PlanTypes ==
    ASSUME setup \in Setups
    PROVE  /\ IsFiniteSet(Handlers) /\ Handlers \subseteq Nat /\ Plan.entry \in Handlers
           /\ Buffers \subseteq Handlers /\ Sinks \subseteq Handlers /\ Buffers \cap Sinks = {}
           /\ IsFiniteSet(Buffers) /\ IsFiniteSet(Sinks)
           /\ \A h \in Handlers : Ends(h) \in Seq(Buffers \cup Sinks) /\ Ends(h) # << >>
           /\ \A h \in Handlers, t \in Handlers : Routes(h, t) \in Nat
           /\ \A b \in Buffers : Below(b) \in Handlers /\ Below(b) < b
<1> DEFINE g == Plan.graph
<1>1. /\ WellFormed(g) /\ Handlers = Places(g) /\ Plan.ends = EndsOf(g)
      /\ Plan.routes = RoutesOf(g) /\ Len(g) \in Nat
  BY PlanParts, GraphParts
<1>2. IsFiniteSet(Handlers) /\ Handlers \subseteq Nat
  <2>1. IsFiniteSet(1 .. Len(g))
    BY <1>1, FS_Interval
  <2> QED BY <1>1, <2>1 DEF Places
<1>3. Plan.entry \in Handlers
  BY <1>1, PlanParts, GraphBuilt
<1>4. Buffers \subseteq Handlers /\ Sinks \subseteq Handlers /\ Buffers \cap Sinks = {}
  BY DEF Buffers, Sinks, Of, Handlers
<1>5. IsFiniteSet(Buffers) /\ IsFiniteSet(Sinks)
  BY <1>2, <1>4, FS_Subset
<1>6. \A h \in Handlers : Ends(h) \in Seq(Buffers \cup Sinks) /\ Ends(h) # << >>
  <2>1. {e \in Places(g) : g[e].kind \in {"buffer", "sink"}} = Buffers \cup Sinks
    BY <1>1 DEF Buffers, Sinks, Of, Handlers
  <2> QED BY <1>1, <2>1, EndsType DEF Ends
<1>7. \A h \in Handlers, t \in Handlers : Routes(h, t) \in Nat
  <2>1. Plan.routes \in [Places(g) -> [Places(g) -> Nat]]
    BY <1>1, RoutesDefined
  <2> QED BY <1>1, <2>1 DEF Routes
<1>8. ASSUME NEW b \in Buffers PROVE Below(b) \in Handlers /\ Below(b) < b
  <2>1. b \in Places(g) /\ g[b].kind = "buffer" /\ b \in Nat
    BY <1>1, <1>2, <1>4 DEF Buffers, Of
  <2>2. Len(g[b].next) = 1
    BY <1>1, <2>1, PlanParts DEF WellFormed, Handlers
  <2>3. 1 \in DOMAIN Nexts(g, b)
    BY <1>1, <2>1, <2>2, GraphParts DEF Nexts
  <2>4. Nexts(g, b)[1] \in 1 .. b - 1 /\ Nexts(g, b)[1] \in Places(g)
    BY <1>1, <2>1, <2>3, GraphParts
  <2> QED BY <1>1, <2>1, <2>4 DEF Below, Nexts
<1> QED BY <1>2, <1>3, <1>4, <1>5, <1>6, <1>7, <1>8

\* What the logger collects is a sequence of buffers.
LEMMA FlushersType ==
    ASSUME setup \in Setups
    PROVE  /\ Flushers \in Seq(Buffers) /\ Len(Flushers) \in Nat /\ DOMAIN Flushers = 1 .. Len(Flushers)
           /\ \A i \in 1 .. Len(Flushers) : Flushers[i] \in Buffers
<1> DEFINE g == Graph(setup)
           T == BuffersIn(g)
           found == CollectFlushers(g, Len(setup.given))
           own == IF setup.use # "override" /\ setup.own THEN <<Entry(setup)>> ELSE << >>
<1>1. Flushers = found \o own /\ WellFormed(g) /\ T = Buffers
  <2>1. Flushers = Collected(setup) /\ Plan.graph = g /\ WellFormed(g) /\ DOMAIN g = Places(g)
    BY PlanParts DEF Flushers, Handlers
  <2> QED BY <2>1 DEF Collected, BuffersIn, Buffers, Of
<1>2. Len(setup.given) \in Places(g)
  <2>1. Len(setup.given) \in Places(setup.given)
    BY SetupParts DEF Places
  <2> QED BY <2>1, GraphBuilt
<1>3. found \in Seq(T)
  <2>1. MaxUnwrapDepth + 1 \in 0 .. MaxUnwrapDepth + 1
    BY DEF MaxUnwrapDepth
  <2>2. found = WalksOf(g)[MaxUnwrapDepth + 1][Len(setup.given)]
    BY <1>1, WalksDefined
  <2> QED BY <1>1, <1>2, <2>1, <2>2, WalksDefined
<1>4. own \in Seq(T)
  <2>1. setup.use # "override" /\ setup.own => Entry(setup) \in T
    <3>1. SUFFICES ASSUME setup.use # "override", setup.own PROVE Entry(setup) \in T
      OBVIOUS
    <3>2. g[Entry(setup)] = Handler("buffer", <<Entry(setup) - 1>>) /\ Entry(setup) \in Places(g)
      BY <3>1, GraphBuilt
    <3>3. g[Entry(setup)].kind = "buffer"
      BY <3>2 DEF Handler
    <3> QED BY <3>2, <3>3 DEF BuffersIn
  <2> HIDE DEF T
  <2> QED BY <2>1, EmptySeq
<1> HIDE DEF found, own, T
<1>5. Flushers \in Seq(Buffers)
  BY <1>1, <1>3, <1>4, ConcatProperties
<1> QED BY <1>5, LenProperties, ElementOfSeq

\* The setup does not change, and so nothing does that is made of it.
LEMMA PlanKept ==
    ASSUME UNCHANGED setup
    PROVE  /\ UNCHANGED <<Plan, Handlers, Buffers, Sinks, Flushers, Barriers>>
           /\ \A h : Ends(h)' = Ends(h) /\ Below(h)' = Below(h)
           /\ \A h, t : Routes(h, t)' = Routes(h, t)
BY DEF Plan, Handlers, Buffers, Sinks, Of, Flushers, Barriers, Ends, Below, Routes

-----------------------------------------------------------------------------
(* Types. A visitor on its way is at one of the buffers, and only who has a  *)
(* record has ends to go.                                                    *)

CallTypes ==
    /\ setup \in Setups
    /\ pc \in [Records \cup Waiters \cup {Drainer} ->
                  {"idle", "off", "emit", "enqueue", "close", "await", "wait", "done"}]
    /\ idx \in [Visitors -> 1 .. Len(Flushers) + 1]
    /\ first \in [Visitors -> Errors]
    /\ result \in [Waiters -> Errors \cup {None}]
    /\ expired \subseteq setup.expiring
    /\ stopping \in BOOLEAN /\ groupDone \in BOOLEAN /\ groupErr \in Errors
    /\ raised \in BOOLEAN /\ flips \in 0..setup.flips /\ rejected \in Nat

BufferTypes ==
    /\ open \in [Buffers -> BOOLEAN] /\ stopped \in [Buffers -> BOOLEAN]
    /\ queue \in [Buffers -> Seq(Records \cup Barriers)]
    /\ \A b \in Buffers : Len(queue[b]) <= Size
    /\ closed \in [Buffers -> SUBSET Barriers]
    /\ firstErr \in [Buffers -> Errors]
    /\ dropped \in [Buffers -> Nat] /\ refused \in [Buffers -> Nat]

Hand == [item : Records \cup Barriers \cup {None}, todo : Seq(Buffers \cup Sinks), err : Errors]
HandTypes == hand \in [Records \cup Buffers -> Hand]

RecordTypes ==
    /\ delivered \in [Sinks -> [Records -> Nat]]
    /\ accepted \in [Buffers -> [Records -> Nat]] /\ overflowed \in [Buffers -> [Records -> Nat]]
    /\ silenced \in [Records -> Nat]

HistoryTypes == before \in [Flushes -> [Buffers -> [Records -> Nat]]]

PlaceInv ==
    /\ \A v \in Visitors : pc[v] \in {"enqueue", "await"} => idx[v] <= Len(Flushers)
    /\ \A v \in Visitors : pc[v] = "idle" => idx[v] = 1

Start(x) == IF x \in Records THEN Plan.entry ELSE Below(x)

\* Log call r has record r from its gate until it ends.
EmitInv == \A r \in Records : hand[r].item \in {r, None} /\ (pc[r] = "emit" <=> hand[r].item = r)

\* Who has a record has ends to go, of the handler that it was given to.
OnItsWay(x, h) ==
    /\ h.item \notin Records => h.todo = << >> /\ h.err = "nil"
    /\ h.item \in Records => h.todo # << >> /\ Range(h.todo) \subseteq Range(Ends(Start(x)))
TodoInv == \A x \in Records \cup Buffers : OnItsWay(x, hand[x])

TypeInv ==
    /\ CallTypes /\ BufferTypes /\ HandTypes /\ RecordTypes /\ HistoryTypes
    /\ PlaceInv /\ EmitInv /\ TodoInv

\* The parts of the type invariant are all of it.
LEMMA TypeParts ==
    TypeOK <=> CallTypes /\ BufferTypes /\ HandTypes /\ RecordTypes /\ HistoryTypes
BY DEF TypeOK, CallTypes, BufferTypes, HandTypes, RecordTypes, HistoryTypes, Hand

\* Log calls, waiters, the drainer and the buffers are not each other.
LEMMA Distinct ==
    ASSUME setup \in Setups
    PROVE  /\ Records \cap Waiters = {} /\ Flushes \cap Shutdowns = {}
           /\ Drainer \notin Records \cup Waiters /\ None \notin Records \cup Waiters \cup {Drainer}
           /\ Records \cap Buffers = {} /\ Records \cap Barriers = {} /\ None \notin Barriers
           /\ IsFiniteSet(Records) /\ Size \in Nat \ {0}
           /\ setup.expiring \subseteq Waiters /\ setup.flips \in Nat
<1>1. Records \cap Buffers = {}
  BY PlanTypes, ConstantsAssumption
<1>2. Records \cap Barriers = {} /\ None \notin Barriers
  <2>1. Barriers \subseteq Flushes \X Nat
    BY FlushersType DEF Barriers
  <2> QED BY <2>1, ConstantsAssumption
<1> QED BY <1>1, <1>2, ConstantsAssumption DEF Waiters

\* What a step leaves alone keeps its type.
LEMMA TypesKept ==
    ASSUME UNCHANGED setup
    PROVE  /\ CallTypes /\ UNCHANGED <<callVars, expired, groupVars, raised, flips, rejected>>
                => CallTypes'
           /\ BufferTypes /\ UNCHANGED bufferVars => BufferTypes'
           /\ HandTypes /\ UNCHANGED hand => HandTypes'
           /\ RecordTypes /\ UNCHANGED recordVars => RecordTypes'
           /\ HistoryTypes /\ UNCHANGED before => HistoryTypes'
           /\ PlaceInv /\ UNCHANGED <<pc, idx>> => PlaceInv'
           /\ EmitInv /\ UNCHANGED <<pc, hand>> => EmitInv'
           /\ TodoInv /\ UNCHANGED hand => TodoInv'
<1>1. /\ UNCHANGED <<Plan, Buffers, Sinks, Flushers, Barriers, Plan.entry>>
      /\ \A h : Ends(h)' = Ends(h) /\ Below(h)' = Below(h)
  BY PlanKept
<1>2. CallTypes /\ UNCHANGED <<callVars, expired, groupVars, raised, flips, rejected>> => CallTypes'
  BY <1>1 DEF CallTypes, callVars, groupVars
<1>3. BufferTypes /\ UNCHANGED bufferVars => BufferTypes'
  BY <1>1 DEF BufferTypes, bufferVars
<1>4. HandTypes /\ UNCHANGED hand => HandTypes'
  BY <1>1 DEF HandTypes, Hand
<1>5. RecordTypes /\ UNCHANGED recordVars => RecordTypes'
  BY <1>1 DEF RecordTypes, recordVars
<1>6. HistoryTypes /\ UNCHANGED before => HistoryTypes'
  BY <1>1 DEF HistoryTypes
<1>7. PlaceInv /\ UNCHANGED <<pc, idx>> => PlaceInv'
  BY <1>1 DEF PlaceInv
<1>8. EmitInv /\ UNCHANGED <<pc, hand>> => EmitInv'
  BY DEF EmitInv
<1>9. TodoInv /\ UNCHANGED hand => TodoInv'
  BY <1>1 DEF TodoInv, OnItsWay, Start
<1> QED BY <1>2, <1>3, <1>4, <1>5, <1>6, <1>7, <1>8, <1>9

\* What the types say of a hand.
LEMMA HandParts ==
    ASSUME HandTypes, NEW x \in Records \cup Buffers
    PROVE  /\ hand[x].item \in Records \cup Barriers \cup {None}
           /\ hand[x].todo \in Seq(Buffers \cup Sinks) /\ hand[x].err \in Errors
           /\ hand[x] \in Hand
<1>1. hand[x] \in Hand
  BY DEF HandTypes
<1> QED BY <1>1 DEF Hand

\* Where the record in a hand goes from.
LEMMA StartType ==
    ASSUME setup \in Setups, NEW x \in Records \cup Buffers
    PROVE  /\ Start(x) \in Handlers /\ (x \in Records => Start(x) = Plan.entry)
           /\ (x \in Buffers => Start(x) = Below(x))
BY PlanTypes, Distinct DEF Start

\* A record that is put into a hand goes to the ends of a handler; what else there
\* is has none.
LEMMA InHandType ==
    ASSUME setup \in Setups, NEW start \in Handlers,
           NEW item \in Records \cup Barriers \cup {None}
    PROVE  /\ InHand(item, start) \in Hand /\ InHand(item, start).item = item
           /\ InHand(item, start).err = "nil"
           /\ item \in Records =>
                 /\ InHand(item, start).todo = Ends(start) /\ Ends(start) # << >>
                 /\ Range(InHand(item, start).todo) \subseteq Range(Ends(start))
           /\ item \notin Records => InHand(item, start).todo = << >>
           /\ Nothing \in Hand /\ Nothing.item = None /\ Nothing.todo = << >> /\ Nothing.err = "nil"
<1>1. Ends(start) \in Seq(Buffers \cup Sinks) /\ Ends(start) # << >>
  BY PlanTypes
<1>2. << >> \in Seq(Buffers \cup Sinks)
  BY EmptySeq
<1>3. "nil" \in Errors
  BY DEF Errors
<1> QED BY <1>1, <1>2, <1>3 DEF InHand, Hand, Nothing

\* The end that is next in turn, and those after it.
LEMMA NextEnd ==
    ASSUME NEW S, NEW p \in Seq(S), p # << >>
    PROVE  /\ Head(p) \in S /\ Tail(p) \in Seq(S) /\ Head(p) \in Range(p)
           /\ Range(Tail(p)) \subseteq Range(p)
           /\ Len(p) = 1 => Tail(p) = << >> 
           /\ Len(p) # 1 => Tail(p) # << >>
<1>1. Head(p) \in S /\ Tail(p) \in Seq(S) /\ Head(p) = p[1] /\ Len(p) \in Nat /\ Len(p) > 0
  OBVIOUS
<1>2. Len(Tail(p)) = Len(p) - 1 /\ DOMAIN p = 1 .. Len(p) /\ DOMAIN Tail(p) = 1 .. Len(p) - 1
  BY HeadTailProperties, LenProperties
<1>3. \A i \in 1 .. Len(p) - 1 : Tail(p)[i] = p[i + 1]
  BY HeadTailProperties
<1>4. Head(p) \in Range(p)
  BY <1>1, <1>2 DEF Range
<1>5. Range(Tail(p)) \subseteq Range(p)
  <2>1. ASSUME NEW i \in 1 .. Len(p) - 1 PROVE Tail(p)[i] \in Range(p)
    <3>1. i + 1 \in DOMAIN p /\ Tail(p)[i] = p[i + 1]
      BY <1>1, <1>2, <1>3
    <3> QED BY <3>1 DEF Range
  <2> QED BY <1>2, <2>1 DEF Range
<1>6. (Len(p) = 1 => Tail(p) = << >>) /\ (Len(p) # 1 => Tail(p) # << >>)
  <2>1. Len(Tail(p)) = 0 <=> Tail(p) = << >>
    BY <1>1, EmptySeq
  <2> QED BY <1>1, <1>2, <2>1
<1> QED BY <1>1, <1>4, <1>5, <1>6

\* An end takes a record, or says why not.
LEMMA AnswerType ==
    ASSUME BufferTypes, setup \in Setups, NEW e \in Buffers \cup Sinks, NEW err \in Errors
    PROVE  Answer(e) \in {"nil", "full", "shutdown"} /\ Join(err, Answer(e)) \in Errors
           /\ Answer(e) \in Errors
BY DEF Answer, Join, Errors

\* An offer keeps the types, and no queue becomes longer than it may.
LEMMA OfferTypes ==
    ASSUME BufferTypes, RecordTypes, setup \in Setups, UNCHANGED <<setup, open, stopped, closed>>,
           NEW r \in Records, NEW e \in Buffers \cup Sinks, Offer(r, e)
    PROVE  /\ queue' \in [Buffers -> Seq(Records \cup Barriers)]
           /\ \A b \in Buffers : Len(queue'[b]) <= Size
           /\ dropped' \in [Buffers -> Nat] /\ refused' \in [Buffers -> Nat]
           /\ delivered' \in [Sinks -> [Records -> Nat]]
<1> DEFINE one(answer) == IF e \in Buffers /\ Answer(e) = answer THEN 1 ELSE 0
<1>1. /\ queue' = IF one("nil") = 1 THEN [queue EXCEPT ![e] = Append(@, r)] ELSE queue
      /\ dropped' = [b \in Buffers |-> dropped[b] + IF b = e THEN one("full") ELSE 0]
      /\ refused' = [b \in Buffers |-> refused[b] + IF b = e THEN one("shutdown") ELSE 0]
      /\ delivered' = IF e \in Sinks THEN [delivered EXCEPT ![e][r] = @ + 1] ELSE delivered
  BY DEF Offer
<1>2. \A answer : one(answer) \in Nat
  OBVIOUS
<1>3. one("nil") = 1 => e \in Buffers /\ Len(queue[e]) < Size
  <2>1. Buffers \cap Sinks = {} /\ Size \in Nat
    BY PlanTypes, Distinct
  <2>2. e \in Buffers => queue[e] \in Seq(Records \cup Barriers) /\ Len(queue[e]) \in Nat
    BY DEF BufferTypes
  <2> QED BY <2>1, <2>2 DEF Answer
<1>4. dropped' \in [Buffers -> Nat] /\ refused' \in [Buffers -> Nat]
  <2> HIDE DEF one
  <2> QED BY <1>1, <1>2 DEF BufferTypes
<1>5. delivered' \in [Sinks -> [Records -> Nat]]
  BY <1>1 DEF RecordTypes
<1>6. queue' \in [Buffers -> Seq(Records \cup Barriers)] /\ \A b \in Buffers : Len(queue'[b]) <= Size
  <2>1. CASE one("nil") = 1
    <3>1. queue' = [queue EXCEPT ![e] = Append(@, r)] /\ e \in Buffers /\ Len(queue[e]) < Size
      BY <1>1, <1>3, <2>1
    <3>2. queue[e] \in Seq(Records \cup Barriers) /\ Size \in Nat
      BY <3>1, Distinct DEF BufferTypes
    <3>3. Append(queue[e], r) \in Seq(Records \cup Barriers) /\ Len(Append(queue[e], r)) <= Size
      BY <3>1, <3>2
    <3> QED BY <3>1, <3>3 DEF BufferTypes
  <2>2. CASE one("nil") # 1
    BY <1>1, <2>2 DEF BufferTypes
  <2> QED BY <2>1, <2>2
<1> QED BY <1>4, <1>5, <1>6

\* A hand that changes is as it should be if what comes into it is.
LEMMA HandChanged ==
    ASSUME setup \in Setups, HandTypes, TodoInv, UNCHANGED setup,
           NEW x \in Records \cup Buffers, NEW h \in Hand, OnItsWay(x, h),
           hand' = [hand EXCEPT ![x] = h]
    PROVE  /\ HandTypes' /\ TodoInv' /\ hand'[x] = h
           /\ \A y \in Records \cup Buffers : y # x => hand'[y] = hand[y]
<1>1. /\ UNCHANGED <<Plan, Buffers, Sinks, Flushers, Barriers, Plan.entry>>
      /\ \A y : Ends(y)' = Ends(y) /\ Below(y)' = Below(y)
  BY PlanKept
<1>2. \A y \in Records \cup Buffers : hand'[y] = IF y = x THEN h ELSE hand[y]
  BY DEF HandTypes
<1>3. HandTypes'
  <2>1. hand' \in [Records \cup Buffers -> Hand]
    BY DEF HandTypes
  <2> QED BY <1>1, <2>1 DEF HandTypes, Hand
<1>4. TodoInv'
  <2>1. \A y \in Records \cup Buffers : OnItsWay(y, hand'[y])
    BY <1>2 DEF TodoInv
  <2> QED BY <1>1, <2>1 DEF TodoInv, OnItsWay, Start
<1> QED BY <1>2, <1>3, <1>4

\* Handing a record on keeps the types; the hand has it until its last end.
LEMMA HandOnTypes ==
    ASSUME setup \in Setups, BufferTypes, RecordTypes, HandTypes, TodoInv,
           UNCHANGED <<setup, open, stopped, closed>>,
           NEW x \in Records \cup Buffers, HandOn(x, Start(x))
    PROVE  /\ hand[x].item \in Records /\ Head(hand[x].todo) \in Buffers \cup Sinks
           /\ Head(hand[x].todo) \in Range(Ends(Start(x)))
           /\ Offer(hand[x].item, Head(hand[x].todo)) /\ UNCHANGED silenced
           /\ queue' \in [Buffers -> Seq(Records \cup Barriers)]
           /\ \A b \in Buffers : Len(queue'[b]) <= Size
           /\ dropped' \in [Buffers -> Nat] /\ refused' \in [Buffers -> Nat]
           /\ delivered' \in [Sinks -> [Records -> Nat]]
           /\ HandTypes' /\ TodoInv'
           /\ \A y \in Records \cup Buffers : y # x => hand'[y] = hand[y]
           /\ hand'[x].todo = Tail(hand[x].todo)
           /\ \/ hand'[x] = Nothing
              \/ hand'[x].item = hand[x].item /\ hand'[x].todo # << >>
<1> DEFINE h == hand[x]
           e == Head(h.todo)
           k == IF Len(h.todo) = 1 THEN Nothing
                ELSE [h EXCEPT !.todo = Tail(@), !.err = Join(@, Answer(e))]
<1>1. h.item \in Records /\ Offer(h.item, e) /\ hand' = [hand EXCEPT ![x] = k] /\ UNCHANGED silenced
  BY DEF HandOn
<1>2. h \in Hand /\ h.todo \in Seq(Buffers \cup Sinks) /\ h.err \in Errors
  BY HandParts
<1>3. h.todo # << >> /\ Range(h.todo) \subseteq Range(Ends(Start(x)))
  BY <1>1 DEF TodoInv, OnItsWay
<1>4. /\ e \in Buffers \cup Sinks /\ Tail(h.todo) \in Seq(Buffers \cup Sinks)
      /\ e \in Range(h.todo) /\ Range(Tail(h.todo)) \subseteq Range(h.todo)
      /\ Len(h.todo) = 1 => Tail(h.todo) = << >>
      /\ Len(h.todo) # 1 => Tail(h.todo) # << >>
  BY <1>2, <1>3, NextEnd
<1>5. Join(h.err, Answer(e)) \in Errors
  BY <1>2, <1>4, AnswerType
<1>6. Nothing \in Hand /\ OnItsWay(x, Nothing) /\ Nothing.todo = << >>
  <2>1. None \notin Records
    BY Distinct
  <2> QED BY <2>1, EmptySeq DEF Nothing, Hand, OnItsWay, Errors
<1>7. k \in Hand /\ OnItsWay(x, k) /\ k.todo = Tail(h.todo)
        /\ (k = Nothing \/ (k.item = h.item /\ k.todo # << >>))
  <2>1. CASE Len(h.todo) = 1
    <3>1. k = Nothing
      BY <2>1
    <3> QED BY <1>4, <1>6, <2>1, <3>1
  <2>2. CASE Len(h.todo) # 1
    <3>1. k = [h EXCEPT !.todo = Tail(@), !.err = Join(@, Answer(e))]
      BY <2>2
    <3>2. k \in Hand /\ k.item = h.item /\ k.todo = Tail(h.todo)
      BY <1>2, <1>4, <1>5, <3>1 DEF Hand
    <3> QED BY <1>1, <1>3, <1>4, <2>2, <3>2 DEF OnItsWay
  <2> QED BY <2>1, <2>2
<1> HIDE DEF k
<1>8. /\ HandTypes' /\ TodoInv' /\ hand'[x] = k
      /\ \A y \in Records \cup Buffers : y # x => hand'[y] = hand[y]
  BY <1>1, <1>7, HandChanged
<1>9. /\ queue' \in [Buffers -> Seq(Records \cup Barriers)]
      /\ \A b \in Buffers : Len(queue'[b]) <= Size
      /\ dropped' \in [Buffers -> Nat] /\ refused' \in [Buffers -> Nat]
      /\ delivered' \in [Sinks -> [Records -> Nat]]
  BY <1>1, <1>4, OfferTypes
<1> QED BY <1>1, <1>3, <1>4, <1>7, <1>8, <1>9

\* The types after a step, of what the setup makes before it.
LEMMA TypesAfter ==
    ASSUME UNCHANGED setup
    PROVE  /\ CallTypes' <=>
                 /\ setup \in Setups
                 /\ pc' \in [Records \cup Waiters \cup {Drainer} ->
                        {"idle", "off", "emit", "enqueue", "close", "await", "wait", "done"}]
                 /\ idx' \in [Visitors -> 1 .. Len(Flushers) + 1]
                 /\ first' \in [Visitors -> Errors]
                 /\ result' \in [Waiters -> Errors \cup {None}]
                 /\ expired' \subseteq setup.expiring
                 /\ stopping' \in BOOLEAN /\ groupDone' \in BOOLEAN /\ groupErr' \in Errors
                 /\ raised' \in BOOLEAN /\ flips' \in 0..setup.flips /\ rejected' \in Nat
           /\ BufferTypes' <=>
                 /\ open' \in [Buffers -> BOOLEAN] /\ stopped' \in [Buffers -> BOOLEAN]
                 /\ queue' \in [Buffers -> Seq(Records \cup Barriers)]
                 /\ \A b \in Buffers : Len(queue'[b]) <= Size
                 /\ closed' \in [Buffers -> SUBSET Barriers]
                 /\ firstErr' \in [Buffers -> Errors]
                 /\ dropped' \in [Buffers -> Nat] /\ refused' \in [Buffers -> Nat]
           /\ RecordTypes' <=>
                 /\ delivered' \in [Sinks -> [Records -> Nat]]
                 /\ accepted' \in [Buffers -> [Records -> Nat]]
                 /\ overflowed' \in [Buffers -> [Records -> Nat]]
                 /\ silenced' \in [Records -> Nat]
           /\ HistoryTypes' <=> before' \in [Flushes -> [Buffers -> [Records -> Nat]]]
           /\ PlaceInv' <=>
                 /\ \A v \in Visitors : pc'[v] \in {"enqueue", "await"} => idx'[v] <= Len(Flushers)
                 /\ \A v \in Visitors : pc'[v] = "idle" => idx'[v] = 1
<1>1. UNCHANGED <<Plan, Buffers, Sinks, Flushers, Barriers>>
  BY PlanKept
<1> QED BY <1>1 DEF CallTypes, BufferTypes, RecordTypes, HistoryTypes, PlaceInv

\* Silencing a record keeps the types.
LEMMA SilenceTypes ==
    ASSUME setup \in Setups, RecordTypes, HandTypes, TodoInv, UNCHANGED setup,
           NEW x \in Records \cup Buffers, Silence(x, Start(x))
    PROVE  /\ hand[x].item \in Records /\ hand'[x] = Nothing
           /\ UNCHANGED <<queue, dropped, refused, delivered>>
           /\ silenced' = [silenced EXCEPT ![hand[x].item] = @ + 1]
           /\ silenced' \in [Records -> Nat] /\ HandTypes' /\ TodoInv'
           /\ \A y \in Records \cup Buffers : y # x => hand'[y] = hand[y]
           /\ hand[x].todo = Ends(Start(x)) /\ Plan.graph[Start(x)].kind = "level"
<1>1. /\ hand[x].item \in Records /\ hand' = [hand EXCEPT ![x] = Nothing]
      /\ UNCHANGED <<queue, dropped, refused, delivered>>
      /\ silenced' = [silenced EXCEPT ![hand[x].item] = @ + 1]
      /\ hand[x].todo = Ends(Start(x)) /\ Plan.graph[Start(x)].kind = "level"
  BY DEF Silence, Stops
<1>2. Nothing \in Hand /\ OnItsWay(x, Nothing)
  <2>1. None \notin Records
    BY Distinct
  <2> QED BY <2>1, EmptySeq DEF Nothing, Hand, OnItsWay, Errors
<1>3. /\ HandTypes' /\ TodoInv' /\ hand'[x] = Nothing
      /\ \A y \in Records \cup Buffers : y # x => hand'[y] = hand[y]
  BY <1>1, <1>2, HandChanged
<1>4. silenced' \in [Records -> Nat]
  BY <1>1 DEF RecordTypes
<1> QED BY <1>1, <1>3, <1>4

\* The level is set.
LEMMA SetLevelTypes ==
    ASSUME TypeInv, SetLevel
    PROVE  TypeInv'
<1> USE DEF TypeInv
<1>1. /\ UNCHANGED <<setup, callVars, expired, groupVars, rejected, bufferVars, hand, recordVars, before>>
      /\ raised' = ~raised /\ flips' = flips + 1 /\ flips < setup.flips /\ UNCHANGED <<pc, idx>>
  BY DEF SetLevel, callVars
<1>2. /\ BufferTypes' /\ HandTypes' /\ RecordTypes' /\ HistoryTypes'
      /\ PlaceInv' /\ EmitInv' /\ TodoInv'
  BY <1>1, TypesKept
<1>3. CallTypes'
  <2>1. raised' \in BOOLEAN /\ flips' \in 0 .. setup.flips
    BY <1>1, Distinct DEF CallTypes
  <2>2. CallTypes
    OBVIOUS
  <2> QED BY <1>1, <2>1, <2>2, TypesAfter DEF CallTypes, callVars, groupVars
<1> QED BY <1>2, <1>3

\* A log call passes its gate or does not.
LEMMA LogGateTypes ==
    ASSUME TypeInv, NEW r \in Records, LogGate(r)
    PROVE  TypeInv'
<1> USE DEF TypeInv
<1>1. /\ UNCHANGED <<levelVars, idx, first, result, expired, groupVars, bufferVars, recordVars, before>>
      /\ UNCHANGED setup /\ pc[r] = "idle"
  BY DEF LogGate, levelVars
<1>2. /\ pc' \in [Records \cup Waiters \cup {Drainer} ->
                  {"idle", "off", "emit", "enqueue", "close", "await", "wait", "done"}]
      /\ rejected' \in Nat
      /\ \A c \in Records \cup Waiters \cup {Drainer} : c # r => pc'[c] = pc[c]
      /\ \/ pc'[r] \in {"off", "done"} /\ UNCHANGED hand
         \/ pc'[r] = "emit" /\ hand' = [hand EXCEPT ![r] = InHand(r, Plan.entry)]
  BY DEF LogGate, CallTypes
<1>3. CallTypes' /\ BufferTypes' /\ RecordTypes' /\ HistoryTypes'
  <2>1. BufferTypes' /\ RecordTypes' /\ HistoryTypes'
    BY <1>1, TypesKept
  <2>2. CallTypes'
    BY <1>1, <1>2, TypesAfter DEF CallTypes, groupVars, levelVars
  <2> QED BY <2>1, <2>2
<1>4. PlaceInv'
  <2>1. \A v \in Visitors : pc'[v] = pc[v]
    BY <1>2, Distinct DEF Visitors, Waiters, CallTypes
  <2>2. PlaceInv /\ UNCHANGED idx
    BY <1>1
  <2> QED BY <1>1, <2>1, <2>2, TypesAfter DEF PlaceInv
<1>5. HandTypes' /\ TodoInv' /\ EmitInv'
  <2>1. CASE pc'[r] \in {"off", "done"} /\ UNCHANGED hand
    <3>1. HandTypes' /\ TodoInv'
      BY <1>1, <2>1, TypesKept
    <3>2. EmitInv'
      BY <1>1, <1>2, <2>1 DEF EmitInv
    <3> QED BY <3>1, <3>2
  <2>2. CASE pc'[r] = "emit" /\ hand' = [hand EXCEPT ![r] = InHand(r, Plan.entry)]
    <3>1. setup \in Setups /\ Start(r) = Plan.entry /\ Start(r) \in Handlers
      BY StartType DEF CallTypes
    <3>2. InHand(r, Start(r)) \in Hand /\ InHand(r, Start(r)).item = r /\ OnItsWay(r, InHand(r, Start(r)))
      BY <3>1, InHandType DEF OnItsWay
    <3>3. /\ HandTypes' /\ TodoInv' /\ hand'[r].item = r
          /\ \A y \in Records : y # r => hand'[y] = hand[y]
      BY <1>1, <2>2, <3>1, <3>2, HandChanged
    <3>4. EmitInv'
      BY <1>2, <2>2, <3>3 DEF EmitInv
    <3> QED BY <3>3, <3>4
  <2> QED BY <1>2, <2>1, <2>2
<1> QED BY <1>3, <1>4, <1>5

\* Emit: the record is stopped, or offered to the next end.
LEMMA LogEmitTypes ==
    ASSUME TypeInv, NEW r \in Records, LogEmit(r)
    PROVE  TypeInv'
<1> USE DEF TypeInv
<1> DEFINE e == Head(hand[r].todo)
<1>1. /\ UNCHANGED <<levelVars, idx, first, result, expired, groupVars, rejected, open, stopped,
                     closed, firstErr, overflowed, before>>
      /\ UNCHANGED <<setup, open, stopped, closed>> /\ pc[r] = "emit" /\ hand[r].item = r
      /\ setup \in Setups /\ Start(r) = Plan.entry /\ r \in Records \cup Buffers
  BY StartType DEF LogEmit, levelVars, CallTypes, EmitInv
<1>2. /\ HandTypes' /\ TodoInv'
      /\ \A y \in Records \cup Buffers : y # r => hand'[y] = hand[y]
      /\ hand'[r] = Nothing \/ hand'[r].item = r
      /\ BufferTypes' /\ RecordTypes'
  <2>1. CASE Silence(r, Start(r)) /\ UNCHANGED accepted
    <3>1. /\ hand'[r] = Nothing /\ HandTypes' /\ TodoInv'
          /\ \A y \in Records \cup Buffers : y # r => hand'[y] = hand[y]
          /\ UNCHANGED <<queue, dropped, refused, delivered>> /\ silenced' \in [Records -> Nat]
      BY <1>1, <2>1, SilenceTypes
    <3>2. BufferTypes'
      BY <1>1, <3>1, TypesKept DEF bufferVars
    <3>3. RecordTypes'
      BY <1>1, <2>1, <3>1, TypesAfter DEF RecordTypes
    <3> QED BY <3>1, <3>2, <3>3
  <2>2. CASE /\ HandOn(r, Start(r))
             /\ accepted' = IF e \in Buffers /\ Answer(e) = "nil"
                            THEN [accepted EXCEPT ![e][r] = @ + 1] ELSE accepted
    <3>1. /\ HandTypes' /\ TodoInv'
          /\ \A y \in Records \cup Buffers : y # r => hand'[y] = hand[y]
          /\ hand'[r] = Nothing \/ hand'[r].item = r
          /\ queue' \in [Buffers -> Seq(Records \cup Barriers)]
          /\ \A b \in Buffers : Len(queue'[b]) <= Size
          /\ dropped' \in [Buffers -> Nat] /\ refused' \in [Buffers -> Nat]
          /\ delivered' \in [Sinks -> [Records -> Nat]] /\ UNCHANGED silenced
      BY <1>1, <2>2, HandOnTypes
    <3>2. BufferTypes'
      BY <1>1, <3>1, TypesAfter DEF BufferTypes
    <3>3. accepted' \in [Buffers -> [Records -> Nat]]
      <4> HIDE DEF e
      <4> QED BY <2>2 DEF RecordTypes
    <3>4. RecordTypes'
      BY <1>1, <3>1, <3>3, TypesAfter DEF RecordTypes
    <3> QED BY <3>1, <3>2, <3>4
  <2> QED BY <1>1, <2>1, <2>2 DEF LogEmit
<1>3. /\ pc' \in [Records \cup Waiters \cup {Drainer} ->
                  {"idle", "off", "emit", "enqueue", "close", "await", "wait", "done"}]
      /\ \A c \in Records \cup Waiters \cup {Drainer} : c # r => pc'[c] = pc[c]
      /\ hand'[r] = Nothing => pc'[r] = "done"
      /\ hand'[r] # Nothing => pc'[r] = "emit"
  BY <1>1 DEF LogEmit, CallTypes
<1>4. CallTypes' /\ HistoryTypes'
  <2>1. HistoryTypes'
    BY <1>1, TypesKept
  <2>2. CallTypes'
    BY <1>1, <1>3, TypesAfter DEF CallTypes, groupVars, levelVars
  <2> QED BY <2>1, <2>2
<1>5. PlaceInv'
  <2>1. \A v \in Visitors : pc'[v] = pc[v]
    BY <1>1, <1>3, Distinct DEF Visitors, Waiters
  <2> QED BY <1>1, <2>1, TypesAfter DEF PlaceInv
<1>6. EmitInv'
  <2>1. Nothing.item = None /\ None # r
    BY <1>1, Distinct DEF Nothing
  <2> QED BY <1>2, <1>3, <2>1 DEF EmitInv
<1> QED BY <1>2, <1>4, <1>5, <1>6

\* The worker takes the next item.
LEMMA WorkerReceiveTypes ==
    ASSUME TypeInv, NEW b \in Buffers, WorkerReceive(b)
    PROVE  TypeInv'
<1> USE DEF TypeInv
<1> DEFINE i == Head(queue[b])
<1>1. /\ UNCHANGED <<levelVars, callVars, expired, groupVars, rejected, open, stopped, closed,
                     firstErr, dropped, refused, recordVars, before>>
      /\ queue[b] # << >> /\ queue' = [queue EXCEPT ![b] = Tail(@)] /\ UNCHANGED <<setup, pc, idx>>
      /\ hand' = [hand EXCEPT ![b] = InHand(i, Below(b))]
  BY DEF WorkerReceive, levelVars, callVars
<1>2. setup \in Setups /\ Start(b) = Below(b) /\ Start(b) \in Handlers /\ b \in Records \cup Buffers
  BY StartType DEF CallTypes
<1>3. /\ i \in Records \cup Barriers /\ Tail(queue[b]) \in Seq(Records \cup Barriers)
      /\ Len(Tail(queue[b])) <= Size
  <2>1. queue[b] \in Seq(Records \cup Barriers) /\ Len(queue[b]) <= Size /\ Size \in Nat
    BY <1>2, Distinct DEF BufferTypes
  <2> QED BY <1>1, <2>1
<1>4. InHand(i, Start(b)) \in Hand /\ OnItsWay(b, InHand(i, Start(b)))
  BY <1>2, <1>3, InHandType DEF OnItsWay
<1>5. HandTypes' /\ TodoInv' /\ \A y \in Records \cup Buffers : y # b => hand'[y] = hand[y]
  BY <1>1, <1>2, <1>4, HandChanged
<1>6. CallTypes' /\ RecordTypes' /\ HistoryTypes' /\ PlaceInv'
  BY <1>1, TypesKept DEF levelVars
<1>7. BufferTypes'
  BY <1>1, <1>3, TypesAfter DEF BufferTypes
<1>8. EmitInv'
  <2>1. \A r \in Records : hand'[r] = hand[r]
    BY <1>2, <1>5, Distinct
  <2> QED BY <1>1, <2>1 DEF EmitInv
<1> QED BY <1>5, <1>6, <1>7, <1>8

\* The worker hands a record on, or the level stops it.
LEMMA WorkerDeliverTypes ==
    ASSUME TypeInv, NEW b \in Buffers, WorkerDeliver(b)
    PROVE  TypeInv'
<1> USE DEF TypeInv
<1> DEFINE e == Head(hand[b].todo)
<1>1. /\ UNCHANGED <<levelVars, callVars, expired, groupVars, rejected, open, stopped, closed,
                     accepted, before>>
      /\ UNCHANGED <<setup, pc, idx, open, stopped, closed>>
      /\ setup \in Setups /\ Start(b) = Below(b) /\ b \in Records \cup Buffers
  BY StartType DEF WorkerDeliver, levelVars, callVars, CallTypes
<1>2. /\ HandTypes' /\ TodoInv'
      /\ \A y \in Records \cup Buffers : y # b => hand'[y] = hand[y]
      /\ BufferTypes' /\ RecordTypes'
  <2>1. CASE Silence(b, Start(b)) /\ UNCHANGED <<firstErr, overflowed>>
    <3>1. /\ HandTypes' /\ TodoInv'
          /\ \A y \in Records \cup Buffers : y # b => hand'[y] = hand[y]
          /\ UNCHANGED <<queue, dropped, refused, delivered>> /\ silenced' \in [Records -> Nat]
      BY <1>1, <2>1, SilenceTypes
    <3>2. BufferTypes'
      BY <1>1, <2>1, <3>1, TypesKept DEF bufferVars
    <3>3. RecordTypes'
      BY <1>1, <2>1, <3>1, TypesAfter DEF RecordTypes
    <3> QED BY <3>1, <3>2, <3>3
  <2>2. CASE /\ HandOn(b, Start(b))
             /\ overflowed' = IF Answer(e) = "full"
                              THEN [overflowed EXCEPT ![e][hand[b].item] = @ + 1] ELSE overflowed
             /\ firstErr' = IF firstErr[b] = "nil" /\ hand'[b] = Nothing
                            THEN [firstErr EXCEPT ![b] = Join(hand[b].err, Answer(e))]
                            ELSE firstErr
    <3>1. /\ HandTypes' /\ TodoInv' /\ hand[b].item \in Records /\ e \in Buffers \cup Sinks
          /\ \A y \in Records \cup Buffers : y # b => hand'[y] = hand[y]
          /\ queue' \in [Buffers -> Seq(Records \cup Barriers)]
          /\ \A c \in Buffers : Len(queue'[c]) <= Size
          /\ dropped' \in [Buffers -> Nat] /\ refused' \in [Buffers -> Nat]
          /\ delivered' \in [Sinks -> [Records -> Nat]] /\ UNCHANGED silenced
      BY <1>1, <2>2, HandOnTypes
    <3>2. Join(hand[b].err, Answer(e)) \in Errors
      BY <1>1, <3>1, HandParts, AnswerType
    <3>3. firstErr' \in [Buffers -> Errors]
      <4> HIDE DEF e
      <4> QED BY <2>2, <3>2 DEF BufferTypes
    <3>4. BufferTypes'
      BY <1>1, <3>1, <3>3, TypesAfter DEF BufferTypes
    <3>5. overflowed' \in [Buffers -> [Records -> Nat]]
      <4>1. Answer(e) = "full" => e \in Buffers
        BY <3>1 DEF Answer
      <4>2. overflowed \in [Buffers -> [Records -> Nat]]
        BY DEF RecordTypes
      <4> HIDE DEF e
      <4>3. CASE Answer(e) = "full"
        <5>1. overflowed' = [overflowed EXCEPT ![e][hand[b].item] = @ + 1] /\ e \in Buffers
          BY <2>2, <4>1, <4>3
        <5>2. overflowed[e][hand[b].item] + 1 \in Nat
          BY <3>1, <4>2, <5>1
        <5> QED BY <3>1, <4>2, <5>1, <5>2
      <4>4. CASE Answer(e) # "full"
        BY <2>2, <4>2, <4>4
      <4> QED BY <4>3, <4>4
    <3>6. RecordTypes'
      BY <1>1, <3>1, <3>5, TypesAfter DEF RecordTypes
    <3> QED BY <3>1, <3>4, <3>6
  <2> QED BY <1>1, <2>1, <2>2 DEF WorkerDeliver
<1>3. CallTypes' /\ HistoryTypes' /\ PlaceInv'
  BY <1>1, TypesKept DEF levelVars
<1>4. EmitInv'
  <2>1. \A r \in Records : hand'[r] = hand[r]
    BY <1>1, <1>2, Distinct
  <2> QED BY <1>1, <2>1 DEF EmitInv
<1> QED BY <1>2, <1>3, <1>4

\* The worker reaches a barrier.
LEMMA WorkerBarrierTypes ==
    ASSUME TypeInv, NEW b \in Buffers, WorkerBarrier(b)
    PROVE  TypeInv'
<1> USE DEF TypeInv
<1>1. /\ UNCHANGED <<levelVars, callVars, expired, groupVars, rejected, open, queue, stopped,
                     firstErr, dropped, refused, recordVars, before>>
      /\ UNCHANGED <<setup, pc, idx>> /\ hand' = [hand EXCEPT ![b] = Nothing]
      /\ hand[b].item \in Barriers /\ closed' = [closed EXCEPT ![b] = @ \cup {hand[b].item}]
      /\ setup \in Setups /\ b \in Records \cup Buffers
  BY DEF WorkerBarrier, levelVars, callVars, CallTypes
<1>2. Nothing \in Hand /\ OnItsWay(b, Nothing)
  <2>1. None \notin Records
    BY <1>1, Distinct
  <2> QED BY <2>1, EmptySeq DEF Nothing, Hand, OnItsWay, Errors
<1>3. HandTypes' /\ TodoInv' /\ \A y \in Records \cup Buffers : y # b => hand'[y] = hand[y]
  BY <1>1, <1>2, HandChanged
<1>4. CallTypes' /\ RecordTypes' /\ HistoryTypes' /\ PlaceInv'
  BY <1>1, TypesKept DEF levelVars
<1>5. BufferTypes'
  <2>1. closed' \in [Buffers -> SUBSET Barriers]
    BY <1>1 DEF BufferTypes
  <2> QED BY <1>1, <2>1, TypesAfter DEF BufferTypes
<1>6. EmitInv'
  <2>1. \A r \in Records : hand'[r] = hand[r]
    BY <1>1, <1>3, Distinct
  <2> QED BY <1>1, <2>1 DEF EmitInv
<1> QED BY <1>3, <1>4, <1>5, <1>6

\* The worker exits.
LEMMA WorkerExitTypes ==
    ASSUME TypeInv, NEW b \in Buffers, WorkerExit(b)
    PROVE  TypeInv'
<1> USE DEF TypeInv
<1>1. /\ UNCHANGED <<levelVars, callVars, expired, groupVars, rejected, open, queue, hand, closed,
                     firstErr, dropped, refused, recordVars, before>>
      /\ UNCHANGED <<setup, pc, idx>> /\ stopped' = [stopped EXCEPT ![b] = TRUE]
  BY DEF WorkerExit, levelVars, callVars
<1>2. /\ CallTypes' /\ HandTypes' /\ RecordTypes' /\ HistoryTypes'
      /\ PlaceInv' /\ EmitInv' /\ TodoInv'
  BY <1>1, TypesKept DEF levelVars
<1>3. BufferTypes'
  <2>1. stopped' \in [Buffers -> BOOLEAN]
    BY <1>1 DEF BufferTypes
  <2> QED BY <1>1, <2>1, TypesAfter DEF BufferTypes
<1> QED BY <1>2, <1>3

\* Places of waiters and of the drainer are not those of log calls.
LEMMA EmitKept ==
    ASSUME TypeInv, UNCHANGED hand, \A r \in Records : pc'[r] = pc[r]
    PROVE  EmitInv'
BY DEF EmitInv, TypeInv

\* A visitor that has its answer is at a buffer that there is, or at the end.
LEMMA FlushVisitedTypes ==
    ASSUME TypeInv, UNCHANGED setup, NEW f \in Flushes, pc[f] \in {"enqueue", "await"},
           NEW answer \in Errors, FlushVisited(f, answer)
    PROVE  /\ pc' \in [Records \cup Waiters \cup {Drainer} ->
                  {"idle", "off", "emit", "enqueue", "close", "await", "wait", "done"}]
           /\ idx' \in [Visitors -> 1 .. Len(Flushers) + 1]
           /\ first' \in [Visitors -> Errors]
           /\ result' \in [Waiters -> Errors \cup {None}]
           /\ \A c \in Records \cup Waiters \cup {Drainer} : c # f => pc'[c] = pc[c]
           /\ PlaceInv' /\ idx[f] \in 1 .. Len(Flushers) /\ setup \in Setups
           /\ Flushers[idx[f]] \in Buffers
<1>1. /\ first' = [first EXCEPT ![f] = IF @ = "nil" THEN answer ELSE @]
      /\ idx' = [idx EXCEPT ![f] = @ + 1]
      /\ IF AtLast(f)
         THEN /\ pc' = [pc EXCEPT ![f] = "done"]
              /\ result' = [result EXCEPT ![f] = first'[f]]
         ELSE pc' = [pc EXCEPT ![f] = "enqueue"] /\ UNCHANGED result
  BY DEF FlushVisited, Advance
<1>2. /\ setup \in Setups /\ f \in Visitors /\ f \in Waiters /\ Len(Flushers) \in Nat
      /\ f \in Records \cup Waiters \cup {Drainer}
      /\ idx[f] \in 1 .. Len(Flushers) + 1 /\ idx[f] <= Len(Flushers)
  BY FlushersType DEF TypeInv, CallTypes, PlaceInv, Visitors, Waiters
<1>3. idx[f] \in 1 .. Len(Flushers) /\ Flushers[idx[f]] \in Buffers
  BY <1>2, FlushersType
<1>4. first' \in [Visitors -> Errors] /\ idx' \in [Visitors -> 1 .. Len(Flushers) + 1]
        /\ first'[f] \in Errors
  <2>1. idx \in [Visitors -> 1 .. Len(Flushers) + 1] /\ first \in [Visitors -> Errors]
    BY DEF TypeInv, CallTypes
  <2>2. idx[f] + 1 \in 1 .. Len(Flushers) + 1
    BY <1>2
  <2> QED BY <1>1, <1>2, <2>1, <2>2
<1>5. /\ result' \in [Waiters -> Errors \cup {None}]
      /\ pc' \in [Records \cup Waiters \cup {Drainer} ->
                  {"idle", "off", "emit", "enqueue", "close", "await", "wait", "done"}]
      /\ \A c \in Records \cup Waiters \cup {Drainer} : c # f => pc'[c] = pc[c]
      /\ AtLast(f) => pc'[f] = "done"
      /\ ~AtLast(f) => pc'[f] = "enqueue"
  BY <1>1, <1>2, <1>4 DEF TypeInv, CallTypes
<1>6. PlaceInv'
  <2>1. ASSUME NEW v \in Visitors
        PROVE  /\ pc'[v] \in {"enqueue", "await"} => idx'[v] <= Len(Flushers)
               /\ pc'[v] = "idle" => idx'[v] = 1
    <3>1. CASE v = f
      <4>1. idx'[f] = idx[f] + 1
        BY <1>1, <1>2 DEF TypeInv, CallTypes
      <4>2. ~AtLast(f) => idx'[f] <= Len(Flushers)
        BY <1>2, <4>1 DEF AtLast
      <4> QED BY <1>5, <3>1, <4>2
    <3>2. CASE v # f
      <4>1. idx'[v] = idx[v] /\ pc'[v] = pc[v]
        BY <1>1, <1>5, <3>2 DEF TypeInv, CallTypes, Visitors, Waiters
      <4> QED BY <4>1 DEF TypeInv, PlaceInv
    <3> QED BY <3>1, <3>2
  <2> QED BY <2>1, TypesAfter
<1> QED BY <1>2, <1>3, <1>4, <1>5, <1>6

\* A Flush that has an answer, with or without the first error of the buffer.
LEMMA FlushAnsweredTypes ==
    ASSUME TypeInv, NEW f \in Flushes, pc[f] \in {"enqueue", "await"}, NEW answer \in Errors,
           FlushVisited(f, answer), firstErr' \in [Buffers -> Errors],
           UNCHANGED <<levelVars, expired, groupVars, rejected, open, queue, hand, stopped,
                       closed, dropped, refused, recordVars, before>>
    PROVE  TypeInv'
<1> USE DEF TypeInv
<1>1. UNCHANGED setup
  BY DEF levelVars
<1>2. /\ pc' \in [Records \cup Waiters \cup {Drainer} ->
                  {"idle", "off", "emit", "enqueue", "close", "await", "wait", "done"}]
      /\ idx' \in [Visitors -> 1 .. Len(Flushers) + 1]
      /\ first' \in [Visitors -> Errors]
      /\ result' \in [Waiters -> Errors \cup {None}]
      /\ \A c \in Records \cup Waiters \cup {Drainer} : c # f => pc'[c] = pc[c]
      /\ PlaceInv' /\ setup \in Setups
  BY <1>1, FlushVisitedTypes
<1>3. HandTypes' /\ RecordTypes' /\ HistoryTypes' /\ TodoInv'
  BY <1>1, TypesKept
<1>4. EmitInv'
  <2>1. \A r \in Records : pc'[r] = pc[r]
    BY <1>2, Distinct DEF Waiters
  <2> QED BY <2>1, EmitKept
<1>5. BufferTypes'
  BY <1>1, TypesAfter DEF BufferTypes
<1>6. CallTypes'
  BY <1>1, <1>2, TypesAfter DEF CallTypes, groupVars, levelVars
<1> QED BY <1>2, <1>3, <1>4, <1>5, <1>6

\* The three ways to an answer.
LEMMA FlushAnswerTypes ==
    ASSUME TypeInv, NEW f \in Flushes, FlushRefused(f) \/ FlushReached(f) \/ FlushExpired(f)
    PROVE  TypeInv'
<1>1. firstErr \in [Buffers -> Errors] /\ {"shutdown", "ctx", "nil"} \subseteq Errors
  BY DEF TypeInv, BufferTypes, Errors
<1>2. CASE FlushRefused(f)
  <2>1. /\ pc[f] \in {"enqueue", "await"} /\ FlushVisited(f, "shutdown")
        /\ UNCHANGED firstErr
        /\ UNCHANGED <<levelVars, expired, groupVars, rejected, open, queue, hand, stopped,
                       closed, dropped, refused, recordVars, before>>
    BY <1>2 DEF FlushRefused, bufferVars
  <2> QED BY <1>1, <2>1, FlushAnsweredTypes
<1>3. CASE FlushReached(f)
  <2> DEFINE b == Flushers[idx[f]]
  <2>1. /\ pc[f] \in {"enqueue", "await"} /\ FlushVisited(f, firstErr[b])
        /\ firstErr' = [firstErr EXCEPT ![b] = "nil"]
        /\ UNCHANGED <<levelVars, expired, groupVars, rejected, open, queue, hand, stopped,
                       closed, dropped, refused, recordVars, before>>
    BY <1>3 DEF FlushReached
  <2>2. b \in Buffers
    BY <2>1, FlushersType DEF TypeInv, CallTypes, PlaceInv, Visitors
  <2>3. firstErr[b] \in Errors /\ firstErr' \in [Buffers -> Errors]
    BY <1>1, <2>1, <2>2
  <2> QED BY <2>1, <2>3, FlushAnsweredTypes
<1>4. CASE FlushExpired(f)
  <2>1. /\ pc[f] \in {"enqueue", "await"} /\ FlushVisited(f, "ctx")
        /\ UNCHANGED firstErr
        /\ UNCHANGED <<levelVars, expired, groupVars, rejected, open, queue, hand, stopped,
                       closed, dropped, refused, recordVars, before>>
    BY <1>4 DEF FlushExpired, bufferVars
  <2> QED BY <1>1, <2>1, FlushAnsweredTypes
<1> QED BY <1>2, <1>3, <1>4

\* A Flush starts, or has nothing to do.
LEMMA FlushGateTypes ==
    ASSUME TypeInv, NEW f \in Flushes, FlushGate(f)
    PROVE  TypeInv'
<1> USE DEF TypeInv
<1>1. /\ UNCHANGED <<levelVars, idx, first, expired, groupVars, rejected, bufferVars, hand,
                     recordVars>>
      /\ UNCHANGED <<setup, idx>> /\ pc[f] = "idle" /\ before' = [before EXCEPT ![f] = accepted]
      /\ f \in Waiters /\ f \in Visitors /\ setup \in Setups
  BY DEF FlushGate, levelVars, Waiters, Visitors, CallTypes
<1>2. /\ pc' \in [Records \cup Waiters \cup {Drainer} ->
                  {"idle", "off", "emit", "enqueue", "close", "await", "wait", "done"}]
      /\ \A c \in Records \cup Waiters \cup {Drainer} : c # f => pc'[c] = pc[c]
      /\ pc'[f] = "done" \/ (pc'[f] = "enqueue" /\ Flushers # << >>)
      /\ result' \in [Waiters -> Errors \cup {None}]
  BY <1>1 DEF FlushGate, CallTypes, Errors
<1>3. BufferTypes' /\ HandTypes' /\ RecordTypes' /\ TodoInv'
  BY <1>1, TypesKept
<1>4. EmitInv'
  <2>1. \A r \in Records : pc'[r] = pc[r]
    BY <1>1, <1>2, Distinct
  <2> QED BY <1>1, <2>1, EmitKept
<1>5. CallTypes'
  BY <1>1, <1>2, TypesAfter DEF CallTypes, groupVars, levelVars
<1>6. HistoryTypes'
  BY <1>1, TypesAfter DEF HistoryTypes, RecordTypes
<1>7. PlaceInv'
  <2>1. idx[f] = 1 /\ (Flushers # << >> => 1 <= Len(Flushers))
    <3>1. Flushers # << >> => Len(Flushers) > 0
      BY <1>1, FlushersType, EmptySeq
    <3>2. Len(Flushers) \in Nat
      BY <1>1, FlushersType
    <3> QED BY <1>1, <3>1, <3>2 DEF PlaceInv
  <2>2. \A v \in Visitors : v # f => pc'[v] = pc[v]
    BY <1>2 DEF Visitors, Waiters
  <2> QED BY <1>1, <1>2, <2>1, <2>2, TypesAfter DEF PlaceInv
<1> QED BY <1>3, <1>4, <1>5, <1>6, <1>7

\* A Flush puts its barrier into a queue that has room.
LEMMA FlushEnqueueTypes ==
    ASSUME TypeInv, NEW f \in Flushes, FlushEnqueue(f)
    PROVE  TypeInv'
<1> USE DEF TypeInv
<1> DEFINE b == Flushers[idx[f]]
<1>1. /\ UNCHANGED <<levelVars, idx, first, result, expired, groupVars, rejected, open, hand,
                     stopped, closed, firstErr, dropped, refused, recordVars, before>>
      /\ UNCHANGED <<setup, idx>> /\ pc[f] = "enqueue" /\ pc' = [pc EXCEPT ![f] = "await"]
      /\ Len(queue[b]) < Size /\ queue' = [queue EXCEPT ![b] = Append(@, Barrier(f))]
      /\ f \in Waiters /\ f \in Visitors /\ setup \in Setups
  BY DEF FlushEnqueue, levelVars, Waiters, Visitors, CallTypes
<1>2. idx[f] \in 1 .. Len(Flushers) /\ b \in Buffers /\ Barrier(f) \in Barriers
  <2>1. idx[f] \in 1 .. Len(Flushers) + 1 /\ idx[f] <= Len(Flushers) /\ Len(Flushers) \in Nat
    BY <1>1, FlushersType DEF CallTypes, PlaceInv
  <2>2. idx[f] \in 1 .. Len(Flushers)
    BY <2>1
  <2> QED BY <1>1, <2>2, FlushersType DEF Barrier, Barriers
<1>3. /\ pc' \in [Records \cup Waiters \cup {Drainer} ->
                  {"idle", "off", "emit", "enqueue", "close", "await", "wait", "done"}]
      /\ \A c \in Records \cup Waiters \cup {Drainer} : c # f => pc'[c] = pc[c]
      /\ pc'[f] = "await"
  BY <1>1 DEF CallTypes
<1>4. HandTypes' /\ RecordTypes' /\ TodoInv' /\ HistoryTypes'
  BY <1>1, TypesKept
<1>5. EmitInv'
  <2>1. \A r \in Records : pc'[r] = pc[r]
    BY <1>1, <1>3, Distinct
  <2> QED BY <1>1, <2>1, EmitKept
<1>6. CallTypes'
  BY <1>1, <1>3, TypesAfter DEF CallTypes, groupVars, levelVars
<1>7. BufferTypes'
  <2>1. queue[b] \in Seq(Records \cup Barriers) /\ Size \in Nat
    BY <1>1, <1>2, Distinct DEF BufferTypes
  <2>2. /\ Append(queue[b], Barrier(f)) \in Seq(Records \cup Barriers)
        /\ Len(Append(queue[b], Barrier(f))) <= Size
    BY <1>1, <1>2, <2>1
  <2>3. /\ queue' \in [Buffers -> Seq(Records \cup Barriers)]
        /\ \A c \in Buffers : Len(queue'[c]) <= Size
    <3> HIDE DEF b
    <3> QED BY <1>1, <1>2, <2>2 DEF BufferTypes
  <2> QED BY <1>1, <2>3, TypesAfter DEF BufferTypes
<1>8. PlaceInv'
  <2>1. \A v \in Visitors : v # f => pc'[v] = pc[v]
    BY <1>3 DEF Visitors, Waiters
  <2> QED BY <1>1, <1>3, <2>1, TypesAfter DEF PlaceInv
<1> QED BY <1>4, <1>5, <1>6, <1>7, <1>8

\* Shutdown starts, returns, or its context or that of a Flush ends.
LEMMA ShutdownTypes ==
    ASSUME TypeInv, NEW c \in Waiters, (c \in Shutdowns /\ Shutdown(c)) \/ Expire(c)
    PROVE  TypeInv'
<1> USE DEF TypeInv
<1>1. /\ UNCHANGED <<levelVars, idx, first, groupDone, groupErr, rejected, bufferVars, hand,
                     recordVars, before>>
      /\ UNCHANGED <<setup, idx>> /\ setup \in Setups
  BY DEF Shutdown, ShutdownStart, ShutdownReturn, Expire, callVars, levelVars, groupVars, CallTypes
<1>2. BufferTypes' /\ HandTypes' /\ RecordTypes' /\ TodoInv' /\ HistoryTypes'
  BY <1>1, TypesKept
<1>3. /\ pc' \in [Records \cup Waiters \cup {Drainer} ->
                  {"idle", "off", "emit", "enqueue", "close", "await", "wait", "done"}]
      /\ \A r \in Records : pc'[r] = pc[r]
      /\ \A v \in Visitors : pc'[v] = pc[v] \/ pc'[v] = "close"
  <2>1. Records \cap Waiters = {} /\ Flushes \cap Shutdowns = {} /\ Drainer \notin Records \cup Waiters
    BY <1>1, Distinct
  <2>2. CASE c \in Shutdowns /\ ShutdownStart(c)
    <3>1. pc' = [pc EXCEPT ![c] = "wait", ![Drainer] = IF stopping THEN @ ELSE "close"]
      BY <2>2 DEF ShutdownStart
    <3> QED BY <2>1, <2>2, <3>1 DEF CallTypes, Visitors, Waiters
  <2>3. CASE c \in Shutdowns /\ ShutdownReturn(c)
    <3>1. pc' = [pc EXCEPT ![c] = "done"]
      BY <2>3 DEF ShutdownReturn
    <3> QED BY <2>1, <2>3, <3>1 DEF CallTypes, Visitors, Waiters
  <2>4. CASE Expire(c)
    BY <2>4 DEF Expire, callVars, CallTypes
  <2> QED BY <2>2, <2>3, <2>4 DEF Shutdown
<1>4. EmitInv'
  BY <1>1, <1>3, EmitKept
<1>5. PlaceInv'
  BY <1>1, <1>3, TypesAfter DEF PlaceInv
<1>6. /\ result' \in [Waiters -> Errors \cup {None}] /\ expired' \subseteq setup.expiring
      /\ stopping' \in BOOLEAN
  BY DEF Shutdown, ShutdownStart, ShutdownReturn, Expire, callVars, groupVars, CallTypes, Errors
<1>7. CallTypes'
  BY <1>1, <1>3, <1>6, TypesAfter DEF CallTypes, levelVars
<1> QED BY <1>2, <1>4, <1>5, <1>7

\* The drainer goes from buffer to buffer.
LEMMA DrainTypes ==
    ASSUME TypeInv, Drain
    PROVE  TypeInv'
<1> USE DEF TypeInv
<1> DEFINE b == Flushers[idx[Drainer]]
<1>1. /\ UNCHANGED <<levelVars, result, expired, stopping, rejected, queue, hand, stopped,
                     closed, dropped, refused, recordVars, before>>
      /\ UNCHANGED setup /\ setup \in Setups /\ Drainer \in Visitors
  BY DEF Drain, DrainClose, DrainVisited, DrainDone, bufferVars, levelVars, groupVars, CallTypes,
         Visitors
<1>2. HandTypes' /\ RecordTypes' /\ TodoInv' /\ HistoryTypes'
  BY <1>1, TypesKept
<1>3. /\ pc' \in [Records \cup Waiters \cup {Drainer} ->
                  {"idle", "off", "emit", "enqueue", "close", "await", "wait", "done"}]
      /\ \A c \in Records \cup Waiters : pc'[c] = pc[c]
  BY <1>1, Distinct DEF Drain, DrainClose, DrainVisited, DrainDone, CallTypes
<1>4. EmitInv'
  BY <1>1, <1>3, EmitKept
<1>5. idx[Drainer] \in 1 .. Len(Flushers) + 1 /\ Len(Flushers) \in Nat
        /\ (pc[Drainer] = "await" => idx[Drainer] \in 1 .. Len(Flushers))
        /\ (pc[Drainer] \in {"close", "await"} /\ idx[Drainer] <= Len(Flushers) => b \in Buffers)
  BY <1>1, FlushersType DEF CallTypes, PlaceInv
<1>6. /\ open' \in [Buffers -> BOOLEAN] /\ firstErr' \in [Buffers -> Errors]
      /\ idx' \in [Visitors -> 1 .. Len(Flushers) + 1] /\ first' \in [Visitors -> Errors]
      /\ groupDone' \in BOOLEAN /\ groupErr' \in Errors
      /\ \A v \in Visitors : v # Drainer => idx'[v] = idx[v]
      /\ pc'[Drainer] = "await" => idx'[Drainer] <= Len(Flushers)
      /\ pc'[Drainer] \notin {"idle", "enqueue"}
  <2>1. CASE DrainClose
    BY <1>1, <1>5, <2>1 DEF DrainClose, groupVars, CallTypes, BufferTypes
  <2>2. CASE DrainVisited
    <3>1. /\ first' = [first EXCEPT ![Drainer] = IF @ = "nil" THEN firstErr[b] ELSE @]
          /\ idx' = [idx EXCEPT ![Drainer] = @ + 1] /\ firstErr' = [firstErr EXCEPT ![b] = "nil"]
          /\ pc[Drainer] = "await" /\ pc' = [pc EXCEPT ![Drainer] = "close"]
          /\ UNCHANGED <<groupVars, open>>
      BY <2>2 DEF DrainVisited, Advance
    <3>2. b \in Buffers /\ firstErr[b] \in Errors /\ idx[Drainer] + 1 \in 1 .. Len(Flushers) + 1
      BY <1>5, <3>1 DEF BufferTypes
    <3>3. firstErr' \in [Buffers -> Errors]
      BY <3>1, <3>2 DEF BufferTypes, Errors
    <3>4. idx' \in [Visitors -> 1 .. Len(Flushers) + 1] /\ first' \in [Visitors -> Errors]
      BY <1>1, <3>1, <3>2 DEF CallTypes
    <3> QED BY <1>1, <3>1, <3>3, <3>4 DEF CallTypes, BufferTypes, groupVars
  <2>3. CASE DrainDone
    BY <1>1, <1>5, <2>3 DEF DrainDone, bufferVars, CallTypes, BufferTypes
  <2> QED BY <2>1, <2>2, <2>3 DEF Drain
<1>7. CallTypes'
  BY <1>1, <1>3, <1>6, TypesAfter DEF CallTypes, levelVars
<1>8. BufferTypes'
  BY <1>1, <1>6, TypesAfter DEF BufferTypes
<1>9. PlaceInv'
  <2>1. \A v \in Visitors : v # Drainer => pc'[v] = pc[v]
    BY <1>3 DEF Visitors, Waiters
  <2> QED BY <1>1, <1>6, <2>1, TypesAfter DEF PlaceInv
<1> QED BY <1>2, <1>4, <1>7, <1>8, <1>9

\* Every setup starts with its types.
LEMMA InitTypes ==
    ASSUME Init
    PROVE  TypeInv
<1>1. setup \in Setups /\ Nothing \in Hand /\ Nothing.item = None /\ Nothing.todo = << >>
        /\ Nothing.err = "nil"
  BY EmptySeq DEF Init, Nothing, Hand, Errors
<1>2. /\ None \notin Records /\ Drainer \notin Records \cup Waiters /\ Size \in Nat
      /\ setup.flips \in Nat
  BY <1>1, Distinct
<1>3. CallTypes
  <2>1. 1 \in 1 .. Len(Flushers) + 1
    BY <1>1, FlushersType
  <2>2. idx \in [Visitors -> 1 .. Len(Flushers) + 1] /\ first \in [Visitors -> Errors]
    BY <2>1 DEF Init, Errors
  <2>3. /\ pc \in [Records \cup Waiters \cup {Drainer} ->
                  {"idle", "off", "emit", "enqueue", "close", "await", "wait", "done"}]
        /\ result \in [Waiters -> Errors \cup {None}]
    BY DEF Init
  <2>4. raised = FALSE /\ stopping = FALSE /\ groupDone = FALSE /\ groupErr \in Errors /\ expired = {}
    BY DEF Init, Errors
  <2>5. flips \in 0 .. setup.flips /\ rejected \in Nat
    BY <1>2 DEF Init
  <2>6. raised \in BOOLEAN /\ stopping \in BOOLEAN /\ groupDone \in BOOLEAN
    BY <2>4
  <2> QED BY <1>1, <2>2, <2>3, <2>4, <2>5, <2>6 DEF CallTypes
<1>4. BufferTypes
  <2>1. << >> \in Seq(Records \cup Barriers) /\ Len(<< >>) = 0
    BY EmptySeq
  <2> QED BY <1>2, <2>1 DEF Init, BufferTypes, Errors
<1>5. HandTypes /\ EmitInv /\ TodoInv
  <2>1. hand = [x \in Records \cup Buffers |-> Nothing] /\ \A r \in Records : pc[r] = "idle"
    BY DEF Init
  <2> QED BY <1>1, <1>2, <2>1 DEF HandTypes, EmitInv, TodoInv, OnItsWay
<1>6. RecordTypes /\ HistoryTypes
  BY DEF Init, RecordTypes, HistoryTypes, Never
<1>7. PlaceInv
  BY DEF Init, PlaceInv, Visitors, Waiters
<1> QED BY <1>3, <1>4, <1>5, <1>6, <1>7 DEF TypeInv

\* No step changes the setup.
LEMMA SetupKept ==
    ASSUME [Next]_vars
    PROVE  UNCHANGED setup
BY DEF Next, LogCall, LogGate, LogEmit, SetLevel, Worker, WorkerReceive, WorkerDeliver,
       WorkerBarrier, WorkerExit, Flush, FlushGate, FlushEnqueue, FlushRefused, FlushReached,
       FlushExpired, Shutdown, ShutdownStart, ShutdownReturn, Drain, DrainClose, DrainVisited,
       DrainDone, Expire, Quiescent, vars, levelVars

\* Every step keeps the types.
LEMMA NextTypes ==
    ASSUME TypeInv, [Next]_vars
    PROVE  TypeInv'
<1>1. ASSUME NEW r \in Records, LogCall(r) PROVE TypeInv'
  BY <1>1, LogGateTypes, LogEmitTypes DEF LogCall
<1>2. ASSUME NEW b \in Buffers, Worker(b) PROVE TypeInv'
  BY <1>2, WorkerReceiveTypes, WorkerDeliverTypes, WorkerBarrierTypes, WorkerExitTypes DEF Worker
<1>3. ASSUME NEW f \in Flushes, Flush(f) PROVE TypeInv'
  BY <1>3, FlushGateTypes, FlushEnqueueTypes, FlushAnswerTypes DEF Flush
<1>4. ASSUME NEW s \in Shutdowns, Shutdown(s) PROVE TypeInv'
  BY <1>4, ShutdownTypes DEF Waiters
<1>5. ASSUME UNCHANGED vars PROVE TypeInv'
  <2>1. UNCHANGED <<setup, callVars, expired, groupVars, raised, flips, rejected, bufferVars, hand,
                    recordVars, before, pc, idx>>
    BY <1>5 DEF vars, levelVars, callVars
  <2> QED BY <2>1, TypesKept DEF TypeInv
<1> QED BY <1>1, <1>2, <1>3, <1>4, <1>5, SetLevelTypes, DrainTypes, ShutdownTypes
        DEF Next, Quiescent

\* The types of the state, the places of the visitors and the hands are invariant.
LEMMA TypeInvariant == Spec => []TypeInv
<1>1. Init => TypeInv
  BY InitTypes
<1>2. TypeInv /\ [Next]_vars => TypeInv'
  BY NextTypes
<1> QED BY <1>1, <1>2, PTL DEF Spec

\* Every queue is within its capacity, every visitor at a buffer that there is or past
\* the last, and whatever is on its way goes to buffers and sinks of the graph, for
\* every graph that New builds (collectFlushers, flush, shutdownAllToCompletion).
THEOREM TypesCorrect == Spec => []TypeOK
<1>1. TypeInv => TypeOK
  BY TypeParts DEF TypeInv
<1> QED BY <1>1, TypeInvariant, PTL

-----------------------------------------------------------------------------
(* Routes in the plan of the setup at hand.                                  *)

\* The routes from each handler to t.
To(t) == [x \in Handlers |-> Routes(x, t)]

\* Where routes lead to, and what they have in common.
LEMMA PlanRoutes ==
    ASSUME setup \in Setups
    PROVE  /\ \A h \in Handlers, x \in Handlers, y \in Handlers :
                 Routes(h, x) > 0 /\ Routes(x, y) > 0 => Routes(h, y) > 0
           /\ \A h \in Handlers : Routes(h, h) = 1
           /\ \A s \in Sinks, t \in Handlers : t # s => Routes(s, t) = 0
           /\ \A b \in Buffers, t \in Handlers : t # b => Routes(b, t) = Routes(Below(b), t)
           /\ \A h \in Handlers : \A e \in Range(Ends(h)) : e \in Buffers \cup Sinks /\ Routes(h, e) > 0
           /\ \A h \in Handlers, s \in Sinks :
                 Plan.graph[h].kind = "level" => Routes(h, s) = Routes(Plan.entry, s)
<1> DEFINE g == Plan.graph
<1>1. /\ WellFormed(g) /\ Handlers = Places(g) /\ Plan.ends = EndsOf(g)
      /\ Plan.routes = RoutesOf(g) /\ g = Graph(setup) /\ Plan.entry = Entry(setup)
  BY PlanParts
<1>2. /\ \A h, t : Routes(h, t) = RoutesOf(g)[h][t]
      /\ \A h : Ends(h) = EndsOf(g)[h]
  BY <1>1 DEF Routes, Ends
<1>3. /\ \A b \in Buffers : b \in Places(g) /\ g[b].kind = "buffer" /\ Below(b) = g[b].next[1]
      /\ \A s \in Sinks : s \in Places(g) /\ g[s].kind = "sink"
      /\ \A h \in Places(g) : (g[h].kind = "buffer" => h \in Buffers) /\ (g[h].kind = "sink" => h \in Sinks)
  BY <1>1 DEF Buffers, Sinks, Of, Below, Handlers
<1> HIDE DEF g
<1>4. \A h \in Places(g), x \in Places(g), y \in Places(g) :
         Routes(h, x) > 0 /\ Routes(x, y) > 0 => Routes(h, y) > 0
  BY <1>1, <1>2, RoutesTransitive
<1>5. ASSUME NEW h \in Places(g) PROVE Routes(h, h) = 1
  BY <1>1, <1>2, RoutesOfEnds
<1>6. ASSUME NEW s \in Sinks, NEW t \in Places(g), t # s PROVE Routes(s, t) = 0
  BY <1>1, <1>2, <1>3, <1>6, RoutesOfEnds
<1>7. ASSUME NEW b \in Buffers, NEW t \in Places(g), t # b PROVE Routes(b, t) = Routes(Below(b), t)
  BY <1>1, <1>2, <1>3, <1>7, RoutesOfEnds
<1>8. ASSUME NEW h \in Places(g), NEW e \in Range(Ends(h))
      PROVE  e \in Buffers \cup Sinks /\ Routes(h, e) > 0
  <2>1. e \in Range(EndsOf(g)[h])
    BY <1>2
  <2>2. e \in Places(g) /\ g[e].kind \in {"buffer", "sink"} /\ RoutesOf(g)[h][e] > 0
    BY <1>1, <2>1, EndsReached
  <2> QED BY <1>2, <1>3, <2>2
<1>9. ASSUME NEW h \in Places(g), NEW s \in Sinks, g[h].kind = "level"
      PROVE  Routes(h, s) = Routes(Plan.entry, s)
  <2>1. g[s].kind = "sink" /\ s \in Places(g)
    BY <1>3
  <2>2. RoutesOf(g)[h][s] = RoutesOf(g)[Entry(setup)][s]
    BY <1>1, <1>9, <2>1, GateRoutes
  <2> QED BY <1>1, <1>2, <2>2
<1> QED BY <1>1, <1>4, <1>5, <1>6, <1>7, <1>8, <1>9 DEF g

\* By as many routes as its ends have together, a handler leads to a buffer or sink.
LEMMA PlanWeights ==
    ASSUME setup \in Setups, NEW t \in Buffers \cup Sinks
    PROVE  /\ To(t) \in [Handlers -> Nat] /\ \A x \in Handlers : To(t)[x] = Routes(x, t)
           /\ \A h \in Handlers : Weight(To(t), Ends(h)) = Routes(h, t)
<1> DEFINE g == Plan.graph
<1>1. /\ WellFormed(g) /\ Handlers = Places(g) /\ Plan.ends = EndsOf(g) /\ Plan.routes = RoutesOf(g)
  BY PlanParts
<1>2. t \in Places(g) /\ g[t].kind \in {"buffer", "sink"} /\ t \in Handlers
  BY <1>1 DEF Buffers, Sinks, Of, Handlers
<1>3. To(t) \in [Handlers -> Nat] /\ \A x \in Handlers : To(t)[x] = Routes(x, t)
  <2>1. \A x \in Handlers : Routes(x, t) \in Nat
    BY <1>2, PlanTypes
  <2> QED BY <2>1 DEF To
<1>4. To(t) = [x \in Places(g) |-> RoutesOf(g)[x][t]]
  BY <1>1 DEF To, Routes
<1>5. \A h \in Places(g) : Weight(To(t), EndsOf(g)[h]) = RoutesOf(g)[h][t]
  BY <1>1, <1>2, <1>4, RoutesByEnds
<1> QED BY <1>1, <1>3, <1>5 DEF Ends, Routes

\* A buffer that the logger knows, and all that come after it: it knows them, too.
LEMMA KnownBelow ==
    ASSUME setup \in Setups, NEW b \in Buffers, Known(b)
    PROVE  /\ b \in Range(Flushers) /\ b \in Within(b)
           /\ \A e \in Range(Ends(Below(b))) \cap Buffers : Known(e) /\ e \in Within(b)
<1>1. /\ b \in Handlers /\ Routes(b, b) = 1 /\ Buffers \subseteq Handlers /\ Below(b) \in Handlers
      /\ \A h \in Handlers, t \in Handlers : Routes(h, t) \in Nat
  BY PlanTypes, PlanRoutes
<1>2. b \in Within(b)
  BY <1>1 DEF Within, Handlers
<1>3. b \in Range(Flushers)
  BY <1>2 DEF Known
<1>4. ASSUME NEW e \in Range(Ends(Below(b))) \cap Buffers PROVE Known(e) /\ e \in Within(b)
  <2>1. e \in Handlers /\ Routes(Below(b), e) > 0
    BY <1>1, PlanRoutes
  <2>2. Routes(b, e) > 0
    BY <1>1, <2>1, PlanRoutes
  <2>3. Within(e) \subseteq Within(b)
    BY <1>1, <2>1, <2>2, PlanRoutes DEF Within, Handlers
  <2> QED BY <2>1, <2>2, <2>3 DEF Known, Within, Handlers
<1> QED BY <1>2, <1>3, <1>4

-----------------------------------------------------------------------------
(* The order in which the logger visits its buffers.                         *)

\* New's buffer is on top, and collected last; the rest is the walk.
OwnOnTop == setup.use # "override" /\ setup.own
Given == Len(setup.given)
Walk == WalksOf(Plan.graph)[MaxUnwrapDepth + 1][Given]

\* Flushers is the walk and, with a buffer of its own, the entry after it.
LEMMA VisitsParts ==
    ASSUME setup \in Setups
    PROVE  /\ Given \in Places(Plan.graph) /\ Walk \in Seq(Buffers) /\ Plan.entry = Len(Plan.graph)
           /\ ~OwnOnTop => Flushers = Walk
           /\ OwnOnTop =>
                 /\ Plan.entry \in Buffers /\ Flushers = Walk \o <<Plan.entry>>
                 /\ Nexts(Plan.graph, Plan.entry) = <<Plan.entry - 1>>
                 /\ Plan.entry - 1 \in Handlers \ Buffers
                 /\ Nexts(Plan.graph, Plan.entry - 1) = <<Given>>
           /\ ~OwnOnTop /\ setup.use # "override" =>
                 Plan.entry \notin Buffers /\ Nexts(Plan.graph, Plan.entry) = <<Given>>
           /\ setup.use = "override" => Plan.entry = Given
<1> DEFINE g == Plan.graph
<1>1. /\ WellFormed(g) /\ Handlers = Places(g) /\ g = Graph(setup) /\ Plan.entry = Entry(setup)
      /\ Flushers = Collected(setup)
  BY PlanParts DEF Flushers
<1>2. /\ Given > 0 /\ Given \in Nat /\ Given \in Places(setup.given)
  BY SetupParts DEF Given, Places
<1>3. Given \in Places(g) /\ Plan.entry = Len(g) /\ Plan.entry \in Places(g)
  BY <1>1, <1>2, GraphBuilt
<1>4. BuffersIn(g) = Buffers
  BY <1>1 DEF BuffersIn, Buffers, Of, Handlers
<1>5. /\ Walk = CollectFlushers(g, Given) /\ Walk \in Seq(Buffers)
  <2>1. MaxUnwrapDepth + 1 \in 0 .. MaxUnwrapDepth + 1
    BY DEF MaxUnwrapDepth
  <2>2. CollectFlushers(g, Given) = WalksOf(g)[MaxUnwrapDepth + 1][Given]
    BY <1>1, WalksDefined
  <2>3. WalksOf(g)[MaxUnwrapDepth + 1][Given] \in Seq(BuffersIn(g))
    BY <1>1, <1>3, <2>1, WalksDefined
  <2> QED BY <1>4, <2>2, <2>3 DEF Walk
<1>6. Flushers = Walk \o IF OwnOnTop THEN <<Plan.entry>> ELSE << >>
  BY <1>1, <1>5 DEF Collected, OwnOnTop, Given
<1>7. ~OwnOnTop => Flushers = Walk
  <2>1. Walk \o << >> = Walk
    BY <1>5, ConcatEmptySeq
  <2> QED BY <1>6, <2>1
<1>8. CASE OwnOnTop
  <2>1. /\ g[Plan.entry] = Handler("buffer", <<Plan.entry - 1>>)
        /\ g[Plan.entry - 1] = Base(setup) /\ Plan.entry = Given + 2
    BY <1>1, <1>8, GraphBuilt DEF OwnOnTop, Given
  <2>2. g[Plan.entry].kind = "buffer" /\ Nexts(g, Plan.entry) = <<Plan.entry - 1>>
    BY <2>1 DEF Nexts, Handler
  <2>3. Plan.entry \in Buffers
    BY <1>1, <1>3, <2>2 DEF Buffers, Of, Handlers
  <2>4. Plan.entry - 1 \in Handlers
    BY <1>1, <1>2, <1>3, <2>1 DEF Places
  <2>5. g[Plan.entry - 1].kind # "buffer" /\ Nexts(g, Plan.entry - 1) = <<Given>>
    BY <2>1 DEF Base, Nexts, Handler, Given
  <2>6. Plan.entry - 1 \notin Buffers
    BY <2>5 DEF Buffers, Of
  <2> QED BY <1>3, <1>5, <1>6, <1>8, <2>2, <2>3, <2>4, <2>5, <2>6 DEF OwnOnTop
<1>9. CASE ~OwnOnTop /\ setup.use # "override"
  <2>1. g[Plan.entry] = Base(setup)
    BY <1>1, <1>9, GraphBuilt DEF OwnOnTop
  <2>2. g[Plan.entry].kind # "buffer" /\ Nexts(g, Plan.entry) = <<Given>>
    BY <2>1 DEF Base, Nexts, Handler, Given
  <2>3. Plan.entry \notin Buffers
    BY <2>2 DEF Buffers, Of
  <2> QED BY <1>3, <1>5, <1>7, <1>9, <2>2, <2>3
<1>10. CASE setup.use = "override"
  <2>1. Plan.entry = Given
    BY <1>1, <1>3, <1>10, GraphBuilt DEF Given
  <2> QED BY <1>3, <1>5, <1>7, <1>10, <2>1 DEF OwnOnTop
<1> QED BY <1>8, <1>9, <1>10

\* What the walk has in order is visited in order, but for New's buffer.
LEMMA VisitsOrder ==
    ASSUME setup \in Setups, NEW c \in Buffers, NEW d \in Buffers, c # d
    PROVE  /\ Preceded(c, d, Walk) /\ ~(OwnOnTop /\ d = Plan.entry) =>
                 \A i \in Visits(d) : \E j \in Visits(c) : j < i
           /\ Followed(c, d, Walk) /\ ~(OwnOnTop /\ c = Plan.entry) =>
                 \A j \in Visits(c) : \E i \in Visits(d) : j < i
<1> DEFINE n == Len(Walk)
<1>1. Walk \in Seq(Buffers) /\ n \in Nat /\ DOMAIN Walk = 1 .. n
  BY VisitsParts, LenProperties
<1>2. /\ \A i \in 1 .. n : i \in DOMAIN Flushers /\ Flushers[i] = Walk[i]
      /\ \A i \in DOMAIN Flushers : i \in 1 .. n \/ (OwnOnTop /\ Flushers[i] = Plan.entry)
  <2>1. CASE ~OwnOnTop
    BY <1>1, <2>1, VisitsParts
  <2>2. CASE OwnOnTop
    <3>1. PICK q : q = <<Plan.entry>>
      OBVIOUS
    <3>2. q \in Seq(Buffers) /\ Len(q) = 1 /\ q[1] = Plan.entry /\ Flushers = Walk \o q
      BY <2>2, <3>1, VisitsParts
    <3>3. PICK S : S = Buffers
      OBVIOUS
    <3>4. Walk \in Seq(S) /\ q \in Seq(S)
      BY <1>1, <3>2, <3>3
    <3>5. /\ DOMAIN (Walk \o q) = 1 .. n + Len(q)
          /\ \A i \in 1 .. n : (Walk \o q)[i] = Walk[i]
          /\ \A i \in 1 .. Len(q) : (Walk \o q)[n + i] = q[i]
      <4> HIDE DEF n
      <4> QED BY <3>4, ConcatPlaces DEF n
    <3>6. DOMAIN Flushers = 1 .. n + 1 /\ Flushers[n + 1] = Plan.entry
      <4>1. 1 \in 1 .. Len(q)
        BY <3>2
      <4> HIDE DEF n
      <4> QED BY <3>2, <3>5, <4>1
    <3>7. \A i \in 1 .. n + 1 : i \in 1 .. n \/ i = n + 1
      BY <1>1
    <3>8. \A i \in 1 .. n : i \in 1 .. n + 1
      BY <1>1
    <3> HIDE DEF n
    <3> QED BY <2>2, <3>2, <3>5, <3>6, <3>7, <3>8
  <2> QED BY <2>1, <2>2
<1> HIDE DEF n
<1>3. ASSUME Preceded(c, d, Walk), ~(OwnOnTop /\ d = Plan.entry), NEW i \in Visits(d)
      PROVE  \E j \in Visits(c) : j < i
  <2>1. i \in 1 .. n /\ Walk[i] = d
    BY <1>2, <1>3 DEF Visits
  <2>2. PICK j \in 1 .. n : j < i /\ Walk[j] = c
    BY <1>1, <1>3, <2>1 DEF Preceded
  <2> QED BY <1>2, <2>2 DEF Visits
<1>4. ASSUME Followed(c, d, Walk), ~(OwnOnTop /\ c = Plan.entry), NEW j \in Visits(c)
      PROVE  \E i \in Visits(d) : j < i
  <2>1. j \in 1 .. n /\ Walk[j] = c
    BY <1>2, <1>4 DEF Visits
  <2>2. PICK i \in 1 .. n : j < i /\ Walk[i] = d
    BY <1>1, <1>4, <2>1 DEF Followed
  <2> QED BY <1>2, <2>2 DEF Visits
<1> QED BY <1>3, <1>4

\* A buffer's own ends are below it.
LEMMA FeedsBelow ==
    ASSUME setup \in Setups, NEW c \in Buffers, NEW d \in Feeds(c)
    PROVE  /\ d \in Buffers /\ d < c /\ c # d /\ Routes(c, d) > 0
           /\ d # Plan.entry
<1>1. /\ WellFormed(Plan.graph) /\ Handlers = Places(Plan.graph) /\ Plan.entry \in Handlers
      /\ Plan.routes = RoutesOf(Plan.graph) /\ Buffers \subseteq Handlers /\ Handlers \subseteq Nat
      /\ Below(c) \in Handlers /\ Below(c) < c /\ Plan.entry = Len(Plan.graph)
  BY PlanParts, PlanTypes, VisitsParts
<1>2. d \in Buffers /\ Routes(Below(c), d) > 0
  BY <1>1, PlanRoutes DEF Feeds
<1>3. d <= Below(c)
  <2>1. RoutesOf(Plan.graph)[Below(c)][d] > 0
    BY <1>1, <1>2 DEF Routes
  <2> QED BY <1>1, <1>2, <2>1, RoutesDown
<1>4. d \in Nat /\ c \in Nat /\ Below(c) \in Nat /\ c <= Plan.entry
  BY <1>1, <1>2, GraphParts DEF Places
<1>5. d < c /\ d # c /\ d # Plan.entry
  BY <1>1, <1>3, <1>4
<1>6. Routes(c, d) = Routes(Below(c), d)
  BY <1>1, <1>2, <1>5, PlanRoutes
<1> QED BY <1>2, <1>5, <1>6

\* Only the entry leads to the entry.
LEMMA EntryOnTop ==
    ASSUME setup \in Setups, NEW b \in Buffers, Plan.entry \in Within(b)
    PROVE  b = Plan.entry
<1>1. /\ WellFormed(Plan.graph) /\ Handlers = Places(Plan.graph) /\ b \in Places(Plan.graph)
      /\ Plan.entry \in Places(Plan.graph) /\ Plan.entry = Len(Plan.graph)
      /\ RoutesOf(Plan.graph)[b][Plan.entry] > 0
  BY PlanParts, PlanTypes, VisitsParts DEF Within, Routes
<1>2. Plan.entry <= b
  BY <1>1, RoutesDown
<1> QED BY <1>1, <1>2, GraphParts DEF Places

\* A buffer is visited ahead of one that feeds it only when New's own is concerned or
\* there is a way around the one that feeds it (collectFlushers, NewWithError).
LEMMA OvertakenByShortcut ==
    ASSUME setup \in Setups, NEW b \in Buffers, Overtaken(b), ~UnwalkedFrom(b)
    PROVE  Shortcut(b)
<1> DEFINE g == Plan.graph
<1>0. PICK c \in Within(b) \cap Buffers : \E d \in Feeds(c) : \E i \in Visits(d) : \A j \in Visits(c) : i < j
  BY DEF Overtaken
<1>1. PICK d \in Feeds(c) : \E i \in Visits(d) : \A j \in Visits(c) : i < j
  BY <1>0
<1>2. /\ WellFormed(g) /\ Handlers = Places(g) /\ c \in Places(g) /\ g[c].kind = "buffer"
      /\ d \in Places(g) /\ g[d].kind = "buffer" /\ d \in Buffers /\ c # d /\ d # Plan.entry
  <2>1. d \in Buffers /\ c # d /\ d # Plan.entry
    BY <1>1, FeedsBelow
  <2>2. WellFormed(g) /\ Handlers = Places(g)
    BY PlanParts
  <2> QED BY <1>1, <2>1, <2>2 DEF Buffers, Of, Handlers
<1>3. ~(OwnOnTop /\ c = Plan.entry)
  <2> SUFFICES ASSUME OwnOnTop, c = Plan.entry PROVE FALSE
    OBVIOUS
  <2>1. b = Plan.entry
    BY <1>1, EntryOnTop
  <2> QED BY <2>1 DEF UnwalkedFrom, OwnOnTop
<1>4. ~Preceded(c, d, Walk)
  <2> SUFFICES ASSUME Preceded(c, d, Walk) PROVE FALSE
    OBVIOUS
  <2>1. PICK i \in Visits(d) : \A j \in Visits(c) : i < j
    BY <1>1
  <2>2. PICK j \in Visits(c) : j < i
    BY <1>1, <1>2, VisitsOrder
  <2>3. i \in Nat /\ j \in Nat
    BY FlushersType DEF Visits
  <2> QED BY <2>1, <2>2, <2>3
<1> DEFINE rts == RoutesOf(CutAt(g, c))
<1>5. rts[Given][d] > 0
  <2>1. MaxUnwrapDepth + 1 \in 0 .. MaxUnwrapDepth + 1
    BY DEF MaxUnwrapDepth
  <2>2. Given \in Places(g)
    BY VisitsParts
  <2>3. ~(rts[Given][d] > 0) => Preceded(c, d, Walk)
    BY <1>2, <2>1, <2>2, WalkPreceded DEF Walk
  <2> QED BY <1>4, <2>3
<1>6. /\ Downward(CutAt(g, c)) /\ Places(CutAt(g, c)) = Places(g)
      /\ \A h \in Places(g) : h # c => Nexts(CutAt(g, c), h) = Nexts(g, h)
  BY <1>2, CutParts
<1>7. ASSUME NEW h \in Places(g), NEW x \in Places(g), h # c, h # d, Nexts(g, h) = <<x>>, rts[x][d] > 0
      PROVE  rts[h][d] > 0
  <2>1. Nexts(CutAt(g, c), h) = <<x>>
    BY <1>6, <1>7
  <2>2. 1 \in DOMAIN <<x>> /\ <<x>>[1] = x
    OBVIOUS
  <2>3. \E i \in DOMAIN Nexts(CutAt(g, c), h) : rts[Nexts(CutAt(g, c), h)[i]][d] > 0
    BY <1>7, <2>1, <2>2
  <2> QED BY <1>2, <1>6, <1>7, <2>3, RoutesVia
<1>8. rts[Plan.entry][d] > 0
  <2>1. Plan.entry \in Places(g) /\ Given \in Places(g)
    BY <1>2, PlanTypes, VisitsParts
  <2>2. CASE setup.use = "override"
    BY <1>5, <2>2, VisitsParts
  <2>3. CASE ~OwnOnTop /\ setup.use # "override"
    <3>1. Plan.entry # c /\ Nexts(g, Plan.entry) = <<Given>>
      BY <1>1, <2>3, VisitsParts
    <3> QED BY <1>2, <1>5, <1>7, <2>1, <3>1
  <2>4. CASE OwnOnTop
    <3>1. /\ Plan.entry # c /\ Nexts(g, Plan.entry) = <<Plan.entry - 1>>
          /\ Plan.entry - 1 \in Places(g) /\ Plan.entry - 1 # c /\ Plan.entry - 1 # d
          /\ Nexts(g, Plan.entry - 1) = <<Given>>
      BY <1>1, <1>2, <1>3, <2>4, VisitsParts
    <3>2. rts[Plan.entry - 1][d] > 0
      BY <1>5, <1>7, <2>1, <3>1
    <3> QED BY <1>2, <1>7, <2>1, <3>1, <3>2
  <2> QED BY <2>2, <2>3, <2>4
<1> QED BY <1>1, <1>8 DEF Shortcut, CutAt

\* A buffer is not visited again behind one that feeds it only when the logger does
\* not see all that is below (collectFlushers, maxUnwrapDepth, NewWithError).
LEMMA LeftBehindUnwalked ==
    ASSUME setup \in Setups, NEW b \in Buffers, LeftBehind(b)
    PROVE  UnwalkedFrom(b)
<1> DEFINE g == Plan.graph
<1> SUFFICES ASSUME ~UnwalkedFrom(b) PROVE FALSE
  OBVIOUS
<1>0. PICK c \in Within(b) \cap Buffers : \E d \in Feeds(c) : \E j \in Visits(c) : \A i \in Visits(d) : i < j
  BY DEF LeftBehind
<1>1. PICK d \in Feeds(c) : \E j \in Visits(c) : \A i \in Visits(d) : i < j
  BY <1>0
<1>2. /\ WellFormed(g) /\ Handlers = Places(g) /\ Plan.routes = RoutesOf(g) /\ DOMAIN g = Places(g)
      /\ c \in BuffersIn(g) /\ d \in BuffersIn(g) /\ c # d /\ d \in Buffers /\ RoutesOf(g)[c][d] > 0
  <2>1. d \in Buffers /\ c # d /\ Routes(c, d) > 0
    BY <1>1, FeedsBelow
  <2>2. WellFormed(g) /\ Handlers = Places(g) /\ Plan.routes = RoutesOf(g) /\ DOMAIN g = Places(g)
    BY PlanParts DEF Handlers
  <2> QED BY <1>1, <2>1, <2>2 DEF Buffers, Of, BuffersIn, Routes
<1>3. ~(OwnOnTop /\ c = Plan.entry)
  <2> SUFFICES ASSUME OwnOnTop, c = Plan.entry PROVE FALSE
    OBVIOUS
  <2>1. b = Plan.entry
    BY <1>1, EntryOnTop
  <2> QED BY <2>1 DEF UnwalkedFrom, OwnOnTop
<1>4. \A h \in Places(g) : RoutesOf(g)[c][h] > 0 => g[h].kind # "opaque"
  <2>1. b \in Places(g) /\ c \in Places(g) /\ RoutesOf(g)[b][c] > 0
    BY <1>1, <1>2, PlanTypes DEF Within, Routes
  <2>2. \A h \in Places(g) : RoutesOf(g)[b][h] > 0 => g[h].kind # "opaque"
    BY <1>2 DEF UnwalkedFrom, Within, Routes
  <2> QED BY <1>2, <2>1, <2>2, RoutesTransitive
<1>5. Given <= MaxUnwrapDepth + 1 /\ Given \in Places(g) /\ MaxUnwrapDepth + 1 \in 0 .. MaxUnwrapDepth + 1
  <2>1. ~(Len(g) > MaxUnwrapDepth + 1) /\ Len(g) \in Nat
    BY <1>2, GraphParts DEF UnwalkedFrom
  <2>2. Given \in 1 .. Len(g)
    BY VisitsParts DEF Places
  <2> QED BY <2>1, <2>2, VisitsParts DEF MaxUnwrapDepth
<1>6. Followed(c, d, Walk)
  BY <1>2, <1>4, <1>5, WalkFollowed DEF Walk
<1>7. PICK j \in Visits(c) : \A i \in Visits(d) : i < j
  BY <1>1
<1>8. PICK i \in Visits(d) : j < i
  BY <1>1, <1>2, <1>3, <1>6, VisitsOrder
<1>9. i \in Nat /\ j \in Nat
  BY FlushersType DEF Visits
<1> QED BY <1>7, <1>8, <1>9

-----------------------------------------------------------------------------
(* What the steps do to the queues and counters.                             *)

\* The answer to record r is what happens to it.
LEMMA OfferEffect ==
    ASSUME setup \in Setups, BufferTypes, RecordTypes,
           NEW r \in Records, NEW e \in Buffers \cup Sinks, Offer(r, e)
    PROVE  /\ \A b \in Buffers :
                 /\ queue'[b] = IF b = e /\ Answer(e) = "nil" THEN Append(queue[b], r) ELSE queue[b]
                 /\ dropped'[b] = dropped[b] + IF b = e /\ Answer(e) = "full" THEN 1 ELSE 0
                 /\ refused'[b] = refused[b] + IF b = e /\ Answer(e) = "shutdown" THEN 1 ELSE 0
                 /\ b = e => Answer(e) \in {"nil", "full", "shutdown"}
                 /\ b = e /\ ~open[b] => Answer(e) = "shutdown"
           /\ \A s \in Sinks, q \in Records :
                 delivered'[s][q] = delivered[s][q] + IF s = e /\ q = r THEN 1 ELSE 0
           /\ e \in Sinks => Answer(e) = "nil"
<1> DEFINE one(answer) == IF e \in Buffers /\ Answer(e) = answer THEN 1 ELSE 0
<1>1. /\ queue' = IF one("nil") = 1 THEN [queue EXCEPT ![e] = Append(@, r)] ELSE queue
      /\ dropped' = [b \in Buffers |-> dropped[b] + IF b = e THEN one("full") ELSE 0]
      /\ refused' = [b \in Buffers |-> refused[b] + IF b = e THEN one("shutdown") ELSE 0]
      /\ delivered' = IF e \in Sinks THEN [delivered EXCEPT ![e][r] = @ + 1] ELSE delivered
  BY DEF Offer
<1>2. Buffers \cap Sinks = {}
  BY PlanTypes
<1>3. ASSUME NEW b \in Buffers
      PROVE  /\ queue'[b] = IF b = e /\ Answer(e) = "nil" THEN Append(queue[b], r) ELSE queue[b]
             /\ dropped'[b] = dropped[b] + IF b = e /\ Answer(e) = "full" THEN 1 ELSE 0
             /\ refused'[b] = refused[b] + IF b = e /\ Answer(e) = "shutdown" THEN 1 ELSE 0
  <2>1. queue'[b] = IF b = e /\ Answer(e) = "nil" THEN Append(queue[b], r) ELSE queue[b]
    BY <1>1 DEF BufferTypes
  <2>2. dropped'[b] = dropped[b] + IF b = e THEN one("full") ELSE 0
    BY <1>1
  <2>3. refused'[b] = refused[b] + IF b = e THEN one("shutdown") ELSE 0
    BY <1>1
  <2> QED BY <2>1, <2>2, <2>3
<1>4. ASSUME NEW b \in Buffers, b = e
      PROVE  Answer(e) \in {"nil", "full", "shutdown"} /\ (~open[b] => Answer(e) = "shutdown")
  BY <1>2, <1>4 DEF Answer
<1>5. ASSUME NEW s \in Sinks, NEW q \in Records
      PROVE  delivered'[s][q] = delivered[s][q] + IF s = e /\ q = r THEN 1 ELSE 0
  BY <1>1, <1>2 DEF RecordTypes
<1>6. e \in Sinks => Answer(e) = "nil"
  BY DEF Answer
<1> QED BY <1>3, <1>4, <1>5, <1>6

-----------------------------------------------------------------------------
(* The shutdown. What the drainer has been at is shut down and drained.      *)

Drained(b) == ~open[b] /\ hand[b] = Nothing /\ queue[b] = << >>

DrainInv ==
    /\ pc[Drainer] \in {"idle", "close", "await", "done"}
    /\ ~stopping => pc[Drainer] = "idle"
    /\ groupDone => pc[Drainer] = "done"
    /\ pc[Drainer] = "done" => idx[Drainer] > Len(Flushers)
    /\ \A j \in 1 .. Len(Flushers) : j < idx[Drainer] => stopped[Flushers[j]]
    /\ \A b \in Buffers : stopped[b] => Drained(b)
    /\ \A b \in Buffers : ~open[b] =>
          \E j \in Visits(b) : j < idx[Drainer] \/ (j = idx[Drainer] /\ pc[Drainer] = "await")

\* What is drained stays so if no queue but an open one grows and no hand takes
\* anything but from its queue.
LEMMA DrainKept ==
    ASSUME setup \in Setups, UNCHANGED <<setup, stopping, groupDone, open, stopped>>, DrainInv,
           pc'[Drainer] = pc[Drainer], idx'[Drainer] = idx[Drainer],
           \A b \in Buffers : Drained(b) => hand'[b] = Nothing /\ queue'[b] = << >>
    PROVE  DrainInv'
<1>1. /\ UNCHANGED <<Plan, Buffers, Flushers>> /\ \A b \in Buffers : Visits(b)' = Visits(b)
  BY PlanKept DEF Visits
<1>2. /\ pc'[Drainer] \in {"idle", "close", "await", "done"}
      /\ ~stopping' => pc'[Drainer] = "idle"
      /\ groupDone' => pc'[Drainer] = "done"
      /\ pc'[Drainer] = "done" => idx'[Drainer] > Len(Flushers)
      /\ \A j \in 1 .. Len(Flushers) : j < idx'[Drainer] => stopped'[Flushers[j]]
  BY DEF DrainInv
<1>3. \A b \in Buffers : ~open'[b] =>
         \E j \in Visits(b) : j < idx'[Drainer] \/ (j = idx'[Drainer] /\ pc'[Drainer] = "await")
  BY DEF DrainInv
<1>4. \A b \in Buffers : stopped'[b] => Drained(b)'
  BY DEF DrainInv, Drained
<1> QED BY <1>1, <1>2, <1>3, <1>4 DEF DrainInv

\* An offer does not reach a buffer that is shut down.
LEMMA OfferDrained ==
    ASSUME TypeInv, NEW r \in Records, NEW e \in Buffers \cup Sinks, Offer(r, e),
           NEW b \in Buffers, Drained(b)
    PROVE  queue'[b] = << >>
<1>1. setup \in Setups /\ BufferTypes /\ RecordTypes
  BY DEF TypeInv, CallTypes
<1>2. /\ queue'[b] = IF b = e /\ Answer(e) = "nil" THEN Append(queue[b], r) ELSE queue[b]
      /\ b = e /\ ~open[b] => Answer(e) = "shutdown"
  BY <1>1, OfferEffect
<1> QED BY <1>2 DEF Drained

\* Log calls and workers leave what is drained alone.
LEMMA DrainCarry ==
    ASSUME TypeInv, DrainInv,
           \/ \E r \in Records : LogCall(r)
           \/ \E b \in Buffers : WorkerReceive(b) \/ WorkerDeliver(b) \/ WorkerBarrier(b)
    PROVE  DrainInv'
<1>1. setup \in Setups /\ HandTypes /\ BufferTypes /\ RecordTypes /\ TodoInv
  BY DEF TypeInv, CallTypes
<1>2. /\ UNCHANGED <<setup, stopping, groupDone, open, stopped>>
      /\ pc'[Drainer] = pc[Drainer] /\ idx'[Drainer] = idx[Drainer]
  <2>1. Drainer \notin Records
    BY <1>1, Distinct
  <2>2. ASSUME NEW r \in Records, LogCall(r) PROVE <1>2
    BY <2>1, <2>2 DEF LogCall, LogGate, LogEmit, levelVars, groupVars, bufferVars, TypeInv, CallTypes
  <2>3. ASSUME NEW b \in Buffers, WorkerReceive(b) \/ WorkerDeliver(b) \/ WorkerBarrier(b) PROVE <1>2
    BY <2>3 DEF WorkerReceive, WorkerDeliver, WorkerBarrier, levelVars, groupVars, callVars
  <2> QED BY <2>2, <2>3
<1>3. ASSUME NEW b \in Buffers, Drained(b) PROVE hand'[b] = Nothing /\ queue'[b] = << >>
  <2>1. hand[b] = Nothing /\ queue[b] = << >> /\ hand[b].item \notin Records /\ b \notin Records
          /\ b \in Records \cup Buffers
    BY <1>1, <1>3, Distinct DEF Drained, Nothing
  <2>2. ASSUME NEW r \in Records, LogCall(r) PROVE hand'[b] = Nothing /\ queue'[b] = << >>
    <3>1. CASE LogGate(r)
      BY <2>1, <3>1, <1>1 DEF LogGate, bufferVars, HandTypes
    <3>2. CASE LogEmit(r)
      <4>1. Start(r) = Plan.entry /\ r \in Records \cup Buffers
        BY <1>1, StartType
      <4>2. CASE Silence(r, Start(r))
        BY <1>1, <1>2, <2>1, <4>1, <4>2, SilenceTypes
      <4>3. CASE HandOn(r, Start(r))
        <5>1. UNCHANGED <<setup, open, stopped, closed>>
          BY <1>2, <3>2 DEF LogEmit
        <5>2. /\ hand'[b] = hand[b] /\ Offer(hand[r].item, Head(hand[r].todo))
              /\ hand[r].item \in Records /\ Head(hand[r].todo) \in Buffers \cup Sinks
          BY <1>1, <2>1, <4>1, <4>3, <5>1, HandOnTypes
        <5> QED BY <1>3, <2>1, <5>2, OfferDrained
      <4> QED BY <3>2, <4>1, <4>2, <4>3 DEF LogEmit
    <3> QED BY <2>2, <3>1, <3>2 DEF LogCall
  <2>3. ASSUME NEW c \in Buffers, WorkerReceive(c) PROVE hand'[b] = Nothing /\ queue'[b] = << >>
    <3>1. c # b
      BY <2>1, <2>3 DEF WorkerReceive
    <3> QED BY <1>1, <2>1, <2>3, <3>1 DEF WorkerReceive, HandTypes, BufferTypes
  <2>4. ASSUME NEW c \in Buffers, WorkerDeliver(c) PROVE hand'[b] = Nothing /\ queue'[b] = << >>
    <3>1. Start(c) = Below(c) /\ c \in Records \cup Buffers
      BY <1>1, StartType
    <3>2. CASE Silence(c, Start(c))
      BY <1>1, <1>2, <2>1, <3>1, <3>2, SilenceTypes
    <3>3. CASE HandOn(c, Start(c))
      <4>1. UNCHANGED <<setup, open, stopped, closed>>
        BY <1>2, <2>4 DEF WorkerDeliver
      <4>2. /\ c # b => hand'[b] = hand[b]
            /\ Offer(hand[c].item, Head(hand[c].todo))
            /\ hand[c].item \in Records /\ Head(hand[c].todo) \in Buffers \cup Sinks
        BY <1>1, <2>1, <3>1, <3>3, <4>1, HandOnTypes
      <4>3. c # b
        BY <2>1, <4>2
      <4> QED BY <1>3, <2>1, <4>2, <4>3, OfferDrained
    <3> QED BY <2>4, <3>1, <3>2, <3>3 DEF WorkerDeliver
  <2>5. ASSUME NEW c \in Buffers, WorkerBarrier(c) PROVE hand'[b] = Nothing /\ queue'[b] = << >>
    BY <1>1, <2>1, <2>5 DEF WorkerBarrier, HandTypes
  <2> QED BY <2>2, <2>3, <2>4, <2>5
<1> QED BY <1>1, <1>2, <1>3, DrainKept

\* So do the calls of Flush, those that wait for the shutdown, and the level.
LEMMA DrainAside ==
    ASSUME TypeInv, DrainInv,
           \/ \E f \in Flushes : Flush(f)
           \/ \E s \in Shutdowns : ShutdownReturn(s)
           \/ SetLevel \/ (\E c \in Waiters : Expire(c)) \/ UNCHANGED vars
    PROVE  DrainInv'
<1>1. setup \in Setups /\ BufferTypes /\ Drainer \notin Waiters /\ Drainer \notin Flushes
  BY Distinct DEF TypeInv, CallTypes, Waiters
<1>2. /\ UNCHANGED <<setup, stopping, groupDone, open, stopped, hand>>
      /\ pc'[Drainer] = pc[Drainer] /\ idx'[Drainer] = idx[Drainer]
      /\ \A b \in Buffers : Drained(b) => queue'[b] = << >>
  <2>1. ASSUME NEW f \in Flushes, Flush(f) PROVE <1>2
    <3>1. UNCHANGED <<setup, stopping, groupDone, open, stopped, hand>>
      BY <2>1 DEF Flush, FlushGate, FlushEnqueue, FlushRefused, FlushReached, FlushExpired,
                  levelVars, groupVars, bufferVars
    <3>2. pc'[Drainer] = pc[Drainer]
      BY <1>1, <2>1 DEF Flush, FlushGate, FlushEnqueue, FlushRefused, FlushReached, FlushExpired,
                  FlushVisited, TypeInv, CallTypes
    <3>3. idx'[Drainer] = idx[Drainer]
      BY <1>1, <2>1 DEF Flush, FlushGate, FlushEnqueue, FlushRefused, FlushReached, FlushExpired,
                  FlushVisited, Advance, TypeInv, CallTypes, Visitors
    <3>4. ASSUME NEW b \in Buffers, Drained(b) PROVE queue'[b] = << >>
      <4>1. UNCHANGED queue \/ FlushEnqueue(f)
        BY <2>1 DEF Flush, FlushGate, FlushRefused, FlushReached, FlushExpired, bufferVars
      <4>2. CASE FlushEnqueue(f)
        <5>1. Flushers[idx[f]] # b
          BY <3>4, <4>2 DEF FlushEnqueue, Drained
        <5> QED BY <3>4, <4>2, <5>1 DEF FlushEnqueue, Drained, TypeInv, BufferTypes
      <4> QED BY <3>4, <4>1, <4>2 DEF Drained
    <3> QED BY <3>1, <3>2, <3>3, <3>4
  <2>2. ASSUME NEW s \in Shutdowns, ShutdownReturn(s) PROVE <1>2
    <3>1. s # Drainer
      BY <1>1 DEF Waiters
    <3> QED BY <2>2, <3>1 DEF ShutdownReturn, levelVars, groupVars, bufferVars, TypeInv, CallTypes,
                              Drained
  <2>3. CASE SetLevel \/ (\E c \in Waiters : Expire(c)) \/ UNCHANGED vars
    BY <2>3 DEF SetLevel, Expire, vars, levelVars, callVars, groupVars, bufferVars, Drained
  <2> QED BY <2>1, <2>2, <2>3
<1> QED BY <1>1, <1>2, DrainKept DEF Drained

\* The worker exits, when it has drained its queue.
LEMMA DrainExit ==
    ASSUME TypeInv, DrainInv, NEW b \in Buffers, WorkerExit(b)
    PROVE  DrainInv'
<1>1. /\ UNCHANGED <<setup, pc, idx, stopping, groupDone, open, queue, hand>>
      /\ ~open[b] /\ hand[b] = Nothing /\ queue[b] = << >> /\ stopped' = [stopped EXCEPT ![b] = TRUE]
  BY DEF WorkerExit, levelVars, callVars, groupVars
<1>2. UNCHANGED <<Plan, Buffers, Flushers>> /\ \A c \in Buffers : Visits(c)' = Visits(c)
  BY <1>1, PlanKept DEF Visits
<1>3. \A c \in Buffers : stopped'[c] <=> stopped[c] \/ c = b
  BY <1>1 DEF TypeInv, BufferTypes
<1>4. \A j \in 1 .. Len(Flushers) : Flushers[j] \in Buffers
  BY FlushersType DEF TypeInv, CallTypes
<1>5. \A c \in Buffers : stopped'[c] => Drained(c)'
  BY <1>1, <1>3 DEF DrainInv, Drained
<1>6. \A j \in 1 .. Len(Flushers) : j < idx'[Drainer] => stopped'[Flushers[j]]
  BY <1>1, <1>3, <1>4 DEF DrainInv
<1> QED BY <1>1, <1>2, <1>5, <1>6 DEF DrainInv

\* The first Shutdown starts the drainer.
LEMMA DrainStart ==
    ASSUME TypeInv, DrainInv, NEW s \in Shutdowns, ShutdownStart(s)
    PROVE  DrainInv'
<1>1. /\ UNCHANGED <<setup, idx, groupDone, open, stopped, queue, hand>> /\ stopping' = TRUE
      /\ pc' = [pc EXCEPT ![s] = "wait", ![Drainer] = IF stopping THEN @ ELSE "close"]
  BY DEF ShutdownStart, levelVars, bufferVars
<1>2. UNCHANGED <<Plan, Buffers, Flushers>> /\ \A c \in Buffers : Visits(c)' = Visits(c)
  BY <1>1, PlanKept DEF Visits
<1>3. pc'[Drainer] = IF stopping THEN pc[Drainer] ELSE "close"
  <2>1. s # Drainer
    BY Distinct DEF TypeInv, CallTypes, Waiters
  <2> QED BY <1>1, <2>1 DEF TypeInv, CallTypes
<1>4. /\ pc'[Drainer] \in {"idle", "close", "await", "done"}
      /\ groupDone => pc'[Drainer] = "done"
      /\ pc'[Drainer] = "done" => idx[Drainer] > Len(Flushers)
      /\ pc[Drainer] = "await" => pc'[Drainer] = "await"
  BY <1>3 DEF DrainInv
<1>5. \A c \in Buffers : Drained(c)' <=> Drained(c)
  BY <1>1 DEF Drained
<1>6. \A c \in Buffers : ~open[c] =>
         \E j \in Visits(c) : j < idx[Drainer] \/ (j = idx[Drainer] /\ pc'[Drainer] = "await")
  BY <1>4 DEF DrainInv
<1>7. /\ \A j \in 1 .. Len(Flushers) : j < idx[Drainer] => stopped[Flushers[j]]
      /\ \A b \in Buffers : stopped[b] => Drained(b)
  BY DEF DrainInv
<1>8. DrainInv' <=>
        /\ pc'[Drainer] \in {"idle", "close", "await", "done"}
        /\ ~stopping' => pc'[Drainer] = "idle"
        /\ groupDone => pc'[Drainer] = "done"
        /\ pc'[Drainer] = "done" => idx[Drainer] > Len(Flushers)
        /\ \A j \in 1 .. Len(Flushers) : j < idx[Drainer] => stopped[Flushers[j]]
        /\ \A b \in Buffers : stopped[b] => Drained(b)
        /\ \A b \in Buffers : ~open[b] =>
              \E j \in Visits(b) : j < idx[Drainer] \/ (j = idx[Drainer] /\ pc'[Drainer] = "await")
  BY <1>1, <1>2, <1>5 DEF DrainInv
<1> QED BY <1>1, <1>4, <1>6, <1>7, <1>8

\* The drainer closes a buffer, waits for its worker, and goes on.
LEMMA DrainDrain ==
    ASSUME TypeInv, DrainInv, Drain
    PROVE  DrainInv'
<1> DEFINE b == Flushers[idx[Drainer]]
           j == idx[Drainer]
<1>1. /\ UNCHANGED <<setup, stopping, stopped, queue, hand>> /\ Drainer \in Visitors
      /\ setup \in Setups
  BY DEF Drain, DrainClose, DrainVisited, DrainDone, levelVars, groupVars, bufferVars, Visitors,
         TypeInv, CallTypes
<1>2. UNCHANGED <<Plan, Buffers, Flushers>> /\ \A c \in Buffers : Visits(c)' = Visits(c)
  BY <1>1, PlanKept DEF Visits
<1>3. /\ j \in 1 .. Len(Flushers) + 1 /\ Len(Flushers) \in Nat /\ DOMAIN Flushers = 1 .. Len(Flushers)
      /\ \A i \in 1 .. Len(Flushers) : Flushers[i] \in Buffers
  BY <1>1, FlushersType DEF TypeInv, CallTypes
<1> HIDE DEF j
<1>4. CASE DrainClose
  <2>1. /\ open' = [open EXCEPT ![b] = FALSE] /\ pc[Drainer] = "close" /\ j <= Len(Flushers)
        /\ pc'[Drainer] = "await" /\ UNCHANGED <<idx, groupDone>>
    BY <1>4 DEF DrainClose, groupVars, TypeInv, CallTypes, j
  <2>2. b \in Buffers /\ j \in Visits(b)
    BY <1>3, <2>1 DEF Visits, j
  <2>3. \A c \in Buffers : open'[c] <=> open[c] /\ c # b
    BY <2>1 DEF TypeInv, BufferTypes
  <2>4. \A c \in Buffers : ~open'[c] =>
           \E i \in Visits(c) : i < idx'[Drainer] \/ (i = idx'[Drainer] /\ pc'[Drainer] = "await")
    <3>1. ASSUME NEW c \in Buffers, ~open'[c]
          PROVE  \E i \in Visits(c) : i < idx'[Drainer] \/ (i = idx'[Drainer] /\ pc'[Drainer] = "await")
      <4>1. CASE c = b
        BY <2>1, <2>2, <4>1 DEF j
      <4>2. CASE c # b
        BY <2>1, <2>3, <3>1, <4>2 DEF DrainInv
      <4> QED BY <4>1, <4>2
    <3> QED BY <3>1
  <2>5. \A c \in Buffers : stopped'[c] => Drained(c)'
    BY <1>1, <2>3 DEF DrainInv, Drained
  <2>6. /\ pc'[Drainer] \in {"idle", "close", "await", "done"}
        /\ ~stopping' => pc'[Drainer] = "idle"
        /\ groupDone' => pc'[Drainer] = "done"
        /\ pc'[Drainer] = "done" => idx'[Drainer] > Len(Flushers)
        /\ \A i \in 1 .. Len(Flushers) : i < idx'[Drainer] => stopped'[Flushers[i]]
    BY <1>1, <2>1 DEF DrainInv
  <2> HIDE DEF b
  <2> QED BY <1>2, <2>4, <2>5, <2>6 DEF DrainInv
<1>5. CASE DrainVisited
  <2>1. /\ pc[Drainer] = "await" /\ stopped[b] /\ idx'[Drainer] = j + 1 /\ pc'[Drainer] = "close"
        /\ UNCHANGED <<groupDone, open>>
    BY <1>1, <1>5 DEF DrainVisited, Advance, groupVars, TypeInv, CallTypes, j
  <2>2. \A i \in 1 .. Len(Flushers) : i < j + 1 => i < j \/ i = j
    BY <1>3
  <2>3. \A i \in 1 .. Len(Flushers) : i < idx'[Drainer] => stopped'[Flushers[i]]
    BY <1>1, <2>1, <2>2 DEF DrainInv, j
  <2>4. \A c \in Buffers : ~open'[c] =>
           \E i \in Visits(c) : i < idx'[Drainer] \/ (i = idx'[Drainer] /\ pc'[Drainer] = "await")
    <3>1. ASSUME NEW c \in Buffers, ~open'[c]
          PROVE  \E i \in Visits(c) : i < idx'[Drainer] \/ (i = idx'[Drainer] /\ pc'[Drainer] = "await")
      <4>1. PICK i \in Visits(c) : i < j \/ i = j
        BY <2>1, <3>1 DEF DrainInv, j
      <4>2. i \in Nat /\ j \in Nat
        BY <1>3, <4>1 DEF Visits
      <4>3. i < j + 1
        BY <4>1, <4>2
      <4> QED BY <2>1, <4>3
    <3> QED BY <3>1
  <2>5. \A c \in Buffers : stopped'[c] => Drained(c)'
    BY <1>1, <2>1 DEF DrainInv, Drained
  <2>6. /\ pc'[Drainer] \in {"idle", "close", "await", "done"}
        /\ ~stopping' => pc'[Drainer] = "idle"
        /\ groupDone' => pc'[Drainer] = "done"
        /\ pc'[Drainer] = "done" => idx'[Drainer] > Len(Flushers)
    BY <1>1, <2>1 DEF DrainInv
  <2> QED BY <1>2, <2>3, <2>4, <2>5, <2>6 DEF DrainInv
<1>6. CASE DrainDone
  <2>1. /\ pc[Drainer] = "close" /\ idx[Drainer] > Len(Flushers) /\ pc'[Drainer] = "done"
        /\ UNCHANGED <<idx, open>>
    BY <1>6 DEF DrainDone, bufferVars, TypeInv, CallTypes
  <2> QED BY <1>1, <1>2, <2>1 DEF DrainInv, Drained
<1> QED BY <1>4, <1>5, <1>6 DEF Drain

\* What the drainer has been at is shut down and drained, at the start...
LEMMA DrainInit ==
    ASSUME Init
    PROVE  DrainInv
<1>1. setup \in Setups /\ Drainer \in Visitors /\ Len(Flushers) \in Nat
  BY FlushersType DEF Init, Visitors
<1>2. pc[Drainer] = "idle" /\ idx[Drainer] = 1 /\ stopping = FALSE /\ groupDone = FALSE
  BY <1>1 DEF Init
<1>3. \A b \in Buffers : open[b] /\ ~stopped[b]
  BY DEF Init
<1>4. \A j \in 1 .. Len(Flushers) : ~(j < 1)
  BY <1>1
<1> QED BY <1>2, <1>3, <1>4 DEF DrainInv

\* ...and after every step.
LEMMA DrainNext ==
    ASSUME TypeInv, DrainInv, [Next]_vars
    PROVE  DrainInv'
BY DrainCarry, DrainAside, DrainExit, DrainStart, DrainDrain
   DEF Next, Worker, Shutdown, Quiescent

-----------------------------------------------------------------------------
(* If all that a record can reach is buffers the logger knows, those are all *)
(* that records are in; and when the drainer is done, no buffer has one.     *)

AllKnown == \A e \in Range(Ends(Plan.entry)) : e \in Buffers /\ Known(e)
HasRecord(b) == hand[b].item \in Records \/ Range(queue[b]) \cap Records # {}
KnownFlow == AllKnown => \A b \in Buffers : HasRecord(b) => Known(b)

\* What is in a sequence after it grows or shrinks.
LEMMA RangeChange ==
    ASSUME NEW S, NEW p \in Seq(S), NEW x \in S
    PROVE  /\ Range(Append(p, x)) = Range(p) \cup {x}
           /\ p # << >> => Head(p) \in Range(p) /\ Range(Tail(p)) \subseteq Range(p)
<1>1. Len(p) \in Nat /\ DOMAIN p = 1 .. Len(p)
  BY LenProperties
<1>2. /\ DOMAIN Append(p, x) = 1 .. Len(p) + 1 /\ (\A i \in 1 .. Len(p) : Append(p, x)[i] = p[i])
      /\ Append(p, x)[Len(p) + 1] = x
  BY AppendProperties, LenProperties
<1>3. \A i \in 1 .. Len(p) + 1 : i \in 1 .. Len(p) \/ i = Len(p) + 1
  BY <1>1
<1>4. (\A i \in 1 .. Len(p) : i \in 1 .. Len(p) + 1) /\ Len(p) + 1 \in 1 .. Len(p) + 1
  BY <1>1
<1>5. Range(Append(p, x)) = Range(p) \cup {x}
  BY <1>1, <1>2, <1>3, <1>4, Zenon DEF Range
<1>6. p # << >> => Head(p) \in Range(p) /\ Range(Tail(p)) \subseteq Range(p)
  BY NextEnd
<1> QED BY <1>5, <1>6

\* A record that is offered is in the buffer that takes it, and in no other.
LEMMA OfferRange ==
    ASSUME TypeInv, NEW r \in Records, NEW e \in Buffers \cup Sinks, Offer(r, e), NEW b \in Buffers
    PROVE  Range(queue'[b]) \cap Records # {} => Range(queue[b]) \cap Records # {} \/ b = e
<1>1. setup \in Setups /\ BufferTypes /\ RecordTypes
  BY DEF TypeInv, CallTypes
<1>2. queue'[b] = IF b = e /\ Answer(e) = "nil" THEN Append(queue[b], r) ELSE queue[b]
  BY <1>1, OfferEffect
<1> QED BY <1>2

\* Records come into a buffer from a log call or from a buffer that has one.
LEMMA RecordsCome ==
    ASSUME TypeInv, [Next]_vars, NEW b \in Buffers, HasRecord(b)'
    PROVE  \/ HasRecord(b) \/ b \in Range(Ends(Plan.entry))
           \/ \E c \in Buffers : HasRecord(c) /\ b \in Range(Ends(Below(c)))
<1>1. setup \in Setups /\ HandTypes /\ BufferTypes /\ RecordTypes /\ TodoInv
        /\ b \in Records \cup Buffers /\ b \notin Records /\ Records \cap Barriers = {}
        /\ None \notin Records
  BY Distinct DEF TypeInv, CallTypes
<1>2. HasRecord(b)' <=> hand'[b].item \in Records \/ Range(queue'[b]) \cap Records # {}
  BY DEF HasRecord
<1> DEFINE Goal == \/ HasRecord(b) \/ b \in Range(Ends(Plan.entry))
                   \/ \E c \in Buffers : HasRecord(c) /\ b \in Range(Ends(Below(c)))
<1>3. ASSUME hand'[b] = hand[b], queue'[b] = queue[b] PROVE Goal
  BY <1>2, <1>3 DEF HasRecord
<1>4. Nothing.item \notin Records
  BY <1>1 DEF Nothing
<1>5. ASSUME NEW r \in Records, LogCall(r) PROVE Goal
  <2>1. CASE LogGate(r)
    <3>1. hand'[b] = hand[b] /\ queue'[b] = queue[b]
      BY <1>1, <2>1 DEF LogGate, bufferVars, HandTypes
    <3> QED BY <1>3, <3>1
  <2>2. CASE LogEmit(r)
    <3>1. Start(r) = Plan.entry /\ r \in Records \cup Buffers /\ UNCHANGED <<setup, open, stopped, closed>>
      BY <1>1, <2>2, StartType DEF LogEmit, levelVars
    <3>2. CASE Silence(r, Start(r))
      <4>1. hand'[b] = hand[b] /\ queue'[b] = queue[b]
        BY <1>1, <3>1, <3>2, SilenceTypes
      <4> QED BY <1>3, <4>1
    <3>3. CASE HandOn(r, Start(r))
      <4>1. /\ hand'[b] = hand[b] /\ Offer(hand[r].item, Head(hand[r].todo))
            /\ hand[r].item \in Records /\ Head(hand[r].todo) \in Buffers \cup Sinks
            /\ Head(hand[r].todo) \in Range(Ends(Start(r)))
        BY <1>1, <3>1, <3>3, HandOnTypes
      <4> QED BY <1>2, <3>1, <4>1, OfferRange DEF HasRecord
    <3> QED BY <2>2, <3>1, <3>2, <3>3 DEF LogEmit
  <2> QED BY <1>5, <2>1, <2>2 DEF LogCall
<1>6. ASSUME NEW c \in Buffers, Worker(c) PROVE Goal
  <2>0. Start(c) = Below(c) /\ c \in Records \cup Buffers
    BY <1>1, StartType
  <2>1. CASE WorkerReceive(c)
    <3>1. /\ hand' = [hand EXCEPT ![c] = InHand(Head(queue[c]), Below(c))] /\ queue[c] # << >>
          /\ queue' = [queue EXCEPT ![c] = Tail(@)]
      BY <2>1 DEF WorkerReceive
    <3>2. CASE c = b
      <4>1. queue[b] \in Seq(Records \cup Barriers)
        BY <1>1 DEF BufferTypes
      <4>2. Head(queue[b]) \in Range(queue[b]) /\ Range(Tail(queue[b])) \subseteq Range(queue[b])
        BY <3>1, <3>2, <4>1, NextEnd
      <4>3. hand'[b].item = Head(queue[b]) /\ queue'[b] = Tail(queue[b])
        BY <1>1, <3>1, <3>2 DEF HandTypes, BufferTypes, InHand
      <4> QED BY <1>2, <4>2, <4>3 DEF HasRecord
    <3>3. CASE c # b
      <4>1. hand'[b] = hand[b] /\ queue'[b] = queue[b]
        BY <1>1, <3>1, <3>3 DEF HandTypes, BufferTypes
      <4> QED BY <1>3, <4>1
    <3> QED BY <3>2, <3>3
  <2>2. CASE WorkerDeliver(c)
    <3>1. UNCHANGED <<setup, open, stopped, closed>>
      BY <2>2 DEF WorkerDeliver, levelVars
    <3>2. CASE Silence(c, Start(c))
      <4>1. queue'[b] = queue[b] /\ (c # b => hand'[b] = hand[b]) /\ hand'[c].item \notin Records
        BY <1>1, <1>4, <2>0, <3>1, <3>2, SilenceTypes
      <4> QED BY <1>2, <4>1 DEF HasRecord
    <3>3. CASE HandOn(c, Start(c))
      <4>1. /\ c # b => hand'[b] = hand[b]
            /\ Offer(hand[c].item, Head(hand[c].todo))
            /\ hand[c].item \in Records /\ Head(hand[c].todo) \in Buffers \cup Sinks
            /\ Head(hand[c].todo) \in Range(Ends(Start(c)))
        BY <1>1, <2>0, <3>1, <3>3, HandOnTypes
      <4>2. HasRecord(c)
        BY <4>1 DEF HasRecord
      <4> QED BY <1>2, <2>0, <4>1, <4>2, OfferRange DEF HasRecord
    <3> QED BY <2>0, <2>2, <3>2, <3>3 DEF WorkerDeliver
  <2>3. CASE WorkerBarrier(c)
    <3>1. queue'[b] = queue[b] /\ (c # b => hand'[b] = hand[b]) /\ hand'[c].item \notin Records
      BY <1>1, <1>4, <2>0, <2>3 DEF WorkerBarrier, HandTypes
    <3> QED BY <1>2, <3>1 DEF HasRecord
  <2>4. CASE WorkerExit(c)
    BY <1>3, <2>4 DEF WorkerExit
  <2> QED BY <1>6, <2>1, <2>2, <2>3, <2>4 DEF Worker
<1>7. ASSUME NEW f \in Flushes, Flush(f) PROVE Goal
  <2>1. UNCHANGED hand
    BY <1>7 DEF Flush, FlushGate, FlushEnqueue, FlushRefused, FlushReached, FlushExpired
  <2>2. CASE FlushEnqueue(f)
    <3>1. queue' = [queue EXCEPT ![Flushers[idx[f]]] = Append(@, Barrier(f))]
      BY <2>2 DEF FlushEnqueue
    <3>2. idx[f] \in 1 .. Len(Flushers) + 1 /\ idx[f] <= Len(Flushers)
      BY <2>2 DEF FlushEnqueue, TypeInv, CallTypes, PlaceInv, Visitors
    <3>3. Barrier(f) \in Barriers
      BY <1>1, <3>2, FlushersType DEF Barrier, Barriers
    <3>4. queue[b] \in Seq(Records \cup Barriers)
      BY <1>1 DEF BufferTypes
    <3>5. Range(Append(queue[b], Barrier(f))) = Range(queue[b]) \cup {Barrier(f)}
      BY <3>3, <3>4, RangeChange
    <3>6. queue'[b] = queue[b] \/ queue'[b] = Append(queue[b], Barrier(f))
      BY <1>1, <3>1 DEF BufferTypes
    <3> QED BY <1>1, <1>2, <2>1, <3>3, <3>5, <3>6 DEF HasRecord
  <2>3. UNCHANGED queue \/ FlushEnqueue(f)
    BY <1>7 DEF Flush, FlushGate, FlushRefused, FlushReached, FlushExpired, bufferVars
  <2> QED BY <1>3, <2>1, <2>2, <2>3
<1>8. ASSUME UNCHANGED <<hand, queue>> PROVE Goal
  BY <1>3, <1>8
<1>9. CASE \/ \E s \in Shutdowns : Shutdown(s)
           \/ SetLevel \/ Drain \/ (\E c \in Waiters : Expire(c)) \/ UNCHANGED vars
  <2>1. UNCHANGED <<hand, queue>>
    BY <1>9 DEF Shutdown, ShutdownStart, ShutdownReturn, SetLevel, Drain, DrainClose, DrainVisited,
                DrainDone, Expire, vars, bufferVars
  <2> QED BY <1>8, <2>1
<1> QED BY <1>5, <1>6, <1>7, <1>9 DEF Next, Quiescent

\* Records stay among the buffers the logger knows.
LEMMA KnownFlowNext ==
    ASSUME TypeInv, KnownFlow, [Next]_vars
    PROVE  KnownFlow'
<1>1. /\ UNCHANGED <<setup, Plan, Handlers, Buffers, Flushers>> /\ setup \in Setups
      /\ \A h : Ends(h)' = Ends(h) /\ Below(h)' = Below(h)
      /\ \A h, t : Routes(h, t)' = Routes(h, t)
  BY SetupKept, PlanKept DEF TypeInv, CallTypes
<1>2. \A b : Known(b)' <=> Known(b)
  <2>1. \A b : Within(b)' = Within(b)
    BY <1>1 DEF Within
  <2> QED BY <1>1, <2>1 DEF Known
<1>3. AllKnown' <=> AllKnown
  BY <1>1, <1>2 DEF AllKnown
<1>4. ASSUME AllKnown, NEW b \in Buffers, HasRecord(b)' PROVE Known(b)
  <2>1. \A c \in Buffers : HasRecord(c) => Known(c)
    BY <1>4 DEF KnownFlow
  <2>2. b \in Range(Ends(Plan.entry)) => Known(b)
    BY <1>4 DEF AllKnown
  <2>3. ASSUME NEW c \in Buffers, Known(c), b \in Range(Ends(Below(c))) PROVE Known(b)
    BY <1>1, <2>3, KnownBelow
  <2> QED BY <1>4, <2>1, <2>2, <2>3, RecordsCome
<1> QED BY <1>1, <1>2, <1>3, <1>4 DEF KnownFlow

\* Types, the drain and where records are, together.
ShutdownInv == TypeInv /\ DrainInv /\ KnownFlow

\* They hold together in every reachable state.
LEMMA ShutdownInvariant == Spec => []ShutdownInv
<1>1. Init => ShutdownInv
  <2> SUFFICES ASSUME Init PROVE KnownFlow
    BY InitTypes, DrainInit DEF ShutdownInv
  <2>1. None \notin Records
    BY Distinct DEF Init
  <2>2. \A b \in Buffers : hand[b] = Nothing /\ queue[b] = << >>
    BY DEF Init
  <2>3. Range(<< >>) = {}
    BY DEF Range
  <2>4. \A b \in Buffers : ~HasRecord(b)
    BY <2>1, <2>2, <2>3 DEF HasRecord, Nothing
  <2> QED BY <2>4 DEF KnownFlow
<1>2. ShutdownInv /\ [Next]_vars => ShutdownInv'
  BY NextTypes, DrainNext, KnownFlowNext DEF ShutdownInv
<1> QED BY <1>1, <1>2, PTL DEF Spec

\* When the drainer is done, a buffer that the logger knows is shut down and drained.
LEMMA DoneDrained ==
    ASSUME ShutdownInv, groupDone, NEW b \in Buffers, Known(b)
    PROVE  Drained(b)
<1>1. setup \in Setups /\ b \in Range(Flushers)
  BY KnownBelow DEF ShutdownInv, TypeInv, CallTypes
<1>2. PICK j \in 1 .. Len(Flushers) : Flushers[j] = b
  BY <1>1, FlushersType DEF Range
<1>3. idx[Drainer] > Len(Flushers) /\ idx[Drainer] \in Nat /\ Len(Flushers) \in Nat
  BY <1>1, FlushersType DEF ShutdownInv, DrainInv, TypeInv, CallTypes, Visitors
<1>4. j < idx[Drainer]
  BY <1>3
<1> QED BY <1>2, <1>4 DEF ShutdownInv, DrainInv

\* The end of a shutdown is final: when all that a record can reach is buffers the
\* logger knows, no step after it delivers or accepts anything, whatever log call was
\* past the gate, and the group's error stays what it is (lifecycleGroup.shutdown,
\* logRateAware, BufferedHandler.Handle).
THEOREM DoneStaysFinal == Spec => DoneIsFinal
<1>1. ASSUME ShutdownInv, [Next]_vars, groupDone, AllKnown
      PROVE  UNCHANGED <<delivered, accepted, groupErr>>
  <2>1. setup \in Setups /\ HandTypes /\ BufferTypes /\ RecordTypes /\ TodoInv /\ TypeInv
    BY <1>1 DEF ShutdownInv, TypeInv, CallTypes
  <2>2. \A b \in Buffers : HasRecord(b) => Drained(b)
    BY <1>1, DoneDrained DEF ShutdownInv, KnownFlow
  <2>3. \A b \in Buffers : hand[b].item \notin Records
    <3>1. Nothing.item \notin Records
      BY <2>1, Distinct DEF Nothing
    <3> QED BY <2>2, <3>1 DEF HasRecord, Drained
  <2>4. ASSUME NEW r \in Records, LogEmit(r) PROVE UNCHANGED <<delivered, accepted, groupErr>>
    <3>1. /\ Start(r) = Plan.entry /\ r \in Records \cup Buffers
          /\ UNCHANGED <<setup, open, stopped, closed, groupErr>>
      BY <2>1, <2>4, StartType DEF LogEmit, levelVars, groupVars
    <3>2. CASE Silence(r, Start(r)) /\ UNCHANGED accepted
      BY <2>1, <3>1, <3>2, SilenceTypes
    <3>3. CASE /\ HandOn(r, Start(r))
               /\ accepted' = IF Head(hand[r].todo) \in Buffers /\ Answer(Head(hand[r].todo)) = "nil"
                              THEN [accepted EXCEPT ![Head(hand[r].todo)][r] = @ + 1] ELSE accepted
      <4> DEFINE e == Head(hand[r].todo)
      <4>1. Offer(hand[r].item, e) /\ hand[r].item \in Records /\ e \in Range(Ends(Plan.entry))
              /\ e \in Buffers \cup Sinks
        BY <2>1, <3>1, <3>3, HandOnTypes
      <4>2. e \in Buffers /\ Known(e)
        BY <1>1, <4>1 DEF AllKnown
      <4>3. ~open[e]
        BY <1>1, <4>2, DoneDrained DEF Drained
      <4>4. Answer(e) = "shutdown" /\ e \notin Sinks
        BY <2>1, <4>2, <4>3, PlanTypes DEF Answer
      <4>5. delivered' = delivered
        BY <4>1, <4>4 DEF Offer
      <4> QED BY <3>1, <3>3, <4>4, <4>5
    <3> QED BY <2>4, <3>1, <3>2, <3>3 DEF LogEmit
  <2>5. ASSUME NEW r \in Records, LogGate(r) PROVE UNCHANGED <<delivered, accepted, groupErr>>
    BY <2>5 DEF LogGate, recordVars, groupVars
  <2>6. ASSUME NEW b \in Buffers, Worker(b) PROVE UNCHANGED <<delivered, accepted, groupErr>>
    BY <2>3, <2>6 DEF Worker, WorkerReceive, WorkerDeliver, WorkerBarrier, WorkerExit, Silence, HandOn,
                      recordVars, groupVars
  <2>7. ASSUME Drain PROVE UNCHANGED <<delivered, accepted, groupErr>>
    <3>1. pc[Drainer] = "done"
      BY <1>1 DEF ShutdownInv, DrainInv
    <3> QED BY <2>7, <3>1 DEF Drain, DrainClose, DrainVisited, DrainDone
  <2>8. CASE \/ \E f \in Flushes : Flush(f)
             \/ \E s \in Shutdowns : Shutdown(s)
             \/ SetLevel \/ (\E c \in Waiters : Expire(c)) \/ UNCHANGED vars
    BY <2>8 DEF Flush, FlushGate, FlushEnqueue, FlushRefused, FlushReached, FlushExpired,
                Shutdown, ShutdownStart, ShutdownReturn, SetLevel, Expire, vars, recordVars, groupVars
  <2> QED BY <1>1, <2>4, <2>5, <2>6, <2>7, <2>8 DEF Next, Quiescent, LogCall
<1>2. ShutdownInv /\ [Next]_vars =>
         [groupDone /\ (\A e \in Range(Ends(Plan.entry)) : e \in Buffers /\ Known(e))
            => UNCHANGED <<delivered, accepted, groupErr>>]_vars
  BY <1>1 DEF AllKnown
<1> QED BY <1>2, ShutdownInvariant, PTL DEF Spec, DoneIsFinal

-----------------------------------------------------------------------------
(* The account. Every record is counted, to each sink, by as many routes as  *)
(* lead there from where it is.                                              *)

Submitted == Cardinality({r \in Records : pc[r] \in {"emit", "done"}})
HeldIn(b) == Occurrences(Records, queue[b]) + dropped[b] + refused[b]
HeldTo(s) == Total([b \in Buffers |-> HeldIn(b) * Routes(b, s)], Buffers)
TransitOf(x, s) == Weight(To(s), hand[x].todo)
TransitTo(s) == Total([x \in Records \cup Buffers |-> TransitOf(x, s)], Records \cup Buffers)
DeliveredTo(s) == Total(delivered[s], Records)
StoppedInAll == rejected + Total(silenced, Records)

Accounted(s) ==
    Submitted * Routes(Plan.entry, s)
      = DeliveredTo(s) + StoppedInAll * Routes(Plan.entry, s) + HeldTo(s) + TransitTo(s)

\* The terms of the account are numbers.
LEMMA AccountTypes ==
    ASSUME TypeInv, NEW s \in Sinks
    PROVE  /\ Submitted \in Nat /\ DeliveredTo(s) \in Int /\ StoppedInAll \in Int
           /\ HeldTo(s) \in Int /\ TransitTo(s) \in Int /\ Routes(Plan.entry, s) \in Nat
           /\ \A b \in Buffers : HeldIn(b) \in Nat /\ Routes(b, s) \in Nat
           /\ \A x \in Records \cup Buffers : TransitOf(x, s) \in Nat
<1>1. setup \in Setups /\ HandTypes /\ BufferTypes /\ RecordTypes /\ CallTypes
        /\ IsFiniteSet(Records) /\ s \in Buffers \cup Sinks
  BY Distinct DEF TypeInv, CallTypes
<1>2. IsFiniteSet(Buffers) /\ IsFiniteSet(Records \cup Buffers) /\ Buffers \cup Sinks \subseteq Handlers
        /\ Plan.entry \in Handlers
  BY <1>1, PlanTypes, FS_Union
<1>3. Routes(Plan.entry, s) \in Nat /\ \A b \in Buffers : Routes(b, s) \in Nat
  BY <1>1, <1>2, PlanTypes
<1>4. Submitted \in Nat
  BY <1>1, FS_Subset, FS_CardinalityType DEF Submitted
<1>5. DeliveredTo(s) \in Int
  <2>1. \A r \in Records : delivered[s][r] \in Int
    BY <1>1 DEF RecordTypes
  <2> QED BY <1>1, <2>1, TotalRemove DEF DeliveredTo
<1>6. StoppedInAll \in Int
  <2>1. \A r \in Records : silenced[r] \in Int
    BY <1>1 DEF RecordTypes
  <2>2. Total(silenced, Records) \in Int /\ rejected \in Nat
    BY <1>1, <2>1, TotalRemove DEF CallTypes
  <2> QED BY <2>2 DEF StoppedInAll
<1>7. \A b \in Buffers : HeldIn(b) \in Nat
  <2> TAKE b \in Buffers
  <2>1. queue[b] \in Seq(Records \cup Barriers) /\ dropped[b] \in Nat /\ refused[b] \in Nat
    BY <1>1 DEF BufferTypes
  <2>2. Occurrences(Records, queue[b]) \in Nat
    <3>1. CASE Records \cup Barriers = {}
      <4>1. queue[b] = << >> /\ queue[b] \in Seq({0}) /\ 0 \in {0}
        BY <2>1, <3>1, EmptySeq, LenProperties, ElementOfSeq
      <4> QED BY <4>1, OccurrencesChange
    <3>2. CASE Records \cup Barriers # {}
      <4>1. PICK x : x \in Records \cup Barriers
        BY <3>2
      <4> QED BY <2>1, <4>1, OccurrencesChange
    <3> QED BY <3>1, <3>2
  <2> QED BY <2>1, <2>2 DEF HeldIn
<1>8. \A x \in Records \cup Buffers : TransitOf(x, s) \in Nat
  <2> TAKE x \in Records \cup Buffers
  <2>1. hand[x].todo \in Seq(Buffers \cup Sinks)
    BY <1>1, HandParts
  <2>2. hand[x].todo \in Seq(Handlers)
    BY <1>2, <2>1
  <2>3. To(s) \in [Handlers -> Nat]
    BY <1>1, PlanWeights
  <2> QED BY <2>2, <2>3, WeightNat DEF TransitOf
<1>9. HeldTo(s) \in Int
  <2> DEFINE f == [b \in Buffers |-> HeldIn(b) * Routes(b, s)]
  <2>1. \A b \in Buffers : f[b] \in Int
    BY <1>3, <1>7
  <2> HIDE DEF f
  <2>2. Total(f, Buffers) \in Int
    BY <1>2, <2>1, TotalRemove
  <2> QED BY <2>2 DEF HeldTo, f
<1>10. TransitTo(s) \in Int
  <2> DEFINE f == [x \in Records \cup Buffers |-> TransitOf(x, s)]
  <2>1. \A x \in Records \cup Buffers : f[x] \in Int
    BY <1>8
  <2> HIDE DEF f
  <2>2. Total(f, Records \cup Buffers) \in Int
    BY <1>2, <2>1, TotalRemove
  <2> QED BY <2>2 DEF TransitTo, f
<1> QED BY <1>3, <1>4, <1>5, <1>6, <1>7, <1>8, <1>9, <1>10

\* One hand changes what is on its way.
LEMMA TransitChange ==
    ASSUME TypeInv, TypeInv', UNCHANGED setup, NEW x \in Records \cup Buffers, NEW s \in Sinks,
           \A y \in Records \cup Buffers : y # x => hand'[y] = hand[y]
    PROVE  /\ TransitTo(s)' = TransitTo(s) - TransitOf(x, s) + Weight(To(s), hand'[x].todo)
           /\ Weight(To(s), hand'[x].todo) = TransitOf(x, s)'
<1> DEFINE P == Records \cup Buffers
           f == [y \in P |-> TransitOf(y, s)]
           g == [y \in P |-> Weight(To(s), hand'[y].todo)]
<1>1. /\ UNCHANGED <<Plan, Handlers, Buffers, Sinks>> /\ setup \in Setups
      /\ \A h, t : Routes(h, t)' = Routes(h, t)
  BY PlanKept DEF TypeInv, CallTypes
<1>2. To(s)' = To(s)
  BY <1>1 DEF To
<1>3. \A y \in P : TransitOf(y, s)' = Weight(To(s), hand'[y].todo)
  BY <1>2 DEF TransitOf
<1>4. \A y \in P : TransitOf(y, s) \in Nat
  BY AccountTypes
<1>5. \A y \in P : Weight(To(s), hand'[y].todo) \in Nat
  <2> TAKE y \in P
  <2>1. hand' \in [Records \cup Buffers -> [item : Records \cup Barriers' \cup {None},
                                         todo : Seq(Buffers \cup Sinks), err : Errors]]
    BY <1>1 DEF TypeInv, HandTypes, Hand
  <2>2. hand'[y].todo \in Seq(Buffers \cup Sinks) /\ Buffers \cup Sinks \subseteq Handlers
    BY <1>1, <2>1, PlanTypes
  <2>3. hand'[y].todo \in Seq(Handlers) /\ To(s) \in [Handlers -> Nat]
    BY <1>1, <2>2, PlanWeights
  <2> QED BY <2>3, WeightNat
<1>6. \A y \in P : y # x => g[y] = f[y]
  BY DEF TransitOf
<1>7. IsFiniteSet(P)
  BY <1>1, PlanTypes, Distinct, FS_Union
<1>8. \A y \in P : f[y] = TransitOf(y, s) /\ g[y] = Weight(To(s), hand'[y].todo)
  OBVIOUS
<1>9. TransitTo(s)' = Total(g, P)
  BY <1>1, <1>3 DEF TransitTo
<1>10. TransitTo(s) = Total(f, P)
  BY DEF TransitTo
<1> HIDE DEF f, g, P
<1>11. x \in P
  BY DEF P
<1>12. \A y \in P : f[y] \in Int /\ g[y] \in Int /\ (y # x => g[y] = f[y])
  BY <1>4, <1>5, <1>6, <1>8
<1>13. Total(g, P) = Total(f, P) - f[x] + g[x]
  BY <1>7, <1>11, <1>12, TotalChange
<1> QED BY <1>3, <1>8, <1>9, <1>10, <1>11, <1>13

\* One buffer takes d records more, or -d fewer.
LEMMA HeldChange ==
    ASSUME TypeInv, UNCHANGED setup, NEW e \in Buffers, NEW s \in Sinks, NEW d \in Int,
           \A b \in Buffers : b # e => HeldIn(b)' = HeldIn(b),
           HeldIn(e)' = HeldIn(e) + d
    PROVE  HeldTo(s)' = HeldTo(s) + d * Routes(e, s)
<1> DEFINE f == [b \in Buffers |-> HeldIn(b) * Routes(b, s)]
           g == [b \in Buffers |-> HeldIn(b)' * Routes(b, s)]
<1>1. /\ UNCHANGED <<Buffers, Sinks>> /\ setup \in Setups /\ IsFiniteSet(Buffers)
      /\ \A h, t : Routes(h, t)' = Routes(h, t)
  BY PlanKept, PlanTypes DEF TypeInv, CallTypes
<1>2. \A b \in Buffers : HeldIn(b) \in Nat /\ Routes(b, s) \in Nat /\ HeldIn(b)' \in Int
  BY AccountTypes
<1>3. HeldTo(s)' = Total(g, Buffers) /\ HeldTo(s) = Total(f, Buffers)
  BY <1>1 DEF HeldTo
<1>4. \A b \in Buffers : f[b] \in Int /\ g[b] \in Int /\ (b # e => g[b] = f[b])
  BY <1>2
<1>5. g[e] = f[e] + d * Routes(e, s)
  <2>1. \A h, k \in Int : (h + k) * Routes(e, s) = h * Routes(e, s) + k * Routes(e, s)
    BY <1>2
  <2>2. (HeldIn(e) + d) * Routes(e, s) = HeldIn(e) * Routes(e, s) + d * Routes(e, s)
    BY <1>2, <2>1
  <2> QED BY <2>2
<1>6. d * Routes(e, s) \in Int
  BY <1>2
<1> HIDE DEF f, g
<1>7. Total(g, Buffers) = Total(f, Buffers) - f[e] + g[e]
  BY <1>1, <1>4, TotalChange
<1>8. Total(f, Buffers) \in Int
  BY <1>1, <1>4, TotalRemove
<1> QED BY <1>3, <1>4, <1>5, <1>6, <1>7, <1>8

\* What buffers hold is the same if their queues and counters are.
LEMMA HeldSame ==
    ASSUME UNCHANGED setup, NEW s, \A b \in Buffers : HeldIn(b)' = HeldIn(b)
    PROVE  HeldTo(s)' = HeldTo(s)
<1>1. UNCHANGED Buffers /\ \A h, t : Routes(h, t)' = Routes(h, t)
  BY PlanKept
<1> QED BY <1>1 DEF HeldTo

\* A sink gets one record more.
LEMMA DeliveredChange ==
    ASSUME TypeInv, NEW s \in Sinks, NEW r \in Records, NEW d \in Int,
           \A q \in Records : delivered'[s][q] = delivered[s][q] + IF q = r THEN d ELSE 0
    PROVE  DeliveredTo(s)' = DeliveredTo(s) + d
<1> DEFINE f == delivered[s]
           g == delivered'[s]
<1>1. IsFiniteSet(Records) /\ delivered[s] \in [Records -> Nat]
  BY Distinct DEF TypeInv, CallTypes, RecordTypes
<1>2. \A q \in Records : f[q] \in Int /\ g[q] \in Int /\ (q # r => g[q] = f[q])
  BY <1>1
<1>3. g[r] = f[r] + d
  BY <1>1
<1>4. DeliveredTo(s)' = Total(g, Records) /\ DeliveredTo(s) = Total(f, Records)
  BY DEF DeliveredTo
<1> HIDE DEF f, g
<1>5. Total(g, Records) = Total(f, Records) - f[r] + g[r]
  BY <1>1, <1>2, TotalChange
<1>6. Total(f, Records) \in Int
  BY <1>1, <1>2, TotalRemove
<1> QED BY <1>2, <1>3, <1>4, <1>5, <1>6

\* How many records there are in a queue, as it grows and shrinks.
LEMMA QueueCount ==
    ASSUME NEW q \in Seq(Records \cup Barriers), NEW i \in Records \cup Barriers
    PROVE  /\ Occurrences(Records, q) \in Nat /\ Occurrences(Records, << >>) = 0
           /\ i \in Records => Occurrences(Records, Append(q, i)) = Occurrences(Records, q) + 1
           /\ i \notin Records => Occurrences(Records, Append(q, i)) = Occurrences(Records, q)
           /\ q # << >> /\ Head(q) \in Records =>
                 Occurrences(Records, q) = Occurrences(Records, Tail(q)) + 1
           /\ q # << >> /\ Head(q) \notin Records =>
                 Occurrences(Records, q) = Occurrences(Records, Tail(q))
           /\ q # << >> => Occurrences(Records, Tail(q)) \in Nat
<1> DEFINE S == Records \cup Barriers
<1>1. q \in Seq(S) /\ i \in S /\ (q # << >> => Tail(q) \in Seq(S))
  OBVIOUS
<1> HIDE DEF S
<1>2. /\ Occurrences(Records, q) \in Nat /\ Occurrences(Records, << >>) = 0
      /\ Occurrences(Records, Append(q, i)) = Occurrences(Records, q) + IF i \in Records THEN 1 ELSE 0
      /\ q # << >> => Occurrences(Records, q)
                         = Occurrences(Records, Tail(q)) + IF Head(q) \in Records THEN 1 ELSE 0
  BY <1>1, OccurrencesChange
<1>3. q # << >> => Occurrences(Records, Tail(q)) \in Nat
  BY <1>1, OccurrencesChange
<1> QED BY <1>2, <1>3

\* The offer of a record: what is on its way to a sink goes over to what the buffer
\* holds, or to what the sink has got.
LEMMA AccountHandOn ==
    ASSUME TypeInv, TypeInv', UNCHANGED <<setup, open, stopped, closed>>,
           NEW x \in Records \cup Buffers, HandOn(x, Start(x)), NEW s \in Sinks
    PROVE  /\ DeliveredTo(s)' + HeldTo(s)' + TransitTo(s)' = DeliveredTo(s) + HeldTo(s) + TransitTo(s)
           /\ DeliveredTo(s)' \in Int /\ HeldTo(s)' \in Int /\ TransitTo(s)' \in Int
           /\ UNCHANGED silenced
<1> DEFINE h == hand[x]
<1>0. PICK e, r : e = Head(h.todo) /\ r = h.item
  OBVIOUS
<1> DEFINE k == Routes(e, s)
<1>1. setup \in Setups /\ HandTypes /\ BufferTypes /\ RecordTypes /\ TodoInv
  BY DEF TypeInv, CallTypes
<1>2. /\ r \in Records /\ e \in Buffers \cup Sinks /\ Offer(r, e) /\ UNCHANGED silenced
      /\ hand'[x].todo = Tail(h.todo)
      /\ \A y \in Records \cup Buffers : y # x => hand'[y] = hand[y]
  BY <1>0, <1>1, HandOnTypes
<1>3. h.todo \in Seq(Buffers \cup Sinks) /\ h.todo # << >> /\ Buffers \cup Sinks \subseteq Handlers
  BY <1>0, <1>1, <1>2, HandParts, PlanTypes DEF TodoInv, OnItsWay
<1>4. k \in Nat /\ To(s) \in [Handlers -> Nat] /\ To(s)[e] = k /\ s \in Handlers
  BY <1>1, <1>2, <1>3, PlanWeights, PlanTypes
<1>5. TransitOf(x, s) = k + Weight(To(s), Tail(h.todo)) /\ Weight(To(s), Tail(h.todo)) \in Int
  <2>1. h.todo \in Seq(Handlers) /\ To(s) \in [Handlers -> Int]
    BY <1>3, <1>4
  <2> QED BY <1>0, <1>3, <1>4, <2>1, WeightTail DEF TransitOf
<1>6. TransitTo(s)' = TransitTo(s) - k
  <2>1. TransitTo(s)' = TransitTo(s) - TransitOf(x, s) + Weight(To(s), hand'[x].todo)
    BY <1>2, TransitChange
  <2>2. TransitTo(s) \in Int
    BY AccountTypes
  <2> HIDE DEF k
  <2> QED BY <1>2, <1>4, <1>5, <2>1, <2>2
<1>7. /\ \A b \in Buffers :
            /\ queue'[b] = IF b = e /\ Answer(e) = "nil" THEN Append(queue[b], r) ELSE queue[b]
            /\ dropped'[b] = dropped[b] + IF b = e /\ Answer(e) = "full" THEN 1 ELSE 0
            /\ refused'[b] = refused[b] + IF b = e /\ Answer(e) = "shutdown" THEN 1 ELSE 0
            /\ b = e => Answer(e) \in {"nil", "full", "shutdown"}
      /\ \A t \in Sinks, q \in Records :
            delivered'[t][q] = delivered[t][q] + IF t = e /\ q = r THEN 1 ELSE 0
  BY <1>1, <1>2, OfferEffect
<1> HIDE DEF h
<1>8. CASE e \in Buffers
  <2>1. e \notin Sinks
    BY <1>1, <1>8, PlanTypes
  <2>2. \A b \in Buffers : b # e => HeldIn(b)' = HeldIn(b)
    <3> TAKE b \in Buffers
    <3>1. dropped[b] \in Nat /\ refused[b] \in Nat
      BY <1>1 DEF BufferTypes
    <3> QED BY <1>7, <3>1 DEF HeldIn
  <2>3. HeldIn(e)' = HeldIn(e) + 1
    <3>1. queue[e] \in Seq(Records \cup Barriers) /\ dropped[e] \in Nat /\ refused[e] \in Nat
      BY <1>1, <1>8 DEF BufferTypes
    <3>2. /\ Occurrences(Records, Append(queue[e], r)) = Occurrences(Records, queue[e]) + 1
          /\ Occurrences(Records, queue[e]) \in Nat
      BY <1>2, <3>1, QueueCount
    <3>3. /\ HeldIn(e)' = Occurrences(Records, queue'[e]) + dropped'[e] + refused'[e]
          /\ HeldIn(e) = Occurrences(Records, queue[e]) + dropped[e] + refused[e]
      BY DEF HeldIn
    <3>4. /\ queue'[e] = IF Answer(e) = "nil" THEN Append(queue[e], r) ELSE queue[e]
          /\ dropped'[e] = dropped[e] + IF Answer(e) = "full" THEN 1 ELSE 0
          /\ refused'[e] = refused[e] + IF Answer(e) = "shutdown" THEN 1 ELSE 0
          /\ Answer(e) \in {"nil", "full", "shutdown"}
      BY <1>7, <1>8
    <3>5. CASE Answer(e) = "nil"
      <4>1. queue'[e] = Append(queue[e], r) /\ dropped'[e] = dropped[e] /\ refused'[e] = refused[e]
        BY <3>1, <3>4, <3>5
      <4> QED BY <3>1, <3>2, <3>3, <4>1
    <3>6. CASE Answer(e) = "full"
      <4>1. queue'[e] = queue[e] /\ dropped'[e] = dropped[e] + 1 /\ refused'[e] = refused[e]
        BY <3>1, <3>4, <3>6
      <4> QED BY <3>1, <3>2, <3>3, <4>1
    <3>7. CASE Answer(e) = "shutdown"
      <4>1. queue'[e] = queue[e] /\ dropped'[e] = dropped[e] /\ refused'[e] = refused[e] + 1
        BY <3>1, <3>4, <3>7
      <4> QED BY <3>1, <3>2, <3>3, <4>1
    <3> QED BY <3>4, <3>5, <3>6, <3>7
  <2>4. HeldTo(s)' = HeldTo(s) + 1 * k
    BY <1>8, <2>2, <2>3, HeldChange
  <2>5. \A q \in Records : delivered'[s][q] = delivered[s][q] + IF q = r THEN 0 ELSE 0
    BY <1>7, <2>1
  <2>6. DeliveredTo(s)' = DeliveredTo(s) + 0
    BY <1>2, <2>5, DeliveredChange
  <2>7. HeldTo(s) \in Int /\ DeliveredTo(s) \in Int /\ TransitTo(s) \in Int
    BY AccountTypes
  <2> HIDE DEF k
  <2> QED BY <1>2, <1>4, <1>6, <2>4, <2>6, <2>7
<1>9. CASE e \in Sinks
  <2>1. e \notin Buffers
    BY <1>1, <1>9, PlanTypes
  <2>2. \A b \in Buffers : HeldIn(b)' = HeldIn(b)
    <3> TAKE b \in Buffers
    <3>1. dropped[b] \in Nat /\ refused[b] \in Nat
      BY <1>1 DEF BufferTypes
    <3> QED BY <1>7, <2>1, <3>1 DEF HeldIn
  <2>3. HeldTo(s)' = HeldTo(s)
    BY <2>2, HeldSame
  <2>4. k = IF s = e THEN 1 ELSE 0
    BY <1>1, <1>3, <1>4, <1>9, PlanRoutes
  <2>5. \A q \in Records : delivered'[s][q] = delivered[s][q] + IF q = r THEN k ELSE 0
    BY <1>7, <2>4
  <2>6. DeliveredTo(s)' = DeliveredTo(s) + k
    <3> HIDE DEF k
    <3> QED BY <1>2, <1>4, <2>5, DeliveredChange
  <2>7. HeldTo(s) \in Int /\ DeliveredTo(s) \in Int /\ TransitTo(s) \in Int
    BY AccountTypes
  <2> HIDE DEF k
  <2> QED BY <1>2, <1>4, <1>6, <2>3, <2>6, <2>7
<1> QED BY <1>2, <1>8, <1>9

\* A record that the level stops had all the routes from the entry still to go.
LEMMA AccountSilence ==
    ASSUME TypeInv, TypeInv', UNCHANGED <<setup, rejected>>,
           NEW x \in Records \cup Buffers, Silence(x, Start(x)), NEW s \in Sinks
    PROVE  /\ DeliveredTo(s)' = DeliveredTo(s) /\ HeldTo(s)' = HeldTo(s)
           /\ TransitTo(s)' = TransitTo(s) - Routes(Plan.entry, s)
           /\ StoppedInAll' = StoppedInAll + 1
<1>1. setup \in Setups /\ HandTypes /\ RecordTypes /\ TodoInv /\ IsFiniteSet(Records)
  BY Distinct DEF TypeInv, CallTypes
<1>0. PICK r : r = hand[x].item
  OBVIOUS
<1>2. /\ r \in Records /\ hand'[x] = Nothing /\ UNCHANGED <<queue, dropped, refused, delivered>>
      /\ \A y \in Records \cup Buffers : y # x => hand'[y] = hand[y]
      /\ silenced' = [silenced EXCEPT ![r] = @ + 1]
      /\ hand[x].todo = Ends(Start(x)) /\ Plan.graph[Start(x)].kind = "level"
  BY <1>0, <1>1, SilenceTypes
<1>3. TransitOf(x, s) = Routes(Plan.entry, s)
  <2>1. Start(x) \in Handlers
    BY <1>1, StartType
  <2>2. Weight(To(s), Ends(Start(x))) = Routes(Start(x), s)
    BY <1>1, <2>1, PlanWeights
  <2>3. Routes(Start(x), s) = Routes(Plan.entry, s)
    BY <1>1, <1>2, <2>1, PlanRoutes
  <2> QED BY <1>2, <2>2, <2>3 DEF TransitOf
<1>4. TransitTo(s)' = TransitTo(s) - Routes(Plan.entry, s)
  <2>1. TransitTo(s)' = TransitTo(s) - TransitOf(x, s) + Weight(To(s), hand'[x].todo)
    BY <1>2, TransitChange
  <2>2. Weight(To(s), hand'[x].todo) = 0
    BY <1>2, WeightEmpty DEF Nothing
  <2>3. TransitTo(s) \in Int /\ TransitOf(x, s) \in Int
    BY AccountTypes
  <2> QED BY <1>3, <2>1, <2>2, <2>3
<1>5. DeliveredTo(s)' = DeliveredTo(s)
  BY <1>2 DEF DeliveredTo
<1>6. HeldTo(s)' = HeldTo(s)
  <2>1. \A b \in Buffers : HeldIn(b)' = HeldIn(b)
    BY <1>2 DEF HeldIn
  <2> QED BY <2>1, HeldSame
<1>7. StoppedInAll' = StoppedInAll + 1
  <2> DEFINE f == silenced
             g == silenced'
  <2>1. \A q \in Records : f[q] \in Int /\ g[q] \in Int /\ (q # r => g[q] = f[q])
    BY <1>1, <1>2 DEF RecordTypes
  <2>2. g[r] = f[r] + 1
    BY <1>1, <1>2 DEF RecordTypes
  <2>3. StoppedInAll' = rejected + Total(g, Records) /\ StoppedInAll = rejected + Total(f, Records)
    BY DEF StoppedInAll
  <2>4. rejected \in Nat
    BY DEF TypeInv, CallTypes
  <2> HIDE DEF f, g
  <2>5. Total(g, Records) = Total(f, Records) - f[r] + g[r]
    BY <1>1, <1>2, <2>1, TotalChange
  <2>6. Total(f, Records) \in Int
    BY <1>1, <2>1, TotalRemove
  <2> QED BY <1>2, <2>1, <2>2, <2>3, <2>4, <2>5, <2>6
<1> QED BY <1>4, <1>5, <1>6, <1>7

\* What the worker takes from its queue is on its way by the same routes.
LEMMA AccountReceive ==
    ASSUME TypeInv, TypeInv', NEW b \in Buffers, WorkerReceive(b), NEW s \in Sinks
    PROVE  /\ DeliveredTo(s)' = DeliveredTo(s)
           /\ HeldTo(s)' + TransitTo(s)' = HeldTo(s) + TransitTo(s)
           /\ HeldTo(s)' \in Int /\ TransitTo(s)' \in Int
<1>1. setup \in Setups /\ HandTypes /\ BufferTypes /\ TodoInv /\ UNCHANGED <<setup, delivered>>
        /\ b \in Records \cup Buffers /\ Records \cap Barriers = {}
  BY Distinct DEF TypeInv, CallTypes, WorkerReceive, levelVars, recordVars
<1>2. PICK q, i : q = queue[b] /\ i = Head(queue[b])
  OBVIOUS
<1>3. /\ q # << >> /\ q \in Seq(Records \cup Barriers) /\ i \in Records \cup Barriers
      /\ queue' = [queue EXCEPT ![b] = Tail(q)] /\ UNCHANGED <<dropped, refused>>
      /\ hand' = [hand EXCEPT ![b] = InHand(i, Below(b))] /\ hand[b] = Nothing
  BY <1>1, <1>2 DEF WorkerReceive, BufferTypes
<1>4. /\ hand'[b] = InHand(i, Below(b)) /\ queue'[b] = Tail(q)
      /\ \A y \in Records \cup Buffers : y # b => hand'[y] = hand[y]
      /\ \A c \in Buffers : c # b => queue'[c] = queue[c]
  BY <1>1, <1>3 DEF HandTypes, BufferTypes
<1>5. /\ TransitTo(s)' = TransitTo(s) - TransitOf(b, s) + Weight(To(s), InHand(i, Below(b)).todo)
      /\ TransitOf(b, s) = 0 /\ TransitTo(s) \in Int
  <2>1. TransitOf(b, s) = 0
    BY <1>3, WeightEmpty DEF TransitOf, Nothing
  <2>2. TransitTo(s) \in Int
    BY AccountTypes
  <2>3. TransitTo(s)' = TransitTo(s) - TransitOf(b, s) + Weight(To(s), hand'[b].todo)
    BY <1>1, <1>4, TransitChange
  <2> QED BY <1>4, <2>1, <2>2, <2>3
<1>6. DeliveredTo(s)' = DeliveredTo(s)
  BY <1>1 DEF DeliveredTo
<1>7. /\ \A c \in Buffers : c # b => HeldIn(c)' = HeldIn(c)
      /\ HeldIn(b)' = Occurrences(Records, Tail(q)) + dropped[b] + refused[b]
      /\ HeldIn(b) = Occurrences(Records, q) + dropped[b] + refused[b]
      /\ dropped[b] \in Nat /\ refused[b] \in Nat
  BY <1>1, <1>2, <1>3, <1>4 DEF HeldIn, BufferTypes
<1>8. HeldTo(s) \in Int
  BY AccountTypes
<1>9. CASE i \in Records
  <2>1. Occurrences(Records, q) = Occurrences(Records, Tail(q)) + 1
          /\ Occurrences(Records, Tail(q)) \in Nat
    BY <1>2, <1>3, <1>9, QueueCount
  <2>2. HeldIn(b)' = HeldIn(b) + (-1)
    BY <1>7, <2>1
  <2>3. HeldTo(s)' = HeldTo(s) + (-1) * Routes(b, s)
    BY <1>1, <1>7, <2>2, HeldChange
  <2>4. /\ Weight(To(s), Ends(Below(b))) = Routes(Below(b), s) /\ Routes(Below(b), s) = Routes(b, s)
        /\ Routes(b, s) \in Nat
    <3>1. Below(b) \in Handlers /\ s \in Handlers /\ s # b /\ b \in Handlers
      BY <1>1, PlanTypes
    <3> QED BY <1>1, <3>1, PlanWeights, PlanRoutes, PlanTypes
  <2>5. InHand(i, Below(b)).todo = Ends(Below(b))
    BY <1>9 DEF InHand
  <2>6. TransitTo(s)' = TransitTo(s) + Routes(b, s)
    BY <1>5, <2>4, <2>5
  <2> QED BY <1>5, <1>6, <1>8, <2>3, <2>4, <2>6
<1>10. CASE i \notin Records
  <2>1. Occurrences(Records, q) = Occurrences(Records, Tail(q))
    BY <1>2, <1>3, <1>10, QueueCount
  <2>2. \A c \in Buffers : HeldIn(c)' = HeldIn(c)
    BY <1>7, <2>1
  <2>3. HeldTo(s)' = HeldTo(s)
    BY <1>1, <2>2, HeldSame
  <2>4. Weight(To(s), InHand(i, Below(b)).todo) = 0
    BY <1>10, WeightEmpty DEF InHand
  <2> QED BY <1>5, <1>6, <1>8, <2>3, <2>4
<1> QED BY <1>9, <1>10

\* How many records have been submitted, as places change.
LEMMA SubmittedChange ==
    ASSUME IsFiniteSet(Records)
    PROVE  /\ (\A q \in Records : pc'[q] \in {"emit", "done"} <=> pc[q] \in {"emit", "done"})
                => Submitted' = Submitted
           /\ \A r \in Records :
                 /\ pc[r] \notin {"emit", "done"} /\ pc'[r] \in {"emit", "done"}
                 /\ \A q \in Records : q # r => pc'[q] = pc[q]
                 => Submitted' = Submitted + 1
<1> DEFINE A == {q \in Records : pc[q] \in {"emit", "done"}}
           B == {q \in Records : pc'[q] \in {"emit", "done"}}
<1>1. Submitted = Cardinality(A) /\ Submitted' = Cardinality(B)
  BY DEF Submitted
<1>2. (\A q \in Records : pc'[q] \in {"emit", "done"} <=> pc[q] \in {"emit", "done"}) => B = A
  OBVIOUS
<1>3. ASSUME NEW r \in Records, pc[r] \notin {"emit", "done"}, pc'[r] \in {"emit", "done"},
             \A q \in Records : q # r => pc'[q] = pc[q]
      PROVE  Submitted' = Submitted + 1
  <2>1. B = A \cup {r} /\ r \notin A /\ A \subseteq Records
    BY <1>3
  <2>2. IsFiniteSet(A)
    BY <2>1, FS_Subset
  <2>3. Cardinality(A \cup {r}) = Cardinality(A) + 1
    BY <2>1, <2>2, FS_AddElement
  <2> QED BY <1>1, <2>1, <2>3
<1> QED BY <1>1, <1>2, <1>3

\* The account is even after a step if it was before, and what the step adds to the
\* records submitted, p, goes to those stopped, q, or on its way.
LEMMA AccountFrom ==
    ASSUME TypeInv, UNCHANGED setup, NEW s \in Sinks, Accounted(s), NEW p \in Int, NEW q \in Int,
           Submitted' = Submitted + p, StoppedInAll' = StoppedInAll + q,
           DeliveredTo(s)' + HeldTo(s)' + TransitTo(s)'
             = DeliveredTo(s) + HeldTo(s) + TransitTo(s) + (p - q) * Routes(Plan.entry, s),
           DeliveredTo(s)' \in Int, HeldTo(s)' \in Int, TransitTo(s)' \in Int
    PROVE  Accounted(s)'
<1> DEFINE k == Routes(Plan.entry, s)
<1>1. /\ Submitted \in Nat /\ DeliveredTo(s) \in Int /\ StoppedInAll \in Int
      /\ HeldTo(s) \in Int /\ TransitTo(s) \in Int /\ k \in Nat
  BY AccountTypes
<1>2. k' = k
  BY PlanKept
<1>3. Submitted * k = DeliveredTo(s) + StoppedInAll * k + HeldTo(s) + TransitTo(s)
  BY DEF Accounted
<1>4. Accounted(s)' <=>
         Submitted' * k' = DeliveredTo(s)' + StoppedInAll' * k' + HeldTo(s)' + TransitTo(s)'
  BY DEF Accounted
<1> HIDE DEF k
<1>5. \A m, n \in Int : (m + n) * k = m * k + n * k /\ (m - n) * k = m * k - n * k /\ m * k \in Int
  BY <1>1
<1>6. /\ (Submitted + p) * k = Submitted * k + p * k
      /\ (StoppedInAll + q) * k = StoppedInAll * k + q * k
      /\ (p - q) * k = p * k - q * k
      /\ Submitted * k \in Int /\ StoppedInAll * k \in Int /\ p * k \in Int /\ q * k \in Int
  BY <1>1, <1>5
<1>7. DeliveredTo(s)' + HeldTo(s)' + TransitTo(s)'
        = DeliveredTo(s) + HeldTo(s) + TransitTo(s) + (p * k - q * k)
  BY <1>6 DEF k
<1>8. /\ Submitted' * k' = Submitted * k + p * k
      /\ StoppedInAll' * k' = StoppedInAll * k + q * k
  BY <1>2, <1>6
<1>9. Submitted' * k' = DeliveredTo(s)' + StoppedInAll' * k' + HeldTo(s)' + TransitTo(s)'
  <2> DEFINE m == Submitted * k
             n == StoppedInAll * k
             u == p * k
             v == q * k
  <2>1. m \in Int /\ n \in Int /\ u \in Int /\ v \in Int
    BY <1>6
  <2>2. /\ m = DeliveredTo(s) + n + HeldTo(s) + TransitTo(s)
        /\ Submitted' * k' = m + u /\ StoppedInAll' * k' = n + v
        /\ DeliveredTo(s)' + HeldTo(s)' + TransitTo(s)'
             = DeliveredTo(s) + HeldTo(s) + TransitTo(s) + (u - v)
    BY <1>3, <1>7, <1>8
  <2> HIDE DEF m, n, u, v
  <2>3. \A a1, a2, a3, b1, b2, b3 \in Int :
           m = a1 + n + a2 + a3 /\ b1 + b2 + b3 = a1 + a2 + a3 + (u - v)
             => m + u = b1 + (n + v) + b2 + b3
    BY <2>1
  <2>4. m + u = DeliveredTo(s)' + (n + v) + HeldTo(s)' + TransitTo(s)'
    BY <1>1, <2>2, <2>3
  <2> QED BY <2>2, <2>4
<1> QED BY <1>4, <1>9

\* Log calls keep the account even.
LEMMA AccountLog ==
    ASSUME TypeInv, TypeInv', NEW r \in Records, LogCall(r), NEW s \in Sinks, Accounted(s)
    PROVE  Accounted(s)'
<1> DEFINE k == Routes(Plan.entry, s)
<1>1. /\ setup \in Setups /\ HandTypes /\ BufferTypes /\ TodoInv /\ IsFiniteSet(Records)
      /\ Start(r) = Plan.entry /\ Start(r) \in Handlers /\ r \in Records \cup Buffers
      /\ r \notin Waiters /\ r # Drainer
  BY Distinct, StartType DEF TypeInv, CallTypes
<1>2. /\ Submitted \in Nat /\ DeliveredTo(s) \in Int /\ StoppedInAll \in Int
      /\ HeldTo(s) \in Int /\ TransitTo(s) \in Int /\ k \in Nat
  BY AccountTypes
<1>3. CASE LogGate(r)
  <2>1. UNCHANGED <<setup, queue, dropped, refused, delivered, silenced>> /\ pc[r] = "idle"
    BY <1>3 DEF LogGate, levelVars, bufferVars, recordVars
  <2>2. DeliveredTo(s)' = DeliveredTo(s) /\ HeldTo(s)' = HeldTo(s)
    <3>1. \A b \in Buffers : HeldIn(b)' = HeldIn(b)
      BY <2>1 DEF HeldIn
    <3> QED BY <2>1, <3>1, HeldSame DEF DeliveredTo
  <2>3. \A q \in Records : q # r => pc'[q] = pc[q]
    BY <1>3 DEF LogGate, TypeInv, CallTypes
  <2>4. CASE pc'[r] = "off" /\ UNCHANGED <<rejected, hand>>
    <3>1. \A q \in Records : pc'[q] \in {"emit", "done"} <=> pc[q] \in {"emit", "done"}
      BY <2>1, <2>3, <2>4
    <3>2. Submitted' = Submitted + 0 /\ StoppedInAll' = StoppedInAll + 0
      BY <1>1, <1>2, <2>1, <2>4, <3>1, SubmittedChange DEF StoppedInAll
    <3>3. hand'[r] = hand[r] /\ \A y \in Records \cup Buffers : y # r => hand'[y] = hand[y]
      BY <2>4
    <3>4. TransitTo(s)' = TransitTo(s) - TransitOf(r, s) + TransitOf(r, s)
      BY <1>1, <2>1, <3>3, TransitChange DEF TransitOf
    <3>5. TransitOf(r, s) \in Int
      BY <1>1, AccountTypes
    <3>6. DeliveredTo(s)' + HeldTo(s)' + TransitTo(s)'
            = DeliveredTo(s) + HeldTo(s) + TransitTo(s) + (0 - 0) * k
      <4> HIDE DEF k
      <4> QED BY <1>2, <2>2, <3>4, <3>5
    <3>7. DeliveredTo(s)' \in Int /\ HeldTo(s)' \in Int /\ TransitTo(s)' \in Int
      BY <1>2, <2>2, <3>4, <3>5
    <3> QED BY <2>1, <3>2, <3>6, <3>7, AccountFrom
  <2>5. CASE pc'[r] = "done" /\ rejected' = rejected + 1 /\ UNCHANGED hand
    <3>1. Submitted' = Submitted + 1
      BY <1>1, <2>1, <2>3, <2>5, SubmittedChange
    <3>2. StoppedInAll' = StoppedInAll + 1
      <4>1. rejected \in Nat /\ Total(silenced, Records) \in Int
        <5>1. \A q \in Records : silenced[q] \in Int
          BY DEF TypeInv, RecordTypes
        <5> QED BY <1>1, <5>1, TotalRemove DEF TypeInv, CallTypes
      <4>2. StoppedInAll' = rejected' + Total(silenced, Records)
        BY <2>1 DEF StoppedInAll
      <4> QED BY <2>5, <4>1, <4>2 DEF StoppedInAll
    <3>3. hand'[r] = hand[r] /\ \A y \in Records \cup Buffers : y # r => hand'[y] = hand[y]
      BY <2>5
    <3>4. TransitTo(s)' = TransitTo(s) - TransitOf(r, s) + TransitOf(r, s)
      BY <1>1, <2>1, <3>3, TransitChange DEF TransitOf
    <3>5. TransitOf(r, s) \in Int
      BY <1>1, AccountTypes
    <3>6. DeliveredTo(s)' + HeldTo(s)' + TransitTo(s)'
            = DeliveredTo(s) + HeldTo(s) + TransitTo(s) + (1 - 1) * k
      <4> HIDE DEF k
      <4> QED BY <1>2, <2>2, <3>4, <3>5
    <3>7. DeliveredTo(s)' \in Int /\ HeldTo(s)' \in Int /\ TransitTo(s)' \in Int
      BY <1>2, <2>2, <3>4, <3>5
    <3> QED BY <2>1, <3>1, <3>2, <3>6, <3>7, AccountFrom
  <2>6. CASE /\ pc'[r] = "emit" /\ UNCHANGED rejected
             /\ hand' = [hand EXCEPT ![r] = InHand(r, Plan.entry)]
    <3>1. Submitted' = Submitted + 1
      BY <1>1, <2>1, <2>3, <2>6, SubmittedChange
    <3>2. StoppedInAll' = StoppedInAll + 0
      BY <1>2, <2>1, <2>6 DEF StoppedInAll
    <3>3. /\ hand'[r].todo = Ends(Plan.entry)
          /\ \A y \in Records \cup Buffers : y # r => hand'[y] = hand[y]
      BY <1>1, <2>6 DEF HandTypes, InHand
    <3>4. TransitOf(r, s) = 0
      <4>1. hand[r].item \notin Records
        BY <1>1, <2>1, Distinct DEF TypeInv, EmitInv
      <4>2. hand[r].todo = << >>
        BY <1>1, <4>1 DEF TodoInv, OnItsWay
      <4> QED BY <4>2, WeightEmpty DEF TransitOf
    <3>5. TransitTo(s)' = TransitTo(s) - TransitOf(r, s) + Weight(To(s), hand'[r].todo)
      BY <1>1, <2>1, <3>3, TransitChange
    <3>6. Weight(To(s), Ends(Plan.entry)) = k
      BY <1>1, PlanWeights
    <3>7. TransitTo(s)' = TransitTo(s) + k
      <4> HIDE DEF k
      <4> QED BY <1>2, <3>3, <3>4, <3>5, <3>6
    <3>8. DeliveredTo(s)' + HeldTo(s)' + TransitTo(s)'
            = DeliveredTo(s) + HeldTo(s) + TransitTo(s) + (1 - 0) * k
      <4> HIDE DEF k
      <4> QED BY <1>2, <2>2, <3>7
    <3>9. DeliveredTo(s)' \in Int /\ HeldTo(s)' \in Int /\ TransitTo(s)' \in Int
      BY <1>2, <2>2, <3>7
    <3> QED BY <2>1, <3>1, <3>2, <3>8, <3>9, AccountFrom
  <2> QED BY <1>1, <1>3, <2>4, <2>5, <2>6 DEF LogGate, TypeInv, CallTypes
<1>4. CASE LogEmit(r)
  <2>1. UNCHANGED <<setup, rejected, open, stopped, closed>> /\ pc[r] = "emit"
    BY <1>4 DEF LogEmit, levelVars
  <2>2. Submitted' = Submitted + 0
    <3>1. \A q \in Records : pc'[q] \in {"emit", "done"} <=> pc[q] \in {"emit", "done"}
      BY <1>4 DEF LogEmit, TypeInv, CallTypes
    <3> QED BY <1>1, <1>2, <3>1, SubmittedChange
  <2>3. CASE Silence(r, Start(r))
    <3>1. /\ DeliveredTo(s)' = DeliveredTo(s) /\ HeldTo(s)' = HeldTo(s)
          /\ TransitTo(s)' = TransitTo(s) - k /\ StoppedInAll' = StoppedInAll + 1
      BY <1>1, <2>1, <2>3, AccountSilence
    <3>2. /\ DeliveredTo(s)' + HeldTo(s)' + TransitTo(s)'
               = DeliveredTo(s) + HeldTo(s) + TransitTo(s) + (0 - 1) * k
          /\ DeliveredTo(s)' \in Int /\ HeldTo(s)' \in Int /\ TransitTo(s)' \in Int
      <4> HIDE DEF k
      <4> QED BY <1>2, <3>1
    <3> QED BY <2>1, <2>2, <3>1, <3>2, AccountFrom
  <2>4. CASE HandOn(r, Start(r))
    <3>1. /\ DeliveredTo(s)' + HeldTo(s)' + TransitTo(s)' = DeliveredTo(s) + HeldTo(s) + TransitTo(s)
          /\ DeliveredTo(s)' \in Int /\ HeldTo(s)' \in Int /\ TransitTo(s)' \in Int
          /\ UNCHANGED silenced
      BY <1>1, <2>1, <2>4, AccountHandOn
    <3>2. StoppedInAll' = StoppedInAll + 0
      BY <1>2, <2>1, <3>1 DEF StoppedInAll
    <3>3. DeliveredTo(s)' + HeldTo(s)' + TransitTo(s)'
            = DeliveredTo(s) + HeldTo(s) + TransitTo(s) + (0 - 0) * k
      <4> HIDE DEF k
      <4> QED BY <1>2, <3>1
    <3> QED BY <2>1, <2>2, <3>1, <3>2, <3>3, AccountFrom
  <2> QED BY <1>1, <1>4, <2>3, <2>4 DEF LogEmit
<1> QED BY <1>3, <1>4 DEF LogCall

\* The account is even after a step that moves records, and neither submits nor stops
\* any.
LEMMA AccountEven ==
    ASSUME TypeInv, UNCHANGED setup, NEW s \in Sinks, Accounted(s),
           Submitted' = Submitted, StoppedInAll' = StoppedInAll,
           DeliveredTo(s)' + HeldTo(s)' + TransitTo(s)' = DeliveredTo(s) + HeldTo(s) + TransitTo(s),
           DeliveredTo(s)' \in Int, HeldTo(s)' \in Int, TransitTo(s)' \in Int
    PROVE  Accounted(s)'
<1> DEFINE k == Routes(Plan.entry, s)
<1>1. /\ Submitted \in Nat /\ DeliveredTo(s) \in Int /\ StoppedInAll \in Int
      /\ HeldTo(s) \in Int /\ TransitTo(s) \in Int /\ k \in Nat
  BY AccountTypes
<1>2. Submitted' = Submitted + 0 /\ StoppedInAll' = StoppedInAll + 0
  BY <1>1
<1>3. DeliveredTo(s)' + HeldTo(s)' + TransitTo(s)'
        = DeliveredTo(s) + HeldTo(s) + TransitTo(s) + (0 - 0) * k
  <2> HIDE DEF k
  <2> QED BY <1>1
<1> QED BY <1>2, <1>3, AccountFrom

\* A step that changes no hand, no queue and no counter keeps the account.
LEMMA AccountAside ==
    ASSUME TypeInv, TypeInv', NEW s \in Sinks, Accounted(s),
           UNCHANGED <<setup, hand, delivered, silenced, rejected>>,
           \A q \in Records : pc'[q] = pc[q],
           \A b \in Buffers : HeldIn(b)' = HeldIn(b)
    PROVE  Accounted(s)'
<1>1. IsFiniteSet(Records) /\ UNCHANGED <<Buffers, Sinks>> /\ \A h, t : Routes(h, t)' = Routes(h, t)
  BY Distinct, PlanKept DEF TypeInv, CallTypes
<1>2. Submitted' = Submitted
  BY <1>1, SubmittedChange
<1>3. StoppedInAll' = StoppedInAll /\ DeliveredTo(s)' = DeliveredTo(s)
  BY DEF StoppedInAll, DeliveredTo
<1>4. HeldTo(s)' = HeldTo(s)
  BY HeldSame
<1>5. TransitTo(s)' = TransitTo(s)
  <2>1. To(s)' = To(s)
    BY PlanKept DEF To
  <2> QED BY <1>1, <2>1 DEF TransitTo, TransitOf
<1>6. DeliveredTo(s) \in Int /\ HeldTo(s) \in Int /\ TransitTo(s) \in Int
  BY AccountTypes
<1> QED BY <1>2, <1>3, <1>4, <1>5, <1>6, AccountEven

\* Workers keep the account even.
LEMMA AccountWorker ==
    ASSUME TypeInv, TypeInv', NEW b \in Buffers, Worker(b), NEW s \in Sinks, Accounted(s)
    PROVE  Accounted(s)'
<1> DEFINE k == Routes(Plan.entry, s)
<1>1. /\ setup \in Setups /\ HandTypes /\ IsFiniteSet(Records) /\ Records \cap Barriers = {}
      /\ Start(b) = Below(b) /\ b \in Records \cup Buffers
  BY Distinct, StartType DEF TypeInv, CallTypes
<1>2. UNCHANGED <<setup, pc, rejected>>
  BY DEF Worker, WorkerReceive, WorkerDeliver, WorkerBarrier, WorkerExit, levelVars, callVars
<1>3. Submitted' = Submitted
  BY <1>1, <1>2, SubmittedChange
<1>4. /\ Submitted \in Nat /\ DeliveredTo(s) \in Int /\ StoppedInAll \in Int
      /\ HeldTo(s) \in Int /\ TransitTo(s) \in Int /\ k \in Nat
  BY AccountTypes
<1>5. CASE WorkerReceive(b)
  <2>1. /\ DeliveredTo(s)' = DeliveredTo(s)
        /\ HeldTo(s)' + TransitTo(s)' = HeldTo(s) + TransitTo(s)
        /\ HeldTo(s)' \in Int /\ TransitTo(s)' \in Int
    BY <1>5, AccountReceive
  <2>2. StoppedInAll' = StoppedInAll
    BY <1>5 DEF WorkerReceive, recordVars, StoppedInAll
  <2>3. DeliveredTo(s)' + HeldTo(s)' + TransitTo(s)' = DeliveredTo(s) + HeldTo(s) + TransitTo(s)
    BY <1>4, <2>1
  <2> QED BY <1>2, <1>3, <1>4, <2>1, <2>2, <2>3, AccountEven
<1>6. CASE WorkerDeliver(b)
  <2>1. UNCHANGED <<open, stopped, closed>>
    BY <1>6 DEF WorkerDeliver
  <2>2. CASE Silence(b, Start(b))
    <3>1. /\ DeliveredTo(s)' = DeliveredTo(s) /\ HeldTo(s)' = HeldTo(s)
          /\ TransitTo(s)' = TransitTo(s) - k /\ StoppedInAll' = StoppedInAll + 1
      BY <1>1, <1>2, <2>2, AccountSilence
    <3>2. /\ DeliveredTo(s)' + HeldTo(s)' + TransitTo(s)'
               = DeliveredTo(s) + HeldTo(s) + TransitTo(s) + (0 - 1) * k
          /\ DeliveredTo(s)' \in Int /\ HeldTo(s)' \in Int /\ TransitTo(s)' \in Int
          /\ Submitted' = Submitted + 0
      <4> HIDE DEF k
      <4> QED BY <1>3, <1>4, <3>1
    <3> QED BY <1>2, <3>1, <3>2, AccountFrom
  <2>3. CASE HandOn(b, Start(b))
    <3>1. /\ DeliveredTo(s)' + HeldTo(s)' + TransitTo(s)' = DeliveredTo(s) + HeldTo(s) + TransitTo(s)
          /\ DeliveredTo(s)' \in Int /\ HeldTo(s)' \in Int /\ TransitTo(s)' \in Int
      BY <1>1, <1>2, <2>1, <2>3, AccountHandOn
    <3>2. StoppedInAll' = StoppedInAll
      BY <1>2, <2>3 DEF HandOn, StoppedInAll
    <3> QED BY <1>2, <1>3, <3>1, <3>2, AccountEven
  <2> QED BY <1>1, <1>6, <2>2, <2>3 DEF WorkerDeliver
<1>7. CASE WorkerBarrier(b)
  <2>1. /\ hand' = [hand EXCEPT ![b] = Nothing] /\ hand[b].item \in Barriers
        /\ UNCHANGED <<queue, dropped, refused, delivered, silenced>>
    BY <1>7 DEF WorkerBarrier, recordVars
  <2>2. TransitOf(b, s) = 0
    <3>1. hand[b].todo = << >>
      BY <1>1, <2>1 DEF TypeInv, TodoInv, OnItsWay
    <3> QED BY <3>1, WeightEmpty DEF TransitOf
  <2>3. /\ hand'[b] = Nothing
        /\ \A y \in Records \cup Buffers : y # b => hand'[y] = hand[y]
    BY <1>1, <2>1 DEF HandTypes
  <2>4. TransitTo(s)' = TransitTo(s) - TransitOf(b, s) + Weight(To(s), hand'[b].todo)
    BY <1>1, <1>2, <2>3, TransitChange
  <2>5. Weight(To(s), hand'[b].todo) = 0
    BY <2>3, WeightEmpty DEF Nothing
  <2>6. \A c \in Buffers : HeldIn(c)' = HeldIn(c)
    BY <2>1 DEF HeldIn
  <2>7. HeldTo(s)' = HeldTo(s)
    BY <1>2, <2>6, HeldSame
  <2>8. DeliveredTo(s)' = DeliveredTo(s) /\ StoppedInAll' = StoppedInAll
    BY <1>2, <2>1 DEF DeliveredTo, StoppedInAll
  <2>9. TransitTo(s)' = TransitTo(s)
    BY <1>4, <2>2, <2>4, <2>5
  <2> QED BY <1>2, <1>3, <1>4, <2>7, <2>8, <2>9, AccountEven
<1>8. CASE WorkerExit(b)
  <2>1. UNCHANGED <<hand, delivered, silenced, queue, dropped, refused>>
    BY <1>8 DEF WorkerExit, recordVars
  <2>2. \A c \in Buffers : HeldIn(c)' = HeldIn(c)
    BY <2>1 DEF HeldIn
  <2> QED BY <1>2, <2>1, <2>2, AccountAside
<1> QED BY <1>5, <1>6, <1>7, <1>8 DEF Worker

\* A barrier in a queue is no record.
LEMMA AccountFlush ==
    ASSUME TypeInv, TypeInv', NEW f \in Flushes, Flush(f), NEW s \in Sinks, Accounted(s)
    PROVE  Accounted(s)'
<1>1. /\ setup \in Setups /\ BufferTypes /\ f \notin Records
      /\ Records \cap Barriers = {}
  BY Distinct DEF TypeInv, CallTypes, Waiters
<1>2. UNCHANGED <<setup, hand, delivered, silenced, rejected, dropped, refused>>
  BY DEF Flush, FlushGate, FlushEnqueue, FlushRefused, FlushReached, FlushExpired, levelVars,
         bufferVars, recordVars
<1>3. \A q \in Records : pc'[q] = pc[q]
  BY <1>1 DEF Flush, FlushGate, FlushEnqueue, FlushRefused, FlushReached, FlushExpired, FlushVisited,
              TypeInv, CallTypes
<1>4. \A b \in Buffers : HeldIn(b)' = HeldIn(b)
  <2>1. CASE UNCHANGED queue
    BY <1>2, <2>1 DEF HeldIn
  <2>2. CASE FlushEnqueue(f)
    <3>1. queue' = [queue EXCEPT ![Flushers[idx[f]]] = Append(@, Barrier(f))]
      BY <2>2 DEF FlushEnqueue
    <3>2. idx[f] \in 1 .. Len(Flushers) + 1 /\ idx[f] <= Len(Flushers)
      BY <2>2 DEF FlushEnqueue, TypeInv, CallTypes, PlaceInv, Visitors
    <3>3. Barrier(f) \in Barriers
      BY <1>1, <3>2, FlushersType DEF Barrier, Barriers
    <3> TAKE b \in Buffers
    <3>4. queue[b] \in Seq(Records \cup Barriers)
      BY <1>1 DEF BufferTypes
    <3>5. PICK i : i = Barrier(f)
      OBVIOUS
    <3>6. Occurrences(Records, Append(queue[b], i)) = Occurrences(Records, queue[b])
      BY <1>1, <3>3, <3>4, <3>5, QueueCount
    <3>7. queue'[b] = queue[b] \/ queue'[b] = Append(queue[b], i)
      BY <1>1, <3>1, <3>5 DEF BufferTypes
    <3>8. Occurrences(Records, queue'[b]) = Occurrences(Records, queue[b])
      BY <3>6, <3>7
    <3> QED BY <1>2, <3>8 DEF HeldIn
  <2>3. UNCHANGED queue \/ FlushEnqueue(f)
    BY DEF Flush, FlushGate, FlushRefused, FlushReached, FlushExpired, bufferVars
  <2> QED BY <2>1, <2>2, <2>3
<1> QED BY <1>2, <1>3, <1>4, AccountAside

\* The account is even from the start...
LEMMA AccountInit ==
    ASSUME Init, NEW s \in Sinks
    PROVE  Accounted(s)
<1>1. TypeInv
  BY InitTypes
<1>2. /\ setup \in Setups /\ IsFiniteSet(Records) /\ s \in Buffers \cup Sinks
  BY <1>1, Distinct DEF TypeInv, CallTypes
<1>3. IsFiniteSet(Buffers) /\ IsFiniteSet(Records \cup Buffers)
  BY <1>2, PlanTypes, FS_Union
<1>4. Routes(Plan.entry, s) \in Nat /\ \A b \in Buffers : Routes(b, s) \in Nat
  BY <1>1, AccountTypes
<1>5. Submitted = 0
  <2>1. {r \in Records : pc[r] \in {"emit", "done"}} = {}
    BY DEF Init
  <2> QED BY <2>1, FS_EmptySet DEF Submitted
<1>6. StoppedInAll = 0
  <2>1. \A r \in Records : silenced[r] = 0
    BY DEF Init
  <2>2. Total(silenced, Records) = 0
    BY <1>2, <2>1, TotalZero
  <2>3. rejected = 0
    BY DEF Init
  <2> QED BY <2>2, <2>3 DEF StoppedInAll
<1>7. DeliveredTo(s) = 0
  <2>1. \A r \in Records : delivered[s][r] = 0
    BY DEF Init
  <2> QED BY <1>2, <2>1, TotalZero DEF DeliveredTo
<1>8. HeldTo(s) = 0
  <2> DEFINE f == [b \in Buffers |-> HeldIn(b) * Routes(b, s)]
  <2>1. \A b \in Buffers : HeldIn(b) = 0
    <3> TAKE b \in Buffers
    <3>1. queue[b] = << >> /\ dropped[b] = 0 /\ refused[b] = 0
      BY DEF Init
    <3>2. Occurrences(Records, << >>) = 0
      BY TotalEmpty DEF Occurrences, Along
    <3> QED BY <3>1, <3>2 DEF HeldIn
  <2>2. \A b \in Buffers : f[b] = 0
    BY <1>4, <2>1
  <2> HIDE DEF f
  <2>3. Total(f, Buffers) = 0
    BY <1>3, <2>2, TotalZero
  <2> QED BY <2>3 DEF HeldTo, f
<1>9. TransitTo(s) = 0
  <2> DEFINE f == [x \in Records \cup Buffers |-> TransitOf(x, s)]
  <2>1. \A x \in Records \cup Buffers : f[x] = 0
    BY WeightEmpty DEF Init, Nothing, TransitOf
  <2> HIDE DEF f
  <2>2. Total(f, Records \cup Buffers) = 0
    BY <1>3, <2>1, TotalZero
  <2> QED BY <2>2 DEF TransitTo, f
<1> QED BY <1>4, <1>5, <1>6, <1>7, <1>8, <1>9 DEF Accounted

\* ...and stays so.
AccountInv == TypeInv /\ \A s \in Sinks : Accounted(s)

\* Every step moves a record between the places that count it, or adds it to one.
LEMMA AccountNext ==
    ASSUME AccountInv, [Next]_vars
    PROVE  AccountInv'
<1>1. TypeInv /\ TypeInv' /\ UNCHANGED <<setup, Sinks, Buffers>> /\ setup \in Setups
  BY NextTypes, SetupKept, PlanKept DEF AccountInv, TypeInv, CallTypes
<1>2. ASSUME NEW s \in Sinks PROVE Accounted(s)'
  <2>1. Accounted(s)
    BY <1>2 DEF AccountInv
  <2>2. ASSUME NEW r \in Records, LogCall(r) PROVE Accounted(s)'
    BY <1>1, <2>1, <2>2, AccountLog
  <2>3. ASSUME NEW b \in Buffers, Worker(b) PROVE Accounted(s)'
    BY <1>1, <2>1, <2>3, AccountWorker
  <2>4. ASSUME NEW f \in Flushes, Flush(f) PROVE Accounted(s)'
    BY <1>1, <2>1, <2>4, AccountFlush
  <2>5. CASE \/ \E c \in Shutdowns : Shutdown(c)
             \/ SetLevel \/ Drain \/ (\E c \in Waiters : Expire(c)) \/ UNCHANGED vars
    <3>1. UNCHANGED <<hand, delivered, silenced, rejected, queue, dropped, refused>>
      BY <2>5 DEF Shutdown, ShutdownStart, ShutdownReturn, SetLevel, Drain, DrainClose, DrainVisited,
                  DrainDone, Expire, vars, bufferVars, recordVars
    <3>2. \A q \in Records : pc'[q] = pc[q]
      <4>1. \A q \in Records : q # Drainer /\ q \notin Shutdowns
        BY <1>1, Distinct DEF Waiters
      <4>2. pc \in [Records \cup Waiters \cup {Drainer} ->
                     {"idle", "off", "emit", "enqueue", "close", "await", "wait", "done"}]
        BY <1>1 DEF TypeInv, CallTypes
      <4>3. ASSUME NEW c \in Shutdowns, Shutdown(c) PROVE \A q \in Records : pc'[q] = pc[q]
        BY <4>1, <4>2, <4>3 DEF Shutdown, ShutdownStart, ShutdownReturn
      <4>4. CASE Drain
        BY <4>1, <4>2, <4>4 DEF Drain, DrainClose, DrainVisited, DrainDone
      <4>5. CASE SetLevel \/ (\E c \in Waiters : Expire(c)) \/ UNCHANGED vars
        BY <4>5 DEF SetLevel, Expire, vars, callVars
      <4> QED BY <2>5, <4>3, <4>4, <4>5
    <3>3. \A b \in Buffers : HeldIn(b)' = HeldIn(b)
      BY <3>1 DEF HeldIn
    <3> QED BY <1>1, <2>1, <3>1, <3>2, <3>3, AccountAside
  <2> QED BY <2>2, <2>3, <2>4, <2>5 DEF Next, Quiescent
<1> QED BY <1>1, <1>2 DEF AccountInv

\* No record a caller submitted goes uncounted, and none is counted twice: to each
\* sink and by each route it is there, on its way, stopped by a raised level, or in
\* the logger's or a buffer's counter (logRateAware, BufferedHandler.Handle, Rejected).
THEOREM NoRecordUncounted == Spec => []EveryRecordAccounted
<1>1. Init => AccountInv
  BY InitTypes, AccountInit DEF AccountInv
<1>2. AccountInv /\ [Next]_vars => AccountInv'
  BY AccountNext
<1>3. AccountInv => EveryRecordAccounted
  <2> SUFFICES ASSUME AccountInv, NEW s \in Sinks
               PROVE  Submitted * Routes(Plan.entry, s)
                        = Total(delivered[s], Records)
                            + (rejected + Total(silenced, Records)) * Routes(Plan.entry, s)
                            + Total([b \in Buffers |->
                                 (Occurrences(Records, queue[b]) + dropped[b] + refused[b]) * Routes(b, s)],
                                 Buffers)
                            + Total([x \in DOMAIN hand |->
                                 Along([i \in DOMAIN hand[x].todo |-> Routes(hand[x].todo[i], s)])],
                                 DOMAIN hand)
    BY DEF EveryRecordAccounted, Submitted
  <2>1. setup \in Setups /\ HandTypes /\ DOMAIN hand = Records \cup Buffers
    BY DEF AccountInv, TypeInv, CallTypes, HandTypes
  <2>2. ASSUME NEW x \in Records \cup Buffers
        PROVE  Along([i \in DOMAIN hand[x].todo |-> Routes(hand[x].todo[i], s)]) = TransitOf(x, s)
    <3>1. hand[x].todo \in Seq(Buffers \cup Sinks) /\ Buffers \cup Sinks \subseteq Handlers
      BY <2>1, HandParts, PlanTypes
    <3>2. \A i \in DOMAIN hand[x].todo : To(s)[hand[x].todo[i]] = Routes(hand[x].todo[i], s)
      BY <3>1, ElementOfSeq, LenProperties DEF To
    <3>3. [i \in DOMAIN hand[x].todo |-> To(s)[hand[x].todo[i]]]
             = [i \in DOMAIN hand[x].todo |-> Routes(hand[x].todo[i], s)]
      BY <3>2
    <3> QED BY <3>3 DEF TransitOf, Weight
  <2>3. [x \in DOMAIN hand |-> Along([i \in DOMAIN hand[x].todo |-> Routes(hand[x].todo[i], s)])]
          = [x \in Records \cup Buffers |-> TransitOf(x, s)]
    BY <2>1, <2>2
  <2> QED BY <2>1, <2>3, Zenon
            DEF AccountInv, Accounted, DeliveredTo, StoppedInAll, HeldTo, HeldIn, TransitTo
<1> QED BY <1>1, <1>2, <1>3, PTL DEF Spec

-----------------------------------------------------------------------------
(* What a sink has of a record, and what is still to come to it from buffers:  *)
(* all that is in them, or what is in each of them ahead of a mark.            *)

\* The worker of b has come to the mark m, or m is still to be put into the queue.
Passed(b, m) == m \in closed[b] \/ hand[b].item = m
Unmarked(b, m) == ~Passed(b, m) /\ m \notin Range(queue[b])

\* The routes of record r to s from the hand of b, and those from all that b has of
\* it ahead of m.
Carried(b, r, s) == IF hand[b].item = r THEN TransitOf(b, s) ELSE 0
Pending(b, m, r, s) ==
    IF Passed(b, m) THEN 0 ELSE AheadOf(queue[b], m, r) * Routes(b, s) + Carried(b, r, s)
PendingIn(B, M, r, s) == Total([b \in B |-> Pending(b, M[b], r, s)], B)

LostIn(r, s) == Total([b \in Buffers |-> overflowed[b][r] * Routes(b, s)], Buffers)
LostTo(r, s) == LostIn(r, s) + silenced[r] * Routes(Plan.entry, s)
Stock(B, M, r, s) == delivered[s][r] + LostTo(r, s) + PendingIn(B, M, r, s)

\* A mark for each buffer is no record.
Marking(M) == \A b \in Buffers : M[b] \notin Records \cup {None}

\* What is pending and what is lost are numbers.
LEMMA StockTypes ==
    ASSUME TypeInv, NEW M, Marking(M), NEW r \in Records, NEW s \in Sinks
    PROVE  /\ \A b \in Buffers :
                 /\ AheadOf(queue[b], M[b], r) \in Nat /\ Carried(b, r, s) \in Nat
                 /\ Pending(b, M[b], r, s) \in Nat
           /\ LostIn(r, s) \in Nat /\ LostTo(r, s) \in Nat /\ delivered[s][r] \in Nat
           /\ \A B \in SUBSET Buffers : PendingIn(B, M, r, s) \in Nat /\ Stock(B, M, r, s) \in Nat
<1>1. setup \in Setups /\ BufferTypes /\ RecordTypes /\ HandTypes /\ IsFiniteSet(Buffers)
  BY PlanTypes DEF TypeInv, CallTypes
<1>2. Routes(Plan.entry, s) \in Nat /\ (\A b \in Buffers : Routes(b, s) \in Nat)
        /\ \A b \in Buffers : TransitOf(b, s) \in Nat
  BY AccountTypes
<1>3. \A b \in Buffers : /\ AheadOf(queue[b], M[b], r) \in Nat /\ Carried(b, r, s) \in Nat
                         /\ Pending(b, M[b], r, s) \in Nat
  <2> TAKE b \in Buffers
  <2>1. queue[b] \in Seq(Records \cup Barriers) /\ r \in Records \cup Barriers /\ M[b] # r
    BY <1>1 DEF BufferTypes, Marking
  <2>2. AheadOf(queue[b], M[b], r) \in Nat
    BY <2>1, AheadSteps
  <2>3. Carried(b, r, s) \in Nat
    BY <1>2 DEF Carried
  <2>4. AheadOf(queue[b], M[b], r) * Routes(b, s) \in Nat
    BY <1>2, <2>2
  <2> QED BY <2>2, <2>3, <2>4 DEF Pending
<1>4. LostIn(r, s) \in Nat
  <2> DEFINE f == [b \in Buffers |-> overflowed[b][r] * Routes(b, s)]
  <2>1. \A b \in Buffers : f[b] \in Nat
    BY <1>1, <1>2 DEF RecordTypes
  <2> HIDE DEF f
  <2>2. Total(f, Buffers) \in Nat
    BY <1>1, <2>1, TotalNat
  <2> QED BY <2>2 DEF LostIn, f
<1>5. LostTo(r, s) \in Nat /\ delivered[s][r] \in Nat
  <2>1. silenced[r] \in Nat /\ delivered[s][r] \in Nat
    BY <1>1 DEF RecordTypes
  <2>2. silenced[r] * Routes(Plan.entry, s) \in Nat
    BY <1>2, <2>1
  <2> QED BY <1>4, <2>1, <2>2 DEF LostTo
<1>6. ASSUME NEW B \in SUBSET Buffers
      PROVE  PendingIn(B, M, r, s) \in Nat /\ Stock(B, M, r, s) \in Nat
  <2> DEFINE f == [b \in B |-> Pending(b, M[b], r, s)]
  <2>1. \A b \in B : f[b] \in Nat
    BY <1>3
  <2>2. IsFiniteSet(B)
    BY <1>1, FS_Subset
  <2> HIDE DEF f
  <2>3. Total(f, B) \in Nat
    BY <2>1, <2>2, TotalNat
  <2>4. PendingIn(B, M, r, s) \in Nat
    BY <2>3 DEF PendingIn, f
  <2> QED BY <1>5, <2>4 DEF Stock
<1> QED BY <1>3, <1>4, <1>5, <1>6

\* So they are now, and after the step as well.
StockNats ==
    TypeInv => \A M, r, s :
       /\ Marking(M) /\ r \in Records /\ s \in Sinks
       => /\ \A b \in Buffers : Pending(b, M[b], r, s) \in Nat
          /\ LostTo(r, s) \in Nat
          /\ \A B \in SUBSET Buffers : PendingIn(B, M, r, s) \in Nat /\ Stock(B, M, r, s) \in Nat

\* Now.
LEMMA StockNow == StockNats
BY StockTypes DEF StockNats

\* And after the step.
LEMMA StockThen == StockNats'
BY StockNow, PTL

\* At each buffer of B as much is pending as before, with j more at x and k at y.
PendingShift(B, M, r, s, x, j, y, k) ==
    \A b \in B :
       Pending(b, M[b], r, s) + (IF b = x THEN j ELSE 0) + (IF b = y THEN k ELSE 0)
         <= Pending(b, M[b], r, s)'

\* What comes and goes at each buffer comes and goes in all.
LEMMA PendingMoves ==
    ASSUME TypeInv, TypeInv', UNCHANGED setup, NEW M, Marking(M), NEW r \in Records, NEW s \in Sinks,
           NEW B \in SUBSET Buffers, NEW x, NEW y, NEW j \in Int, NEW k \in Int,
           PendingShift(B, M, r, s, x, j, y, k)
    PROVE  PendingIn(B, M, r, s) + (IF x \in B THEN j ELSE 0) + (IF y \in B THEN k ELSE 0)
             <= PendingIn(B, M, r, s)'
<1> DEFINE f == [b \in B |-> Pending(b, M[b], r, s)]
           g == [b \in B |-> Pending(b, M[b], r, s)']
<1>1. IsFiniteSet(B) /\ UNCHANGED <<Buffers, Sinks>>
  BY PlanTypes, PlanKept, FS_Subset DEF TypeInv, CallTypes
<1>2. \A b \in B : Pending(b, M[b], r, s) \in Int
  BY StockTypes
<1>3. \A b \in B : Pending(b, M[b], r, s)' \in Int
  <2>1. Marking(M)' /\ (s \in Sinks)' /\ (B \in SUBSET Buffers)'
    BY <1>1 DEF Marking
  <2>2. \A b \in Buffers : Pending(b, M[b], r, s)' \in Nat
    BY <1>1, <2>1, StockThen DEF StockNats
  <2> QED BY <2>2
<1>4. \A b \in B : /\ f[b] \in Int /\ g[b] \in Int
                   /\ f[b] + (IF b = x THEN j ELSE 0) + (IF b = y THEN k ELSE 0) <= g[b]
  BY <1>2, <1>3 DEF PendingShift
<1>5. PendingIn(B, M, r, s)' = Total(g, B) /\ PendingIn(B, M, r, s) = Total(f, B)
  BY DEF PendingIn
<1> HIDE DEF f, g
<1>6. Total(f, B) + (IF x \in B THEN j ELSE 0) + (IF y \in B THEN k ELSE 0) <= Total(g, B)
  <2>1. Moved(f, g, B, x, j, y, k)
    BY <1>4 DEF Moved
  <2> QED BY <1>1, <2>1, TotalMoves
<1> QED BY <1>5, <1>6

\* What is in a buffer that a step leaves alone is as pending as before.
LEMMA PendingKept ==
    ASSUME UNCHANGED setup, NEW b, hand'[b] = hand[b], queue'[b] = queue[b], closed'[b] = closed[b]
    PROVE  \A m, r, s : /\ Pending(b, m, r, s)' = Pending(b, m, r, s)
                        /\ Passed(b, m)' = Passed(b, m) /\ Unmarked(b, m)' = Unmarked(b, m)
<1>1. \A s : To(s)' = To(s)
  BY PlanKept DEF To
<1>2. \A m, r, s : /\ Passed(b, m)' = Passed(b, m) /\ Unmarked(b, m)' = Unmarked(b, m)
                   /\ Carried(b, r, s)' = Carried(b, r, s) /\ Routes(b, s)' = Routes(b, s)
  BY <1>1, PlanKept DEF Passed, Unmarked, Carried, TransitOf
<1> QED BY <1>2 DEF Pending

\* What an offer of record r takes from the hand of x, on the routes from e to s; and
\* what it gives to e, if e takes it and has not the mark m yet.
Gone(x, e, m, q, r, s) == IF q = r /\ ~Passed(x, m) THEN -Routes(e, s) ELSE 0
Taken(e, m, q, r, s) ==
    IF q = r /\ e \in Buffers /\ Answer(e) = "nil" /\ Unmarked(e, m) THEN Routes(e, s) ELSE 0

\* An offer moves what is pending from the hand to the buffer that takes it.
LEMMA PendingHandOn ==
    ASSUME TypeInv, UNCHANGED <<setup, open, stopped, closed>>,
           NEW x \in Records \cup Buffers, HandOn(x, Start(x)), NEW M, Marking(M),
           NEW e, e = Head(hand[x].todo), NEW q, q = hand[x].item,
           NEW r \in Records, NEW s \in Sinks, NEW b \in Buffers
    PROVE  /\ q \in Records /\ e \in Buffers \cup Sinks /\ e \in Range(Ends(Start(x))) /\ e # x
           /\ Offer(q, e) /\ UNCHANGED silenced
           /\ Routes(e, s) \in Nat
           /\ Pending(b, M[b], r, s)'
                = Pending(b, M[b], r, s) + (IF b = x THEN Gone(x, e, M[x], q, r, s) ELSE 0)
                                         + (IF b = e THEN Taken(e, M[e], q, r, s) ELSE 0)
<1> DEFINE n == Routes(e, s)
           m == M[b]
           k == Routes(b, s)
<1>1. setup \in Setups /\ HandTypes /\ BufferTypes /\ RecordTypes /\ TodoInv
  BY DEF TypeInv, CallTypes
<1>2. /\ q \in Records /\ e \in Buffers \cup Sinks /\ Offer(q, e) /\ UNCHANGED silenced
      /\ e \in Range(Ends(Start(x)))
      /\ hand'[x].todo = Tail(hand[x].todo)
      /\ hand'[x] = Nothing \/ hand'[x].item = q
      /\ \A y \in Records \cup Buffers : y # x => hand'[y] = hand[y]
  BY <1>1, HandOnTypes
<1>3. /\ hand[x].todo \in Seq(Buffers \cup Sinks) /\ hand[x].todo # << >>
      /\ Buffers \cup Sinks \subseteq Handlers /\ Records \cap Buffers = {} /\ None \notin Records
  BY <1>1, <1>2, HandParts, PlanTypes, Distinct, ConstantsAssumption DEF TodoInv, OnItsWay
<1>4. e # x
  <2>1. CASE x \in Records
    <3>1. x \notin Buffers /\ x \notin Sinks
      BY <1>1, <2>1, PlanTypes, ConstantsAssumption
    <3> QED BY <1>2, <3>1
  <2>2. CASE x \in Buffers /\ e \in Buffers
    <3>1. Start(x) = Below(x)
      BY <1>1, <2>2, StartType
    <3>2. e \in Feeds(x)
      BY <1>2, <2>2, <3>1 DEF Feeds
    <3> QED BY <1>1, <2>2, <3>2, FeedsBelow
  <2>3. CASE x \in Buffers /\ e \notin Buffers
    BY <2>3
  <2> QED BY <2>1, <2>2, <2>3
<1>5. n \in Nat /\ k \in Nat /\ s \in Buffers \cup Sinks /\ To(s) \in [Handlers -> Int] /\ To(s)[e] = n
  <2>1. e \in Handlers /\ b \in Handlers /\ s \in Handlers /\ s \in Buffers \cup Sinks
    BY <1>1, <1>2, <1>3
  <2>2. n \in Nat /\ k \in Nat
    BY <1>1, <2>1, PlanTypes
  <2>3. To(s) \in [Handlers -> Nat] /\ To(s)[e] = n
    BY <1>1, <2>1, PlanWeights
  <2> HIDE DEF n, k
  <2> QED BY <2>1, <2>2, <2>3
<1>6. /\ Pending(b, m, r, s) \in Nat /\ AheadOf(queue[b], m, r) \in Nat /\ Carried(b, r, s) \in Nat
      /\ m # r /\ m # q /\ m # None
  BY <1>2, StockTypes DEF Marking
<1>7. queue'[b] = IF b = e /\ Answer(e) = "nil" THEN Append(queue[b], q) ELSE queue[b]
  BY <1>1, <1>2, OfferEffect
<1>8. To(s)' = To(s) /\ k' = k /\ closed' = closed
  BY PlanKept DEF To
<1>9. CASE b = x
  <2>1. Passed(b, m)' <=> Passed(b, m)
    BY <1>2, <1>6, <1>8, <1>9 DEF Passed, Nothing
  <2>2. AheadOf(queue[b], m, r)' = AheadOf(queue[b], m, r)
    BY <1>4, <1>7, <1>9
  <2>3. TransitOf(b, s) = n + Weight(To(s), Tail(hand[b].todo))
          /\ Weight(To(s), Tail(hand[b].todo)) \in Int
    <3>1. hand[b].todo \in Seq(Handlers) /\ hand[b].todo # << >>
      BY <1>3, <1>9
    <3>2. /\ Weight(To(s), hand[b].todo)
               = To(s)[Head(hand[b].todo)] + Weight(To(s), Tail(hand[b].todo))
          /\ Weight(To(s), Tail(hand[b].todo)) \in Int
      BY <1>5, <3>1, WeightTail
    <3> QED BY <1>5, <1>9, <3>2 DEF TransitOf
  <2>4. q = r => Carried(b, r, s)' = Carried(b, r, s) - n
    <3>1. hand'[b] = Nothing => Weight(To(s), Tail(hand[b].todo)) = 0
      <4>1. Nothing.todo = << >>
        BY DEF Nothing
      <4> QED BY <1>2, <1>9, <4>1, WeightEmpty
    <3>2. hand'[b].item = r => Carried(b, r, s)' = Weight(To(s), Tail(hand[b].todo))
      BY <1>2, <1>8, <1>9 DEF Carried, TransitOf
    <3>3. hand'[b].item # r => Carried(b, r, s)' = 0
      BY DEF Carried
    <3>4. q = r => Carried(b, r, s) = TransitOf(b, s)
      BY <1>9 DEF Carried
    <3> QED BY <1>2, <1>5, <1>9, <2>3, <3>1, <3>2, <3>3, <3>4
  <2>5. q # r => Carried(b, r, s)' = Carried(b, r, s)
    BY <1>2, <1>3, <1>9 DEF Carried, Nothing
  <2>6. Pending(b, m, r, s)' = Pending(b, m, r, s) + Gone(x, e, m, q, r, s)
    <3>1. Pending(b, m, r, s)' = IF Passed(b, m) THEN 0 ELSE AheadOf(queue[b], m, r) * k + Carried(b, r, s)'
      BY <1>8, <2>1, <2>2 DEF Pending
    <3>2. Pending(b, m, r, s) = IF Passed(b, m) THEN 0 ELSE AheadOf(queue[b], m, r) * k + Carried(b, r, s)
      BY DEF Pending
    <3>3. Gone(x, e, m, q, r, s) = IF q = r /\ ~Passed(b, m) THEN -n ELSE 0
      BY <1>9 DEF Gone
    <3>4. AheadOf(queue[b], m, r) * k \in Int
      BY <1>5, <1>6
    <3> DEFINE A == AheadOf(queue[b], m, r) * k
    <3> HIDE DEF A, n, m, k
    <3>5. CASE Passed(b, m)
      BY <3>1, <3>2, <3>3, <3>5
    <3>6. CASE ~Passed(b, m) /\ q = r
      BY <1>5, <1>6, <2>4, <3>1, <3>2, <3>3, <3>4, <3>6 DEF A
    <3>7. CASE ~Passed(b, m) /\ q # r
      BY <1>5, <1>6, <2>5, <3>1, <3>2, <3>3, <3>4, <3>7 DEF A
    <3> QED BY <3>5, <3>6, <3>7
  <2>7. Gone(x, e, m, q, r, s) \in Int
    BY <1>5 DEF Gone
  <2> QED BY <1>2, <1>4, <1>5, <1>6, <1>9, <2>6, <2>7
<1>10. CASE b # x /\ b = e /\ Answer(e) = "nil"
  <2>1. hand'[b] = hand[b] /\ queue'[b] = Append(queue[b], q)
    BY <1>2, <1>7, <1>10
  <2>2. AheadOf(Append(queue[b], q), m, r)
          = AheadOf(queue[b], m, r) + IF q = r /\ m \notin Range(queue[b]) THEN 1 ELSE 0
    <3>1. queue[b] \in Seq(Records \cup Barriers) /\ q \in Records \cup Barriers
      BY <1>1, <1>2 DEF BufferTypes
    <3> QED BY <1>6, <3>1, AheadSteps
  <2>3. (Passed(b, m)' <=> Passed(b, m)) /\ Carried(b, r, s)' = Carried(b, r, s)
    BY <1>8, <2>1 DEF Passed, Carried, TransitOf
  <2>4. Pending(b, m, r, s)' = IF Passed(b, m) THEN 0
                              ELSE AheadOf(Append(queue[b], q), m, r) * k + Carried(b, r, s)
    BY <1>8, <2>1, <2>3 DEF Pending
  <2>5. Pending(b, m, r, s) = IF Passed(b, m) THEN 0
                              ELSE AheadOf(queue[b], m, r) * k + Carried(b, r, s)
    BY DEF Pending
  <2>6. Taken(e, m, q, r, s) = IF q = r /\ ~Passed(b, m) /\ m \notin Range(queue[b]) THEN k ELSE 0
    BY <1>10 DEF Taken, Unmarked
  <2>7. (AheadOf(queue[b], m, r) + 1) * k = AheadOf(queue[b], m, r) * k + k
          /\ AheadOf(queue[b], m, r) * k \in Int
    BY <1>5, <1>6
  <2>8. Pending(b, m, r, s)' = Pending(b, m, r, s) + Taken(e, m, q, r, s)
    <3> DEFINE A == AheadOf(queue[b], m, r)
    <3>1. CASE Passed(b, m)
      BY <2>4, <2>5, <2>6, <3>1
    <3>2. CASE ~Passed(b, m) /\ q = r /\ m \notin Range(queue[b])
      <4>1. AheadOf(Append(queue[b], q), m, r) = A + 1
        BY <2>2, <3>2
      <4>2. Pending(b, m, r, s)' = (A + 1) * k + Carried(b, r, s)
        BY <2>4, <3>2, <4>1
      <4> DEFINE P == A * k
      <4>3. Pending(b, m, r, s)' = P + k + Carried(b, r, s) /\ P \in Int
        BY <2>7, <4>2
      <4>4. Pending(b, m, r, s) = P + Carried(b, r, s) /\ Taken(e, m, q, r, s) = k
        BY <2>5, <2>6, <3>2
      <4> HIDE DEF P, A, k, m
      <4> QED BY <1>5, <1>6, <4>3, <4>4
    <3>3. CASE ~Passed(b, m) /\ ~(q = r /\ m \notin Range(queue[b]))
      <4>1. AheadOf(Append(queue[b], q), m, r) = A
        BY <1>6, <2>2, <3>3
      <4> HIDE DEF A, k, m
      <4> QED BY <1>6, <2>4, <2>5, <2>6, <3>3, <4>1 DEF A
    <3> QED BY <3>1, <3>2, <3>3
  <2>9. Taken(e, m, q, r, s) \in Int
    BY <1>5, <2>6
  <2> QED BY <1>2, <1>4, <1>5, <1>6, <1>10, <2>8, <2>9
<1>11. CASE b # x /\ ~(b = e /\ Answer(e) = "nil")
  <2>1. hand'[b] = hand[b] /\ queue'[b] = queue[b] /\ closed'[b] = closed[b]
    BY <1>2, <1>7, <1>8, <1>11
  <2>2. Pending(b, m, r, s)' = Pending(b, m, r, s)
    BY <2>1, PendingKept
  <2>3. b = e => Taken(e, M[e], q, r, s) = 0
    BY <1>11 DEF Taken
  <2> QED BY <1>2, <1>4, <1>5, <1>6, <1>11, <2>2, <2>3
<1> QED BY <1>9, <1>10, <1>11

\* A record that the level stops was pending by all the routes from the entry.
LEMMA PendingSilence ==
    ASSUME TypeInv, UNCHANGED <<setup, closed>>,
           NEW x \in Records \cup Buffers, Silence(x, Start(x)), NEW M, Marking(M),
           NEW q, q = hand[x].item,
           NEW r \in Records, NEW s \in Sinks, NEW b \in Buffers
    PROVE  /\ q \in Records /\ UNCHANGED <<queue, dropped, refused, delivered>>
           /\ silenced' = [silenced EXCEPT ![q] = @ + 1] /\ Routes(Plan.entry, s) \in Nat
           /\ Pending(b, M[b], r, s)
                <= Pending(b, M[b], r, s)' + IF b = x /\ q = r THEN Routes(Plan.entry, s) ELSE 0
<1> DEFINE n == Routes(Plan.entry, s)
           m == M[b]
           k == Routes(b, s)
<1>1. setup \in Setups /\ HandTypes /\ BufferTypes /\ RecordTypes /\ TodoInv /\ None \notin Records
  BY Distinct DEF TypeInv, CallTypes
<1>2. /\ q \in Records /\ hand'[x] = Nothing /\ UNCHANGED <<queue, dropped, refused, delivered>>
      /\ silenced' = [silenced EXCEPT ![q] = @ + 1]
      /\ \A y \in Records \cup Buffers : y # x => hand'[y] = hand[y]
      /\ hand[x].todo = Ends(Start(x)) /\ Plan.graph[Start(x)].kind = "level"
  BY <1>1, SilenceTypes
<1>3. TransitOf(x, s) = n /\ n \in Nat
  <2>1. Start(x) \in Handlers
    BY <1>1, StartType
  <2>2. Weight(To(s), Ends(Start(x))) = Routes(Start(x), s)
    BY <1>1, <2>1, PlanWeights
  <2>3. Routes(Start(x), s) = n
    BY <1>1, <1>2, <2>1, PlanRoutes
  <2>4. n \in Nat
    BY AccountTypes
  <2> QED BY <1>2, <2>2, <2>3, <2>4 DEF TransitOf
<1>4. /\ Pending(b, m, r, s) \in Nat /\ AheadOf(queue[b], m, r) \in Nat /\ Carried(b, r, s) \in Nat
      /\ m # r /\ m # q /\ m # None /\ k \in Nat
  BY <1>2, StockTypes, AccountTypes DEF Marking
<1>5. CASE b = x
  <2>1. (Passed(b, m)' <=> Passed(b, m)) /\ Carried(b, r, s)' = 0
    BY <1>1, <1>2, <1>4, <1>5 DEF Passed, Carried, Nothing
  <2>2. Carried(b, r, s) = IF q = r THEN n ELSE 0
    BY <1>3, <1>5 DEF Carried
  <2>3. /\ Pending(b, m, r, s) = IF Passed(b, m) THEN 0
                                ELSE AheadOf(queue[b], m, r) * k + Carried(b, r, s)
        /\ Pending(b, m, r, s)' = IF Passed(b, m) THEN 0
                                ELSE AheadOf(queue[b], m, r) * k + Carried(b, r, s)'
    BY <1>2, <2>1, PlanKept DEF Pending
  <2> DEFINE A == AheadOf(queue[b], m, r) * k
  <2>4. A \in Nat
    BY <1>4
  <2> HIDE DEF A, n, m, k
  <2>5. Pending(b, m, r, s) <= Pending(b, m, r, s)' + IF q = r THEN n ELSE 0
    BY <1>3, <2>1, <2>2, <2>3, <2>4 DEF A
  <2> QED BY <1>2, <1>3, <1>5, <2>5 DEF n, m
<1>6. CASE b # x
  <2>1. hand'[b] = hand[b] /\ queue'[b] = queue[b] /\ closed'[b] = closed[b]
    BY <1>2, <1>6
  <2>2. Pending(b, m, r, s)' = Pending(b, m, r, s)
    BY <2>1, PendingKept
  <2> QED BY <1>2, <1>3, <1>4, <1>6, <2>2
<1> QED BY <1>5, <1>6

\* What the worker takes is as pending in its hand as in its queue.
LEMMA PendingReceive ==
    ASSUME TypeInv, NEW c \in Buffers, WorkerReceive(c), NEW M, Marking(M),
           NEW r \in Records, NEW s \in Sinks, NEW b \in Buffers
    PROVE  Pending(b, M[b], r, s)' = Pending(b, M[b], r, s)
<1> DEFINE m == M[b]
           k == Routes(b, s)
<1>1. /\ setup \in Setups /\ HandTypes /\ BufferTypes /\ UNCHANGED <<setup, closed>>
      /\ c \in Records \cup Buffers /\ None \notin Records /\ m # r /\ m # None
  BY Distinct DEF TypeInv, CallTypes, WorkerReceive, levelVars, Marking
<1>2. PICK q, i : q = queue[c] /\ i = Head(queue[c])
  OBVIOUS
<1>3. /\ q # << >> /\ q \in Seq(Records \cup Barriers) /\ i \in Records \cup Barriers
      /\ hand[c] = Nothing
      /\ hand'[c] = InHand(i, Below(c)) /\ queue'[c] = Tail(q)
      /\ \A y \in Records \cup Buffers : y # c => hand'[y] = hand[y]
      /\ \A d \in Buffers : d # c => queue'[d] = queue[d]
  BY <1>1, <1>2 DEF WorkerReceive, BufferTypes, HandTypes
<1>4. CASE b # c
  <2>1. hand'[b] = hand[b] /\ queue'[b] = queue[b] /\ closed'[b] = closed[b]
    BY <1>1, <1>3, <1>4
  <2> QED BY <1>1, <2>1, PendingKept
<1>5. CASE b = c
  <2>1. k \in Nat /\ k' = k /\ To(s)' = To(s)
    BY AccountTypes, <1>1, PlanKept DEF To
  <2>2. /\ Head(q) = m => AheadOf(q, m, r) = 0
        /\ Head(q) # m => AheadOf(q, m, r) = AheadOf(Tail(q), m, r) + IF Head(q) = r THEN 1 ELSE 0
    BY <1>1, <1>3, AheadSteps
  <2>3. AheadOf(Tail(q), m, r) \in Nat
    <3>1. Tail(q) \in Seq(Records \cup Barriers)
      BY <1>3
    <3> QED BY <1>1, <1>3, <3>1, AheadSteps
  <2>4. hand'[b].item = i /\ hand[b].item = None
    BY <1>3, <1>5 DEF InHand, Nothing
  <2>5. Carried(b, r, s) = 0 /\ (i # r => Carried(b, r, s)' = 0)
    BY <1>1, <2>4 DEF Carried
  <2>6. i = r => Carried(b, r, s)' = k
    <3>1. Below(b) \in Handlers /\ s \in Handlers /\ s # b /\ s \in Buffers \cup Sinks
      BY <1>1, PlanTypes
    <3>2. Weight(To(s), Ends(Below(b))) = Routes(Below(b), s) /\ Routes(Below(b), s) = k
      BY <1>1, <3>1, PlanWeights, PlanRoutes
    <3>3. i = r => hand'[b].todo = Ends(Below(b))
      BY <1>3, <1>5 DEF InHand
    <3> QED BY <2>1, <2>4, <3>2, <3>3 DEF Carried, TransitOf
  <2>7. /\ Passed(b, m) <=> m \in closed[b]
        /\ Passed(b, m)' <=> (m \in closed[b] \/ i = m)
    BY <1>1, <2>4 DEF Passed
  <2>8. /\ Pending(b, m, r, s) = IF Passed(b, m) THEN 0 ELSE AheadOf(q, m, r) * k + Carried(b, r, s)
        /\ Pending(b, m, r, s)' = IF m \in closed[b] \/ i = m THEN 0
                                  ELSE AheadOf(Tail(q), m, r) * k + Carried(b, r, s)'
    BY <1>2, <1>3, <1>5, <2>1, <2>7 DEF Pending
  <2>9. CASE m \in closed[b]
    BY <2>7, <2>8, <2>9
  <2>10. CASE m \notin closed[b] /\ i = m
    <3>1. AheadOf(q, m, r) * k = 0
      BY <1>2, <2>1, <2>2, <2>10
    <3>2. Pending(b, m, r, s) = 0 /\ Pending(b, m, r, s)' = 0
      BY <2>5, <2>7, <2>8, <2>10, <3>1
    <3> QED BY <3>2
  <2>11. CASE m \notin closed[b] /\ i # m
    <3> DEFINE T == AheadOf(Tail(q), m, r)
    <3>1. /\ Pending(b, m, r, s) = AheadOf(q, m, r) * k + 0
          /\ Pending(b, m, r, s)' = T * k + Carried(b, r, s)'
      BY <2>5, <2>7, <2>8, <2>11
    <3>2. CASE i = r
      <4>1. AheadOf(q, m, r) = T + 1 /\ Carried(b, r, s)' = k
        BY <1>2, <2>2, <2>6, <2>11, <3>2
      <4>2. (T + 1) * k = T * k + k /\ T * k \in Nat
        BY <2>1, <2>3
      <4>3. Pending(b, m, r, s) = (T + 1) * k + 0
        BY <3>1, <4>1
      <4> QED BY <2>1, <3>1, <4>1, <4>2, <4>3
    <3>3. CASE i # r
      <4>1. AheadOf(q, m, r) = T /\ Carried(b, r, s)' = 0
        BY <1>2, <2>2, <2>3, <2>5, <2>11, <3>3
      <4> QED BY <3>1, <4>1
    <3> QED BY <3>2, <3>3
  <2> QED BY <2>9, <2>10, <2>11
<1> QED BY <1>4, <1>5

\* A barrier that is reached or put into the queue leaves what is pending as it is.
LEMMA PendingBarrier ==
    ASSUME TypeInv, NEW M, Marking(M), NEW r \in Records, NEW s \in Sinks, NEW b \in Buffers,
           (\E c \in Buffers : WorkerBarrier(c)) \/ (\E f \in Flushes : FlushEnqueue(f))
    PROVE  Pending(b, M[b], r, s)' = Pending(b, M[b], r, s)
<1> DEFINE m == M[b]
<1>1. /\ setup \in Setups /\ HandTypes /\ BufferTypes /\ None \notin Records
      /\ Records \cap Barriers = {} /\ m # r /\ m # None /\ Records \cap Buffers = {}
  BY Distinct DEF TypeInv, CallTypes, Marking
<1>2. ASSUME NEW c \in Buffers, WorkerBarrier(c) PROVE Pending(b, m, r, s)' = Pending(b, m, r, s)
  <2>1. /\ UNCHANGED <<setup, queue>> /\ hand[c].item \in Barriers
        /\ hand' = [hand EXCEPT ![c] = Nothing]
        /\ closed' = [closed EXCEPT ![c] = @ \cup {hand[c].item}]
    BY <1>2 DEF WorkerBarrier, levelVars
  <2>2. CASE b # c
    <3>1. hand'[b] = hand[b] /\ queue'[b] = queue[b] /\ closed'[b] = closed[b]
      BY <1>1, <2>1, <2>2 DEF HandTypes, BufferTypes
    <3> QED BY <2>1, <3>1, PendingKept
  <2>3. CASE b = c
    <3>1. hand'[b] = Nothing /\ closed'[b] = closed[b] \cup {hand[b].item} /\ queue'[b] = queue[b]
      BY <1>1, <2>1, <2>3 DEF HandTypes, BufferTypes
    <3>2. Passed(b, m)' <=> Passed(b, m)
      BY <1>1, <3>1 DEF Passed, Nothing
    <3>3. Carried(b, r, s) = 0 /\ Carried(b, r, s)' = 0
      BY <1>1, <2>1, <2>3, <3>1 DEF Carried, Nothing
    <3>4. Routes(b, s)' = Routes(b, s)
      BY <2>1, PlanKept
    <3> QED BY <3>1, <3>2, <3>3, <3>4 DEF Pending
  <2> QED BY <2>2, <2>3
<1>3. ASSUME NEW f \in Flushes, FlushEnqueue(f) PROVE Pending(b, m, r, s)' = Pending(b, m, r, s)
  <2>0. PICK c, i : c = Flushers[idx[f]] /\ i = Barrier(f)
    OBVIOUS
  <2>1. /\ UNCHANGED <<setup, hand, closed>> /\ queue' = [queue EXCEPT ![c] = Append(@, i)]
    BY <1>3, <2>0 DEF FlushEnqueue, levelVars
  <2>2. i \in Barriers
    <3>1. pc[f] \in {"enqueue", "await"} /\ f \in Visitors
      BY <1>3 DEF FlushEnqueue, Visitors
    <3>2. idx[f] \in 1 .. Len(Flushers) + 1 /\ idx[f] <= Len(Flushers) /\ Len(Flushers) \in Nat
      BY <1>1, <3>1, FlushersType DEF TypeInv, CallTypes, PlaceInv
    <3>3. idx[f] \in 1 .. Len(Flushers)
      BY <3>2
    <3> QED BY <2>0, <3>3 DEF Barrier, Barriers
  <2>3. CASE b # c
    <3>1. hand'[b] = hand[b] /\ queue'[b] = queue[b] /\ closed'[b] = closed[b]
      BY <1>1, <2>1, <2>3 DEF BufferTypes
    <3> QED BY <2>1, <3>1, PendingKept
  <2>4. CASE b = c
    <3>1. queue'[b] = Append(queue[b], i) /\ queue[b] \in Seq(Records \cup Barriers) /\ i # r
            /\ i \in Records \cup Barriers
      BY <1>1, <2>1, <2>2, <2>4 DEF BufferTypes
    <3>2. AheadOf(Append(queue[b], i), m, r) = AheadOf(queue[b], m, r)
      <4>1. /\ AheadOf(queue[b], m, r) \in Nat
            /\ AheadOf(Append(queue[b], i), m, r)
                 = AheadOf(queue[b], m, r) + IF i = r /\ m \notin Range(queue[b]) THEN 1 ELSE 0
        BY <1>1, <3>1, AheadSteps, SMTT(20)
      <4> QED BY <3>1, <4>1
    <3>3. (Passed(b, m)' <=> Passed(b, m)) /\ Carried(b, r, s)' = Carried(b, r, s)
            /\ Routes(b, s)' = Routes(b, s)
      <4>1. To(s)' = To(s)
        BY <2>1, PlanKept DEF To
      <4> QED BY <2>1, <4>1, PlanKept DEF Passed, Carried, TransitOf
    <3> QED BY <3>1, <3>2, <3>3 DEF Pending
  <2> QED BY <2>3, <2>4
<1> QED BY <1>2, <1>3

-----------------------------------------------------------------------------
(* No step takes more from what is pending than it delivers or loses.         *)

\* What full buffers and the level have lost grows in one place.
LEMMA LostChange ==
    ASSUME TypeInv, TypeInv', UNCHANGED setup, NEW r \in Records, NEW s \in Sinks
    PROVE  /\ UNCHANGED <<overflowed, silenced>> => LostTo(r, s)' = LostTo(r, s)
           /\ \A e \in Buffers, q \in Records :
                 overflowed' = [overflowed EXCEPT ![e][q] = @ + 1] /\ UNCHANGED silenced
                   => LostTo(r, s)' = LostTo(r, s) + IF q = r THEN Routes(e, s) ELSE 0
           /\ \A q \in Records :
                 silenced' = [silenced EXCEPT ![q] = @ + 1] /\ UNCHANGED overflowed
                   => LostTo(r, s)' = LostTo(r, s) + IF q = r THEN Routes(Plan.entry, s) ELSE 0
<1> DEFINE n == Routes(Plan.entry, s)
<1>1. /\ setup \in Setups /\ RecordTypes /\ IsFiniteSet(Buffers) /\ UNCHANGED Buffers /\ n' = n
      /\ \A h, t : Routes(h, t)' = Routes(h, t)
  BY PlanTypes, PlanKept DEF TypeInv, CallTypes
<1>2. n \in Nat /\ LostIn(r, s) \in Nat /\ silenced[r] \in Nat /\ \A b \in Buffers : Routes(b, s) \in Nat
  <2>1. Marking([b \in Buffers |-> Drainer])
    BY ConstantsAssumption DEF Marking
  <2> QED BY <1>1, <2>1, AccountTypes, StockTypes DEF RecordTypes
<1>3. UNCHANGED overflowed => LostIn(r, s)' = LostIn(r, s)
  BY <1>1 DEF LostIn
<1>4. /\ LostTo(r, s) = LostIn(r, s) + silenced[r] * n
      /\ LostTo(r, s)' = LostIn(r, s)' + silenced'[r] * n
  BY <1>1 DEF LostTo
<1>5. ASSUME NEW e \in Buffers, NEW q \in Records, UNCHANGED silenced,
             overflowed' = [overflowed EXCEPT ![e][q] = @ + 1]
      PROVE  LostTo(r, s)' = LostTo(r, s) + IF q = r THEN Routes(e, s) ELSE 0
  <2> DEFINE f == [b \in Buffers |-> overflowed[b][r] * Routes(b, s)]
             g == [b \in Buffers |-> overflowed'[b][r] * Routes(b, s)]
             d == IF q = r THEN Routes(e, s) ELSE 0
  <2>1. /\ \A b \in Buffers : overflowed[b][r] \in Nat
        /\ \A b \in Buffers : b # e => overflowed'[b][r] = overflowed[b][r]
        /\ overflowed'[e][r] = overflowed[e][r] + IF q = r THEN 1 ELSE 0
    BY <1>1, <1>5 DEF RecordTypes
  <2>2. \A b \in Buffers : f[b] = overflowed[b][r] * Routes(b, s) /\ g[b] = overflowed'[b][r] * Routes(b, s)
    OBVIOUS
  <2>3. \A b \in Buffers : f[b] \in Int /\ (b # e => g[b] = f[b])
    BY <1>2, <2>1, <2>2
  <2>4. g[e] = f[e] + d /\ d \in Int /\ g[e] \in Int
    <3> DEFINE m == overflowed[e][r]
               k == Routes(e, s)
    <3>1. m \in Nat /\ k \in Nat /\ f[e] = m * k
      BY <1>2, <2>1
    <3>2. (m + 1) * k = m * k + k /\ m * k \in Int
      BY <3>1
    <3>3. CASE q = r
      <4>1. g[e] = (m + 1) * k
        BY <2>1, <3>3
      <4> QED BY <3>1, <3>2, <3>3, <4>1
    <3>4. CASE q # r
      <4>1. g[e] = m * k
        BY <2>1, <3>1, <3>4
      <4> QED BY <3>1, <3>2, <3>4, <4>1
    <3> QED BY <3>3, <3>4
  <2>5. LostIn(r, s)' = Total(g, Buffers) /\ LostIn(r, s) = Total(f, Buffers)
    BY <1>1 DEF LostIn
  <2> HIDE DEF f, g
  <2>6. \A b \in Buffers : f[b] \in Int /\ g[b] \in Int /\ (b # e => g[b] = f[b])
    BY <2>3, <2>4
  <2>7. Total(g, Buffers) = Total(f, Buffers) - f[e] + g[e]
    BY <1>1, <2>6, TotalChange
  <2>8. LostIn(r, s)' = LostIn(r, s) + d
    <3> HIDE DEF d
    <3> QED BY <1>2, <2>3, <2>4, <2>5, <2>7
  <2>9. silenced[r] * n \in Nat /\ silenced' = silenced
    BY <1>2, <1>5
  <2> HIDE DEF d, n
  <2>10. LostTo(r, s)' = LostTo(r, s) + d
    BY <1>2, <1>4, <2>4, <2>8, <2>9
  <2> QED BY <2>10 DEF d
<1>6. ASSUME NEW q \in Records, UNCHANGED overflowed, silenced' = [silenced EXCEPT ![q] = @ + 1]
      PROVE  LostTo(r, s)' = LostTo(r, s) + IF q = r THEN n ELSE 0
  <2>1. silenced'[r] = silenced[r] + IF q = r THEN 1 ELSE 0
    BY <1>1, <1>6 DEF RecordTypes
  <2>2. (silenced[r] + 1) * n = silenced[r] * n + n /\ silenced[r] * n \in Nat
    BY <1>2
  <2>3. CASE q = r
    <3>1. silenced'[r] * n = silenced[r] * n + n
      BY <2>1, <2>2, <2>3
    <3> HIDE DEF n
    <3> QED BY <1>2, <1>3, <1>4, <1>6, <2>2, <2>3, <3>1
  <2>4. CASE q # r
    <3>1. silenced'[r] = silenced[r]
      BY <1>2, <2>1, <2>4
    <3>2. LostTo(r, s)' = LostTo(r, s)
      BY <1>3, <1>4, <1>6, <3>1
    <3>3. LostTo(r, s) \in Nat
      BY <1>2, <1>4, <2>2
    <3> QED BY <2>4, <3>2, <3>3
  <2> QED BY <2>3, <2>4
<1>7. UNCHANGED <<overflowed, silenced>> => LostTo(r, s)' = LostTo(r, s)
  BY <1>3, <1>4
<1> QED BY <1>5, <1>6, <1>7

\* Where a record goes on from a buffer of B that is not past its mark, it goes to
\* buffers of B that take it and have not got theirs.
Passes(B, M) ==
    \A b \in B : hand[b].item \in Records /\ ~Passed(b, M[b]) =>
        \A e \in Feeds(b) : e \in B /\ open[e] /\ Unmarked(e, M[e])

\* What is left alone is as much as before.
LEMMA StockSame ==
    ASSUME TypeInv, TypeInv', UNCHANGED <<setup, queue, closed, delivered, overflowed, silenced>>,
           \A b \in Buffers : hand'[b] = hand[b],
           NEW M, NEW r \in Records, NEW s \in Sinks, NEW B \in SUBSET Buffers
    PROVE  Stock(B, M, r, s)' = Stock(B, M, r, s)
<1>1. \A b \in B : Pending(b, M[b], r, s)' = Pending(b, M[b], r, s)
  <2> TAKE b \in B
  <2>1. hand'[b] = hand[b] /\ queue'[b] = queue[b] /\ closed'[b] = closed[b]
    OBVIOUS
  <2> QED BY <2>1, PendingKept
<1>2. PendingIn(B, M, r, s)' = PendingIn(B, M, r, s)
  BY <1>1 DEF PendingIn
<1>3. LostTo(r, s)' = LostTo(r, s)
  BY LostChange
<1> QED BY <1>2, <1>3 DEF Stock

\* A worker hands on.
LEMMA StockWorker ==
    ASSUME TypeInv, TypeInv', NEW c \in Buffers, WorkerDeliver(c), NEW M, Marking(M),
           NEW r \in Records, NEW s \in Sinks, NEW B \in SUBSET Buffers, Passes(B, M)
    PROVE  Stock(B, M, r, s) <= Stock(B, M, r, s)'
<1> DEFINE P == PendingIn(B, M, r, s)
           Q == PendingIn(B, M, r, s)'
           L == LostTo(r, s)
           K == LostTo(r, s)'
           D == delivered[s][r]
           C == delivered'[s][r]
<1>1. /\ setup \in Setups /\ BufferTypes /\ RecordTypes /\ UNCHANGED <<setup, open, stopped, closed>>
      /\ Start(c) = Below(c) /\ c \in Records \cup Buffers /\ UNCHANGED <<Buffers, Sinks>>
  BY StartType, PlanKept DEF TypeInv, CallTypes, WorkerDeliver, levelVars
<1>2. P \in Nat /\ L \in Nat /\ D \in Nat
  BY StockTypes
<1>3. Q \in Nat /\ K \in Nat
  <2>1. Marking(M)' /\ (s \in Sinks)' /\ (B \in SUBSET Buffers)'
    BY <1>1 DEF Marking
  <2> QED BY <2>1, StockThen DEF StockNats
<1>4. Stock(B, M, r, s) = D + L + P /\ Stock(B, M, r, s)' = C + K + Q
  BY DEF Stock
<1>5. PICK e, q : e = Head(hand[c].todo) /\ q = hand[c].item
  OBVIOUS
<1>6. CASE Silence(c, Below(c)) /\ UNCHANGED <<firstErr, overflowed>>
  <2> DEFINE n == Routes(Plan.entry, s)
             j == IF q = r THEN -n ELSE 0
  <2>1. /\ q \in Records /\ UNCHANGED delivered /\ n \in Nat
        /\ silenced' = [silenced EXCEPT ![q] = @ + 1]
        /\ \A b \in Buffers : Pending(b, M[b], r, s)
              <= Pending(b, M[b], r, s)' + IF b = c /\ q = r THEN n ELSE 0
    BY <1>1, <1>5, <1>6, PendingSilence
  <2>2. K = L + IF q = r THEN n ELSE 0
    BY <1>1, <1>6, <2>1, LostChange
  <2>3. j \in Int
    BY <2>1
  <2>4. PendingShift(B, M, r, s, c, j, c, 0)
    <3> SUFFICES ASSUME NEW b \in B
                 PROVE  Pending(b, M[b], r, s) + (IF b = c THEN j ELSE 0) + (IF b = c THEN 0 ELSE 0)
                          <= Pending(b, M[b], r, s)'
      BY DEF PendingShift
    <3>1. Pending(b, M[b], r, s) \in Nat /\ Pending(b, M[b], r, s)' \in Nat
      <4>1. Marking(M)' /\ (s \in Sinks)' /\ (b \in Buffers)'
        BY <1>1 DEF Marking
      <4> QED BY <4>1, StockTypes, StockThen DEF StockNats
    <3> HIDE DEF n
    <3> QED BY <2>1, <3>1
  <2>5. P + (IF c \in B THEN j ELSE 0) + (IF c \in B THEN 0 ELSE 0) <= Q
    <3>1. UNCHANGED setup
      BY <1>1
    <3> HIDE DEF j
    <3> QED BY <2>3, <2>4, <3>1, PendingMoves
  <2>6. C = D
    BY <2>1
  <2> HIDE DEF n, P, Q, L, K, D, C
  <2> QED BY <1>2, <1>3, <1>4, <2>1, <2>2, <2>3, <2>5, <2>6
<1>7. CASE /\ HandOn(c, Below(c))
           /\ overflowed' = IF Answer(e) = "full" THEN [overflowed EXCEPT ![e][q] = @ + 1] ELSE overflowed
  <2> DEFINE n == Routes(e, s)
             j == Gone(c, e, M[c], q, r, s)
             k == Taken(e, M[e], q, r, s)
  <2>1. /\ q \in Records /\ e \in Buffers \cup Sinks /\ e \in Range(Ends(Below(c))) /\ e # c
        /\ Offer(q, e) /\ UNCHANGED silenced /\ n \in Nat
        /\ \A b \in Buffers : Pending(b, M[b], r, s)'
              = Pending(b, M[b], r, s) + (IF b = c THEN j ELSE 0) + (IF b = e THEN k ELSE 0)
    BY <1>1, <1>5, <1>7, PendingHandOn
  <2>2. j \in Int /\ k \in Nat /\ (q # r => j = 0 /\ k = 0) /\ (j = 0 \/ j = -n)
    BY <2>1 DEF Gone, Taken
  <2>3. P + (IF c \in B THEN j ELSE 0) + (IF e \in B THEN k ELSE 0) <= Q
    <3>1. PendingShift(B, M, r, s, c, j, e, k)
      <4> SUFFICES ASSUME NEW b \in B
                   PROVE  Pending(b, M[b], r, s) + (IF b = c THEN j ELSE 0) + (IF b = e THEN k ELSE 0)
                            <= Pending(b, M[b], r, s)'
        BY DEF PendingShift
      <4>1. Pending(b, M[b], r, s) \in Nat
        BY StockTypes
      <4> HIDE DEF j, k
      <4> QED BY <2>1, <2>2, <4>1
    <3>2. UNCHANGED setup /\ j \in Int /\ k \in Int
      BY <1>1, <2>2
    <3> HIDE DEF j, k
    <3> QED BY <3>1, <3>2, PendingMoves
  <2>4. C = D + IF s = e /\ q = r THEN 1 ELSE 0
    BY <1>1, <2>1, OfferEffect
  <2>5. /\ Answer(e) = "full" => e \in Buffers /\ K = L + IF q = r THEN n ELSE 0
        /\ Answer(e) # "full" => K = L
    <3>1. Answer(e) = "full" => e \in Buffers
      BY <2>1 DEF Answer
    <3> QED BY <1>1, <1>7, <2>1, <3>1, LostChange
  <2>6. CASE q # r
    <3> HIDE DEF n, P, Q, L, K, D, C, j, k
    <3> QED BY <1>2, <1>3, <1>4, <2>2, <2>3, <2>4, <2>5, <2>6
  <2>7. CASE q = r /\ c \in B /\ ~Passed(c, M[c]) /\ e \in Buffers
    <3>1. e \in B /\ open[e] /\ Unmarked(e, M[e])
      <4>1. e \in Feeds(c)
        BY <2>1, <2>7 DEF Feeds
      <4> QED BY <1>5, <2>1, <2>7, <4>1 DEF Passes
    <3>2. Answer(e) = "full" \/ k = n
      <4>1. Answer(e) \in {"full", "nil"}
        BY <1>1, <2>7, <3>1, PlanTypes DEF Answer
      <4> QED BY <2>7, <3>1, <4>1 DEF Taken
    <3>3. s # e
      BY <1>1, <2>7, PlanTypes
    <3> HIDE DEF n, P, Q, L, K, D, C, j, k
    <3> QED BY <1>2, <1>3, <1>4, <2>1, <2>2, <2>3, <2>4, <2>5, <2>7, <3>1, <3>2, <3>3
  <2>8. CASE q = r /\ c \in B /\ ~Passed(c, M[c]) /\ e \notin Buffers
    <3>1. e \in Sinks /\ e \notin B /\ Answer(e) # "full"
      BY <2>1, <2>8 DEF Answer
    <3>2. n = IF s = e THEN 1 ELSE 0
      BY <1>1, <3>1, PlanTypes, PlanRoutes
    <3> HIDE DEF n, P, Q, L, K, D, C, j, k
    <3> QED BY <1>2, <1>3, <1>4, <2>2, <2>3, <2>4, <2>5, <2>8, <3>1, <3>2
  <2>9. CASE q = r /\ ~(c \in B /\ ~Passed(c, M[c]))
    <3>1. c \in B => j = 0
      BY <2>9 DEF Gone
    <3> HIDE DEF n, P, Q, L, K, D, C, j, k
    <3> QED BY <1>2, <1>3, <1>4, <2>1, <2>2, <2>3, <2>4, <2>5, <2>9, <3>1
  <2> QED BY <2>6, <2>7, <2>8, <2>9
<1> QED BY <1>5, <1>6, <1>7 DEF WorkerDeliver

\* What the log calls have put into the buffers of B, on the routes to s.
Sent(B, A, r, s) == Total([b \in B |-> A[b][r] * Routes(b, s)], B)

\* A number for each buffer and record, and one more for record q at e.
Counts == [Buffers -> [Records -> Nat]]
OneMore(A, e, q) == [A EXCEPT ![e][q] = @ + 1]

\* What was sent is a number, and grows in one place.
LEMMA SentChange ==
    ASSUME TypeInv, NEW B \in SUBSET Buffers, NEW r \in Records, NEW s \in Sinks, NEW A \in Counts
    PROVE  /\ Sent(B, A, r, s) \in Nat
           /\ \A e \in Buffers, q \in Records :
                 Sent(B, OneMore(A, e, q), r, s)
                   = Sent(B, A, r, s) + IF e \in B /\ q = r THEN Routes(e, s) ELSE 0
<1> DEFINE f == [b \in B |-> A[b][r] * Routes(b, s)]
<1>1. IsFiniteSet(B) /\ (\A b \in Buffers : Routes(b, s) \in Nat)
        /\ \A b \in Buffers, q \in Records : A[b][q] \in Nat
  BY AccountTypes, PlanTypes, FS_Subset, SMTT(20) DEF TypeInv, CallTypes, Counts
<1>2. \A b \in B : f[b] \in Nat
  BY <1>1
<1>3. Total(f, B) \in Nat /\ Sent(B, A, r, s) = Total(f, B)
  <2>1. Sent(B, A, r, s) = Total(f, B)
    BY DEF Sent
  <2> HIDE DEF f
  <2>2. Total(f, B) \in Nat
    BY <1>1, <1>2, TotalNat
  <2> QED BY <2>1, <2>2
<1>4. ASSUME NEW e \in Buffers, NEW q \in Records
      PROVE  Sent(B, OneMore(A, e, q), r, s)
               = Sent(B, A, r, s) + IF e \in B /\ q = r THEN Routes(e, s) ELSE 0
  <2> DEFINE N == OneMore(A, e, q)
             g == [b \in B |-> N[b][r] * Routes(b, s)]
  <2>1. \A b \in B : N[b][r] = A[b][r] + IF b = e /\ q = r THEN 1 ELSE 0
    BY <1>1 DEF Counts, OneMore
  <2>2. \A b \in B : ~(b = e /\ q = r) => N[b][r] = A[b][r]
    BY <1>1, <2>1
  <2>3. \A b \in B : ~(b = e /\ q = r) => g[b] = f[b]
    BY <2>2
  <2>4. Sent(B, N, r, s) = Total(g, B)
    BY DEF Sent
  <2>5. CASE e \in B /\ q = r
    <3>1. g[e] = f[e] + Routes(e, s) /\ Routes(e, s) \in Nat
      <4> DEFINE m == A[e][r]
                 k == Routes(e, s)
      <4>1. m \in Nat /\ k \in Nat /\ f[e] = m * k /\ N[e][r] = m + 1
        BY <1>1, <2>1, <2>5
      <4>2. (m + 1) * k = m * k + k
        BY <4>1
      <4>3. g[e] = (m + 1) * k
        BY <2>5, <4>1
      <4> QED BY <4>1, <4>2, <4>3
    <3>2. \A b \in B : f[b] \in Int /\ g[b] \in Int /\ (b # e => g[b] = f[b])
      <4>1. \A b \in B : f[b] \in Int
        BY <1>2
      <4> HIDE DEF f, g
      <4> QED BY <2>3, <3>1, <4>1
    <3> HIDE DEF f, g, N
    <3>3. Total(g, B) = Total(f, B) - f[e] + g[e]
      BY <1>1, <2>5, <3>2, TotalChange
    <3> QED BY <1>2, <1>3, <2>4, <2>5, <3>1, <3>2, <3>3 DEF N
  <2>6. CASE ~(e \in B /\ q = r)
    <3>1. \A b \in B : f[b] \in Int /\ f[b] = g[b]
      BY <1>2, <2>3, <2>6
    <3> HIDE DEF f, g, N
    <3>2. Total(f, B) = Total(g, B)
      BY <1>1, <3>1, TotalSame
    <3> QED BY <1>3, <2>4, <2>6, <3>2 DEF N
  <2> QED BY <2>5, <2>6
<1> QED BY <1>3, <1>4

\* Nothing sent is nothing.
LEMMA SentNone ==
    ASSUME TypeInv, NEW B \in SUBSET Buffers, NEW r \in Records, NEW s \in Sinks,
           NEW A, \A b \in B : A[b][r] = 0
    PROVE  Sent(B, A, r, s) = 0
<1> DEFINE f == [b \in B |-> A[b][r] * Routes(b, s)]
<1>1. IsFiniteSet(B) /\ (\A b \in Buffers : Routes(b, s) \in Nat)
  BY AccountTypes, PlanTypes, FS_Subset DEF TypeInv, CallTypes
<1>2. \A b \in B : f[b] = 0
  BY <1>1
<1> HIDE DEF f
<1>3. Total(f, B) = 0
  BY <1>1, <1>2, TotalZero
<1> QED BY <1>3 DEF Sent, f

\* So it is now, and after the step as well.
SentNats ==
    TypeInv => \A B, r, s : B \in SUBSET Buffers /\ r \in Records /\ s \in Sinks
                               => Sent(B, accepted, r, s) \in Nat

\* Now.
LEMMA SentNow == SentNats
<1> SUFFICES ASSUME TypeInv, NEW B \in SUBSET Buffers, NEW r \in Records, NEW s \in Sinks
             PROVE  Sent(B, accepted, r, s) \in Nat
  BY DEF SentNats
<1>1. accepted \in Counts
  BY DEF TypeInv, RecordTypes, Counts
<1> QED BY <1>1, SentChange

\* And after the step.
LEMMA SentThen == SentNats'
BY SentNow, PTL

\* A log call hands on: what it adds to what was sent is pending, ahead of marks that
\* are still to be put in.
LEMMA StockLog ==
    ASSUME TypeInv, TypeInv', NEW x \in Records, LogEmit(x), NEW M, Marking(M),
           NEW r \in Records, NEW s \in Sinks, NEW B \in SUBSET Buffers
    PROVE  /\ Stock(B, M, r, s) <= Stock(B, M, r, s)'
           /\ (\A b \in B : Unmarked(b, M[b]))
                => Sent(B, accepted, r, s)' + Stock(B, M, r, s)
                     <= Sent(B, accepted, r, s) + Stock(B, M, r, s)'
<1> DEFINE P == PendingIn(B, M, r, s)
           Q == PendingIn(B, M, r, s)'
           L == LostTo(r, s)
           K == LostTo(r, s)'
           D == delivered[s][r]
           C == delivered'[s][r]
           S == Sent(B, accepted, r, s)
           T == Sent(B, accepted, r, s)'
<1>1. /\ setup \in Setups /\ BufferTypes /\ RecordTypes /\ UNCHANGED <<setup, open, stopped, closed>>
      /\ Start(x) = Plan.entry /\ x \in Records \cup Buffers /\ UNCHANGED <<Buffers, Sinks, overflowed>>
      /\ x \notin Buffers /\ hand[x].item = x /\ accepted \in Counts
  BY StartType, PlanKept, Distinct
     DEF TypeInv, CallTypes, EmitInv, LogEmit, levelVars, RecordTypes, Counts
<1>2. P \in Nat /\ L \in Nat /\ D \in Nat /\ S \in Nat
  BY <1>1, StockTypes, SentChange
<1>3. Q \in Nat /\ K \in Nat
  <2>1. Marking(M)' /\ (s \in Sinks)' /\ (B \in SUBSET Buffers)'
    BY <1>1 DEF Marking
  <2> QED BY <2>1, StockThen DEF StockNats
<1>4. Stock(B, M, r, s) = D + L + P /\ Stock(B, M, r, s)' = C + K + Q
  BY DEF Stock
<1>5. T = Sent(B, accepted', r, s)
  BY <1>1, PlanKept DEF Sent
<1>0. PICK z : z = 0 /\ z \in Int
  OBVIOUS
<1>6. PICK e : e = Head(hand[x].todo)
  OBVIOUS
<1>7. CASE Silence(x, Plan.entry) /\ UNCHANGED accepted
  <2> DEFINE n == Routes(Plan.entry, s)
  <2>1. /\ UNCHANGED delivered /\ n \in Nat
        /\ silenced' = [silenced EXCEPT ![x] = @ + 1]
        /\ \A b \in Buffers : Pending(b, M[b], r, s)
              <= Pending(b, M[b], r, s)' + IF b = x /\ x = r THEN n ELSE 0
    <3>1. UNCHANGED delivered /\ n \in Nat /\ silenced' = [silenced EXCEPT ![x] = @ + 1]
      BY <1>1, <1>7, SilenceTypes, AccountTypes DEF TypeInv
    <3>2. \A b \in Buffers : Pending(b, M[b], r, s)
              <= Pending(b, M[b], r, s)' + IF b = x /\ x = r THEN n ELSE 0
      BY <1>1, <1>7, PendingSilence
    <3> QED BY <3>1, <3>2
  <2>2. K = L + IF x = r THEN n ELSE 0
    BY <1>1, <2>1, LostChange
  <2>3. PendingShift(B, M, r, s, x, z, x, z)
    <3> SUFFICES ASSUME NEW b \in B
                 PROVE  Pending(b, M[b], r, s) + (IF b = x THEN z ELSE 0) + (IF b = x THEN z ELSE 0)
                          <= Pending(b, M[b], r, s)'
      BY DEF PendingShift
    <3>1. Pending(b, M[b], r, s) \in Nat /\ Pending(b, M[b], r, s)' \in Nat
      <4>1. Marking(M)' /\ (s \in Sinks)' /\ (b \in Buffers)'
        BY <1>1 DEF Marking
      <4> QED BY <4>1, StockTypes, StockThen DEF StockNats
    <3> HIDE DEF n
    <3> QED BY <1>0, <1>1, <2>1, <3>1
  <2>4. P + (IF x \in B THEN z ELSE 0) + (IF x \in B THEN z ELSE 0) <= Q
    <3>1. UNCHANGED setup /\ z \in Int
      BY <1>0, <1>1
    <3> QED BY <2>3, <3>1, PendingMoves
  <2>5. C = D /\ T = S
    BY <1>5, <1>7, <2>1
  <2> HIDE DEF n, P, Q, L, K, D, C, S, T
  <2>6. D + L + P <= C + K + Q /\ T + (D + L + P) <= S + (C + K + Q)
    BY <1>0, <1>2, <1>3, <2>1, <2>2, <2>4, <2>5
  <2> QED BY <1>4, <2>6 DEF S, T
<1>8. CASE /\ HandOn(x, Plan.entry)
           /\ accepted' = IF e \in Buffers /\ Answer(e) = "nil"
                          THEN [accepted EXCEPT ![e][x] = @ + 1] ELSE accepted
  <2> DEFINE n == Routes(e, s)
             j == Gone(x, e, M[x], x, r, s)
             k == Taken(e, M[e], x, r, s)
  <2>1. /\ e \in Buffers \cup Sinks /\ Offer(x, e) /\ UNCHANGED silenced /\ n \in Nat
        /\ \A b \in Buffers : Pending(b, M[b], r, s)'
              = Pending(b, M[b], r, s) + (IF b = x THEN j ELSE 0) + (IF b = e THEN k ELSE 0)
    <3>1. e \in Buffers \cup Sinks /\ Offer(x, e) /\ UNCHANGED silenced
      BY <1>1, <1>6, <1>8, HandOnTypes DEF TypeInv
    <3>2. n \in Nat
      BY <1>1, <3>1, PlanTypes
    <3>3. \A b \in Buffers : Pending(b, M[b], r, s)'
              = Pending(b, M[b], r, s) + (IF b = x THEN j ELSE 0) + (IF b = e THEN k ELSE 0)
      BY <1>1, <1>6, <1>8, PendingHandOn
    <3> QED BY <3>1, <3>2, <3>3
  <2>2. k \in Nat
    BY <2>1 DEF Taken
  <2>3. P + (IF x \in B THEN z ELSE 0) + (IF e \in B THEN k ELSE 0) <= Q
    <3>1. PendingShift(B, M, r, s, x, z, e, k)
      <4> SUFFICES ASSUME NEW b \in B
                   PROVE  Pending(b, M[b], r, s) + (IF b = x THEN z ELSE 0) + (IF b = e THEN k ELSE 0)
                            <= Pending(b, M[b], r, s)'
        BY DEF PendingShift
      <4>1. Pending(b, M[b], r, s) \in Nat
        BY StockTypes
      <4>2. b # x
        BY <1>1
      <4> HIDE DEF j, k
      <4> QED BY <1>0, <2>1, <2>2, <4>1, <4>2
    <3>2. UNCHANGED setup /\ z \in Int /\ k \in Int
      BY <1>0, <1>1, <2>2
    <3> HIDE DEF j, k
    <3> QED BY <3>1, <3>2, PendingMoves
  <2>4. C = D + IF s = e /\ x = r THEN 1 ELSE 0
    BY <1>1, <2>1, OfferEffect
  <2>5. K = L
    BY <1>1, <2>1, LostChange
  <2>6. T = S + IF e \in B /\ Answer(e) = "nil" /\ x = r THEN n ELSE 0
    <3>1. CASE e \in Buffers /\ Answer(e) = "nil"
      <4>1. accepted' = OneMore(accepted, e, x)
        BY <1>8, <3>1 DEF OneMore
      <4>2. Sent(B, OneMore(accepted, e, x), r, s)
              = S + IF e \in B /\ x = r THEN n ELSE 0
        BY <1>1, <3>1, SentChange
      <4> QED BY <1>5, <3>1, <4>1, <4>2
    <3>2. CASE ~(e \in Buffers /\ Answer(e) = "nil")
      <4>1. accepted' = accepted /\ ~(e \in B /\ Answer(e) = "nil")
        BY <1>8, <3>2
      <4> QED BY <1>2, <1>5, <4>1
    <3> QED BY <3>1, <3>2
  <2>7. (\A b \in B : Unmarked(b, M[b])) =>
           k >= IF e \in B /\ Answer(e) = "nil" /\ x = r THEN n ELSE 0
    BY <2>1 DEF Taken
  <2> HIDE DEF n, P, Q, L, K, D, C, S, T, j, k
  <2>8. D + L + P <= C + K + Q
    BY <1>0, <1>2, <1>3, <2>2, <2>3, <2>4, <2>5
  <2>9. ASSUME \A b \in B : Unmarked(b, M[b])
        PROVE  T + (D + L + P) <= S + (C + K + Q)
    <3>1. k >= IF e \in B /\ Answer(e) = "nil" /\ x = r THEN n ELSE 0
      BY <2>7, <2>9
    <3> QED BY <1>0, <1>2, <1>3, <2>1, <2>2, <2>3, <2>4, <2>5, <2>6, <3>1
  <2> QED BY <1>4, <2>8, <2>9 DEF S, T
<1> QED BY <1>6, <1>7, <1>8 DEF LogEmit

\* A worker that takes an item or a barrier, or a barrier that comes into a queue, moves
\* no record out of what is pending.
LEMMA StockMoved ==
    ASSUME TypeInv, TypeInv', UNCHANGED <<setup, delivered, overflowed, silenced>>,
           NEW M, NEW r \in Records, NEW s \in Sinks, NEW B \in SUBSET Buffers,
           \A b \in Buffers : Pending(b, M[b], r, s)' = Pending(b, M[b], r, s)
    PROVE  Stock(B, M, r, s)' = Stock(B, M, r, s)
<1>1. PendingIn(B, M, r, s)' = PendingIn(B, M, r, s)
  <2>1. \A b \in B : Pending(b, M[b], r, s)' = Pending(b, M[b], r, s)
    OBVIOUS
  <2> QED BY <2>1 DEF PendingIn
<1>2. LostTo(r, s)' = LostTo(r, s)
  BY LostChange
<1> QED BY <1>1, <1>2 DEF Stock

\* No step takes more from what is pending than it delivers or loses; and what log calls
\* send is pending.
LEMMA StockNext ==
    ASSUME TypeInv, TypeInv', [Next]_vars, NEW M, Marking(M),
           NEW r \in Records, NEW s \in Sinks, NEW B \in SUBSET Buffers, Passes(B, M)
    PROVE  /\ Stock(B, M, r, s) <= Stock(B, M, r, s)'
           /\ (\A b \in B : Unmarked(b, M[b]))
                => Sent(B, accepted, r, s)' + Stock(B, M, r, s)
                     <= Sent(B, accepted, r, s) + Stock(B, M, r, s)'
<1> DEFINE T == Stock(B, M, r, s)
           S == Sent(B, accepted, r, s)
           T2 == Stock(B, M, r, s)'
           S2 == Sent(B, accepted, r, s)'
           Goal == T <= T2 /\ ((\A b \in B : Unmarked(b, M[b])) => S2 + T <= S + T2)
<1>1. setup \in Setups /\ UNCHANGED setup /\ HandTypes /\ Records \cap Buffers = {}
  <2>1. UNCHANGED setup
    BY SetupKept
  <2> QED BY <2>1, Distinct DEF TypeInv, CallTypes
<1>2. T \in Nat /\ S \in Nat
  <2>1. accepted \in Counts
    BY DEF TypeInv, RecordTypes, Counts
  <2> QED BY <2>1, StockTypes, SentChange
<1>3. T2 \in Nat
  <2>1. Marking(M)' /\ (s \in Sinks)' /\ (B \in SUBSET Buffers)'
    BY <1>1, PlanKept DEF Marking
  <2> QED BY <2>1, StockThen DEF StockNats
<1>4. accepted' = accepted => S2 = S
  BY <1>1, PlanKept DEF Sent
<1>5. ASSUME accepted' = accepted, T <= T2 PROVE Goal
  <2> HIDE DEF S, T, S2, T2
  <2>1. S2 + T <= S + T2
    BY <1>2, <1>3, <1>4, <1>5
  <2> QED BY <1>5, <2>1
<1>6. ASSUME accepted' = accepted, T2 = T PROVE Goal
  <2>1. T <= T2
    BY <1>2, <1>6
  <2> QED BY <1>5, <1>6, <2>1
<1>7. ASSUME NEW x \in Records, LogEmit(x) PROVE Goal
  BY <1>7, StockLog
<1>8. ASSUME NEW c \in Buffers, WorkerDeliver(c) PROVE Goal
  <2>1. accepted' = accepted
    BY <1>8 DEF WorkerDeliver
  <2>2. T <= T2
    BY <1>8, StockWorker
  <2> HIDE DEF T, T2
  <2> QED BY <1>5, <2>1, <2>2
<1>9. ASSUME NEW c \in Buffers, WorkerReceive(c) PROVE Goal
  <2>1. UNCHANGED <<delivered, accepted, overflowed, silenced>>
    BY <1>9 DEF WorkerReceive, recordVars
  <2>2. \A b \in Buffers : Pending(b, M[b], r, s)' = Pending(b, M[b], r, s)
    BY <1>9, PendingReceive
  <2>3. T2 = T
    BY <1>1, <2>1, <2>2, StockMoved
  <2> QED BY <1>6, <2>1, <2>3
<1>10. ASSUME (\E c \in Buffers : WorkerBarrier(c)) \/ (\E f \in Flushes : FlushEnqueue(f)) PROVE Goal
  <2>1. UNCHANGED <<delivered, accepted, overflowed, silenced>>
    BY <1>10 DEF WorkerBarrier, FlushEnqueue, recordVars
  <2>2. \A b \in Buffers : Pending(b, M[b], r, s)' = Pending(b, M[b], r, s)
    BY <1>10, PendingBarrier
  <2>3. T2 = T
    BY <1>1, <2>1, <2>2, StockMoved
  <2> QED BY <1>6, <2>1, <2>3
<1>11. ASSUME UNCHANGED <<queue, closed, delivered, overflowed, silenced, accepted>>,
              \A b \in Buffers : hand'[b] = hand[b]
       PROVE  Goal
  <2>1. T2 = T
    BY <1>1, <1>11, StockSame
  <2> QED BY <1>6, <1>11, <2>1
<1>12. ASSUME NEW x \in Records, LogGate(x) PROVE Goal
  <2>1. UNCHANGED <<queue, closed, delivered, overflowed, silenced, accepted>>
    BY <1>12 DEF LogGate, bufferVars, recordVars
  <2>2. \A b \in Buffers : hand'[b] = hand[b]
    BY <1>1, <1>12 DEF LogGate, HandTypes
  <2> QED BY <1>11, <2>1, <2>2
<1>13. ASSUME \/ \E c \in Buffers : WorkerExit(c)
              \/ \E f \in Flushes : FlushGate(f) \/ FlushRefused(f) \/ FlushReached(f) \/ FlushExpired(f)
              \/ \E d \in Shutdowns : Shutdown(d)
              \/ Drain \/ SetLevel \/ (\E c \in Waiters : Expire(c)) \/ UNCHANGED vars
       PROVE  Goal
  <2>1. UNCHANGED <<queue, closed, delivered, overflowed, silenced, accepted, hand>>
    BY <1>13 DEF WorkerExit, FlushGate, FlushRefused, FlushReached, FlushExpired, Shutdown,
                 ShutdownStart, ShutdownReturn, Drain, DrainClose, DrainVisited, DrainDone,
                 SetLevel, Expire, vars, bufferVars, recordVars
  <2> QED BY <1>11, <2>1
<1> HIDE DEF S, T, S2, T2, Goal
<1>14. Goal
  BY <1>7, <1>8, <1>9, <1>10, <1>12, <1>13 DEF Next, LogCall, Worker, Flush, Quiescent
<1> QED BY <1>14 DEF Goal, S, T, S2, T2

-----------------------------------------------------------------------------
(* What the shutdown delivers.                                               *)

\* No set has everything in it.
LEMMA SomethingElse ==
    ASSUME NEW S
    PROVE  \E x : x \notin S
<1> DEFINE x == {y \in S : y \notin y}
<1>1. x \notin S
  OBVIOUS
<1> QED BY <1>1

\* A mark that is never put into a queue: all that is in a buffer is ahead of it.
NoMark == CHOOSE x : x \notin Records \cup {None} \cup (Flushes \X Nat)
NoMarks == [h \in Nat |-> NoMark]

\* It is nowhere.
LEMMA NoMarksFit ==
    ASSUME TypeInv
    PROVE  Marking(NoMarks) /\ \A b \in Buffers : Unmarked(b, NoMarks[b])
<1>1. NoMark \notin Records \cup {None} /\ NoMark \notin Flushes \X Nat
  <2>1. \E x : x \notin Records \cup {None} \cup (Flushes \X Nat)
    BY SomethingElse
  <2> QED BY <2>1 DEF NoMark
<1>2. setup \in Setups /\ BufferTypes /\ HandTypes
  BY DEF TypeInv, CallTypes
<1>3. NoMark \notin Barriers
  <2>1. Barriers \subseteq Flushes \X Nat
    BY <1>2, FlushersType DEF Barriers
  <2> QED BY <1>1, <2>1
<1>4. \A b \in Buffers : NoMarks[b] = NoMark
  BY <1>2, PlanTypes DEF NoMarks
<1>5. ASSUME NEW b \in Buffers PROVE Unmarked(b, NoMark)
  <2>1. hand[b].item \in Records \cup Barriers \cup {None} /\ closed[b] \subseteq Barriers
    BY <1>2, HandParts DEF BufferTypes
  <2>2. Range(queue[b]) \subseteq Records \cup Barriers
    BY <1>2, ElementOfSeq, LenProperties DEF BufferTypes, Range
  <2> QED BY <1>1, <1>3, <2>1, <2>2 DEF Unmarked, Passed
<1> QED BY <1>1, <1>4, <1>5 DEF Marking

\* What log calls have put into the buffers of B is delivered, lost or pending there.
Balanced(B, A) ==
    \A r \in Records, s \in Sinks : Sent(B, A, r, s) <= Stock(B, NoMarks, r, s)

\* It stays so, if the buffers of B pass on what they have.
LEMMA BalancedNext ==
    ASSUME TypeInv, TypeInv', [Next]_vars, NEW B \in SUBSET Buffers, Passes(B, NoMarks),
           Balanced(B, accepted)
    PROVE  Balanced(B, accepted)'
<1>1. Marking(NoMarks) /\ \A b \in B : Unmarked(b, NoMarks[b])
  BY NoMarksFit
<1>2. UNCHANGED <<Buffers, Sinks>> /\ NoMarks' = NoMarks
  BY SetupKept, PlanKept DEF NoMarks, NoMark
<1>3. ASSUME NEW r \in Records, NEW s \in Sinks
      PROVE  Sent(B, accepted, r, s)' <= Stock(B, NoMarks, r, s)'
  <2> PICK M : M = NoMarks
    OBVIOUS
  <2>1. Marking(M) /\ Passes(B, M) /\ \A b \in B : Unmarked(b, M[b])
    BY <1>1
  <2> DEFINE T == Stock(B, M, r, s)
             S == Sent(B, accepted, r, s)
             T2 == Stock(B, M, r, s)'
             S2 == Sent(B, accepted, r, s)'
  <2>2. S2 + T <= S + T2
    BY <2>1, StockNext
  <2>3. T \in Nat /\ S \in Nat
    <3>1. accepted \in Counts
      BY DEF TypeInv, RecordTypes, Counts
    <3> QED BY <2>1, <3>1, StockTypes, SentChange
  <2>4. T2 \in Nat /\ S2 \in Nat
    <3>1. Marking(M)' /\ (s \in Sinks)' /\ (B \in SUBSET Buffers)'
      BY <1>2, <2>1 DEF Marking
    <3>2. T2 \in Nat
      BY <3>1, StockThen DEF StockNats
    <3>3. S2 \in Nat
      BY <3>1, SentThen DEF SentNats
    <3> QED BY <3>2, <3>3
  <2>5. S <= T
    BY DEF Balanced
  <2> HIDE DEF S, T, S2, T2
  <2>6. S2 <= T2
    BY <2>2, <2>3, <2>4, <2>5
  <2>7. T2 = Stock(B, NoMarks, r, s)'
    BY <1>2 DEF T2, Stock, PendingIn
  <2> QED BY <2>6, <2>7 DEF S2
<1> QED BY <1>2, <1>3 DEF Balanced

\* What has arrived is what was sent less what is pending.
LEMMA ArrivedParts ==
    ASSUME TypeInv, NEW B \in SUBSET Buffers, NEW A \in Counts
    PROVE  Arrived(A, B) <=>
             \A r \in Records, s \in Sinks : Sent(B, A, r, s) <= delivered[s][r] + LostTo(r, s)
<1> SUFFICES ASSUME NEW r \in Records, NEW s \in Sinks
             PROVE  delivered[s][r] + LostTo(r, s)
                      = delivered[s][r] + LostIn(r, s) + silenced[r] * Routes(Plan.entry, s)
  BY DEF Arrived, Sent, LostIn
<1>1. delivered[s][r] \in Nat /\ LostIn(r, s) \in Nat
  <2>1. Marking(NoMarks)
    BY NoMarksFit
  <2> QED BY <2>1, StockTypes
<1>2. silenced[r] * Routes(Plan.entry, s) \in Nat
  <2>1. silenced[r] \in Nat /\ Routes(Plan.entry, s) \in Nat
    BY AccountTypes DEF TypeInv, RecordTypes
  <2> QED BY <2>1
<1> DEFINE k == silenced[r] * Routes(Plan.entry, s)
<1>3. LostTo(r, s) = LostIn(r, s) + k
  BY DEF LostTo
<1> HIDE DEF k
<1> QED BY <1>1, <1>2, <1>3 DEF k

\* With nothing pending, all has.
LEMMA NothingPending ==
    ASSUME TypeInv, NEW B \in SUBSET Buffers, NEW M, Marking(M), NEW r \in Records, NEW s \in Sinks,
           \A b \in B : Pending(b, M[b], r, s) = 0
    PROVE  Stock(B, M, r, s) = delivered[s][r] + LostTo(r, s)
<1> DEFINE f == [b \in B |-> Pending(b, M[b], r, s)]
<1>1. IsFiniteSet(B) /\ \A b \in B : f[b] = 0
  BY PlanTypes, FS_Subset DEF TypeInv, CallTypes
<1> HIDE DEF f
<1>2. Total(f, B) = 0
  BY <1>1, TotalZero
<1>3. PendingIn(B, M, r, s) = 0
  BY <1>2 DEF PendingIn, f
<1>4. delivered[s][r] \in Nat /\ LostTo(r, s) \in Nat
  BY StockTypes
<1> QED BY <1>3, <1>4 DEF Stock

\* A buffer that is drained has nothing pending.
LEMMA DrainedPending ==
    ASSUME TypeInv, NEW b \in Buffers, Drained(b), NEW M, Marking(M), NEW r \in Records,
           NEW s \in Sinks
    PROVE  Pending(b, M[b], r, s) = 0
<1>1. setup \in Setups /\ None \notin Records /\ M[b] # r
  BY Distinct DEF TypeInv, CallTypes, Marking
<1>2. hand[b].item = None /\ queue[b] = << >>
  BY DEF Drained, Nothing
<1>3. AheadOf(queue[b], M[b], r) = 0
  <2>1. AheadOf(<< >>, M[b], r) = 0
    BY TotalEmpty DEF AheadOf, Along
  <2> QED BY <1>2, <2>1
<1>4. Carried(b, r, s) = 0
  BY <1>1, <1>2 DEF Carried
<1>5. Routes(b, s) \in Nat
  BY AccountTypes
<1> QED BY <1>3, <1>4, <1>5 DEF Pending

\* The buffers that the logger knows and that none it feeds is shut down ahead of.
SafeIn == {b \in Buffers : Known(b) /\ ~Overtaken(b)}

\* What such a buffer still has goes to others like it, and they are open.
LEMMA SafePasses ==
    ASSUME ShutdownInv
    PROVE  Passes(SafeIn, NoMarks)
<1>1. /\ TypeInv /\ DrainInv /\ setup \in Setups /\ None \notin Records
      /\ \A b \in Buffers : Unmarked(b, NoMarks[b])
  BY NoMarksFit, Distinct DEF ShutdownInv, TypeInv, CallTypes
<1> SUFFICES ASSUME NEW b \in SafeIn, hand[b].item \in Records, NEW e \in Feeds(b)
             PROVE  e \in SafeIn /\ open[e]
  BY <1>1 DEF Passes, Feeds
<1>2. b \in Buffers /\ Known(b) /\ ~Overtaken(b) /\ b \in Within(b)
  BY <1>1, KnownBelow DEF SafeIn
<1>3. e \in Buffers /\ e # b /\ Routes(b, e) > 0 /\ Known(e)
  BY <1>1, <1>2, FeedsBelow, KnownBelow DEF Feeds
<1>4. Within(e) \subseteq Within(b)
  <2>1. b \in Handlers /\ e \in Handlers
    BY <1>1, <1>2, <1>3, PlanTypes
  <2> QED BY <1>1, <1>3, <2>1, PlanRoutes DEF Within, Handlers
<1>5. ~Overtaken(e)
  BY <1>2, <1>4 DEF Overtaken
<1>6. open[e]
  <2>1. SUFFICES ASSUME ~open[e] PROVE FALSE
    OBVIOUS
  <2>2. PICK j \in Visits(e) : j <= idx[Drainer]
    <3>1. idx[Drainer] \in Nat /\ DOMAIN Flushers \subseteq Nat
      BY <1>1, FlushersType DEF TypeInv, CallTypes, Visitors
    <3> QED BY <1>1, <1>3, <2>1, <3>1 DEF DrainInv, Visits
  <2>3. PICK i \in Visits(b) : ~(j < i)
    BY <1>2 DEF Overtaken
  <2>4. /\ i \in 1 .. Len(Flushers) /\ j \in 1 .. Len(Flushers) /\ Flushers[i] = b /\ Flushers[j] = e
        /\ idx[Drainer] \in Nat /\ Len(Flushers) \in Nat
    BY <1>1, FlushersType DEF Visits, TypeInv, CallTypes, Visitors
  <2>5. i # j
    BY <1>3, <2>4
  <2>6. i < idx[Drainer]
    BY <2>2, <2>3, <2>4, <2>5
  <2>7. Drained(b)
    BY <1>1, <1>2, <2>4, <2>6 DEF DrainInv
  <2> QED BY <1>1, <2>7 DEF Drained, Nothing
<1> QED BY <1>3, <1>5, <1>6 DEF SafeIn

\* With the shutdown's invariant: what they took is delivered, lost or with them.
DeliverInv == ShutdownInv /\ Balanced(SafeIn, accepted)

\* It holds in every reachable state: no step loses what such a buffer took.
LEMMA DeliverInvariant == Spec => []DeliverInv
<1>1. Init => Balanced(SafeIn, accepted)
  <2> SUFFICES ASSUME Init, NEW r \in Records, NEW s \in Sinks
               PROVE  Sent(SafeIn, accepted, r, s) <= Stock(SafeIn, NoMarks, r, s)
    BY DEF Balanced
  <2>1. TypeInv
    BY InitTypes
  <2>2. PICK B \in SUBSET Buffers : B = SafeIn
    BY DEF SafeIn
  <2>3. PICK A : A = accepted
    OBVIOUS
  <2>4. Sent(B, A, r, s) = 0
    <3>1. \A b \in B : A[b][r] = 0
      BY <2>2, <2>3 DEF Init, Never
    <3> QED BY <2>1, <3>1, SentNone
  <2>5. Stock(B, NoMarks, r, s) \in Nat
    BY <2>1, NoMarksFit, StockTypes
  <2> QED BY <2>2, <2>3, <2>4, <2>5
<1>2. ASSUME DeliverInv, [Next]_vars PROVE DeliverInv'
  <2>1. ShutdownInv /\ ShutdownInv' /\ TypeInv /\ TypeInv'
    BY <1>2, NextTypes, DrainNext, KnownFlowNext DEF ShutdownInv, DeliverInv
  <2>2. PICK B \in SUBSET Buffers : B = SafeIn
    BY DEF SafeIn
  <2>3. SafeIn' = B
    BY <1>2, <2>2, SetupKept, PlanKept DEF SafeIn, Known, Overtaken, Within, Feeds, Visits
  <2>4. Passes(B, NoMarks) /\ Balanced(B, accepted)
    BY <1>2, <2>1, <2>2, SafePasses DEF DeliverInv
  <2>5. Balanced(B, accepted)'
    BY <1>2, <2>1, <2>4, BalancedNext
  <2>6. Balanced(SafeIn, accepted)'
    BY <2>3, <2>5 DEF Balanced, Sent, Stock, PendingIn
  <2> QED BY <2>1, <2>6 DEF DeliverInv
<1> QED BY <1>1, <1>2, ShutdownInvariant, PTL DEF Spec, DeliverInv

\* When the shutdown is done, every sink has all that was accepted for it, but for what
\* a full buffer turned away or a raised level stopped, from every buffer that the
\* logger knows; unless a buffer below was shut down ahead of one that feeds it, which
\* is New's own or a shortcut's doing (shutdownAllToCompletion, collectFlushers).
THEOREM ShutdownDelivered == Spec => []ShutdownDeliversUnlessOvertaken
<1>1. ASSUME DeliverInv PROVE ShutdownDeliversUnlessOvertaken
  <2> DEFINE B == {b \in Buffers : Known(b) /\ ~(Overtaken(b) /\ (UnwalkedFrom(b) \/ Shortcut(b)))}
  <2>1. ShutdownInv /\ TypeInv /\ setup \in Setups
    BY <1>1 DEF DeliverInv, ShutdownInv, TypeInv, CallTypes
  <2>2. B = SafeIn
    BY <2>1, OvertakenByShortcut DEF SafeIn
  <2>3. PICK C \in SUBSET Buffers : C = SafeIn
    BY DEF SafeIn
  <2>4. ASSUME groupDone, NEW r \in Records, NEW s \in Sinks
        PROVE  Sent(C, accepted, r, s) <= delivered[s][r] + LostTo(r, s)
    <3>1. Marking(NoMarks)
      BY <2>1, NoMarksFit
    <3>2. \A b \in C : Pending(b, NoMarks[b], r, s) = 0
      BY <2>1, <2>3, <2>4, <3>1, DoneDrained, DrainedPending DEF SafeIn
    <3>3. Stock(C, NoMarks, r, s) = delivered[s][r] + LostTo(r, s)
      BY <2>1, <3>1, <3>2, NothingPending
    <3> QED BY <1>1, <2>3, <3>3 DEF DeliverInv, Balanced
  <2>5. accepted \in Counts
    BY <2>1 DEF TypeInv, RecordTypes, Counts
  <2>6. groupDone => Arrived(accepted, C)
    BY <2>1, <2>4, <2>5, ArrivedParts
  <2> QED BY <2>2, <2>3, <2>6 DEF ShutdownDeliversUnlessOvertaken
<1> QED BY <1>1, DeliverInvariant, PTL

-----------------------------------------------------------------------------
(* What a Flush delivers. Its barrier of the last visit to a buffer is the     *)
(* mark there: what was accepted before the call is ahead of it.               *)

\* A barrier is no record.
LEMMA BarrierApart ==
    ASSUME NEW f \in Flushes, NEW j \in Nat
    PROVE  <<f, j>> \notin Records /\ <<f, j>> # None
BY ConstantsAssumption

\* A barrier comes into a buffer only when its Flush puts it into the queue.
LEMMA MarksCome ==
    ASSUME TypeInv, [Next]_vars, NEW b \in Buffers, NEW f \in Flushes, NEW j \in Nat,
           ~Unmarked(b, <<f, j>>)'
    PROVE  ~Unmarked(b, <<f, j>>) \/ (FlushEnqueue(f) /\ j = idx[f])
<1> PICK m : m = <<f, j>>
  OBVIOUS
<1>1. setup \in Setups /\ HandTypes /\ BufferTypes /\ RecordTypes /\ TodoInv
        /\ b \in Records \cup Buffers /\ b \notin Records /\ m \notin Records /\ m # None
  BY BarrierApart, Distinct DEF TypeInv, CallTypes
<1>2. m \in closed'[b] \/ hand'[b].item = m \/ m \in Range(queue'[b])
  BY DEF Unmarked, Passed
<1> DEFINE Goal == \/ m \in closed[b] \/ hand[b].item = m \/ m \in Range(queue[b])
                   \/ FlushEnqueue(f) /\ j = idx[f]
<1>3. ASSUME closed'[b] = closed[b], hand'[b].item \in {None, hand[b].item}, queue'[b] = queue[b]
      PROVE  Goal
  BY <1>1, <1>2, <1>3
<1>4. ASSUME NEW r \in Records, NEW e \in Buffers \cup Sinks, Offer(r, e),
             UNCHANGED closed, hand'[b].item \in {None, hand[b].item}
      PROVE  Goal
  <2>1. queue'[b] = queue[b] \/ queue'[b] = Append(queue[b], r)
    BY <1>1, <1>4, OfferEffect
  <2>2. Range(Append(queue[b], r)) = Range(queue[b]) \cup {r}
    <3>1. queue[b] \in Seq(Records \cup Barriers)
      BY <1>1 DEF BufferTypes
    <3> QED BY <3>1, RangeChange
  <2> QED BY <1>1, <1>2, <1>4, <2>1, <2>2
<1>5. ASSUME NEW x \in Records \cup Buffers, UNCHANGED <<setup, open, stopped, closed>>,
             Silence(x, Start(x)) \/ HandOn(x, Start(x))
      PROVE  Goal
  <2>1. Nothing.item = None
    BY DEF Nothing
  <2>2. CASE Silence(x, Start(x))
    <3>1. queue' = queue /\ hand'[b].item \in {None, hand[b].item}
      BY <1>1, <1>5, <2>1, <2>2, SilenceTypes
    <3> QED BY <1>3, <1>5, <3>1
  <2>3. CASE HandOn(x, Start(x))
    <3>1. /\ Offer(hand[x].item, Head(hand[x].todo)) /\ hand[x].item \in Records
          /\ Head(hand[x].todo) \in Buffers \cup Sinks
          /\ hand'[b].item \in {None, hand[b].item}
      BY <1>1, <1>5, <2>1, <2>3, HandOnTypes
    <3> QED BY <1>4, <1>5, <3>1
  <2> QED BY <1>5, <2>2, <2>3
<1>6. ASSUME NEW r \in Records, LogCall(r) PROVE Goal
  <2>1. CASE LogGate(r)
    <3>1. hand'[b] = hand[b] /\ queue'[b] = queue[b] /\ closed'[b] = closed[b]
      BY <1>1, <2>1 DEF LogGate, bufferVars, HandTypes
    <3> QED BY <1>3, <3>1
  <2>2. CASE LogEmit(r)
    <3>1. /\ Start(r) = Plan.entry /\ r \in Records \cup Buffers
          /\ UNCHANGED <<setup, open, stopped, closed>>
      BY <1>1, <2>2, StartType DEF LogEmit, levelVars
    <3> QED BY <1>5, <2>2, <3>1 DEF LogEmit
  <2> QED BY <1>6, <2>1, <2>2 DEF LogCall
<1>7. ASSUME NEW c \in Buffers, Worker(c) PROVE Goal
  <2>0. Start(c) = Below(c) /\ c \in Records \cup Buffers
    BY <1>1, StartType
  <2>1. CASE WorkerReceive(c)
    <3>1. /\ hand' = [hand EXCEPT ![c] = InHand(Head(queue[c]), Below(c))] /\ queue[c] # << >>
          /\ queue' = [queue EXCEPT ![c] = Tail(@)] /\ closed' = closed
      BY <2>1 DEF WorkerReceive
    <3>2. CASE c = b
      <4>1. queue[b] \in Seq(Records \cup Barriers)
        BY <1>1 DEF BufferTypes
      <4>2. Head(queue[b]) \in Range(queue[b]) /\ Range(Tail(queue[b])) \subseteq Range(queue[b])
        BY <3>1, <3>2, <4>1, NextEnd
      <4>3. hand'[b].item = Head(queue[b]) /\ queue'[b] = Tail(queue[b])
        BY <1>1, <3>1, <3>2 DEF HandTypes, BufferTypes, InHand
      <4> QED BY <1>2, <3>1, <4>2, <4>3
    <3>3. CASE c # b
      <4>1. hand'[b] = hand[b] /\ queue'[b] = queue[b]
        BY <1>1, <3>1, <3>3 DEF HandTypes, BufferTypes
      <4> QED BY <1>3, <3>1, <4>1
    <3> QED BY <3>2, <3>3
  <2>2. CASE WorkerDeliver(c)
    <3>1. UNCHANGED <<setup, open, stopped, closed>>
      BY <2>2 DEF WorkerDeliver, levelVars
    <3> QED BY <1>5, <2>0, <2>2, <3>1 DEF WorkerDeliver
  <2>3. CASE WorkerBarrier(c)
    <3>1. /\ hand' = [hand EXCEPT ![c] = Nothing] /\ queue' = queue
          /\ closed' = [closed EXCEPT ![c] = @ \cup {hand[c].item}]
      BY <2>3 DEF WorkerBarrier
    <3>2. CASE c = b
      <4>1. hand'[b].item = None /\ closed'[b] = closed[b] \cup {hand[b].item}
        BY <1>1, <3>1, <3>2 DEF HandTypes, BufferTypes, Nothing
      <4> QED BY <1>1, <1>2, <3>1, <4>1
    <3>3. CASE c # b
      <4>1. hand'[b] = hand[b] /\ closed'[b] = closed[b]
        BY <1>1, <3>1, <3>3 DEF HandTypes, BufferTypes
      <4> QED BY <1>3, <3>1, <4>1
    <3> QED BY <3>2, <3>3
  <2>4. CASE WorkerExit(c)
    BY <1>3, <2>4 DEF WorkerExit
  <2> QED BY <1>7, <2>1, <2>2, <2>3, <2>4 DEF Worker
<1>8. ASSUME NEW g \in Flushes, Flush(g) PROVE Goal
  <2>1. UNCHANGED <<hand, closed>>
    BY <1>8 DEF Flush, FlushGate, FlushEnqueue, FlushRefused, FlushReached, FlushExpired, bufferVars
  <2>2. CASE FlushEnqueue(g)
    <3>1. queue' = [queue EXCEPT ![Flushers[idx[g]]] = Append(@, Barrier(g))]
      BY <2>2 DEF FlushEnqueue
    <3>2. idx[g] \in 1 .. Len(Flushers) + 1 /\ idx[g] <= Len(Flushers)
      BY <2>2 DEF FlushEnqueue, TypeInv, CallTypes, PlaceInv, Visitors
    <3>3. Barrier(g) \in Barriers
      BY <1>1, <3>2, FlushersType DEF Barrier, Barriers
    <3>4. queue[b] \in Seq(Records \cup Barriers)
      BY <1>1 DEF BufferTypes
    <3>5. Range(Append(queue[b], Barrier(g))) = Range(queue[b]) \cup {Barrier(g)}
      BY <3>3, <3>4, RangeChange
    <3>6. queue'[b] = queue[b] \/ queue'[b] = Append(queue[b], Barrier(g))
      BY <1>1, <3>1 DEF BufferTypes
    <3>7. Barrier(g) = m => g = f /\ j = idx[f]
      BY DEF Barrier
    <3> QED BY <1>2, <2>1, <2>2, <3>5, <3>6, <3>7
  <2>3. UNCHANGED queue \/ FlushEnqueue(g)
    BY <1>8 DEF Flush, FlushGate, FlushRefused, FlushReached, FlushExpired, bufferVars
  <2> QED BY <1>3, <2>1, <2>2, <2>3
<1>9. ASSUME UNCHANGED <<hand, queue, closed>> PROVE Goal
  BY <1>3, <1>9
<1>10. ASSUME \/ \E s \in Shutdowns : Shutdown(s)
              \/ SetLevel \/ Drain \/ (\E c \in Waiters : Expire(c)) \/ UNCHANGED vars
       PROVE  Goal
  <2>1. UNCHANGED <<hand, queue, closed>>
    BY <1>10 DEF Shutdown, ShutdownStart, ShutdownReturn, SetLevel, Drain, DrainClose, DrainVisited,
                 DrainDone, Expire, vars, bufferVars
  <2> QED BY <1>9, <2>1
<1> HIDE DEF Goal
<1>11. Goal
  BY <1>6, <1>7, <1>8, <1>10 DEF Next, Quiescent
<1> QED BY <1>11 DEF Goal, Unmarked, Passed

\* A barrier that its worker has come to stays so, and no buffer is opened again.
LEMMA ClosedStays ==
    ASSUME TypeInv, [Next]_vars, NEW b \in Buffers
    PROVE  closed[b] \subseteq closed'[b] /\ (open'[b] => open[b])
<1>1. setup \in Setups /\ BufferTypes
  BY DEF TypeInv, CallTypes
<1>2. ASSUME NEW c \in Buffers, WorkerBarrier(c) PROVE closed[b] \subseteq closed'[b] /\ open' = open
  BY <1>1, <1>2 DEF WorkerBarrier, BufferTypes
<1>3. ASSUME DrainClose PROVE closed' = closed /\ (open'[b] => open[b])
  BY <1>1, <1>3 DEF DrainClose, BufferTypes
<1>4. \/ \E c \in Buffers : WorkerBarrier(c)
      \/ DrainClose
      \/ UNCHANGED <<open, closed>>
  BY DEF Next, LogCall, LogGate, LogEmit, SetLevel, Worker, WorkerReceive, WorkerDeliver,
         WorkerExit, Flush, FlushGate, FlushEnqueue, FlushRefused, FlushReached,
         FlushExpired, Shutdown, ShutdownStart, ShutdownReturn, Drain, DrainVisited,
         DrainDone, Expire, Quiescent, vars, bufferVars
<1> QED BY <1>2, <1>3, <1>4

\* What a step does to a Flush: it begins, puts its barrier in, has an answer, or
\* nothing happens to it.
LEMMA FlushCases ==
    ASSUME TypeInv, [Next]_vars, NEW f \in Flushes
    PROVE  \/ FlushGate(f)
           \/ FlushEnqueue(f)
           \/ \E answer \in Errors :
                 /\ pc[f] \in {"enqueue", "await"} /\ FlushVisited(f, answer)
                 /\ answer = "nil" => pc[f] = "await" /\ Barrier(f) \in closed[Flushers[idx[f]]]
                 /\ UNCHANGED before
           \/ /\ pc'[f] = pc[f] /\ idx'[f] = idx[f] /\ first'[f] = first[f]
              /\ result'[f] = result[f] /\ before'[f] = before[f]
<1> DEFINE Same == /\ pc'[f] = pc[f] /\ idx'[f] = idx[f] /\ first'[f] = first[f]
                   /\ result'[f] = result[f] /\ before'[f] = before[f]
           Answered == \E answer \in Errors :
                 /\ pc[f] \in {"enqueue", "await"} /\ FlushVisited(f, answer)
                 /\ answer = "nil" => pc[f] = "await" /\ Barrier(f) \in closed[Flushers[idx[f]]]
                 /\ UNCHANGED before
           Goal == FlushGate(f) \/ FlushEnqueue(f) \/ Answered \/ Same
<1>1. /\ setup \in Setups /\ BufferTypes /\ f \in Waiters /\ f \in Visitors /\ f # Drainer
      /\ f \notin Records /\ f \notin Shutdowns
      /\ f \in Records \cup Waiters \cup {Drainer}
  BY Distinct DEF TypeInv, CallTypes, Waiters, Visitors
<1>2. /\ pc \in [Records \cup Waiters \cup {Drainer} ->
                    {"idle", "off", "emit", "enqueue", "close", "await", "wait", "done"}]
      /\ idx \in [Visitors -> 1 .. Len(Flushers) + 1] /\ first \in [Visitors -> Errors]
      /\ result \in [Waiters -> Errors \cup {None}]
      /\ before \in [Flushes -> [Buffers -> [Records -> Nat]]]
  BY DEF TypeInv, CallTypes, HistoryTypes
<1>3. ASSUME FlushRefused(f) \/ FlushReached(f) \/ FlushExpired(f) PROVE Goal
  <2>1. CASE FlushRefused(f)
    <3>1. FlushVisited(f, "shutdown") /\ pc[f] = "enqueue" /\ UNCHANGED before
      BY <2>1 DEF FlushRefused
    <3>2. "shutdown" \in Errors /\ "shutdown" # "nil"
      BY DEF Errors
    <3> QED BY <3>1, <3>2
  <2>2. CASE FlushReached(f)
    <3>1. /\ FlushVisited(f, firstErr[Flushers[idx[f]]]) /\ pc[f] = "await" /\ UNCHANGED before
          /\ Barrier(f) \in closed[Flushers[idx[f]]]
      BY <2>2 DEF FlushReached
    <3>2. idx[f] \in 1 .. Len(Flushers) + 1 /\ idx[f] <= Len(Flushers)
      BY <1>1, <1>2, <3>1 DEF TypeInv, PlaceInv
    <3>3. firstErr[Flushers[idx[f]]] \in Errors
      BY <1>1, <3>2, FlushersType DEF BufferTypes
    <3> QED BY <3>1, <3>3
  <2>3. CASE FlushExpired(f)
    <3>1. FlushVisited(f, "ctx") /\ pc[f] \in {"enqueue", "await"} /\ UNCHANGED before
      BY <2>3 DEF FlushExpired
    <3>2. "ctx" \in Errors /\ "ctx" # "nil"
      BY DEF Errors
    <3> QED BY <3>1, <3>2
  <2> QED BY <1>3, <2>1, <2>2, <2>3
<1>4. ASSUME NEW g \in Flushes, Flush(g) PROVE Goal
  <2>1. CASE g = f
    BY <1>3, <1>4, <2>1 DEF Flush
  <2>2. CASE g # f
    <3>1. CASE FlushGate(g)
      BY <1>1, <1>2, <2>2, <3>1 DEF FlushGate
    <3>2. CASE FlushEnqueue(g)
      BY <1>1, <1>2, <2>2, <3>2 DEF FlushEnqueue
    <3>3. CASE FlushRefused(g) \/ FlushReached(g) \/ FlushExpired(g)
      <4>1. (\E answer : FlushVisited(g, answer)) /\ UNCHANGED before
        BY <3>3 DEF FlushRefused, FlushReached, FlushExpired
      <4> QED BY <1>1, <1>2, <2>2, <4>1 DEF FlushVisited, Advance
    <3> QED BY <1>4, <3>1, <3>2, <3>3 DEF Flush
  <2> QED BY <2>1, <2>2
<1>5. ASSUME NEW r \in Records, LogCall(r) PROVE Goal
  BY <1>1, <1>2, <1>5 DEF LogCall, LogGate, LogEmit
<1>6. ASSUME NEW s \in Shutdowns, Shutdown(s) PROVE Goal
  BY <1>1, <1>2, <1>6 DEF Shutdown, ShutdownStart, ShutdownReturn
<1>7. ASSUME Drain PROVE Goal
  BY <1>1, <1>2, <1>7 DEF Drain, DrainClose, DrainVisited, DrainDone, Advance
<1>8. ASSUME UNCHANGED <<callVars, before>> PROVE Goal
  BY <1>8 DEF callVars
<1>9. ASSUME \/ \E b \in Buffers : Worker(b)
             \/ SetLevel \/ (\E c \in Waiters : Expire(c)) \/ UNCHANGED vars
      PROVE  Goal
  <2>1. UNCHANGED <<callVars, before>>
    BY <1>9 DEF Worker, WorkerReceive, WorkerDeliver, WorkerBarrier, WorkerExit, SetLevel, Expire, vars
  <2> QED BY <1>8, <2>1
<1> HIDE DEF Goal
<1>10. Goal
  BY <1>4, <1>5, <1>6, <1>7, <1>9 DEF Next, Quiescent
<1> QED BY <1>10 DEF Goal

\* A Flush that has had no error so far has its barriers behind it, and those of the
\* visits to come are nowhere.
VisitInv(f) ==
    /\ pc[f] # "done" => result[f] = None
    /\ pc[f] = "done" /\ result[f] = "nil" =>
          Flushers = << >> \/ (idx[f] = Len(Flushers) + 1 /\ first[f] = "nil")
    /\ first[f] = "nil" =>
          \A j \in 1 .. Len(Flushers) : j < idx[f] => <<f, j>> \in closed[Flushers[j]]
    /\ \A b \in Buffers, j \in 1 .. Len(Flushers) :
          ~Unmarked(b, <<f, j>>) => j < idx[f] \/ (j = idx[f] /\ pc[f] = "await")

\* A visit goes forward one buffer at a time, each with its barrier handed back.
LEMMA VisitNext ==
    ASSUME TypeInv, [Next]_vars, NEW f \in Flushes, VisitInv(f)
    PROVE  VisitInv(f)'
<1>1. /\ setup \in Setups /\ BufferTypes /\ f \in Waiters /\ f \in Visitors
      /\ UNCHANGED <<setup, Buffers, Flushers>> /\ f \in Records \cup Waiters \cup {Drainer}
  BY SetupKept, PlanKept DEF TypeInv, CallTypes, Waiters, Visitors
<1>2. /\ pc \in [Records \cup Waiters \cup {Drainer} ->
                    {"idle", "off", "emit", "enqueue", "close", "await", "wait", "done"}]
      /\ idx \in [Visitors -> 1 .. Len(Flushers) + 1] /\ first \in [Visitors -> Errors]
      /\ result \in [Waiters -> Errors \cup {None}]
      /\ idx[f] \in 1 .. Len(Flushers) + 1 /\ idx[f] \in Nat /\ Len(Flushers) \in Nat
      /\ \A j \in 1 .. Len(Flushers) : Flushers[j] \in Buffers
  BY <1>1, FlushersType DEF TypeInv, CallTypes
<1>3. \A j \in 1 .. Len(Flushers) : <<f, j>> \in closed[Flushers[j]] => <<f, j>> \in closed'[Flushers[j]]
  BY <1>2, ClosedStays
<1>4. \A b \in Buffers, j \in 1 .. Len(Flushers) :
         ~Unmarked(b, <<f, j>>)' => ~Unmarked(b, <<f, j>>) \/ (FlushEnqueue(f) /\ j = idx[f])
  BY MarksCome
<1> DEFINE Past(k, e) == e = "nil" =>
                            \A j \in 1 .. Len(Flushers) : j < k => <<f, j>> \in closed'[Flushers[j]]
           Ahead(k, p) == \A b \in Buffers, j \in 1 .. Len(Flushers) :
                            ~Unmarked(b, <<f, j>>)' => j < k \/ (j = k /\ p = "await")
           End(k, e, p, a) ==
              /\ p # "done" => a = None
              /\ p = "done" /\ a = "nil" => Flushers = << >> \/ (k = Len(Flushers) + 1 /\ e = "nil")
<1>5. SUFFICES /\ End(idx'[f], first'[f], pc'[f], result'[f])
               /\ Past(idx'[f], first'[f]) /\ Ahead(idx'[f], pc'[f])
  BY <1>1 DEF VisitInv
<1>6. /\ End(idx[f], first[f], pc[f], result[f])
      /\ Past(idx[f], first[f])
  BY <1>3 DEF VisitInv
<1>7. ~FlushEnqueue(f) => Ahead(idx[f], pc[f])
  BY <1>4 DEF VisitInv
<1>8. CASE FlushEnqueue(f)
  <2>1. /\ pc[f] = "enqueue" /\ pc' = [pc EXCEPT ![f] = "await"]
        /\ UNCHANGED <<idx, first, result>>
    BY <1>8 DEF FlushEnqueue
  <2>2. pc'[f] = "await"
    BY <1>1, <1>2, <2>1
  <2>3. Ahead(idx[f], "await")
    BY <1>4, <2>1 DEF VisitInv
  <2>4. result[f] = None
    BY <2>1 DEF VisitInv
  <2> HIDE DEF Past, Ahead
  <2> QED BY <1>6, <2>1, <2>2, <2>3, <2>4
<1>9. ASSUME NEW answer \in Errors, pc[f] \in {"enqueue", "await"}, FlushVisited(f, answer),
             answer = "nil" => pc[f] = "await" /\ Barrier(f) \in closed[Flushers[idx[f]]]
      PROVE  /\ End(idx'[f], first'[f], pc'[f], result'[f])
             /\ Past(idx'[f], first'[f]) /\ Ahead(idx'[f], pc'[f])
  <2>1. /\ idx'[f] = idx[f] + 1 /\ first'[f] = IF first[f] = "nil" THEN answer ELSE first[f]
        /\ IF AtLast(f) THEN pc'[f] = "done" /\ result'[f] = first'[f]
           ELSE pc'[f] = "enqueue" /\ result'[f] = result[f]
    BY <1>1, <1>2, <1>9 DEF FlushVisited, Advance
  <2>2. idx[f] \in 1 .. Len(Flushers) /\ result[f] = None
    BY <1>1, <1>2, <1>9 DEF TypeInv, PlaceInv, VisitInv
  <2>3. End(idx'[f], first'[f], pc'[f], result'[f])
    BY <1>2, <2>1, <2>2 DEF AtLast
  <2>4. Past(idx[f] + 1, first'[f])
    <3>1. SUFFICES ASSUME first'[f] = "nil", NEW j \in 1 .. Len(Flushers), j < idx[f] + 1
                   PROVE  <<f, j>> \in closed'[Flushers[j]]
      OBVIOUS
    <3>2. first[f] = "nil" /\ answer = "nil"
      BY <2>1, <3>1
    <3>3. CASE j < idx[f]
      BY <1>6, <3>2, <3>3
    <3>4. CASE j = idx[f]
      BY <1>3, <1>9, <3>2, <3>4 DEF Barrier
    <3> QED BY <1>2, <3>1, <3>3, <3>4
  <2>5. ~FlushEnqueue(f)
    <3>1. FlushEnqueue(f) => idx'[f] = idx[f]
      BY DEF FlushEnqueue
    <3> QED BY <1>2, <2>1, <3>1
  <2>6. Ahead(idx[f] + 1, pc'[f])
    <3>1. Ahead(idx[f], pc[f])
      BY <1>7, <2>5
    <3>2. \A j \in 1 .. Len(Flushers) : j < idx[f] \/ j = idx[f] => j < idx[f] + 1
      BY <1>2
    <3> QED BY <3>1, <3>2
  <2> HIDE DEF Past, Ahead, End
  <2> QED BY <2>1, <2>3, <2>4, <2>6
<1>10. CASE FlushGate(f)
  <2>1. /\ pc[f] = "idle" /\ UNCHANGED <<idx, first>>
        /\ \/ Flushers = << >> /\ pc'[f] = "done"
           \/ pc'[f] = "done" /\ result'[f] = "shutdown"
           \/ pc'[f] = "enqueue" /\ UNCHANGED result
    BY <1>1, <1>2, <1>10 DEF FlushGate
  <2>2. result[f] = None
    BY <2>1 DEF VisitInv
  <2>3. ~FlushEnqueue(f)
    BY <2>1 DEF FlushEnqueue
  <2>4. Ahead(idx[f], pc'[f])
    BY <1>7, <2>1, <2>3
  <2>5. End(idx'[f], first'[f], pc'[f], result'[f])
    BY <2>1, <2>2
  <2> HIDE DEF Past, Ahead, End
  <2> QED BY <1>6, <2>1, <2>4, <2>5
<1>11. ASSUME pc'[f] = pc[f], idx'[f] = idx[f], first'[f] = first[f], result'[f] = result[f]
       PROVE  /\ End(idx'[f], first'[f], pc'[f], result'[f])
              /\ Past(idx'[f], first'[f]) /\ Ahead(idx'[f], pc'[f])
  <2>1. ~FlushEnqueue(f)
    <3>1. FlushEnqueue(f) => pc[f] = "enqueue" /\ pc'[f] = "await"
      BY <1>1, <1>2 DEF FlushEnqueue
    <3> QED BY <1>11, <3>1
  <2> HIDE DEF Past, Ahead, End
  <2> QED BY <1>6, <1>7, <1>11, <2>1
<1> HIDE DEF Past, Ahead, End
<1> QED BY <1>8, <1>9, <1>10, <1>11, FlushCases

\* A set of places that is not empty has a last one.
LEMMA LargestPlace ==
    ASSUME NEW n \in Nat, NEW S \in SUBSET (1 .. n), S # {}
    PROVE  \E i \in S : \A j \in S : j <= i
<1> DEFINE C == {k \in Nat : \A T \in SUBSET (1 .. k) : T # {} => \E i \in T : \A j \in T : j <= i}
<1>1. 0 \in C
  <2>1. 1 .. 0 = {}
    OBVIOUS
  <2>2. SUBSET (1 .. 0) = {{}}
    BY <2>1
  <2> QED BY <2>2
<1>2. ASSUME NEW k \in Nat, k \in C PROVE k + 1 \in C
  <2>1. ASSUME NEW T \in SUBSET (1 .. k + 1), T # {} PROVE \E i \in T : \A j \in T : j <= i
    <3>1. CASE k + 1 \in T
      BY <3>1
    <3>2. CASE k + 1 \notin T
      <4>1. T \in SUBSET (1 .. k)
        BY <3>2
      <4> QED BY <1>2, <2>1, <4>1
    <3> QED BY <3>1, <3>2
  <2> QED BY <2>1
<1> HIDE DEF C
<1>3. n \in C
  BY <1>1, <1>2, NatSetInduction
<1> QED BY <1>3 DEF C

\* The last of the visits to a buffer, whose barrier is the mark there.
LastVisit(b) ==
    IF Visits(b) = {} THEN 0 ELSE CHOOSE i \in Visits(b) : \A j \in Visits(b) : j <= i
Marks(f) == [h \in Nat |-> <<f, LastVisit(h)>>]

\* The marks are no records, and each is the last barrier of its buffer.
LEMMA MarksFit ==
    ASSUME TypeInv, NEW f \in Flushes
    PROVE  /\ Marking(Marks(f))
           /\ \A b \in Buffers :
                 /\ Marks(f)[b] = <<f, LastVisit(b)>>
                 /\ b \in Range(Flushers) =>
                      /\ LastVisit(b) \in 1 .. Len(Flushers) /\ Flushers[LastVisit(b)] = b
                      /\ \A j \in Visits(b) : j <= LastVisit(b)
<1>1. setup \in Setups /\ Buffers \subseteq Nat
  BY PlanTypes DEF TypeInv, CallTypes
<1>2. Len(Flushers) \in Nat /\ DOMAIN Flushers = 1 .. Len(Flushers)
  BY <1>1, FlushersType
<1>3. ASSUME NEW b \in Buffers
      PROVE  /\ Marks(f)[b] = <<f, LastVisit(b)>> /\ LastVisit(b) \in Nat
             /\ b \in Range(Flushers) =>
                  /\ LastVisit(b) \in 1 .. Len(Flushers) /\ Flushers[LastVisit(b)] = b
                  /\ \A j \in Visits(b) : j <= LastVisit(b)
  <2>1. Marks(f)[b] = <<f, LastVisit(b)>>
    BY <1>1 DEF Marks
  <2>2. Visits(b) \in SUBSET (1 .. Len(Flushers))
    BY <1>2 DEF Visits
  <2>3. CASE Visits(b) = {}
    BY <2>1, <2>3 DEF LastVisit, Range, Visits
  <2>4. CASE Visits(b) # {}
    <3>1. \E i \in Visits(b) : \A j \in Visits(b) : j <= i
      <4> PICK S : S = Visits(b)
        OBVIOUS
      <4>1. \E i \in S : \A j \in S : j <= i
        BY <1>2, <2>2, <2>4, LargestPlace
      <4> QED BY <4>1
    <3>2. LastVisit(b) \in Visits(b) /\ \A j \in Visits(b) : j <= LastVisit(b)
      BY <2>4, <3>1 DEF LastVisit
    <3> QED BY <1>2, <2>1, <2>2, <3>2 DEF Visits
  <2> QED BY <2>3, <2>4
<1>4. Marking(Marks(f))
  BY <1>3, BarrierApart DEF Marking
<1> QED BY <1>3, <1>4

\* The buffers that the logger knows and visits again behind those that feed them.
FlushIn == {b \in Buffers : Known(b) /\ ~LeftBehind(b)}

\* What they feed is like them, and is visited after them.
LEMMA FlushBelow ==
    ASSUME setup \in Setups, NEW b \in FlushIn, NEW e \in Feeds(b)
    PROVE  e \in FlushIn /\ \A j \in Visits(b) : \E i \in Visits(e) : j < i
<1>1. b \in Buffers /\ Known(b) /\ ~LeftBehind(b) /\ b \in Within(b)
  BY KnownBelow DEF FlushIn
<1>2. e \in Buffers /\ e # b /\ Routes(b, e) > 0 /\ Known(e)
  BY <1>1, FeedsBelow, KnownBelow DEF Feeds
<1>3. Within(e) \subseteq Within(b)
  <2>1. b \in Handlers /\ e \in Handlers
    BY <1>1, <1>2, PlanTypes
  <2> QED BY <1>2, <2>1, PlanRoutes DEF Within, Handlers
<1>4. ~LeftBehind(e)
  BY <1>1, <1>3 DEF LeftBehind
<1>5. ASSUME NEW j \in Visits(b) PROVE \E i \in Visits(e) : j < i
  <2>1. PICK i \in Visits(e) : ~(i < j)
    BY <1>1 DEF LeftBehind
  <2>2. i \in Nat /\ j \in Nat /\ i # j
    BY <1>2, FlushersType DEF Visits
  <2> QED BY <2>1, <2>2
<1> QED BY <1>2, <1>4, <1>5 DEF FlushIn

\* While Flush f has had no error and none is ahead of it.
Going(f) ==
    /\ pc[f] # "idle" /\ result[f] \in {None, "nil"} /\ first[f] = "nil"
    /\ \A j \in 1 .. Len(Flushers) :
          j > idx[f] \/ (j = idx[f] /\ pc[f] = "enqueue") => open[Flushers[j]]

\* The buffers pass on, ahead of the marks of a Flush that is going.
LEMMA GoingPasses ==
    ASSUME TypeInv, NEW f \in Flushes, VisitInv(f), Going(f)
    PROVE  Passes(FlushIn, Marks(f))
<1>1. /\ setup \in Setups /\ FlushIn \subseteq Buffers
      /\ Len(Flushers) \in Nat /\ idx[f] \in Nat
  BY FlushersType DEF TypeInv, CallTypes, FlushIn, Visitors
<1> SUFFICES ASSUME NEW b \in FlushIn, ~Passed(b, Marks(f)[b]), NEW e \in Feeds(b)
             PROVE  e \in FlushIn /\ open[e] /\ Unmarked(e, Marks(f)[e])
  BY <1>1 DEF Passes
<1>2. e \in FlushIn /\ e \in Buffers /\ b \in Buffers /\ \A j \in Visits(b) : \E i \in Visits(e) : j < i
  BY <1>1, FlushBelow DEF Feeds
<1>3. b \in Range(Flushers) /\ e \in Range(Flushers)
  BY <1>1, <1>2, KnownBelow DEF FlushIn
<1> DEFINE k == LastVisit(b)
           n == LastVisit(e)
<1>4. /\ Marks(f)[b] = <<f, k>> /\ Marks(f)[e] = <<f, n>>
      /\ k \in 1 .. Len(Flushers) /\ n \in 1 .. Len(Flushers)
      /\ Flushers[k] = b /\ Flushers[n] = e /\ \A i \in Visits(e) : i <= n
  BY <1>2, <1>3, MarksFit
<1>5. k \in Visits(b)
  BY <1>1, <1>4, FlushersType DEF Visits
<1>6. PICK i \in Visits(e) : k < i
  BY <1>2, <1>5
<1> HIDE DEF k, n
<1>7. k < n /\ i \in Nat
  <2>1. i \in Nat /\ i <= n
    BY <1>1, <1>4, FlushersType DEF Visits
  <2> QED BY <1>4, <1>6, <2>1
<1>8. ~(k < idx[f])
  <2>1. <<f, k>> \notin closed[b]
    BY <1>4 DEF Passed
  <2> QED BY <1>4, <2>1 DEF VisitInv, Going
<1>9. n > idx[f]
  BY <1>1, <1>4, <1>7, <1>8
<1>10. open[e]
  BY <1>4, <1>9 DEF Going
<1>11. Unmarked(e, <<f, n>>)
  BY <1>1, <1>2, <1>4, <1>9 DEF VisitInv
<1> QED BY <1>2, <1>4, <1>10, <1>11

\* A Flush that is going on after a step was so before, or has begun.
LEMMA GoingBefore ==
    ASSUME TypeInv, [Next]_vars, NEW f \in Flushes, VisitInv(f), Going(f)'
    PROVE  FlushGate(f) \/ (Going(f) /\ before'[f] = before[f])
<1>1. /\ setup \in Setups /\ f \in Waiters /\ f \in Visitors
      /\ UNCHANGED <<setup, Buffers, Flushers>> /\ f \in Records \cup Waiters \cup {Drainer}
  BY SetupKept, PlanKept DEF TypeInv, CallTypes, Waiters, Visitors
<1>2. /\ pc \in [Records \cup Waiters \cup {Drainer} ->
                    {"idle", "off", "emit", "enqueue", "close", "await", "wait", "done"}]
      /\ idx \in [Visitors -> 1 .. Len(Flushers) + 1] /\ first \in [Visitors -> Errors]
      /\ result \in [Waiters -> Errors \cup {None}]
      /\ idx[f] \in 1 .. Len(Flushers) + 1 /\ idx[f] \in Nat /\ Len(Flushers) \in Nat
      /\ \A j \in 1 .. Len(Flushers) : Flushers[j] \in Buffers
  BY <1>1, FlushersType DEF TypeInv, CallTypes
<1>3. \A j \in 1 .. Len(Flushers) : open'[Flushers[j]] => open[Flushers[j]]
  BY <1>2, ClosedStays
<1>4. /\ pc'[f] # "idle" /\ result'[f] \in {None, "nil"} /\ first'[f] = "nil"
      /\ \A j \in 1 .. Len(Flushers) :
            j > idx'[f] \/ (j = idx'[f] /\ pc'[f] = "enqueue") => open'[Flushers[j]]
  BY <1>1 DEF Going
<1>5. CASE FlushEnqueue(f)
  <2>1. /\ pc[f] = "enqueue" /\ open[Flushers[idx[f]]]
        /\ UNCHANGED <<idx, first, result, open, before>>
    BY <1>5 DEF FlushEnqueue
  <2> QED BY <1>4, <2>1 DEF Going
<1>6. ASSUME NEW answer \in Errors, pc[f] \in {"enqueue", "await"}, FlushVisited(f, answer),
             answer = "nil" => pc[f] = "await" /\ Barrier(f) \in closed[Flushers[idx[f]]],
             UNCHANGED before
      PROVE  Going(f) /\ before'[f] = before[f]
  <2>1. /\ idx'[f] = idx[f] + 1 /\ first'[f] = IF first[f] = "nil" THEN answer ELSE first[f]
        /\ IF AtLast(f) THEN pc'[f] = "done" /\ result'[f] = first'[f]
           ELSE pc'[f] = "enqueue" /\ result'[f] = result[f]
    BY <1>1, <1>2, <1>6 DEF FlushVisited, Advance
  <2>2. result[f] = None
    BY <1>6 DEF VisitInv
  <2>3. first[f] = "nil" /\ answer = "nil" /\ pc[f] = "await"
    BY <1>4, <1>6, <2>1
  <2>4. ASSUME NEW j \in 1 .. Len(Flushers), j > idx[f] PROVE open[Flushers[j]]
    <3>1. ~AtLast(f)
      BY <1>2, <2>4 DEF AtLast
    <3>2. j > idx'[f] \/ (j = idx'[f] /\ pc'[f] = "enqueue")
      BY <1>2, <2>1, <2>4, <3>1
    <3> QED BY <1>3, <1>4, <3>2
  <2> QED BY <1>6, <2>2, <2>3, <2>4 DEF Going
<1>7. ASSUME pc'[f] = pc[f], idx'[f] = idx[f], first'[f] = first[f], result'[f] = result[f],
             before'[f] = before[f]
      PROVE  Going(f) /\ before'[f] = before[f]
  BY <1>3, <1>4, <1>7 DEF Going
<1>8. FlushEnqueue(f) => before' = before
  BY DEF FlushEnqueue
<1> QED BY <1>5, <1>6, <1>7, <1>8, FlushCases

\* As much is ahead of one mark as of another, when neither is there.
LEMMA UnmarkedPending ==
    ASSUME TypeInv, NEW b \in Buffers, NEW m, NEW n, Unmarked(b, m), Unmarked(b, n), NEW r, NEW s
    PROVE  Pending(b, m, r, s) = Pending(b, n, r, s)
<1> DEFINE Q == queue[b]
           N(x) == [k \in DOMAIN Q |-> IF Q[k] = r /\ \A j \in 1 .. k : Q[j] # x THEN 1 ELSE 0]
<1>1. ~Passed(b, m) /\ ~Passed(b, n) /\ \A k \in DOMAIN Q : Q[k] # m /\ Q[k] # n
  BY DEF Unmarked, Range
<1>2. Q \in Seq(Records \cup Barriers) /\ DOMAIN Q = 1 .. Len(Q) /\ Len(Q) \in Nat
  BY LenProperties DEF TypeInv, BufferTypes
<1>3. AheadOf(Q, m, r) = Along(N(m)) /\ AheadOf(Q, n, r) = Along(N(n))
  BY DEF AheadOf
<1>4. \A k \in DOMAIN Q : \A j \in 1 .. k : j \in DOMAIN Q
  BY <1>2
<1> HIDE DEF Q
<1>5. N(m) = N(n)
  BY <1>1, <1>4
<1> QED BY <1>1, <1>3, <1>5 DEF Pending, Q

\* Until the shutdown begins, every buffer is open.
LEMMA OpenPasses ==
    ASSUME TypeInv, DrainInv, ~stopping
    PROVE  Passes(FlushIn, NoMarks)
<1>1. setup \in Setups /\ \A b \in Buffers : Unmarked(b, NoMarks[b])
  BY NoMarksFit DEF TypeInv, CallTypes
<1>2. pc[Drainer] = "idle" /\ idx[Drainer] = 1 /\ Drainer \in Visitors
  BY DEF DrainInv, TypeInv, PlaceInv, Visitors
<1>3. ASSUME NEW b \in Buffers PROVE open[b]
  <2>1. \A j \in Visits(b) : ~(j < 1)
    BY <1>1, FlushersType DEF Visits
  <2> QED BY <1>2, <2>1 DEF DrainInv
<1>4. \A b \in FlushIn : \A e \in Feeds(b) : e \in FlushIn /\ e \in Buffers
  BY <1>1, FlushBelow DEF Feeds
<1> QED BY <1>1, <1>3, <1>4 DEF Passes

\* What was accepted before a Flush that is going on is delivered, lost, or pending
\* ahead of its marks.
Reached(f) ==
    \A r \in Records, s \in Sinks : Sent(FlushIn, before[f], r, s) <= Stock(FlushIn, Marks(f), r, s)

\* So it is when a Flush begins.
LEMMA ReachedFirst ==
    ASSUME TypeInv, TypeInv', NEW f \in Flushes, VisitInv(f), FlushGate(f), Going(f)',
           ~stopping => Balanced(FlushIn, accepted)
    PROVE  Reached(f)'
<1>1. /\ pc[f] = "idle" /\ before' = [before EXCEPT ![f] = accepted]
      /\ stopping => result' = [result EXCEPT ![f] = "shutdown"]
      /\ UNCHANGED <<setup, queue, closed, delivered, overflowed, silenced, hand>>
  BY DEF FlushGate, levelVars, bufferVars, recordVars
<1>2. setup \in Setups /\ f \in Waiters /\ f \in Visitors /\ f \in Records \cup Waiters \cup {Drainer}
  BY DEF TypeInv, CallTypes, Waiters, Visitors
<1>3. ~stopping
  <2>1. "shutdown" # "nil" /\ "shutdown" # None
    BY ConstantsAssumption DEF Errors
  <2>2. stopping => result'[f] = "shutdown"
    BY <1>1, <1>2 DEF TypeInv, CallTypes
  <2> QED BY <2>1, <2>2 DEF Going
<1>4. before'[f] = accepted
  BY <1>1 DEF TypeInv, HistoryTypes
<1>5. idx[f] = 1
  BY <1>1, <1>2 DEF TypeInv, PlaceInv
<1> PICK B, M, A : B \in SUBSET Buffers /\ B = FlushIn /\ M = Marks(f) /\ A = accepted
  BY DEF FlushIn
<1>6. /\ FlushIn' = B /\ Marks(f)' = M /\ UNCHANGED <<Buffers, Sinks>>
      /\ \A b, s : Routes(b, s)' = Routes(b, s)
  BY <1>1, PlanKept DEF FlushIn, Known, LeftBehind, Within, Feeds, Visits, Marks, LastVisit
<1>7. Marking(M)
  BY MarksFit
<1>8. ASSUME NEW b \in B PROVE Unmarked(b, M[b]) /\ Unmarked(b, NoMarks[b])
  <2>1. b \in Buffers /\ b \in Range(Flushers)
    BY <1>2, KnownBelow DEF FlushIn
  <2>2. M[b] = <<f, LastVisit(b)>> /\ LastVisit(b) \in 1 .. Len(Flushers)
    BY <2>1, MarksFit
  <2>3. ~(LastVisit(b) < 1) /\ pc[f] # "await"
    BY <1>1, <1>2, <2>2, FlushersType
  <2> QED BY <1>5, <2>1, <2>2, <2>3, NoMarksFit DEF VisitInv
<1>9. ASSUME NEW r \in Records, NEW s \in Sinks
      PROVE  Sent(B, A, r, s) <= Stock(B, M, r, s)'
  <2>1. \A b \in B : Pending(b, M[b], r, s) = Pending(b, NoMarks[b], r, s)
    BY <1>8, UnmarkedPending
  <2>2. PendingIn(B, M, r, s) = PendingIn(B, NoMarks, r, s)
    BY <2>1 DEF PendingIn
  <2>3. Stock(B, M, r, s) = Stock(B, NoMarks, r, s)
    BY <2>2 DEF Stock
  <2>4. \A b \in Buffers : hand'[b] = hand[b]
    BY <1>1
  <2>5. Stock(B, M, r, s)' = Stock(B, M, r, s)
    BY <1>1, <2>4, StockSame
  <2>6. Sent(B, A, r, s) <= Stock(B, NoMarks, r, s)
    BY <1>3 DEF Balanced
  <2> QED BY <2>3, <2>5, <2>6
<1>10. \A r, s : Sent(FlushIn, before[f], r, s)' = Sent(B, A, r, s)
  BY <1>4, <1>6 DEF Sent
<1>11. \A r, s : Stock(FlushIn, Marks(f), r, s)' = Stock(B, M, r, s)'
  BY <1>6 DEF Stock, PendingIn
<1> QED BY <1>6, <1>9, <1>10, <1>11 DEF Reached

\* And it stays so.
LEMMA ReachedNext ==
    ASSUME TypeInv, TypeInv', [Next]_vars, NEW f \in Flushes, VisitInv(f), Going(f), Reached(f),
           before'[f] = before[f]
    PROVE  Reached(f)'
<1>1. UNCHANGED setup /\ Passes(FlushIn, Marks(f)) /\ setup \in Setups
  BY SetupKept, GoingPasses DEF TypeInv, CallTypes
<1> PICK B, M, A : B \in SUBSET Buffers /\ B = FlushIn /\ M = Marks(f) /\ A = before[f]
  BY DEF FlushIn
<1>2. /\ FlushIn' = B /\ Marks(f)' = M /\ UNCHANGED <<Buffers, Sinks>>
      /\ \A b, s : Routes(b, s)' = Routes(b, s)
  BY <1>1, PlanKept DEF FlushIn, Known, LeftBehind, Within, Feeds, Visits, Marks, LastVisit
<1>3. Marking(M) /\ Passes(B, M)
  BY <1>1, MarksFit
<1>4. A \in Counts
  BY DEF TypeInv, HistoryTypes, Counts
<1>5. ASSUME NEW r \in Records, NEW s \in Sinks
      PROVE  Sent(B, A, r, s) <= Stock(B, M, r, s)'
  <2> DEFINE T == Stock(B, M, r, s)
             S == Sent(B, A, r, s)
             T2 == Stock(B, M, r, s)'
  <2>1. T <= T2
    BY <1>3, StockNext
  <2>2. S <= T
    BY DEF Reached
  <2>3. T \in Nat /\ S \in Nat
    BY <1>3, <1>4, StockTypes, SentChange
  <2>4. T2 \in Nat
    <3>1. Marking(M)' /\ (s \in Sinks)' /\ (B \in SUBSET Buffers)'
      BY <1>2, <1>3 DEF Marking
    <3> QED BY <3>1, StockThen DEF StockNats
  <2> HIDE DEF S, T, T2
  <2>5. S <= T2
    BY <2>1, <2>2, <2>3, <2>4
  <2> QED BY <2>5 DEF S, T2
<1>6. \A r, s : Sent(FlushIn, before[f], r, s)' = Sent(B, A, r, s)
  BY <1>2 DEF Sent
<1>7. \A r, s : Stock(FlushIn, Marks(f), r, s)' = Stock(B, M, r, s)'
  BY <1>2 DEF Stock, PendingIn
<1> QED BY <1>2, <1>5, <1>6, <1>7 DEF Reached

\* Types, the drain, every Flush's barriers, and what is on its way ahead of them.
FlushInv ==
    /\ ShutdownInv
    /\ ~stopping => Balanced(FlushIn, accepted)
    /\ \A f \in Flushes : VisitInv(f) /\ (Going(f) => Reached(f))

\* It holds at the start.
LEMMA FlushInit ==
    ASSUME Init, DeliverInv
    PROVE  FlushInv
<1>1. TypeInv /\ ShutdownInv /\ setup \in Setups /\ Len(Flushers) \in Nat
  BY FlushersType DEF DeliverInv, ShutdownInv, TypeInv, CallTypes
<1>2. Balanced(FlushIn, accepted)
  <2> PICK B, A : B \in SUBSET Buffers /\ B = FlushIn /\ A = accepted
    BY DEF FlushIn
  <2>1. ASSUME NEW r \in Records, NEW s \in Sinks PROVE Sent(B, A, r, s) <= Stock(B, NoMarks, r, s)
    <3>1. \A b \in B : A[b][r] = 0
      BY DEF Init, Never
    <3>2. Sent(B, A, r, s) = 0
      BY <1>1, <3>1, SentNone
    <3>3. Stock(B, NoMarks, r, s) \in Nat
      BY <1>1, NoMarksFit, StockTypes
    <3> QED BY <3>2, <3>3
  <2> QED BY <2>1 DEF Balanced
<1>3. ASSUME NEW f \in Flushes PROVE VisitInv(f) /\ ~Going(f)
  <2>1. pc[f] = "idle" /\ result[f] = None /\ idx[f] = 1
    BY DEF Init, Waiters, Visitors
  <2>2. ASSUME NEW b \in Buffers, NEW j \in 1 .. Len(Flushers) PROVE Unmarked(b, <<f, j>>)
    <3>1. hand[b].item = None /\ closed[b] = {} /\ queue[b] = << >>
      BY DEF Init, Nothing
    <3>2. <<f, j>> # None /\ Range(queue[b]) = {}
      <4>1. Range(<< >>) = {}
        BY DEF Range
      <4> QED BY <1>1, <3>1, <4>1, BarrierApart
    <3> QED BY <3>1, <3>2 DEF Unmarked, Passed
  <2> QED BY <1>1, <2>1, <2>2 DEF VisitInv, Going
<1> QED BY <1>1, <1>2, <1>3 DEF FlushInv

\* Every step keeps it.
LEMMA FlushNext ==
    ASSUME FlushInv, [Next]_vars
    PROVE  FlushInv'
<1>1. ShutdownInv /\ ShutdownInv' /\ TypeInv /\ TypeInv' /\ DrainInv
  BY NextTypes, DrainNext, KnownFlowNext DEF ShutdownInv, FlushInv
<1>2. UNCHANGED <<setup, Buffers, Sinks, Flushes>> /\ FlushIn' = FlushIn
  BY SetupKept, PlanKept DEF FlushIn, Known, LeftBehind, Within, Feeds, Visits
<1>3. ~stopping' => ~stopping
  <2>1. UNCHANGED stopping \/ \E d \in Shutdowns : ShutdownStart(d)
    BY DEF Next, LogCall, LogGate, LogEmit, SetLevel, Worker, WorkerReceive, WorkerDeliver,
           WorkerBarrier, WorkerExit, Flush, FlushGate, FlushEnqueue, FlushRefused, FlushReached,
           FlushExpired, Shutdown, ShutdownReturn, Drain, DrainClose, DrainVisited,
           DrainDone, Expire, Quiescent, vars, groupVars
  <2> QED BY <2>1 DEF ShutdownStart
<1>4. ASSUME ~stopping' PROVE Balanced(FlushIn, accepted)'
  <2> PICK B \in SUBSET Buffers : B = FlushIn
    BY DEF FlushIn
  <2>1. Passes(B, NoMarks) /\ Balanced(B, accepted)
    BY <1>1, <1>3, <1>4, OpenPasses DEF FlushInv
  <2>2. Balanced(B, accepted)'
    BY <1>1, <2>1, BalancedNext
  <2> QED BY <1>2, <2>2 DEF Balanced, Sent, Stock, PendingIn
<1>5. ASSUME NEW f \in Flushes PROVE VisitInv(f)' /\ (Going(f)' => Reached(f)')
  <2>1. VisitInv(f) /\ (Going(f) => Reached(f)) /\ (~stopping => Balanced(FlushIn, accepted))
    BY DEF FlushInv
  <2>2. VisitInv(f)'
    BY <1>1, <2>1, VisitNext
  <2>3. ASSUME Going(f)' PROVE Reached(f)'
    <3>1. FlushGate(f) \/ (Going(f) /\ before'[f] = before[f])
      BY <1>1, <2>1, <2>3, GoingBefore
    <3> QED BY <1>1, <2>1, <2>3, <3>1, ReachedFirst, ReachedNext
  <2> QED BY <2>2, <2>3
<1> QED BY <1>1, <1>4, <1>5 DEF FlushInv

\* It holds in every reachable state.
LEMMA FlushInvariant == Spec => []FlushInv
<1>1. Init /\ DeliverInv => FlushInv
  BY FlushInit
<1>2. FlushInv /\ [Next]_vars => FlushInv'
  BY FlushNext
<1> QED BY <1>1, <1>2, DeliverInvariant, PTL DEF Spec

\* When Flush returns nil, every sink has all that was accepted for it before the call,
\* but for what a full buffer turned away or a raised level stopped, from every buffer
\* that the logger knows; unless one below is not visited again behind one that feeds
\* it, which happens only where the logger does not see all that is below
\* (ManagedLogger.Flush, lifecycleGroup.flush, collectFlushers).
THEOREM FlushDelivered == Spec => []FlushDelivers
<1>1. ASSUME FlushInv PROVE FlushDelivers
  <2>1. TypeInv /\ setup \in Setups /\ Len(Flushers) \in Nat
    BY <1>1, FlushersType DEF FlushInv, ShutdownInv, TypeInv, CallTypes
  <2> SUFFICES ASSUME NEW f \in Flushes, result[f] = "nil" PROVE Arrived(before[f], FlushIn)
    <3>1. {b \in Buffers : Known(b) /\ ~(LeftBehind(b) /\ UnwalkedFrom(b))} = FlushIn
      BY <2>1, LeftBehindUnwalked DEF FlushIn
    <3> QED BY <3>1 DEF FlushDelivers
  <2> PICK B, M, A : B \in SUBSET Buffers /\ B = FlushIn /\ M = Marks(f) /\ A = before[f]
    BY DEF FlushIn
  <2>2. A \in Counts /\ Marking(M) /\ VisitInv(f) /\ (Going(f) => Reached(f))
    BY <1>1, <2>1, MarksFit DEF FlushInv, TypeInv, HistoryTypes, Counts
  <2>3. pc[f] = "done"
    <3>1. "nil" # None
      BY ConstantsAssumption DEF Errors
    <3> QED BY <2>2, <3>1 DEF VisitInv
  <2>4. ASSUME NEW r \in Records, NEW s \in Sinks
        PROVE  Sent(B, A, r, s) <= delivered[s][r] + LostTo(r, s)
    <3>1. CASE Flushers = << >>
      <4>1. Range(Flushers) = {}
        BY <3>1 DEF Range
      <4>2. B = {}
        BY <2>1, <4>1, KnownBelow DEF FlushIn
      <4>3. Sent(B, A, r, s) = 0
        BY <2>1, <4>2, SentNone
      <4>4. delivered[s][r] \in Nat /\ LostTo(r, s) \in Nat
        BY <2>1, <2>2, StockTypes
      <4> QED BY <4>3, <4>4
    <3>2. CASE Flushers # << >>
      <4>1. idx[f] = Len(Flushers) + 1 /\ first[f] = "nil"
        BY <2>2, <2>3, <3>2 DEF VisitInv
      <4>2. Going(f)
        BY <2>1, <2>3, <4>1 DEF Going
      <4>3. ASSUME NEW b \in B PROVE Pending(b, M[b], r, s) = 0
        <5>1. b \in Buffers /\ b \in Range(Flushers)
          BY <2>1, KnownBelow DEF FlushIn
        <5>2. /\ M[b] = <<f, LastVisit(b)>> /\ LastVisit(b) \in 1 .. Len(Flushers)
              /\ Flushers[LastVisit(b)] = b
          BY <2>1, <5>1, MarksFit
        <5>3. LastVisit(b) < idx[f]
          BY <2>1, <4>1, <5>2
        <5>4. M[b] \in closed[b]
          BY <2>2, <4>1, <5>2, <5>3 DEF VisitInv
        <5> QED BY <5>4 DEF Pending, Passed
      <4>4. Stock(B, M, r, s) = delivered[s][r] + LostTo(r, s)
        BY <2>1, <2>2, <4>3, NothingPending
      <4> QED BY <2>2, <4>2, <4>4 DEF Reached
    <3> QED BY <3>1, <3>2
  <2>5. Arrived(A, B)
    BY <2>1, <2>2, <2>4, ArrivedParts
  <2> QED BY <2>5
<1> QED BY <1>1, FlushInvariant, PTL
=============================================================================
