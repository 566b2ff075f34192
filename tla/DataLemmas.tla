----------------------------- MODULE DataLemmas -----------------------------
(***************************************************************************)
(* Facts about finite sets, sums and cuts that the proofs of several       *)
(* components rest on. Induction is by a least counterexample: the finite  *)
(* subsets of a set are well-founded under inclusion.                      *)
(***************************************************************************)
EXTENDS Totals, KeyEviction, SequencesExt, FiniteSetTheorems, SequenceTheorems, TLAPS

-----------------------------------------------------------------------------
(* Induction, over sets instead of predicates.                             *)

\* Some part of a finite set that has a property has no smaller part that has it.
LEMMA MinimalPart ==
    ASSUME NEW S, IsFiniteSet(S), NEW C, C \subseteq SUBSET S, C # {}
    PROVE  \E T \in C : \A U \in C : U \subseteq T => U = T
<1>1. C \subseteq FiniteSubsetsOf(S)
  BY FS_FiniteSubsetsOfFinite
<1>2. PICK T \in C : \A U \in C : ~ (<<U, T>> \in StrictSubsetOrdering(S))
  BY <1>1, WFMin, FS_StrictSubsetOrderingWellFounded
<1>3. C \subseteq SUBSET S
  OBVIOUS
<1> QED BY <1>2, <1>3 DEF StrictSubsetOrdering

\* What holds of the empty set and of one element more holds of a finite set.
LEMMA FiniteInduction ==
    ASSUME NEW S, IsFiniteSet(S), NEW C, {} \in C,
           \A T \in SUBSET S, x \in S : T \in C /\ x \notin T => T \cup {x} \in C
    PROVE  S \in C
<1> DEFINE Bad == {T \in SUBSET S : T \notin C}
<1>1. SUFFICES ASSUME Bad # {} PROVE FALSE
  OBVIOUS
<1>2. Bad \subseteq SUBSET S
  OBVIOUS
<1>3. PICK T \in Bad : \A U \in Bad : U \subseteq T => U = T
  <2> HIDE DEF Bad
  <2> QED BY <1>1, <1>2, MinimalPart
<1>4. PICK x \in T : TRUE
  OBVIOUS
<1>5. T \ {x} \in C
  BY <1>3, <1>4
<1>6. (T \ {x}) \cup {x} = T
  BY <1>4
<1> QED BY <1>4, <1>5, <1>6

\* A set of naturals with zero and every successor has all of them.
LEMMA NatSetInduction ==
    ASSUME NEW C, 0 \in C, \A n \in Nat : n \in C => n + 1 \in C
    PROVE  \A n \in Nat : n \in C
<1>1. SUFFICES ASSUME NEW n \in Nat, n \notin C PROVE FALSE
  OBVIOUS
<1> DEFINE I == 1 .. n
           D == {1 .. m : m \in (0 .. n) \ C}
<1>2. IsFiniteSet(I)
  BY FS_Interval
<1>3. D \subseteq SUBSET I
  <2>1. \A m \in (0 .. n) \ C : 1 .. m \subseteq I
    OBVIOUS
  <2> QED BY <2>1
<1>4. 1 .. n \in D
  BY <1>1
<1>5. PICK T \in D : \A U \in D : U \subseteq T => U = T
  <2>1. D # {}
    BY <1>4
  <2> HIDE DEF D, I
  <2> QED BY <1>2, <1>3, <2>1, MinimalPart
<1>6. PICK m \in (0 .. n) \ C : T = 1 .. m
  BY <1>5
<1>7. m # 0 /\ m - 1 \in (0 .. n) \ C
  BY <1>6
<1>8. 1 .. (m - 1) \in D /\ 1 .. (m - 1) \subseteq T /\ m \in T /\ m \notin 1 .. (m - 1)
  BY <1>6, <1>7
<1> QED BY <1>5, <1>8

\* What holds of h once it holds of every number below h holds of all of them.
LEMMA UpwardInduction ==
    ASSUME NEW n \in Nat, NEW C,
           \A h \in 1 .. n : (1 .. h - 1) \subseteq C => h \in C
    PROVE  1 .. n \subseteq C
<1> DEFINE D == {k \in Nat : k <= n => 1 .. k \subseteq C}
<1>1. 0 \in D
  OBVIOUS
<1>2. ASSUME NEW k \in Nat, k \in D PROVE k + 1 \in D
  <2>1. SUFFICES ASSUME k + 1 <= n PROVE 1 .. k + 1 \subseteq C
    OBVIOUS
  <2>2. 1 .. k \subseteq C
    BY <1>2, <2>1
  <2>3. k + 1 \in 1 .. n /\ (k + 1) - 1 = k
    BY <2>1
  <2>4. k + 1 \in C
    BY <2>2, <2>3
  <2>5. \A i \in 1 .. k + 1 : i \in 1 .. k \/ i = k + 1
    OBVIOUS
  <2> QED BY <2>2, <2>4, <2>5
<1>3. \A k \in Nat : k \in D
  <2> HIDE DEF D
  <2> QED BY <1>1, <1>2, NatSetInduction
<1> QED BY <1>3

\* A value at h depends on the values below it only.
FromBelow(F, m, n, V) ==
    /\ F \in [[m .. n -> V] -> [m .. n -> V]]
    /\ \A v \in [m .. n -> V], w \in [m .. n -> V], h \in m .. n :
          (\A i \in m .. h - 1 : v[i] = w[i]) => F[v][h] = F[w][h]

\* A function may be defined from below: each value by the values at lower numbers.
LEMMA UpwardRecursion ==
    ASSUME NEW m \in Nat, NEW n \in Nat, NEW V, V # {}, NEW F, FromBelow(F, m, n, V)
    PROVE  \E w \in [m .. n -> V] : w = F[w]
<1> USE DEF FromBelow
<1> DEFINE Fixed(w, k) == \A h \in m .. n : h < k => w[h] = F[w][h]
           C == {k \in Nat : \E w \in [m .. n -> V] : Fixed(w, k)}
<1>1. 0 \in C
  <2>1. PICK x \in V : TRUE
    OBVIOUS
  <2>2. [i \in m .. n |-> x] \in [m .. n -> V] /\ Fixed([i \in m .. n |-> x], 0)
    OBVIOUS
  <2> QED BY <2>2
<1>2. ASSUME NEW k \in Nat, k \in C PROVE k + 1 \in C
  <2>1. SUFFICES \E w \in [m .. n -> V] : Fixed(w, k + 1)
    OBVIOUS
  <2>2. PICK v \in [m .. n -> V] : Fixed(v, k)
    BY <1>2
  <2> DEFINE w == [v EXCEPT ![k] = F[v][k]]
  <2>3. F[v] \in [m .. n -> V]
    OBVIOUS
  <2>4. w \in [m .. n -> V]
    BY <2>3
  <2>5. (k \in m .. n => w[k] = F[v][k]) /\ \A i \in m .. n : i < k => w[i] = v[i]
    BY <2>3
  <2> HIDE DEF w
  <2>6. ASSUME NEW h \in m .. n, h < k + 1 PROVE w[h] = F[w][h]
    <3>1. \A i \in m .. h - 1 : v[i] = w[i]
      BY <2>5, <2>6
    <3>2. F[v][h] = F[w][h]
      BY <2>4, <3>1
    <3>3. h < k \/ h = k
      BY <2>6
    <3> QED BY <2>2, <2>5, <3>2, <3>3
  <2> QED BY <2>4, <2>6
<1>3. \A k \in Nat : k \in C
  <2> HIDE DEF C
  <2> QED BY <1>1, <1>2, NatSetInduction
<1>4. PICK w \in [m .. n -> V] : Fixed(w, n + 1)
  <2>1. n + 1 \in C
    <3> HIDE DEF C
    <3> QED BY <1>3
  <2> QED BY <2>1
<1>5. \A h \in m .. n : w[h] = F[w][h]
  BY <1>4
<1>6. F[w] \in [m .. n -> V]
  OBVIOUS
<1> QED BY <1>5, <1>6

-----------------------------------------------------------------------------
(* A fold is well defined.                                                 *)

First(s) == CHOOSE x \in s : TRUE

IsFold(it, f, S) ==
    it = [s \in SUBSET S |-> IF s = {} THEN 0 ELSE it[s \ {First(s)}] + f[First(s)]]

\* What Total stands for.
LEMMA TotalIsFold ==
    ASSUME NEW f, NEW S
    PROVE  Total(f, S) = (CHOOSE it : IsFold(it, f, S))[S]
BY DEF Total, FoldSet, MapThenFoldSet, IsFold, First

\* Two folds over the same finite set are equal.
LEMMA FoldUnique ==
    ASSUME NEW f, NEW S, IsFiniteSet(S), NEW it, NEW jt, IsFold(it, f, S), IsFold(jt, f, S)
    PROVE  it = jt
<1> DEFINE Bad == {s \in SUBSET S : it[s] # jt[s]}
<1>1. SUFFICES ASSUME Bad # {} PROVE FALSE
  BY DEF IsFold
<1>2. Bad \subseteq SUBSET S
  OBVIOUS
<1>3. PICK s \in Bad : \A u \in Bad : u \subseteq s => u = s
  <2> HIDE DEF Bad
  <2> QED BY <1>1, <1>2, MinimalPart
<1>4. s # {} /\ First(s) \in s
  BY <1>3 DEF IsFold, First
<1>5. it[s \ {First(s)}] = jt[s \ {First(s)}]
  BY <1>3, <1>4
<1>6. it[s] = it[s \ {First(s)}] + f[First(s)] /\ jt[s] = jt[s \ {First(s)}] + f[First(s)]
  BY <1>4 DEF IsFold
<1> QED BY <1>5, <1>6

\* A fold restricted to a part is the fold of the part.
LEMMA FoldRestrict ==
    ASSUME NEW f, NEW S, NEW T, T \subseteq S, NEW it, IsFold(it, f, S)
    PROVE  IsFold([s \in SUBSET T |-> it[s]], f, T)
<1> DEFINE jt == [s \in SUBSET T |-> it[s]]
<1>1. ASSUME NEW s \in SUBSET T
      PROVE  jt[s] = IF s = {} THEN 0 ELSE jt[s \ {First(s)}] + f[First(s)]
  <2>1. s \in SUBSET S /\ s \ {First(s)} \in SUBSET T
    OBVIOUS
  <2> QED BY <2>1 DEF IsFold
<1> QED BY <1>1 DEF IsFold

\* Every finite set has a fold.
LEMMA FoldExists ==
    ASSUME NEW f, NEW S, IsFiniteSet(S)
    PROVE  \E it : IsFold(it, f, S)
<1> DEFINE Bad == {T \in SUBSET S : ~ \E it : IsFold(it, f, T)}
<1>1. SUFFICES ASSUME Bad # {} PROVE FALSE
  OBVIOUS
<1>2. Bad \subseteq SUBSET S
  OBVIOUS
<1>3. PICK T \in Bad : \A U \in Bad : U \subseteq T => U = T
  <2> HIDE DEF Bad
  <2> QED BY <1>1, <1>2, MinimalPart
<1> DEFINE it == [s \in SUBSET T |->
                      IF s = {} THEN 0 ELSE Total(f, s \ {First(s)}) + f[First(s)]]
<1>4. ASSUME NEW u \in SUBSET T, u # T
      PROVE  it[u] = Total(f, u)
  <2>1. IsFiniteSet(u) /\ \E jt : IsFold(jt, f, u)
    BY <1>3, <1>4, FS_Subset
  <2> DEFINE ju == CHOOSE jt : IsFold(jt, f, u)
  <2>2. IsFold(ju, f, u) /\ Total(f, u) = ju[u]
    BY <2>1, TotalIsFold
  <2>3. CASE u = {}
    BY <2>2, <2>3 DEF IsFold
  <2>4. CASE u # {}
    <3> DEFINE v == u \ {First(u)}
               jv == [s \in SUBSET v |-> ju[s]]
    <3>1. First(u) \in u /\ v \subseteq u /\ IsFiniteSet(v)
      BY <2>1, <2>4, FS_Subset DEF First
    <3>2. IsFold(jv, f, v)
      BY <2>2, <3>1, FoldRestrict
    <3>3. Total(f, v) = jv[v]
      <4> DEFINE kv == CHOOSE jt : IsFold(jt, f, v)
      <4>1. IsFold(kv, f, v) /\ Total(f, v) = kv[v]
        BY <3>2, TotalIsFold
      <4> HIDE DEF kv, jv
      <4>2. kv = jv
        BY <3>1, <3>2, <4>1, FoldUnique
      <4> QED BY <4>1, <4>2
    <3>4. ju[u] = ju[v] + f[First(u)]
      BY <2>2, <2>4 DEF IsFold
    <3>5. it[u] = Total(f, v) + f[First(u)]
      BY <2>4
    <3> QED BY <2>2, <3>3, <3>4, <3>5
  <2> QED BY <2>3, <2>4
<1>5. ASSUME NEW s \in SUBSET T, s # {}
      PROVE  it[s \ {First(s)}] = Total(f, s \ {First(s)})
  <2>1. s \ {First(s)} \in SUBSET T /\ s \ {First(s)} # T
    BY <1>5 DEF First
  <2> HIDE DEF it
  <2> QED BY <1>4, <2>1
<1>6. \A s \in SUBSET T : it[s] = IF s = {} THEN 0 ELSE it[s \ {First(s)}] + f[First(s)]
  BY <1>5
<1>7. IsFold(it, f, T)
  <2>1. it = [s \in SUBSET T |-> it[s]]
    OBVIOUS
  <2> HIDE DEF it
  <2> QED BY <1>6, <2>1 DEF IsFold
<1> QED BY <1>3, <1>7

\* The sum over a finite set, by the element that is chosen first.
LEMMA TotalStep ==
    ASSUME NEW f, NEW S, IsFiniteSet(S)
    PROVE  Total(f, S) = IF S = {} THEN 0 ELSE Total(f, S \ {First(S)}) + f[First(S)]
<1> DEFINE it == CHOOSE jt : IsFold(jt, f, S)
<1>1. IsFold(it, f, S) /\ Total(f, S) = it[S]
  BY FoldExists, TotalIsFold
<1> HIDE DEF it
<1>2. CASE S = {}
  BY <1>1, <1>2 DEF IsFold
<1>3. CASE S # {}
  <2> DEFINE T == S \ {First(S)}
             jt == [s \in SUBSET T |-> it[s]]
             kt == CHOOSE lt : IsFold(lt, f, T)
  <2>1. T \subseteq S /\ IsFiniteSet(T)
    BY FS_Subset
  <2>2. IsFold(jt, f, T) /\ jt[T] = it[T]
    BY <1>1, <2>1, FoldRestrict
  <2>3. IsFold(kt, f, T) /\ Total(f, T) = kt[T]
    BY <2>2, TotalIsFold
  <2>4. kt = jt
    <3> HIDE DEF kt, jt, T
    <3> QED BY <2>1, <2>2, <2>3, FoldUnique
  <2>5. it[S] = it[T] + f[First(S)]
    BY <1>1, <1>3 DEF IsFold
  <2> QED BY <1>1, <1>3, <2>2, <2>3, <2>4, <2>5
<1> QED BY <1>2, <1>3

-----------------------------------------------------------------------------
(* Sums of integers over a finite set.                                     *)

\* A sum of nothing.
LEMMA TotalEmpty ==
    ASSUME NEW f
    PROVE  Total(f, {}) = 0
BY TotalStep, FS_EmptySet

\* The sum does not depend on which element is chosen.
LEMMA TotalRemove ==
    ASSUME NEW S, IsFiniteSet(S), NEW f, \A x \in S : f[x] \in Int
    PROVE  /\ Total(f, S) \in Int
           /\ \A x \in S : Total(f, S) = Total(f, S \ {x}) + f[x]
<1> DEFINE Good(T) == /\ Total(f, T) \in Int
                      /\ \A x \in T : Total(f, T) = Total(f, T \ {x}) + f[x]
           Bad == {T \in SUBSET S : ~Good(T)}
<1>1. SUFFICES ASSUME Bad # {} PROVE FALSE
  OBVIOUS
<1>2. Bad \subseteq SUBSET S
  OBVIOUS
<1>3. PICK T \in Bad : \A U \in Bad : U \subseteq T => U = T
  <2> HIDE DEF Bad
  <2> QED BY <1>1, <1>2, MinimalPart
<1>4. \A U \in SUBSET T : U # T => Good(U)
  BY <1>3
<1>5. T # {} /\ IsFiniteSet(T) /\ \A x \in T : f[x] \in Int
  <2>1. Good({})
    BY TotalEmpty
  <2> QED BY <1>3, <2>1, FS_Subset
<1> DEFINE c == First(T)
<1>6. c \in T /\ Total(f, T) = Total(f, T \ {c}) + f[c]
  BY <1>5, TotalStep DEF First
<1>7. Total(f, T \ {c}) \in Int /\ Total(f, T) \in Int
  BY <1>4, <1>5, <1>6
<1>8. ASSUME NEW x \in T, x # c
      PROVE  Total(f, T) = Total(f, T \ {x}) + f[x]
  <2> HIDE DEF c
  <2> DEFINE U == (T \ {c}) \ {x}
  <2>1. Total(f, T \ {c}) = Total(f, U) + f[x] /\ Total(f, U) \in Int
    BY <1>4, <1>6, <1>8
  <2>2. Total(f, T \ {x}) = Total(f, U) + f[c]
    <3>1. (T \ {x}) \ {c} = U
      OBVIOUS
    <3> QED BY <1>4, <1>6, <1>8, <3>1
  <2> QED BY <1>5, <1>6, <1>8, <2>1, <2>2
<1> QED BY <1>3, <1>6, <1>7, <1>8

\* One element more adds what the function gives it.
LEMMA TotalAdd ==
    ASSUME NEW S, IsFiniteSet(S), NEW x, x \notin S, NEW f, \A y \in S \cup {x} : f[y] \in Int
    PROVE  Total(f, S \cup {x}) = Total(f, S) + f[x] /\ Total(f, S) \in Int
<1>1. IsFiniteSet(S \cup {x}) /\ (S \cup {x}) \ {x} = S
  BY FS_AddElement
<1> QED BY <1>1, TotalRemove

\* The same within a finite set.
LEMMA TotalGrow ==
    ASSUME NEW S, IsFiniteSet(S), NEW T \in SUBSET S, NEW x \in S, x \notin T,
           NEW f, \A y \in S : f[y] \in Int
    PROVE  Total(f, T \cup {x}) = Total(f, T) + f[x] /\ Total(f, T) \in Int
<1>1. IsFiniteSet(T)
  BY FS_Subset
<1> QED BY <1>1, TotalAdd

\* Functions that agree have the same sum.
LEMMA TotalSame ==
    ASSUME NEW S, IsFiniteSet(S), NEW f, NEW g, \A x \in S : f[x] \in Int /\ f[x] = g[x]
    PROVE  Total(f, S) = Total(g, S)
<1> DEFINE C == {T \in SUBSET S : Total(f, T) = Total(g, T)}
<1>1. {} \in C
  BY TotalEmpty
<1>2. ASSUME NEW T \in SUBSET S, NEW x \in S, T \in C, x \notin T
      PROVE  T \cup {x} \in C
  <2>1. (\A y \in S : f[y] \in Int) /\ (\A y \in S : g[y] \in Int)
    OBVIOUS
  <2>2. Total(f, T \cup {x}) = Total(f, T) + f[x] /\ Total(f, T) \in Int
    BY <1>2, <2>1, TotalGrow
  <2>3. Total(g, T \cup {x}) = Total(g, T) + g[x] /\ Total(g, T) \in Int
    BY <1>2, <2>1, TotalGrow
  <2> QED BY <1>2, <2>2, <2>3
<1>3. S \in C
  <2> HIDE DEF C
  <2> QED BY <1>1, <1>2, FiniteInduction
<1> QED BY <1>3

\* A change at one place changes the sum by as much.
LEMMA TotalChange ==
    ASSUME NEW S, IsFiniteSet(S), NEW f, NEW g, NEW x \in S,
           \A y \in S : f[y] \in Int /\ g[y] \in Int /\ (y # x => g[y] = f[y])
    PROVE  Total(g, S) = Total(f, S) - f[x] + g[x]
<1>1. IsFiniteSet(S \ {x}) /\ Total(f, S \ {x}) = Total(g, S \ {x})
  BY TotalSame, FS_Subset
<1> QED BY <1>1, TotalRemove

\* The sum of sums.
LEMMA TotalPlus ==
    ASSUME NEW S, IsFiniteSet(S), NEW f, NEW g, NEW h,
           \A x \in S : f[x] \in Int /\ g[x] \in Int /\ h[x] = f[x] + g[x]
    PROVE  Total(h, S) = Total(f, S) + Total(g, S)
<1> DEFINE C == {T \in SUBSET S : Total(h, T) = Total(f, T) + Total(g, T)}
<1>1. {} \in C
  BY TotalEmpty
<1>2. ASSUME NEW T \in SUBSET S, NEW x \in S, T \in C, x \notin T
      PROVE  T \cup {x} \in C
  <2>1. (\A y \in S : f[y] \in Int) /\ (\A y \in S : g[y] \in Int) /\ (\A y \in S : h[y] \in Int)
    OBVIOUS
  <2>2. Total(f, T \cup {x}) = Total(f, T) + f[x] /\ Total(f, T) \in Int
    BY <1>2, <2>1, TotalGrow
  <2>3. Total(g, T \cup {x}) = Total(g, T) + g[x] /\ Total(g, T) \in Int
    BY <1>2, <2>1, TotalGrow
  <2>4. Total(h, T \cup {x}) = Total(h, T) + h[x] /\ Total(h, T) \in Int
    BY <1>2, <2>1, TotalGrow
  <2> QED BY <1>2, <2>2, <2>3, <2>4
<1>3. S \in C
  <2> HIDE DEF C
  <2> QED BY <1>1, <1>2, FiniteInduction
<1> QED BY <1>3

\* A common factor goes out of the sum.
LEMMA TotalScaled ==
    ASSUME NEW S, IsFiniteSet(S), NEW f, NEW k \in Int, NEW h,
           \A x \in S : f[x] \in Int /\ h[x] = f[x] * k
    PROVE  Total(h, S) = Total(f, S) * k
<1> DEFINE C == {T \in SUBSET S : Total(h, T) = Total(f, T) * k}
<1>1. {} \in C
  BY TotalEmpty
<1>2. ASSUME NEW T \in SUBSET S, NEW x \in S, T \in C, x \notin T
      PROVE  T \cup {x} \in C
  <2>1. (\A y \in S : f[y] \in Int) /\ (\A y \in S : h[y] \in Int)
    OBVIOUS
  <2>2. Total(f, T \cup {x}) = Total(f, T) + f[x] /\ Total(f, T) \in Int
    BY <1>2, <2>1, TotalGrow
  <2>3. Total(h, T \cup {x}) = Total(h, T) + h[x] /\ Total(h, T) \in Int
    BY <1>2, <2>1, TotalGrow
  <2> QED BY <1>2, <2>2, <2>3
<1>3. S \in C
  <2> HIDE DEF C
  <2> QED BY <1>1, <1>2, FiniteInduction
<1> QED BY <1>3

\* Term by term not more, in all not more.
LEMMA TotalMonotone ==
    ASSUME NEW S, IsFiniteSet(S), NEW f, NEW g,
           \A x \in S : f[x] \in Int /\ g[x] \in Int /\ f[x] <= g[x]
    PROVE  Total(f, S) <= Total(g, S)
<1> DEFINE C == {T \in SUBSET S : Total(f, T) <= Total(g, T)}
<1>1. {} \in C
  BY TotalEmpty
<1>2. ASSUME NEW T \in SUBSET S, NEW x \in S, T \in C, x \notin T
      PROVE  T \cup {x} \in C
  <2>1. (\A y \in S : f[y] \in Int) /\ (\A y \in S : g[y] \in Int)
    OBVIOUS
  <2>2. Total(f, T \cup {x}) = Total(f, T) + f[x] /\ Total(f, T) \in Int
    BY <1>2, <2>1, TotalGrow
  <2>3. Total(g, T \cup {x}) = Total(g, T) + g[x] /\ Total(g, T) \in Int
    BY <1>2, <2>1, TotalGrow
  <2> QED BY <1>2, <2>2, <2>3
<1>3. S \in C
  <2> HIDE DEF C
  <2> QED BY <1>1, <1>2, FiniteInduction
<1> QED BY <1>3

\* A sum of zeros.
LEMMA TotalZero ==
    ASSUME NEW S, IsFiniteSet(S), NEW f, \A x \in S : f[x] = 0
    PROVE  Total(f, S) = 0
<1> DEFINE C == {T \in SUBSET S : Total(f, T) = 0}
<1>1. {} \in C
  BY TotalEmpty
<1>2. ASSUME NEW T \in SUBSET S, NEW x \in S, T \in C, x \notin T
      PROVE  T \cup {x} \in C
  <2>1. (\A y \in S : f[y] \in Int)
    OBVIOUS
  <2>2. Total(f, T \cup {x}) = Total(f, T) + f[x] /\ Total(f, T) \in Int
    BY <1>2, <2>1, TotalGrow
  <2> QED BY <1>2, <2>2
<1>3. S \in C
  <2> HIDE DEF C
  <2> QED BY <1>1, <1>2, FiniteInduction
<1> QED BY <1>3

\* A sum of naturals is at least each of its terms.
LEMMA TotalNat ==
    ASSUME NEW S, IsFiniteSet(S), NEW f, \A x \in S : f[x] \in Nat
    PROVE  Total(f, S) \in Nat /\ \A x \in S : f[x] <= Total(f, S)
<1>1. \A T \in SUBSET S : IsFiniteSet(T) /\ Total(f, T) \in Nat
  <2> TAKE T \in SUBSET S
  <2> DEFINE z == [x \in S |-> 0]
  <2>1. IsFiniteSet(T) /\ Total(f, T) \in Int
    BY TotalRemove, FS_Subset
  <2>2. Total(z, T) = 0
    BY <2>1, TotalZero
  <2>3. Total(z, T) <= Total(f, T)
    BY <2>1, TotalMonotone
  <2> QED BY <2>1, <2>2, <2>3
<1>2. ASSUME NEW x \in S PROVE f[x] <= Total(f, S)
  <2>1. Total(f, S) = Total(f, S \ {x}) + f[x] /\ Total(f, S \ {x}) \in Nat
    BY <1>1, TotalRemove
  <2> QED BY <2>1
<1> QED BY <1>1, <1>2

-----------------------------------------------------------------------------
(* Sums along a sequence.                                                  *)

\* The weights of a sequence's elements, added up.
Weight(w, p) == Along([i \in DOMAIN p |-> w[p[i]]])

\* What holds of the empty sequence and of one element more holds of all.
LEMMA AppendInduction ==
    ASSUME NEW S, NEW C, << >> \in C,
           \A p \in Seq(S), x \in S : p \in C => Append(p, x) \in C
    PROVE  Seq(S) \subseteq C
<1> DEFINE D == {n \in Nat : \A p \in Seq(S) : Len(p) = n => p \in C}
<1>1. 0 \in D
  <2>1. \A p \in Seq(S) : Len(p) = 0 => p = << >>
    BY EmptySeq
  <2> QED BY <2>1
<1>2. ASSUME NEW n \in Nat, n \in D PROVE n + 1 \in D
  <2>1. ASSUME NEW q \in Seq(S), Len(q) = n + 1 PROVE q \in C
    <3>1. q # << >>
      BY <2>1, EmptySeq
    <3>2. PICK p \in Seq(S), x \in S : q = Append(p, x)
      BY <3>1, SequenceEmptyOrAppend
    <3>3. Len(p) \in Nat /\ Len(q) = Len(p) + 1
      BY <3>2, AppendProperties, LenProperties
    <3>4. p \in C
      BY <1>2, <2>1, <3>3
    <3> QED BY <3>2, <3>4
  <2> QED BY <2>1
<1>3. \A n \in Nat : n \in D
  <2> HIDE DEF D
  <2> QED BY <1>1, <1>2, NatSetInduction
<1>4. \A p \in Seq(S) : Len(p) \in Nat
  BY LenProperties
<1> QED BY <1>3, <1>4

\* The sum of a sequence of naturals is one, and at least each of them.
LEMMA AlongNat ==
    ASSUME NEW p \in Seq(Nat)
    PROVE  Along(p) \in Nat /\ \A i \in DOMAIN p : p[i] <= Along(p)
<1>1. Len(p) \in Nat /\ DOMAIN p = 1 .. Len(p) /\ \A i \in DOMAIN p : p[i] \in Nat
  BY LenProperties, ElementOfSeq
<1>2. IsFiniteSet(DOMAIN p)
  BY <1>1, FS_Interval
<1> QED BY <1>1, <1>2, TotalNat DEF Along

\* One number more adds itself.
LEMMA AlongAppend ==
    ASSUME NEW p \in Seq(Int), NEW x \in Int
    PROVE  Along(p) \in Int /\ Along(Append(p, x)) = Along(p) + x
<1> DEFINE n == Len(p)
           q == Append(p, x)
<1>1. n \in Nat /\ DOMAIN p = 1 .. n /\ \A i \in 1 .. n : p[i] \in Int
  BY LenProperties, ElementOfSeq
<1>2. DOMAIN q = 1 .. n + 1 /\ (\A i \in 1 .. n : q[i] = p[i]) /\ q[n + 1] = x
  BY AppendProperties, LenProperties
<1> HIDE DEF q, n
<1>3. 1 .. n + 1 = (1 .. n) \cup {n + 1} /\ n + 1 \notin 1 .. n
  BY <1>1
<1>4. \A i \in (1 .. n) \cup {n + 1} : q[i] \in Int
  BY <1>1, <1>2
<1>5. IsFiniteSet(1 .. n)
  BY <1>1, FS_Interval
<1>6. Total(q, 1 .. n + 1) = Total(q, 1 .. n) + x
  <2>1. Total(q, (1 .. n) \cup {n + 1}) = Total(q, 1 .. n) + q[n + 1]
    BY <1>3, <1>4, <1>5, TotalAdd
  <2> QED BY <1>2, <1>3, <2>1
<1>7. Total(q, 1 .. n) = Total(p, 1 .. n)
  BY <1>1, <1>2, <1>5, TotalSame
<1>8. Total(p, 1 .. n) \in Int
  BY <1>1, <1>5, TotalRemove
<1> QED BY <1>1, <1>2, <1>6, <1>7, <1>8 DEF Along, q

\* The empty sequence weighs nothing.
LEMMA WeightEmpty ==
    ASSUME NEW w
    PROVE  Weight(w, << >>) = 0
BY TotalEmpty DEF Weight, Along

\* The weights of the elements, in order.
LEMMA WeightsAppend ==
    ASSUME NEW S, NEW V, NEW w \in [S -> V], NEW p \in Seq(S), NEW x \in S
    PROVE  /\ [i \in DOMAIN p |-> w[p[i]]] \in Seq(V)
           /\ [i \in DOMAIN Append(p, x) |-> w[Append(p, x)[i]]]
                = Append([i \in DOMAIN p |-> w[p[i]]], w[x])
<1> DEFINE n == Len(p)
           v == [i \in DOMAIN p |-> w[p[i]]]
           q == Append(p, x)
           u == [i \in DOMAIN q |-> w[q[i]]]
<1>1. n \in Nat /\ DOMAIN p = 1 .. n /\ \A i \in 1 .. n : p[i] \in S
  BY LenProperties, ElementOfSeq
<1>2. v \in Seq(V) /\ Len(v) = n /\ \A i \in 1 .. n : v[i] = w[p[i]]
  BY <1>1
<1>3. q \in Seq(S) /\ Len(q) = n + 1 /\ (\A i \in 1 .. n : q[i] = p[i]) /\ q[n + 1] = x
  BY AppendProperties
<1>4. DOMAIN q = 1 .. n + 1 /\ \A i \in 1 .. n + 1 : q[i] \in S
  BY <1>1, <1>3, LenProperties, ElementOfSeq
<1>5. u \in Seq(V) /\ Len(u) = n + 1 /\ \A i \in 1 .. n + 1 : u[i] = w[q[i]]
  <2> HIDE DEF q, n
  <2> QED BY <1>1, <1>4
<1>6. Append(v, w[x]) \in Seq(V) /\ Len(Append(v, w[x])) = n + 1
        /\ (\A i \in 1 .. n : Append(v, w[x])[i] = v[i]) /\ Append(v, w[x])[n + 1] = w[x]
  <2> HIDE DEF v, n
  <2> QED BY <1>2, AppendProperties
<1>7. \A i \in 1 .. n + 1 : i \in 1 .. n \/ i = n + 1
  BY <1>1
<1>8. \A i \in 1 .. n + 1 : u[i] = Append(v, w[x])[i]
  <2> HIDE DEF u, v, q, n
  <2> QED BY <1>2, <1>3, <1>5, <1>6, <1>7
<1>9. u = Append(v, w[x])
  <2> HIDE DEF u, v, q, n
  <2> QED BY <1>5, <1>6, <1>8, SeqEqual
<1> QED BY <1>2, <1>9

\* One element more adds its weight.
LEMMA WeightAppend ==
    ASSUME NEW S, NEW w \in [S -> Int], NEW p \in Seq(S), NEW x \in S
    PROVE  Weight(w, p) \in Int /\ Weight(w, Append(p, x)) = Weight(w, p) + w[x]
<1> DEFINE v == [i \in DOMAIN p |-> w[p[i]]]
<1>1. v \in Seq(Int) /\ w[x] \in Int
        /\ [i \in DOMAIN Append(p, x) |-> w[Append(p, x)[i]]] = Append(v, w[x])
  BY WeightsAppend
<1> HIDE DEF v
<1>2. Along(v) \in Int /\ Along(Append(v, w[x])) = Along(v) + w[x]
  BY <1>1, AlongAppend
<1> QED BY <1>1, <1>2 DEF Weight, v

\* A weight that is natural.
LEMMA WeightNat ==
    ASSUME NEW S, NEW w \in [S -> Nat], NEW p \in Seq(S)
    PROVE  Weight(w, p) \in Nat /\ \A i \in DOMAIN p : w[p[i]] <= Weight(w, p)
<1> DEFINE v == [i \in DOMAIN p |-> w[p[i]]]
<1>1. v \in Seq(Nat)
  BY LenProperties, ElementOfSeq
<1>2. DOMAIN v = DOMAIN p /\ \A i \in DOMAIN p : v[i] = w[p[i]]
  OBVIOUS
<1> HIDE DEF v
<1>3. Along(v) \in Nat /\ \A i \in DOMAIN v : v[i] <= Along(v)
  BY <1>1, AlongNat
<1> QED BY <1>2, <1>3 DEF Weight, v

\* A concatenation weighs what its parts weigh.
LEMMA WeightConcat ==
    ASSUME NEW S, NEW w \in [S -> Int], NEW p \in Seq(S), NEW q \in Seq(S)
    PROVE  /\ Weight(w, p) \in Int /\ Weight(w, q) \in Int
           /\ Weight(w, p \o q) = Weight(w, p) + Weight(w, q)
<1> DEFINE C == {r \in Seq(S) : Weight(w, r) \in Int /\ Weight(w, p \o r) = Weight(w, p) + Weight(w, r)}
           D == {r \in Seq(S) : Weight(w, r) \in Int}
<1>1. Seq(S) \subseteq D
  <2>1. << >> \in D
    BY WeightEmpty, EmptySeq
  <2>2. ASSUME NEW r \in Seq(S), NEW x \in S, r \in D PROVE Append(r, x) \in D
    BY <2>2, WeightAppend, AppendProperties
  <2> HIDE DEF D
  <2> QED BY <2>1, <2>2, AppendInduction
<1>2. Weight(w, p) \in Int
  BY <1>1
<1>3. << >> \in C
  BY <1>2, WeightEmpty, EmptySeq, ConcatEmptySeq
<1>4. ASSUME NEW r \in Seq(S), NEW x \in S, r \in C PROVE Append(r, x) \in C
  <2>1. p \o r \in Seq(S) /\ p \o Append(r, x) = Append(p \o r, x)
    <3>1. Append(r, x) = r \o <<x>> /\ Append(p \o r, x) = (p \o r) \o <<x>> /\ p \o r \in Seq(S)
            /\ <<x>> \in Seq(S)
      BY AppendIsConcat, ConcatProperties
    <3> QED BY <3>1, ConcatAssociative
  <2>2. Weight(w, r) \in Int /\ Weight(w, Append(r, x)) = Weight(w, r) + w[x] /\ w[x] \in Int
    BY <1>4, WeightAppend
  <2>4. Append(r, x) \in Seq(S)
    BY AppendProperties
  <2>3. Weight(w, Append(p \o r, x)) = Weight(w, p \o r) + w[x]
    BY <2>1, WeightAppend
  <2>5. Weight(w, p \o r) = Weight(w, p) + Weight(w, r)
    BY <1>4
  <2>6. Weight(w, p \o Append(r, x)) = Weight(w, p) + Weight(w, Append(r, x))
    BY <1>2, <2>1, <2>2, <2>3, <2>5
  <2>7. Weight(w, Append(r, x)) \in Int
    BY <2>2
  <2> QED BY <2>4, <2>6, <2>7
<1>5. Seq(S) \subseteq C
  <2> HIDE DEF C
  <2> QED BY <1>3, <1>4, AppendInduction
<1> QED BY <1>2, <1>5

\* The first element takes its weight with it.
LEMMA WeightTail ==
    ASSUME NEW S, NEW w \in [S -> Int], NEW p \in Seq(S), p # << >>
    PROVE  /\ Weight(w, p) = w[Head(p)] + Weight(w, Tail(p))
           /\ w[Head(p)] \in Int /\ Weight(w, Tail(p)) \in Int
<1>1. Head(p) \in S /\ Tail(p) \in Seq(S) /\ <<Head(p)>> \in Seq(S) /\ p = <<Head(p)>> \o Tail(p)
  OBVIOUS
<1>2. Weight(w, p) = Weight(w, <<Head(p)>>) + Weight(w, Tail(p)) /\ Weight(w, Tail(p)) \in Int
  BY <1>1, WeightConcat
<1>3. <<Head(p)>> = Append(<< >>, Head(p)) /\ << >> \in Seq(S)
  OBVIOUS
<1>4. Weight(w, <<Head(p)>>) = 0 + w[Head(p)]
  BY <1>1, <1>3, WeightAppend, WeightEmpty
<1> QED BY <1>1, <1>2, <1>4

\* How often elements of T occur in a sequence, as it grows and shrinks.
LEMMA OccurrencesChange ==
    ASSUME NEW S, NEW T, NEW q \in Seq(S), NEW x \in S
    PROVE  /\ Occurrences(T, q) \in Nat /\ Occurrences(T, << >>) = 0
           /\ Occurrences(T, Append(q, x)) = Occurrences(T, q) + IF x \in T THEN 1 ELSE 0
           /\ q # << >> =>
                 Occurrences(T, q) = Occurrences(T, Tail(q)) + IF Head(q) \in T THEN 1 ELSE 0
<1> DEFINE w == [y \in S |-> IF y \in T THEN 1 ELSE 0]
<1>1. w \in [S -> Nat] /\ w \in [S -> Int] /\ \A y \in S : w[y] = IF y \in T THEN 1 ELSE 0
  OBVIOUS
<1>2. \A p \in Seq(S) : Occurrences(T, p) = Weight(w, p)
  <2> TAKE p \in Seq(S)
  <2>1. \A i \in DOMAIN p : p[i] \in S
    BY LenProperties, ElementOfSeq
  <2>2. [k \in DOMAIN p |-> IF p[k] \in T THEN 1 ELSE 0] = [k \in DOMAIN p |-> w[p[k]]]
    BY <1>1, <2>1
  <2> HIDE DEF w
  <2> QED BY <2>2 DEF Occurrences, Weight
<1> HIDE DEF w
<1>3. Weight(w, q) \in Nat /\ Weight(w, << >>) = 0 /\ << >> \in Seq(S)
  BY <1>1, WeightNat, WeightEmpty, EmptySeq
<1>4. Weight(w, Append(q, x)) = Weight(w, q) + w[x] /\ Append(q, x) \in Seq(S)
  BY <1>1, WeightAppend
<1>5. q # << >> =>
         Weight(w, q) = w[Head(q)] + Weight(w, Tail(q)) /\ Head(q) \in S /\ Tail(q) \in Seq(S)
           /\ Weight(w, Tail(q)) \in Int
  BY <1>1, WeightTail
<1>6. Occurrences(T, Append(q, x)) = Occurrences(T, q) + IF x \in T THEN 1 ELSE 0
  BY <1>1, <1>2, <1>4
<1>7. q # << >> =>
         Occurrences(T, q) = Occurrences(T, Tail(q)) + IF Head(q) \in T THEN 1 ELSE 0
  <2> SUFFICES ASSUME q # << >>
               PROVE  Occurrences(T, q) = Occurrences(T, Tail(q)) + IF Head(q) \in T THEN 1 ELSE 0
    OBVIOUS
  <2>1. Occurrences(T, q) = w[Head(q)] + Occurrences(T, Tail(q)) /\ Occurrences(T, Tail(q)) \in Int
    BY <1>2, <1>5
  <2>2. w[Head(q)] = IF Head(q) \in T THEN 1 ELSE 0
    BY <1>1, <1>5
  <2> QED BY <2>1, <2>2
<1> QED BY <1>2, <1>3, <1>6, <1>7

-----------------------------------------------------------------------------
(* Sequences of sequences.                                                 *)

\* The sequences are put one behind the other.
LEMMA FlattenSteps ==
    ASSUME NEW S, NEW q \in Seq(Seq(S))
    PROVE  \E f \in [0 .. Len(q) -> Seq(S)] :
              /\ f[0] = << >> /\ FlattenSeq(q) = f[Len(q)]
              /\ \A i \in 1 .. Len(q) : f[i] = f[i - 1] \o q[i]
<1> DEFINE n == Len(q)
           V == Seq(S)
<1>1. n \in Nat /\ \A i \in 1 .. n : q[i] \in V
  BY LenProperties, ElementOfSeq
<1>2. << >> \in V
  BY EmptySeq
<1>5. \A p \in V, r \in V : p \o r \in V
  BY ConcatProperties
<1>6. \A p \in V : << >> \o p = p
  BY ConcatEmptySeq
<1>7. n = 0 => FlattenSeq(q) = << >>
  <2>1. n = 0 => q = << >>
    BY EmptySeq
  <2> QED BY <2>1 DEF FlattenSeq
<1>8. n > 0 => FlattenSeq(q) =
          (CHOOSE v : v = [i \in 1 .. n |-> IF i = 1 THEN q[i] ELSE v[i - 1] \o q[i]])[n]
  BY <1>1 DEF FlattenSeq
<1>9. SUFFICES \E f \in [0 .. n -> V] : /\ f[0] = << >> /\ FlattenSeq(q) = f[n]
                                        /\ \A i \in 1 .. n : f[i] = f[i - 1] \o q[i]
  OBVIOUS
<1> HIDE DEF n, V
<1>3. CASE n = 0
  <2> DEFINE f == [i \in 0 .. n |-> << >>]
  <2>1. f \in [0 .. n -> V] /\ f[0] = << >> /\ f[n] = << >> /\ 1 .. n = {}
    BY <1>1, <1>2, <1>3
  <2> HIDE DEF f
  <2> QED BY <1>3, <1>7, <2>1
<1>4. CASE n > 0
  <2> DEFINE Body(v) == [i \in 1 .. n |-> IF i = 1 THEN q[i] ELSE v[i - 1] \o q[i]]
             F == [v \in [1 .. n -> V] |-> Body(v)]
             flatten == CHOOSE v : v = Body(v)
  <2>1. \A v \in [1 .. n -> V] : Body(v) \in [1 .. n -> V]
    <3>1. ASSUME NEW v \in [1 .. n -> V], NEW i \in 1 .. n, i # 1 PROVE v[i - 1] \o q[i] \in V
      <4>1. i - 1 \in 1 .. n
        BY <1>1, <3>1
      <4>2. v[i - 1] \in V
        BY <4>1
      <4> QED BY <1>1, <1>5, <4>2
    <3> QED BY <1>1, <3>1
  <2>2. F \in [[1 .. n -> V] -> [1 .. n -> V]] /\ \A v \in [1 .. n -> V] : F[v] = Body(v)
    BY <2>1
  <2>3. ASSUME NEW v \in [1 .. n -> V], NEW w \in [1 .. n -> V], NEW h \in 1 .. n,
               \A i \in 1 .. h - 1 : v[i] = w[i]
        PROVE  Body(v)[h] = Body(w)[h]
    <3>1. h # 1 => v[h - 1] = w[h - 1]
      BY <1>1, <2>3
    <3> QED BY <3>1
  <2>4. \E w \in [1 .. n -> V] : w = F[w]
    <3>1. V # {}
      BY <1>2
    <3>2. \A v \in [1 .. n -> V], w \in [1 .. n -> V], h \in 1 .. n :
               (\A i \in 1 .. h - 1 : v[i] = w[i]) => F[v][h] = F[w][h]
      BY <2>2, <2>3
    <3>3. F \in [[1 .. n -> V] -> [1 .. n -> V]]
      BY <2>2
    <3> HIDE DEF F, Body
    <3>4. FromBelow(F, 1, n, V)
      BY <3>2, <3>3 DEF FromBelow
    <3> QED BY <1>1, <3>1, <3>4, UpwardRecursion
  <2>5. flatten = Body(flatten)
    <3>1. \E w : w = Body(w)
      BY <2>2, <2>4
    <3> HIDE DEF Body
    <3> QED BY <3>1
  <2>6. FlattenSeq(q) = flatten[n]
    BY <1>4, <1>8
  <2> HIDE DEF flatten
  <2>7. \A i \in 1 .. n : flatten[i] = IF i = 1 THEN q[i] ELSE flatten[i - 1] \o q[i]
    BY <2>5
  <2> DEFINE f == [i \in 0 .. n |-> IF i = 0 THEN << >> ELSE flatten[i]]
  <2>8. \A i \in 1 .. n : f[i] = f[i - 1] \o q[i]
    <3> TAKE i \in 1 .. n
    <3>1. CASE i = 1
      <4>1. f[1] = q[1] /\ f[0] = << >>
        BY <1>1, <1>4, <2>7
      <4>2. << >> \o q[1] = q[1]
        BY <1>1, <1>4, <1>6
      <4> HIDE DEF f
      <4>3. f[i - 1] = << >>
        BY <3>1, <4>1
      <4> QED BY <3>1, <4>1, <4>2, <4>3
    <3>2. CASE i # 1
      <4>1. i - 1 \in 1 .. n /\ i - 1 \in 0 .. n /\ i \in 0 .. n /\ i - 1 # 0 /\ i # 0
        BY <1>1, <3>2
      <4>2. f[i] = flatten[i] /\ f[i - 1] = flatten[i - 1]
        BY <4>1
      <4>3. flatten[i] = flatten[i - 1] \o q[i]
        BY <2>7, <3>2
      <4> QED BY <4>2, <4>3
    <3> QED BY <3>1, <3>2
  <2>9. \A i \in 0 .. n : f[i] \in V
    <3> DEFINE C == {i \in Nat : i <= n => f[i] \in V}
    <3>1. 0 \in C
      BY <1>1, <1>2
    <3>2. ASSUME NEW i \in Nat, i \in C PROVE i + 1 \in C
      <4>1. SUFFICES ASSUME i + 1 <= n PROVE f[i + 1] \in V
        OBVIOUS
      <4>2. i + 1 \in 1 .. n /\ (i + 1) - 1 = i /\ f[i] \in V
        BY <1>1, <3>2, <4>1
      <4>3. f[i + 1] = f[i] \o q[i + 1]
        BY <2>8, <4>2
      <4>4. q[i + 1] \in V
        BY <1>1, <4>2
      <4> QED BY <1>5, <4>2, <4>3, <4>4
    <3>3. \A i \in Nat : i \in C
      <4> HIDE DEF C
      <4> QED BY <3>1, <3>2, NatSetInduction
    <3>4. \A i \in 0 .. n : i \in Nat /\ i <= n
      BY <1>1
    <3> HIDE DEF f
    <3> QED BY <3>3, <3>4
  <2>10. f[0] = << >> /\ f[n] = flatten[n] /\ f \in [0 .. n -> V]
    BY <1>1, <1>4, <2>9
  <2> HIDE DEF f
  <2> QED BY <2>6, <2>8, <2>10
<1>10. n = 0 \/ n > 0
  BY <1>1
<1> QED BY <1>3, <1>4, <1>10

\* What holds of nothing and of one sequence more behind holds of all of them.
LEMMA FlattenInduction ==
    ASSUME NEW S, NEW q \in Seq(Seq(S)), NEW C, << >> \in C,
           \A p \in Seq(S), i \in 1 .. Len(q) : p \in C => p \o q[i] \in C
    PROVE  FlattenSeq(q) \in C
<1> DEFINE n == Len(q)
<1>1. n \in Nat
  BY LenProperties
<1>2. PICK f \in [0 .. n -> Seq(S)] :
          /\ f[0] = << >> /\ FlattenSeq(q) = f[n]
          /\ \A i \in 1 .. n : f[i] = f[i - 1] \o q[i]
  BY FlattenSteps
<1> HIDE DEF n
<1> DEFINE D == {i \in Nat : i <= n => f[i] \in C}
<1>3. 0 \in D
  BY <1>2
<1>4. ASSUME NEW i \in Nat, i \in D PROVE i + 1 \in D
  <2>1. SUFFICES ASSUME i + 1 <= n PROVE f[i + 1] \in C
    OBVIOUS
  <2>2. i + 1 \in 1 .. n /\ (i + 1) - 1 = i /\ f[i] \in C /\ f[i] \in Seq(S)
    BY <1>1, <1>2, <1>4, <2>1
  <2>3. f[i + 1] = f[i] \o q[i + 1]
    BY <1>2, <2>2
  <2> QED BY <2>2, <2>3 DEF n
<1>5. \A i \in Nat : i \in D
  <2> HIDE DEF D
  <2> QED BY <1>3, <1>4, NatSetInduction
<1> QED BY <1>1, <1>2, <1>5

\* The elements of all are the elements of each.
LEMMA FlattenRange ==
    ASSUME NEW S, NEW q \in Seq(Seq(S))
    PROVE  /\ FlattenSeq(q) \in Seq(S)
           /\ Range(FlattenSeq(q)) = UNION {Range(q[i]) : i \in 1 .. Len(q)}
<1> DEFINE n == Len(q)
<1>1. n \in Nat /\ \A i \in 1 .. n : q[i] \in Seq(S)
  BY LenProperties, ElementOfSeq
<1>2. PICK f \in [0 .. n -> Seq(S)] :
          /\ f[0] = << >> /\ FlattenSeq(q) = f[n]
          /\ \A i \in 1 .. n : f[i] = f[i - 1] \o q[i]
  BY FlattenSteps
<1> HIDE DEF n
<1> DEFINE D == {i \in Nat : i <= n => Range(f[i]) = UNION {Range(q[j]) : j \in 1 .. i}}
<1>3. 0 \in D
  <2>1. Range(f[0]) = {} /\ 1 .. 0 = {}
    BY <1>2 DEF Range
  <2> QED BY <2>1
<1>4. ASSUME NEW i \in Nat, i \in D PROVE i + 1 \in D
  <2>1. SUFFICES ASSUME i + 1 <= n
                 PROVE  Range(f[i + 1]) = UNION {Range(q[j]) : j \in 1 .. i + 1}
    OBVIOUS
  <2>2. i + 1 \in 1 .. n /\ (i + 1) - 1 = i /\ f[i] \in Seq(S) /\ q[i + 1] \in Seq(S)
    BY <1>1, <1>2, <2>1
  <2>3. f[i + 1] = f[i] \o q[i + 1]
    BY <1>2, <2>2
  <2>4. Range(f[i + 1]) = Range(f[i]) \cup Range(q[i + 1])
    BY <2>2, <2>3, RangeConcatenation
  <2>5. Range(f[i]) = UNION {Range(q[j]) : j \in 1 .. i}
    BY <1>1, <1>4, <2>1
  <2>6. 1 .. i + 1 = (1 .. i) \cup {i + 1}
    OBVIOUS
  <2> QED BY <2>4, <2>5, <2>6
<1>5. \A i \in Nat : i \in D
  <2> HIDE DEF D
  <2> QED BY <1>3, <1>4, NatSetInduction
<1>6. f[n] \in Seq(S)
  BY <1>1, <1>2
<1>7. Range(f[n]) = UNION {Range(q[i]) : i \in 1 .. n}
  <2>1. n \in D
    <3> HIDE DEF D
    <3> QED BY <1>1, <1>5
  <2> QED BY <1>1, <2>1
<1> QED BY <1>2, <1>6, <1>7 DEF n

\* Sequences that are not empty make one that is not.
LEMMA FlattenNonempty ==
    ASSUME NEW S, NEW q \in Seq(Seq(S)), q # << >>, \A i \in 1 .. Len(q) : q[i] # << >>
    PROVE  FlattenSeq(q) # << >>
<1>1. Len(q) \in Nat /\ Len(q) # 0 /\ \A i \in 1 .. Len(q) : q[i] \in Seq(S)
  BY LenProperties, ElementOfSeq, EmptySeq
<1>2. 1 \in 1 .. Len(q) /\ q[1] \in Seq(S) /\ q[1] # << >>
  BY <1>1
<1>3. q[1][1] \in Range(q[1])
  <2>1. 1 \in DOMAIN q[1]
    BY <1>2, EmptySeq, LenProperties
  <2> QED BY <2>1 DEF Range
<1>4. Range(FlattenSeq(q)) # {}
  <2>1. Range(FlattenSeq(q)) = UNION {Range(q[i]) : i \in 1 .. Len(q)}
    BY FlattenRange
  <2> QED BY <1>2, <1>3, <2>1
<1>5. Range(<< >>) = {}
  BY DEF Range
<1> QED BY <1>4, <1>5

\* The weight of all is the sum of the weights of each.
LEMMA FlattenWeight ==
    ASSUME NEW S, NEW w \in [S -> Int], NEW q \in Seq(Seq(S))
    PROVE  Weight(w, FlattenSeq(q)) = Along([i \in DOMAIN q |-> Weight(w, q[i])])
<1> DEFINE n == Len(q)
           g == [i \in 1 .. n |-> Weight(w, q[i])]
<1>1. n \in Nat /\ DOMAIN q = 1 .. n /\ \A i \in 1 .. n : q[i] \in Seq(S)
  BY LenProperties, ElementOfSeq
<1>2. PICK f \in [0 .. n -> Seq(S)] :
          /\ f[0] = << >> /\ FlattenSeq(q) = f[n]
          /\ \A i \in 1 .. n : f[i] = f[i - 1] \o q[i]
  BY FlattenSteps
<1> HIDE DEF n
<1>3. \A i \in 1 .. n : g[i] = Weight(w, q[i]) /\ g[i] \in Int
  <2>1. << >> \in Seq(S)
    BY EmptySeq
  <2> QED BY <1>1, <2>1, WeightConcat
<1>4. DOMAIN g = 1 .. n
  OBVIOUS
<1> HIDE DEF g
<1> DEFINE D == {i \in Nat : i <= n => Weight(w, f[i]) = Total(g, 1 .. i)}
<1>5. 0 \in D
  <2>1. 1 .. 0 = {}
    OBVIOUS
  <2> QED BY <1>2, <2>1, WeightEmpty, TotalEmpty
<1>6. ASSUME NEW i \in Nat, i \in D PROVE i + 1 \in D
  <2>1. SUFFICES ASSUME i + 1 <= n PROVE Weight(w, f[i + 1]) = Total(g, 1 .. i + 1)
    OBVIOUS
  <2>2. i + 1 \in 1 .. n /\ (i + 1) - 1 = i /\ i \in 0 .. n
    BY <1>1, <2>1
  <2>9. f[i] \in Seq(S) /\ q[i + 1] \in Seq(S)
    BY <1>1, <1>2, <2>2
  <2>3. f[i + 1] = f[i] \o q[i + 1]
    BY <1>2, <2>2
  <2>4. Weight(w, f[i + 1]) = Weight(w, f[i]) + g[i + 1]
    <3>1. Weight(w, f[i] \o q[i + 1]) = Weight(w, f[i]) + Weight(w, q[i + 1])
      BY <2>9, WeightConcat
    <3> QED BY <1>3, <2>2, <2>3, <3>1
  <2>5. Weight(w, f[i]) = Total(g, 1 .. i)
    BY <1>1, <1>6, <2>1
  <2>6. 1 .. i + 1 = (1 .. i) \cup {i + 1} /\ i + 1 \notin 1 .. i /\ IsFiniteSet(1 .. i)
    <3>1. IsFiniteSet(1 .. i)
      BY FS_Interval
    <3> QED BY <3>1
  <2>7. \A j \in (1 .. i) \cup {i + 1} : g[j] \in Int
    BY <1>1, <1>3, <2>1
  <2>8. Total(g, (1 .. i) \cup {i + 1}) = Total(g, 1 .. i) + g[i + 1]
    BY <2>6, <2>7, TotalAdd
  <2> QED BY <2>4, <2>5, <2>6, <2>8
<1>7. \A i \in Nat : i \in D
  <2> HIDE DEF D
  <2> QED BY <1>5, <1>6, NatSetInduction
<1>8. Weight(w, f[n]) = Total(g, 1 .. n)
  BY <1>1, <1>7
<1> QED BY <1>1, <1>2, <1>4, <1>8 DEF Along, g

-----------------------------------------------------------------------------
(* Order in a sequence.                                                      *)

\* Ahead of every d there is a c; behind every c there is a d.
Preceded(c, d, p) == \A i \in DOMAIN p : p[i] = d => \E j \in DOMAIN p : j < i /\ p[j] = c
Followed(c, d, p) == \A j \in DOMAIN p : p[j] = c => \E i \in DOMAIN p : j < i /\ p[i] = d

\* Where the elements are when two sequences are put together.
LEMMA ConcatPlaces ==
    ASSUME NEW S, NEW p \in Seq(S), NEW q \in Seq(S)
    PROVE  /\ Len(p) \in Nat /\ Len(q) \in Nat /\ DOMAIN p = 1 .. Len(p) /\ DOMAIN q = 1 .. Len(q)
           /\ DOMAIN (p \o q) = 1 .. Len(p) + Len(q)
           /\ \A i \in 1 .. Len(p) : (p \o q)[i] = p[i]
           /\ \A i \in 1 .. Len(q) : (p \o q)[Len(p) + i] = q[i]
           /\ \A i \in DOMAIN (p \o q) :
                 i \in 1 .. Len(p) \/ \E k \in 1 .. Len(q) : i = Len(p) + k
<1>1. /\ Len(p) \in Nat /\ Len(q) \in Nat /\ DOMAIN p = 1 .. Len(p) /\ DOMAIN q = 1 .. Len(q)
      /\ p \o q \in Seq(S) /\ Len(p \o q) = Len(p) + Len(q)
      /\ \A i \in 1 .. Len(p) + Len(q) : (p \o q)[i] = IF i <= Len(p) THEN p[i] ELSE q[i - Len(p)]
  BY LenProperties, ConcatProperties
<1>2. DOMAIN (p \o q) = 1 .. Len(p) + Len(q)
  BY <1>1, LenProperties
<1>3. \A i \in 1 .. Len(p) : (p \o q)[i] = p[i]
  BY <1>1
<1>4. ASSUME NEW i \in 1 .. Len(q) PROVE (p \o q)[Len(p) + i] = q[i]
  <2>1. Len(p) + i \in 1 .. Len(p) + Len(q) /\ ~(Len(p) + i <= Len(p)) /\ (Len(p) + i) - Len(p) = i
    BY <1>1
  <2> QED BY <1>1, <2>1
<1>5. ASSUME NEW i \in 1 .. Len(p) + Len(q), i \notin 1 .. Len(p)
      PROVE  \E k \in 1 .. Len(q) : i = Len(p) + k
  <2>1. i - Len(p) \in 1 .. Len(q) /\ i = Len(p) + (i - Len(p))
    BY <1>1, <1>5
  <2> QED BY <2>1
<1> QED BY <1>1, <1>2, <1>3, <1>4, <1>5

\* An order that holds in both holds in the two together.
LEMMA ConcatOrder ==
    ASSUME NEW S, NEW p \in Seq(S), NEW q \in Seq(S), NEW c, NEW d
    PROVE  /\ Preceded(c, d, p) /\ Preceded(c, d, q) => Preceded(c, d, p \o q)
           /\ Followed(c, d, p) /\ Followed(c, d, q) => Followed(c, d, p \o q)
<1> DEFINE m == Len(p)
           n == Len(q)
           f == p \o q
<1>0. p \in Seq(S) /\ q \in Seq(S)
  OBVIOUS
<1>1. /\ m \in Nat /\ n \in Nat /\ DOMAIN p = 1 .. m /\ DOMAIN q = 1 .. n /\ DOMAIN f = 1 .. m + n
      /\ \A i \in 1 .. m : f[i] = p[i]
      /\ \A i \in 1 .. n : f[m + i] = q[i]
      /\ \A i \in DOMAIN f : i \in 1 .. m \/ \E k \in 1 .. n : i = m + k
  BY <1>0, ConcatPlaces
<1> HIDE DEF m, n, f
<1>2. /\ \A i \in 1 .. m : i \in DOMAIN f
      /\ \A i \in 1 .. n : m + i \in DOMAIN f
      /\ \A i, j \in 1 .. n : j < i => m + j < m + i
  BY <1>1
<1>3. ASSUME Preceded(c, d, p), Preceded(c, d, q), NEW i \in DOMAIN f, f[i] = d
      PROVE  \E j \in DOMAIN f : j < i /\ f[j] = c
  <2>1. CASE i \in 1 .. m
    <3>1. PICK j \in 1 .. m : j < i /\ p[j] = c
      BY <1>1, <1>3, <2>1 DEF Preceded
    <3> QED BY <1>1, <1>2, <3>1
  <2>2. CASE \E k \in 1 .. n : i = m + k
    <3>1. PICK k \in 1 .. n : i = m + k
      BY <2>2
    <3>2. PICK j \in 1 .. n : j < k /\ q[j] = c
      BY <1>1, <1>3, <3>1 DEF Preceded
    <3> QED BY <1>1, <1>2, <3>1, <3>2
  <2> QED BY <1>1, <1>3, <2>1, <2>2
<1>4. ASSUME Followed(c, d, p), Followed(c, d, q), NEW j \in DOMAIN f, f[j] = c
      PROVE  \E i \in DOMAIN f : j < i /\ f[i] = d
  <2>1. CASE j \in 1 .. m
    <3>1. PICK i \in 1 .. m : j < i /\ p[i] = d
      BY <1>1, <1>4, <2>1 DEF Followed
    <3> QED BY <1>1, <1>2, <3>1
  <2>2. CASE \E k \in 1 .. n : j = m + k
    <3>1. PICK k \in 1 .. n : j = m + k
      BY <2>2
    <3>2. PICK i \in 1 .. n : k < i /\ q[i] = d
      BY <1>1, <1>4, <3>1 DEF Followed
    <3> QED BY <1>1, <1>2, <3>1, <3>2
  <2> QED BY <1>1, <1>4, <2>1, <2>2
<1> QED BY <1>3, <1>4 DEF Preceded, Followed, f

\* One that holds in each of several holds in all of them together.
LEMMA FlattenOrder ==
    ASSUME NEW S, NEW q \in Seq(Seq(S)), NEW c, NEW d
    PROVE  /\ (\A i \in 1 .. Len(q) : Preceded(c, d, q[i])) => Preceded(c, d, FlattenSeq(q))
           /\ (\A i \in 1 .. Len(q) : Followed(c, d, q[i])) => Followed(c, d, FlattenSeq(q))
<1> DEFINE A == {p \in Seq(S) : Preceded(c, d, p)}
           B == {p \in Seq(S) : Followed(c, d, p)}
<1>1. \A i \in 1 .. Len(q) : q[i] \in Seq(S)
  BY LenProperties, ElementOfSeq
<1>2. Preceded(c, d, << >>) /\ Followed(c, d, << >>) /\ << >> \in Seq(S)
  BY EmptySeq DEF Preceded, Followed
<1>3. ASSUME \A i \in 1 .. Len(q) : Preceded(c, d, q[i]) PROVE FlattenSeq(q) \in A
  <2>1. << >> \in A
    BY <1>2
  <2>2. \A p \in Seq(S), i \in 1 .. Len(q) : p \in A => p \o q[i] \in A
    BY <1>1, <1>3, ConcatOrder, ConcatProperties
  <2> HIDE DEF A
  <2> QED BY <2>1, <2>2, FlattenInduction
<1>4. ASSUME \A i \in 1 .. Len(q) : Followed(c, d, q[i]) PROVE FlattenSeq(q) \in B
  <2>1. << >> \in B
    BY <1>2
  <2>2. \A p \in Seq(S), i \in 1 .. Len(q) : p \in B => p \o q[i] \in B
    BY <1>1, <1>4, ConcatOrder, ConcatProperties
  <2> HIDE DEF B
  <2> QED BY <2>1, <2>2, FlattenInduction
<1> QED BY <1>3, <1>4

-----------------------------------------------------------------------------
(* Sums that change in two places, or by the head of a sequence.             *)

\* The sum of a function that is zero but for one place.
LEMMA TotalSingle ==
    ASSUME NEW S, IsFiniteSet(S), NEW x, NEW k \in Int,
           NEW f, \A y \in S : f[y] = IF y = x THEN k ELSE 0
    PROVE  Total(f, S) = IF x \in S THEN k ELSE 0
<1>1. CASE x \in S
  <2> DEFINE z == [y \in S |-> 0]
  <2>1. \A y \in S : z[y] \in Int /\ f[y] \in Int /\ (y # x => f[y] = z[y])
    OBVIOUS
  <2>2. \A y \in S : z[y] = 0
    OBVIOUS
  <2> HIDE DEF z
  <2>3. Total(f, S) = Total(z, S) - z[x] + f[x]
    BY <1>1, <2>1, TotalChange
  <2>4. Total(z, S) = 0
    BY <2>2, TotalZero
  <2> QED BY <1>1, <2>2, <2>3, <2>4
<1>2. CASE x \notin S
  BY <1>2, TotalZero
<1> QED BY <1>1, <1>2

\* j comes to f at x, and k at y, or more: what is negative goes.
Moved(f, g, S, x, j, y, k) ==
    \A b \in S : /\ f[b] \in Int /\ g[b] \in Int
                 /\ f[b] + (IF b = x THEN j ELSE 0) + (IF b = y THEN k ELSE 0) <= g[b]

\* What is at least added in two places is added to the sum.
LEMMA TotalMoves ==
    ASSUME NEW S, IsFiniteSet(S), NEW f, NEW g, NEW x, NEW y, NEW j \in Int, NEW k \in Int,
           Moved(f, g, S, x, j, y, k)
    PROVE  /\ Total(f, S) \in Int /\ Total(g, S) \in Int
           /\ Total(f, S) + (IF x \in S THEN j ELSE 0) + (IF y \in S THEN k ELSE 0) <= Total(g, S)
<1> DEFINE u == [b \in S |-> IF b = x THEN j ELSE 0]
           v == [b \in S |-> IF b = y THEN k ELSE 0]
           fu == [b \in S |-> f[b] + u[b]]
           fuv == [b \in S |-> fu[b] + v[b]]
<1>1. /\ \A b \in S : u[b] = IF b = x THEN j ELSE 0
      /\ \A b \in S : v[b] = IF b = y THEN k ELSE 0
  OBVIOUS
<1>2. /\ \A b \in S : fu[b] = f[b] + u[b]
      /\ \A b \in S : fuv[b] = fu[b] + v[b]
  OBVIOUS
<1> HIDE DEF u, v, fu, fuv
<1>3. \A b \in S : u[b] \in Int /\ v[b] \in Int /\ fu[b] \in Int /\ fuv[b] \in Int /\ fuv[b] <= g[b]
                     /\ f[b] \in Int /\ g[b] \in Int
  BY <1>1, <1>2 DEF Moved
<1>4. Total(u, S) = IF x \in S THEN j ELSE 0
  BY <1>1, TotalSingle
<1>5. Total(v, S) = IF y \in S THEN k ELSE 0
  BY <1>1, TotalSingle
<1>6. Total(fu, S) = Total(f, S) + Total(u, S)
  BY <1>2, <1>3, TotalPlus
<1>7. Total(fuv, S) = Total(fu, S) + Total(v, S)
  BY <1>2, <1>3, TotalPlus
<1>8. Total(fuv, S) <= Total(g, S)
  BY <1>3, TotalMonotone
<1>9. Total(f, S) \in Int /\ Total(g, S) \in Int /\ Total(fuv, S) \in Int
  BY <1>3, TotalRemove
<1> QED BY <1>4, <1>5, <1>6, <1>7, <1>8, <1>9

\* A sum along a sequence, from its head.
LEMMA AlongTail ==
    ASSUME NEW p \in Seq(Int), p # << >>
    PROVE  /\ Along(p) = Head(p) + Along(Tail(p))
           /\ Head(p) \in Int /\ Along(Tail(p)) \in Int
<1> DEFINE w == [x \in Int |-> x]
<1>1. w \in [Int -> Int] /\ \A x \in Int : w[x] = x
  OBVIOUS
<1>2. \A q \in Seq(Int) : Weight(w, q) = Along(q)
  <2> TAKE q \in Seq(Int)
  <2>1. \A i \in DOMAIN q : q[i] \in Int
    BY LenProperties, ElementOfSeq
  <2>2. [i \in DOMAIN q |-> w[q[i]]] = [i \in DOMAIN q |-> q[i]]
    BY <2>1
  <2>3. q = [i \in DOMAIN q |-> q[i]]
    OBVIOUS
  <2> HIDE DEF w
  <2> QED BY <2>2, <2>3 DEF Weight
<1>3. Head(p) \in Int /\ Tail(p) \in Seq(Int)
  OBVIOUS
<1> HIDE DEF w
<1>4. Weight(w, p) = w[Head(p)] + Weight(w, Tail(p)) /\ Weight(w, Tail(p)) \in Int
  BY <1>1, WeightTail
<1> QED BY <1>1, <1>2, <1>3, <1>4

\* How often r occurs in a sequence ahead of m.
AheadOf(q, m, r) ==
    Along([k \in DOMAIN q |-> IF q[k] = r /\ \A j \in 1 .. k : q[j] # m THEN 1 ELSE 0])

\* What append adds to it behind m, and what taking the head off removes.
LEMMA AheadSteps ==
    ASSUME NEW S, NEW q \in Seq(S), NEW m, NEW r, m # r, NEW x \in S
    PROVE  /\ AheadOf(q, m, r) \in Nat /\ AheadOf(<< >>, m, r) = 0
           /\ AheadOf(Append(q, x), m, r)
                = AheadOf(q, m, r) + IF x = r /\ m \notin Range(q) THEN 1 ELSE 0
           /\ q # << >> /\ Head(q) = m => AheadOf(q, m, r) = 0
           /\ q # << >> /\ Head(q) # m =>
                 AheadOf(q, m, r) = AheadOf(Tail(q), m, r) + IF Head(q) = r THEN 1 ELSE 0
<1> DEFINE V(p) == [k \in DOMAIN p |-> IF p[k] = r /\ \A j \in 1 .. k : p[j] # m THEN 1 ELSE 0]
           n == Len(q)
<1>1. n \in Nat /\ DOMAIN q = 1 .. n
  BY LenProperties
<1>2. \A p \in Seq(S) : V(p) \in Seq(Nat) /\ V(p) \in Seq(Int) /\ Len(V(p)) = Len(p) /\ DOMAIN V(p) = DOMAIN p
  <2> TAKE p \in Seq(S)
  <2>1. Len(p) \in Nat /\ DOMAIN p = 1 .. Len(p)
    BY LenProperties
  <2>2. \A k \in 1 .. Len(p) : V(p)[k] \in Nat
    BY <2>1
  <2>3. V(p) = [k \in 1 .. Len(p) |-> V(p)[k]]
    BY <2>1
  <2> DEFINE v == V(p)
  <2> HIDE DEF v
  <2> QED BY <2>1, <2>2, <2>3 DEF v
<1>3. AheadOf(q, m, r) \in Nat
  <2> DEFINE v == V(q)
  <2>1. v \in Seq(Nat)
    BY <1>2
  <2> HIDE DEF v
  <2>2. Along(v) \in Nat
    BY <2>1, AlongNat
  <2> QED BY <2>2 DEF AheadOf, v
<1>4. AheadOf(<< >>, m, r) = 0
  BY TotalEmpty DEF AheadOf, Along
<1>5. AheadOf(Append(q, x), m, r) = AheadOf(q, m, r) + IF x = r /\ m \notin Range(q) THEN 1 ELSE 0
  <2> DEFINE f == Append(q, x)
             e == IF x = r /\ m \notin Range(q) THEN 1 ELSE 0
             v == V(q)
  <2>1. /\ f \in Seq(S) /\ Len(f) = n + 1 /\ f[n + 1] = x /\ DOMAIN f = 1 .. n + 1
        /\ \A i \in 1 .. n : f[i] = q[i]
    BY AppendProperties, LenProperties
  <2>2. v \in Seq(Int) /\ v \in Seq(Nat) /\ Len(v) = n /\ e \in Int /\ DOMAIN v = 1 .. n
    BY <1>1, <1>2
  <2>3. \A k \in 1 .. n : V(f)[k] = v[k]
    <3> TAKE k \in 1 .. n
    <3>1. \A j \in 1 .. k : j \in 1 .. n
      BY <1>1
    <3>2. (\A j \in 1 .. k : f[j] # m) <=> \A j \in 1 .. k : q[j] # m
      BY <2>1, <3>1
    <3>3. k \in DOMAIN f /\ k \in DOMAIN q /\ f[k] = q[k]
      BY <1>1, <2>1
    <3> QED BY <3>2, <3>3
  <2>4. V(f)[n + 1] = e
    <3>1. n + 1 \in DOMAIN f /\ \A j \in 1 .. n + 1 : j \in 1 .. n \/ j = n + 1
      BY <1>1, <2>1
    <3>2. \A j \in 1 .. n : j \in 1 .. n + 1
      BY <1>1
    <3>3. x = r => ((\A j \in 1 .. n + 1 : f[j] # m) <=> m \notin Range(q))
      BY <1>1, <2>1, <3>1, <3>2 DEF Range
    <3> QED BY <2>1, <3>1, <3>3
  <2>5. V(f) = Append(v, e)
    <3>1. DOMAIN V(f) = 1 .. n + 1 /\ V(f) \in Seq(Int) /\ Len(V(f)) = n + 1
      BY <1>2, <2>1
    <3> DEFINE w == V(f)
    <3>2. w \in Seq(Int) /\ Len(w) = n + 1 /\ (\A k \in 1 .. n : w[k] = v[k]) /\ w[n + 1] = e
      BY <2>3, <2>4, <3>1
    <3> HIDE DEF w, v, e, n
    <3>3. /\ Append(v, e) \in Seq(Int) /\ Len(Append(v, e)) = n + 1
          /\ (\A k \in 1 .. n : Append(v, e)[k] = v[k]) /\ Append(v, e)[n + 1] = e
      BY <2>2, AppendProperties
    <3>4. \A k \in 1 .. n + 1 : w[k] = Append(v, e)[k]
      <4>1. \A k \in 1 .. n + 1 : k \in 1 .. n \/ k = n + 1
        BY <1>1 DEF n
      <4> QED BY <3>2, <3>3, <4>1
    <3>5. w = Append(v, e)
      BY <3>2, <3>3, <3>4, SeqEqual
    <3> QED BY <3>5 DEF w
  <2> HIDE DEF v, e
  <2>6. Along(Append(v, e)) = Along(v) + e
    BY <2>2, AlongAppend
  <2> QED BY <2>5, <2>6 DEF AheadOf, v, e
<1>6. ASSUME q # << >>, Head(q) = m PROVE AheadOf(q, m, r) = 0
  <2> DEFINE v == V(q)
  <2>1. q[1] = m
    BY <1>6
  <2>2. \A k \in 1 .. n : 1 \in 1 .. k
    BY <1>1
  <2>3. \A k \in DOMAIN v : v[k] = 0
    BY <1>1, <2>1, <2>2
  <2>4. IsFiniteSet(DOMAIN v)
    BY <1>1, FS_Interval
  <2> HIDE DEF v
  <2>5. Total(v, DOMAIN v) = 0
    BY <2>3, <2>4, TotalZero
  <2> QED BY <2>5 DEF AheadOf, Along, v
<1>7. ASSUME q # << >>, Head(q) # m
      PROVE  AheadOf(q, m, r) = AheadOf(Tail(q), m, r) + IF Head(q) = r THEN 1 ELSE 0
  <2> DEFINE t == Tail(q)
             v == V(q)
             e == IF Head(q) = r THEN 1 ELSE 0
  <2>1. n > 0 /\ t \in Seq(S) /\ Len(t) = n - 1 /\ Head(q) = q[1] /\ \A i \in 1 .. n - 1 : t[i] = q[i + 1]
    BY <1>1, <1>7, HeadTailProperties, EmptySeq
  <2>2. v \in Seq(Int) /\ Len(v) = n /\ v # << >> /\ DOMAIN v = 1 .. n
    <3>1. v \in Seq(Int) /\ Len(v) = n
      BY <1>2
    <3> HIDE DEF v
    <3> QED BY <2>1, <3>1, LenProperties, EmptySeq
  <2>3. v[1] = e
    <3>1. 1 \in DOMAIN q /\ \A j \in 1 .. 1 : j = 1
      BY <1>1, <2>1
    <3> QED BY <1>7, <2>1, <3>1
  <2>4. DOMAIN t = 1 .. n - 1 /\ \A k \in 1 .. n - 1 : k + 1 \in 1 .. n
    BY <1>1, <2>1, LenProperties
  <2>5. \A k \in 1 .. n - 1 : V(t)[k] = v[k + 1]
    <3> TAKE k \in 1 .. n - 1
    <3>1. (\A j \in 1 .. k : t[j] # m) <=> \A j \in 1 .. k + 1 : q[j] # m
      <4>1. \A j \in 1 .. k : j \in 1 .. n - 1 /\ t[j] = q[j + 1] /\ j + 1 \in 1 .. k + 1
        BY <1>1, <2>1
      <4>2. \A j \in 1 .. k + 1 : j = 1 \/ (j - 1 \in 1 .. k /\ (j - 1) + 1 = j)
        BY <1>1
      <4>3. q[1] # m
        BY <1>7, <2>1
      <4>4. ASSUME \A j \in 1 .. k : t[j] # m, NEW j \in 1 .. k + 1 PROVE q[j] # m
        BY <4>1, <4>2, <4>3, <4>4
      <4>5. ASSUME \A j \in 1 .. k + 1 : q[j] # m, NEW j \in 1 .. k PROVE t[j] # m
        BY <4>1, <4>5
      <4> QED BY <4>4, <4>5
    <3>2. V(t)[k] = IF t[k] = r /\ \A j \in 1 .. k : t[j] # m THEN 1 ELSE 0
      BY <2>4
    <3>3. v[k + 1] = IF q[k + 1] = r /\ \A j \in 1 .. k + 1 : q[j] # m THEN 1 ELSE 0
      BY <1>1, <2>4
    <3>4. t[k] = q[k + 1]
      BY <2>1
    <3> QED BY <3>1, <3>2, <3>3, <3>4
  <2>6. V(t) = Tail(v)
    <3> DEFINE w == V(t)
    <3>1. w \in Seq(Int) /\ Len(w) = n - 1 /\ \A k \in 1 .. n - 1 : w[k] = v[k + 1]
      BY <1>2, <2>1, <2>5
    <3> HIDE DEF w, v, n
    <3>2. Tail(v) \in Seq(Int) /\ Len(Tail(v)) = n - 1 /\ \A k \in 1 .. n - 1 : Tail(v)[k] = v[k + 1]
      BY <2>2, HeadTailProperties
    <3>3. w = Tail(v)
      BY <3>1, <3>2, SeqEqual
    <3> QED BY <3>3 DEF w
  <2>7. Head(v) = e
    <3> HIDE DEF v, e
    <3> QED BY <2>2, <2>3, HeadTailProperties
  <2> HIDE DEF v, e
  <2>8. Along(v) = Head(v) + Along(Tail(v)) /\ Head(v) \in Int /\ Along(Tail(v)) \in Int
    BY <2>2, AlongTail
  <2>9. AheadOf(q, m, r) = Along(v) /\ AheadOf(t, m, r) = Along(Tail(v))
    BY <2>6 DEF AheadOf, v
  <2> QED BY <2>7, <2>8, <2>9 DEF e
<1> QED BY <1>3, <1>4, <1>5, <1>6, <1>7

-----------------------------------------------------------------------------
(* The cut by recency.                                                     *)

\* A cut to n keys leaves n of them, whatever their stamps: the second pass of
\* evictLocked makes room when stamps tie.
LEMMA CutKeeps ==
    ASSUME NEW stamp, NEW n, NEW kept \in Cut(stamp, n)
    PROVE  kept \subseteq DOMAIN stamp /\ Cardinality(kept) = n
BY DEF Cut, NotBeforeCutoff

-----------------------------------------------------------------------------
(* Sequences that are made element by element.                             *)

\* One more sequence behind the others.
LEMMA FlattenAppend ==
    ASSUME NEW S, NEW q \in Seq(Seq(S)), NEW p \in Seq(S)
    PROVE  FlattenSeq(q) \in Seq(S) /\ FlattenSeq(Append(q, p)) = FlattenSeq(q) \o p
<1> DEFINE n == Len(q)
           r == Append(q, p)
<1>1. n \in Nat /\ DOMAIN q = 1 .. n
  BY LenProperties
<1>2. r \in Seq(Seq(S)) /\ Len(r) = n + 1 /\ r[n + 1] = p /\ \A i \in 1 .. n : r[i] = q[i]
  BY AppendProperties
<1>3. PICK f \in [0 .. n -> Seq(S)] :
          /\ f[0] = << >> /\ FlattenSeq(q) = f[n]
          /\ \A i \in 1 .. n : f[i] = f[i - 1] \o q[i]
  BY FlattenSteps
<1> HIDE DEF r
<1>4. PICK g \in [0 .. Len(r) -> Seq(S)] :
          /\ g[0] = << >> /\ FlattenSeq(r) = g[Len(r)]
          /\ \A i \in 1 .. Len(r) : g[i] = g[i - 1] \o r[i]
  BY <1>2, FlattenSteps
<1> HIDE DEF n
<1> DEFINE D == {i \in Nat : i <= n => g[i] = f[i]}
<1>5. 0 \in D
  BY <1>3, <1>4
<1>6. ASSUME NEW i \in Nat, i \in D PROVE i + 1 \in D
  <2>1. SUFFICES ASSUME i + 1 <= n PROVE g[i + 1] = f[i + 1]
    OBVIOUS
  <2>2. i + 1 \in 1 .. n /\ i + 1 \in 1 .. Len(r) /\ (i + 1) - 1 = i /\ g[i] = f[i]
    BY <1>1, <1>2, <1>6, <2>1
  <2>3. f[i + 1] = f[i] \o q[i + 1]
    BY <1>3, <2>2
  <2>4. g[i + 1] = g[i] \o r[i + 1]
    BY <1>4, <2>2
  <2> QED BY <1>2, <2>2, <2>3, <2>4
<1>7. \A i \in Nat : i \in D
  <2> HIDE DEF D
  <2> QED BY <1>5, <1>6, NatSetInduction
<1>8. g[n] = f[n] /\ n + 1 \in 1 .. Len(r) /\ (n + 1) - 1 = n
  BY <1>1, <1>2, <1>7
<1>9. g[n + 1] = g[n] \o r[n + 1]
  BY <1>4, <1>8
<1>10. f[n] \in Seq(S)
  BY <1>1, <1>3
<1> QED BY <1>2, <1>3, <1>4, <1>8, <1>9, <1>10 DEF r

\* Nothing, joined.
LEMMA FlattenEmpty ==
    ASSUME NEW u, DOMAIN u = {}, u = [i \in DOMAIN u |-> u[i]]
    PROVE  FlattenSeq(u) = << >>
<1>1. u = << >>
  OBVIOUS
<1>2. << >> \in Seq(Seq({})) /\ Len(<< >>) = 0
  BY EmptySeq
<1>3. PICK f \in [0 .. Len(<< >>) -> Seq({})] :
          f[0] = << >> /\ FlattenSeq(<< >>) = f[Len(<< >>)]
  BY <1>2, FlattenSteps
<1> QED BY <1>1, <1>2, <1>3

\* What f makes of each element of s, one behind the other.
Spread(f, s) == FlattenSeq([i \in DOMAIN s |-> f[s[i]]])

\* A sequence made of what f makes of each element grows with each element.
LEMMA SpreadSteps ==
    ASSUME NEW S, NEW T, NEW f \in [S -> Seq(T)]
    PROVE  /\ Spread(f, << >>) = << >>
           /\ \A p \in Seq(S) : Spread(f, p) \in Seq(T)
           /\ \A p \in Seq(S), x \in S : Spread(f, Append(p, x)) = Spread(f, p) \o f[x]
<1>1. Spread(f, << >>) = << >>
  <2>1. [i \in DOMAIN << >> |-> f[<< >>[i]]] = << >>
    OBVIOUS
  <2>2. << >> \in Seq(Seq(T)) /\ Len(<< >>) = 0
    BY EmptySeq
  <2>3. FlattenSeq(<< >>) = << >>
    BY <2>2 DEF FlattenSeq
  <2> QED BY <2>1, <2>3 DEF Spread
<1>2. ASSUME NEW p \in Seq(S)
      PROVE  [i \in DOMAIN p |-> f[p[i]]] \in Seq(Seq(T))
  <2>1. Len(p) \in Nat /\ DOMAIN p = 1 .. Len(p) /\ \A i \in DOMAIN p : p[i] \in S
    BY LenProperties, ElementOfSeq
  <2>2. \A i \in 1 .. Len(p) : f[p[i]] \in Seq(T)
    BY <2>1
  <2> QED BY <2>1, <2>2, IsASeq
<1>3. ASSUME NEW p \in Seq(S), NEW x \in S
      PROVE  [i \in DOMAIN Append(p, x) |-> f[Append(p, x)[i]]]
               = Append([i \in DOMAIN p |-> f[p[i]]], f[x])
  <2> DEFINE u == [i \in DOMAIN p |-> f[p[i]]]
             q == Append(p, x)
             v == [i \in DOMAIN q |-> f[q[i]]]
             y == f[x]
             w == Append(u, y)
  <2>1. /\ q \in Seq(S) /\ Len(q) = Len(p) + 1 /\ Len(p) \in Nat
        /\ DOMAIN p = 1 .. Len(p) /\ DOMAIN q = 1 .. Len(p) + 1
        /\ \A i \in 1 .. Len(p) : q[i] = p[i]
        /\ q[Len(p) + 1] = x
    BY AppendProperties, LenProperties
  <2>2. u \in Seq(Seq(T)) /\ v \in Seq(Seq(T))
    BY <1>2, <2>1
  <2>3. y \in Seq(T)
    OBVIOUS
  <2>4. Len(u) = Len(p) /\ Len(v) = Len(p) + 1
    <3>1. DOMAIN u = 1 .. Len(p) /\ DOMAIN v = 1 .. Len(p) + 1
      BY <2>1
    <3> HIDE DEF u, v
    <3>2. DOMAIN u = 1 .. Len(u) /\ Len(u) \in Nat /\ DOMAIN v = 1 .. Len(v) /\ Len(v) \in Nat
      BY <2>2, LenProperties
    <3> QED BY <2>1, <3>1, <3>2
  <2>5. \A i \in 1 .. Len(p) : u[i] = f[p[i]] /\ v[i] = f[q[i]]
    BY <2>1
  <2>6. v[Len(p) + 1] = y
    BY <2>1
  <2> HIDE DEF u, v, q, y
  <2>7. /\ w \in Seq(Seq(T)) /\ Len(w) = Len(p) + 1
        /\ \A i \in 1 .. Len(p) : w[i] = u[i]
        /\ w[Len(p) + 1] = y
    BY <2>1, <2>2, <2>3, <2>4, AppendProperties
  <2>8. \A i \in 1 .. Len(p) + 1 : i \in 1 .. Len(p) \/ i = Len(p) + 1
    BY <2>1
  <2>9. \A i \in 1 .. Len(v) : v[i] = w[i]
    BY <2>1, <2>4, <2>5, <2>6, <2>7, <2>8
  <2> HIDE DEF w
  <2> QED BY <2>2, <2>4, <2>7, <2>9, SeqEqual DEF w, u, v, q, y
<1>4. \A p \in Seq(S) : Spread(f, p) \in Seq(T)
  BY <1>2, FlattenAppend, EmptySeq DEF Spread
<1>5. ASSUME NEW p \in Seq(S), NEW x \in S
      PROVE  Spread(f, Append(p, x)) = Spread(f, p) \o f[x]
  <2>1. f[x] \in Seq(T)
    OBVIOUS
  <2> QED BY <1>2, <1>3, <2>1, FlattenAppend DEF Spread
<1> QED BY <1>1, <1>4, <1>5

\* The sequence of what w gives for each element of s.
Mapped(w, s) == [i \in DOMAIN s |-> w[s[i]]]

\* It grows with the sequence.
LEMMA MappedSteps ==
    ASSUME NEW S, NEW V, NEW w \in [S -> V]
    PROVE  /\ Mapped(w, << >>) = << >>
           /\ \A p \in Seq(S) : Mapped(w, p) \in Seq(V) /\ Len(Mapped(w, p)) = Len(p)
           /\ \A p \in Seq(S), x \in S : Mapped(w, Append(p, x)) = Append(Mapped(w, p), w[x])
<1>1. Mapped(w, << >>) = << >>
  BY DEF Mapped
<1>2. ASSUME NEW p \in Seq(S)
      PROVE  /\ Mapped(w, p) \in Seq(V) /\ Len(Mapped(w, p)) = Len(p)
             /\ \A i \in 1 .. Len(p) : Mapped(w, p)[i] = w[p[i]]
  <2>1. Len(p) \in Nat /\ DOMAIN p = 1 .. Len(p) /\ \A i \in DOMAIN p : p[i] \in S
    BY LenProperties, ElementOfSeq
  <2>2. \A i \in 1 .. Len(p) : w[p[i]] \in V
    BY <2>1
  <2>3. Mapped(w, p) \in Seq(V)
    BY <2>1, <2>2, IsASeq DEF Mapped
  <2>4. DOMAIN Mapped(w, p) = 1 .. Len(p)
    BY <2>1 DEF Mapped
  <2>5. Len(Mapped(w, p)) = Len(p)
    <3> DEFINE u == Mapped(w, p)
    <3>1. u \in Seq(V) /\ DOMAIN u = 1 .. Len(p)
      BY <2>3, <2>4
    <3> HIDE DEF u
    <3>2. DOMAIN u = 1 .. Len(u) /\ Len(u) \in Nat
      BY <3>1, LenProperties
    <3>3. Len(u) = Len(p)
      BY <2>1, <3>1, <3>2
    <3> QED BY <3>3 DEF u
  <2> QED BY <2>1, <2>3, <2>5 DEF Mapped
<1>3. ASSUME NEW p \in Seq(S), NEW x \in S
      PROVE  Mapped(w, Append(p, x)) = Append(Mapped(w, p), w[x])
  <2> DEFINE q == Append(p, x)
             u == Mapped(w, p)
             v == Mapped(w, q)
             y == w[x]
             r == Append(u, y)
  <2>1. /\ q \in Seq(S) /\ Len(q) = Len(p) + 1 /\ Len(p) \in Nat
        /\ \A i \in 1 .. Len(p) : q[i] = p[i]
        /\ q[Len(p) + 1] = x
    BY AppendProperties, LenProperties
  <2> HIDE DEF q
  <2>2. /\ u \in Seq(V) /\ v \in Seq(V) /\ Len(u) = Len(p) /\ Len(v) = Len(p) + 1
        /\ \A i \in 1 .. Len(p) : u[i] = w[p[i]]
        /\ \A i \in 1 .. Len(p) + 1 : v[i] = w[q[i]]
    BY <1>2, <2>1
  <2>3. y \in V
    OBVIOUS
  <2> HIDE DEF u, v, y
  <2>4. /\ r \in Seq(V) /\ Len(r) = Len(p) + 1
        /\ \A i \in 1 .. Len(p) : r[i] = u[i]
        /\ r[Len(p) + 1] = y
    BY <2>1, <2>2, <2>3, AppendProperties
  <2>5. \A i \in 1 .. Len(p) + 1 : i \in 1 .. Len(p) \/ i = Len(p) + 1
    BY <2>1
  <2>6. v[Len(p) + 1] = y
    BY <2>1, <2>2 DEF y
  <2>7. \A i \in 1 .. Len(p) : v[i] = u[i]
    BY <2>1, <2>2
  <2> HIDE DEF r
  <2>8. v = r
    BY <2>2, <2>4, <2>5, <2>6, <2>7, SeqEqual
  <2> QED BY <2>8 DEF r, u, v, q, y
<1> QED BY <1>1, <1>2, <1>3
=============================================================================
