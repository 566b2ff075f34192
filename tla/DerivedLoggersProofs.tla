------------------------ MODULE DerivedLoggersProofs ------------------------
(* Proofs for DerivedLoggers, for any chains, calls, records and goroutines: *)
(* slices that are appended to stay apart, and an explicit global logger is  *)
(* not lost.                                                                 *)
EXTENDS DerivedLoggers, DataLemmas

Range1(s) == {s[i] : i \in 1..Len(s)}
IsList(s) == s \in Seq(Range1(s))

(* The invariant behind SiblingsIsolated: what a logger was given is in the  *)
(* cells its slice covers, and every slice ends where its array may be       *)
(* appended to by nobody else. Each handler is one of those New built, and   *)
(* a ComponentHandler has handed on every call there was.                    *)
SliceIn(arrs, s, kept) ==
    /\ s = [arr |-> s.arr, len |-> s.len, cap |-> s.cap] /\ s.len \in Nat
    /\ s.arr \in DOMAIN arrs
    /\ IsList(kept) /\ Len(kept) = s.len
    /\ s.len <= s.cap /\ s.cap = Len(arrs[s.arr])
    /\ \A i \in 1..s.len : arrs[s.arr][i] = kept[i] /\ kept[i] # None

LoggerIn(arrs, lg) ==
    /\ lg = [children |-> lg.children, held |-> lg.held, kept |-> lg.kept,
             term |-> lg.term, made |-> lg.made]
    /\ DOMAIN lg.held = DOMAIN lg.children /\ DOMAIN lg.kept = DOMAIN lg.children
    /\ lg.children \in {scenario.children, DefaultChildren} /\ IsList(lg.made)
    /\ \A c \in DOMAIN lg.children :
          /\ SliceIn(arrs, lg.held[c], lg.kept[c])
          /\ lg.children[c].kind = "component" => lg.term[c] = lg.made

ArraysOK ==
    \A a \in DOMAIN arrays : a[1] \in DOMAIN loggers /\ IsList(arrays[a])

HeldInv ==
    /\ scenario \in Scenarios
    /\ IsList(loggers)
    /\ \A n \in DOMAIN loggers : LoggerIn(arrays, loggers[n])
    /\ ArraysOK

(* The invariant behind ExplicitWins.                                        *)
GlobalTypes ==
    /\ installed \in BOOLEAN /\ lazyOnce \in OnceStates
    /\ place \in [Goroutines -> Places] /\ late \in [Goroutines -> BOOLEAN]
    /\ DOMAIN got = Goroutines /\ got = [g \in Goroutines |-> got[g]]

GlobalInv ==
    /\ GlobalTypes
    /\ installed => global \notin {None, LazyDefault}
    /\ lazyOnce = "done" => global # None
    /\ \A g \in Goroutines :
          /\ place[g] = "reload" => lazyOnce = "done"
          /\ late[g] => installed
          /\ late[g] /\ place[g] \in {"idle", "ensure"} => got[g] # LazyDefault

-----------------------------------------------------------------------------
(* The slices.                                                               *)

\* A slice is a function on its indices.
LEMMA ListIsFunction ==
    ASSUME NEW s, IsList(s)
    PROVE  Len(s) \in Nat /\ DOMAIN s = 1..Len(s)
BY LenProperties DEF IsList

\* append keeps what the slice had and adds one element behind it.
LEMMA ListAppend ==
    ASSUME NEW s, IsList(s), NEW x
    PROVE  /\ IsList(Append(s, x))
           /\ Len(Append(s, x)) = Len(s) + 1
           /\ DOMAIN Append(s, x) = 1..Len(s) + 1
           /\ \A i \in 1..Len(s) : Append(s, x)[i] = s[i]
           /\ Append(s, x)[Len(s) + 1] = x
<1> DEFINE T == Range1(s) \cup {x}
           t == Append(s, x)
<1>1. s \in Seq(T)
  BY SeqMonotonic DEF IsList
<1>2. t \in Seq(T) /\ Len(t) = Len(s) + 1 /\ DOMAIN t = 1..Len(t)
  BY <1>1, AppendProperties, LenProperties
<1>3. (\A i \in 1..Len(s) : t[i] = s[i]) /\ t[Len(s) + 1] = x
  BY <1>1, AppendProperties
<1>4. t \in [1..Len(t) -> Range1(t)]
  BY <1>1, <1>2, LenProperties DEF Range1
<1>5. IsList(t)
  <2>1. Seq(Range1(t)) = UNION {[1..n -> Range1(t)] : n \in Nat}
    BY SeqDef
  <2>2. Len(t) \in Nat
    BY <1>2, LenProperties
  <2> QED BY <1>4, <2>1, <2>2 DEF IsList
<1> QED BY <1>2, <1>3, <1>5

\* A function on 1..n is a slice of length n.
LEMMA ListMade ==
    ASSUME NEW n \in Nat, NEW s, s = [i \in 1..n |-> s[i]]
    PROVE  IsList(s) /\ Len(s) = n
<1>1. Seq(Range1(s)) = UNION {[1..m -> Range1(s)] : m \in Nat}
  BY SeqDef
<1>2. Len(s) = n
  OBVIOUS
<1>3. s \in [1..n -> Range1(s)]
  BY <1>2 DEF Range1
<1> QED BY <1>1, <1>2, <1>3 DEF IsList

\* The three handlers New starts from are a slice.
LEMMA ListOfThree ==
    ASSUME NEW x, NEW y, NEW z
    PROVE  IsList(<<x, y, z>>) /\ DOMAIN <<x, y, z>> = 1..3
<1>1. <<x, y, z>> = [i \in 1..3 |-> <<x, y, z>>[i]]
  OBVIOUS
<1> QED BY <1>1, ListMade

\* No slice has room: Clip has taken it away before anything is appended.
LEMMA ClipFull ==
    ASSUME NEW s, s = [arr |-> s.arr, len |-> s.len, cap |-> s.cap]
    PROVE  Clip(s).arr = s.arr /\ Clip(s).len = s.len /\ Clip(s).cap = s.len
BY DEF Clip

\* New: the loggers that are built cover an empty slice each, in arrays of their own.
LEMMA HeldInvInit == Init => HeldInv
<1> SUFFICES ASSUME Init PROVE HeldInv
  OBVIOUS
<1>1. scenario \in Scenarios /\ 1 \in DOMAIN scenario.children
  BY LoggersAssumption DEF Init
<1>2. IsList(loggers) /\ DOMAIN loggers = 1..3
  BY ListOfThree DEF Init
<1>3. ASSUME NEW n \in 1..3, NEW children \in {scenario.children, DefaultChildren},
             loggers[n] = Built(n, children),
             DOMAIN children \subseteq DOMAIN scenario.children
      PROVE  LoggerIn(arrays, loggers[n])
  <2>1. ASSUME NEW c \in DOMAIN children
        PROVE  SliceIn(arrays, Slice(n, c, 0, 0), <<>>)
    <3>1. <<n, c>> \in DOMAIN arrays /\ arrays[<<n, c>>] = <<>>
      BY <1>3, <2>1 DEF Init
    <3>2. IsList(<<>>) /\ Len(<<>>) = 0
      BY EmptySeq DEF IsList
    <3> QED BY <3>1, <3>2 DEF SliceIn, Slice
  <2>2. IsList(<<>>)
    BY EmptySeq DEF IsList
  <2> QED BY <1>3, <2>1, <2>2 DEF LoggerIn, Built
<1>4. \A n \in DOMAIN loggers : LoggerIn(arrays, loggers[n])
  <2>1. LoggerIn(arrays, loggers[1])
    BY <1>3 DEF Init
  <2>2. LoggerIn(arrays, loggers[2])
    BY <1>1, <1>3 DEF Init, DefaultChildren
  <2>3. LoggerIn(arrays, loggers[3])
    BY <1>3 DEF Init
  <2> QED BY <1>2, <2>1, <2>2, <2>3
<1>5. ArraysOK
  <2>1. ASSUME NEW a \in DOMAIN arrays PROVE a[1] \in 1..3 /\ arrays[a] = <<>>
    BY <2>1 DEF Init
  <2>2. IsList(<<>>)
    BY EmptySeq DEF IsList
  <2> QED BY <1>2, <2>1, <2>2 DEF ArraysOK
<1> QED BY <1>1, <1>2, <1>4, <1>5 DEF HeldInv

\* What a handler holds of a call is no free cell.
LEMMA HeldIsCall ==
    ASSUME scenario \in Scenarios, NEW op \in scenario.ops, NEW n, NEW c,
           Op(n, c, op) # <<>>
    PROVE  Op(n, c, op)[1] # None
<1>1. Op(n, c, op) \in {<<op>>, ValidOps(<<op>>), <<>>}
  BY Zenon DEF Op, Holds
<1> QED BY <1>1, LoggersAssumption

\* A ComponentHandler hands every call on to the handler below it.
LEMMA ComponentHandsOn ==
    ASSUME NEW child, child.kind = "component", NEW any, NEW op
    PROVE  HandsOn(child, any, op) = <<op>>
BY DEF HandsOn

\* An append to a clipped slice makes an array, and leaves all others alone.
LEMMA DeriveKeeps ==
    ASSUME HeldInv, NEW n \in DOMAIN loggers, NEW op \in scenario.ops, Derive(n, op)
    PROVE  HeldInv'
<1>1. PICK new \in Nat : new = Len(loggers) + 1
  BY ListIsFunction DEF HeldInv
<1> DEFINE lg == loggers[n]
           Kids == DOMAIN lg.children
           Grows(c) == Op(n, c, op) # <<>>
           x(c) == Op(n, c, op)[1]
           held == [c \in Kids |-> IF Grows(c) THEN Grown(n, c, new) ELSE lg.held[c]]
           kept == [c \in Kids |-> IF Grows(c) THEN Append(lg.kept[c], x(c))
                                   ELSE lg.kept[c]]
           term == [c \in Kids |->
                       lg.term[c] \o HandsOn(lg.children[c], lg.held[c].len > 0, op)]
           made == [children |-> lg.children, held |-> held, kept |-> kept,
                    term |-> term, made |-> Append(lg.made, op)]
<1>2. LoggerIn(arrays, lg)
  BY DEF HeldInv
<1>3. /\ IsList(loggers) /\ Len(loggers) \in Nat
      /\ DOMAIN loggers = 1..Len(loggers)
  BY ListIsFunction DEF HeldInv
<1>4. ASSUME NEW c \in Kids
      PROVE  /\ Prior(n, c).arr = lg.held[c].arr
             /\ Prior(n, c).len = lg.held[c].len
             /\ ~InPlace(n, c)
             /\ SliceIn(arrays, lg.held[c], lg.kept[c])
  <2> DEFINE s == lg.held[c]
  <2>1. SliceIn(arrays, s, lg.kept[c])
    BY <1>2 DEF LoggerIn
  <2>2. s = [arr |-> s.arr, len |-> s.len, cap |-> s.cap] /\ s.len \in Nat
    BY <2>1 DEF SliceIn
  <2>3. Clip(s).arr = s.arr /\ Clip(s).len = s.len /\ Clip(s).cap = s.len
    BY <2>2, ClipFull
  <2> QED BY <2>1, <2>2, <2>3 DEF Prior, InPlace
<1>5. \A a \in DOMAIN arrays : a[1] \in 1..Len(loggers) /\ a[1] # new /\ IsList(arrays[a])
  BY <1>1, <1>3 DEF HeldInv, ArraysOK
<1>6. /\ IsList(loggers') /\ DOMAIN loggers' = 1..new
      /\ \A i \in 1..Len(loggers) : loggers'[i] = loggers[i]
      /\ loggers'[new] = made
  <2>1. loggers' = Append(loggers, made)
    BY <1>1 DEF Derive
  <2> HIDE DEF made
  <2> QED BY <1>1, <1>3, <2>1, ListAppend
<1>7. DOMAIN arrays' = DOMAIN arrays \cup {<<new, c>> : c \in Kids}
  BY <1>1 DEF Derive
<1>8. \A a \in DOMAIN arrays : arrays'[a] = arrays[a]
  BY <1>1, <1>4, <1>5, <1>7 DEF Derive
<1>9. ASSUME NEW c \in Kids
      PROVE  arrays'[<<new, c>>] = IF Grows(c) THEN Copied(n, c, x(c)) ELSE <<>>
  BY <1>1, <1>4, <1>7, <1>9 DEF Derive
<1>10. ASSUME NEW c \in Kids
       PROVE  /\ IsList(Copied(n, c, x(c)))
              /\ Len(Copied(n, c, x(c))) = lg.held[c].len + 1 + Spare
              /\ \A i \in 1..lg.held[c].len : Copied(n, c, x(c))[i] = lg.kept[c][i]
              /\ Copied(n, c, x(c))[lg.held[c].len + 1] = x(c)
  <2> DEFINE len == lg.held[c].len
             s == Copied(n, c, x(c))
  <2>1. len \in Nat /\ Prior(n, c).len = len
    BY <1>4 DEF SliceIn
  <2>2. s = [i \in 1..len + 1 + Spare |-> s[i]]
    BY <2>1 DEF Copied
  <2>3. IsList(s) /\ Len(s) = len + 1 + Spare
    <3> HIDE DEF s
    <3> QED BY <2>1, <2>2, ListMade, SpareAssumption
  <2>4. \A i \in 1..len : s[i] = arrays[lg.held[c].arr][i]
    BY <1>4, <2>1, SpareAssumption DEF Copied
  <2>5. s[len + 1] = x(c)
    BY <2>1, SpareAssumption DEF Copied
  <2> QED BY <1>4, <2>3, <2>4, <2>5 DEF SliceIn
<1>11. ASSUME NEW i \in 1..Len(loggers) PROVE LoggerIn(arrays', loggers'[i])
  <2>1. LoggerIn(arrays, loggers[i]) /\ loggers'[i] = loggers[i]
    BY <1>3, <1>6 DEF HeldInv
  <2>2. ASSUME NEW c \in DOMAIN loggers[i].children
        PROVE  SliceIn(arrays', loggers[i].held[c], loggers[i].kept[c])
    <3>1. SliceIn(arrays, loggers[i].held[c], loggers[i].kept[c])
      BY <2>1, <2>2 DEF LoggerIn
    <3> QED BY <1>7, <1>8, <2>1, <3>1 DEF SliceIn
  <2> QED BY <2>1, <2>2 DEF LoggerIn
<1>12. ASSUME NEW c \in Kids
       PROVE  SliceIn(arrays', held[c], kept[c])
  <2> DEFINE len == lg.held[c].len
  <2>1. SliceIn(arrays, lg.held[c], lg.kept[c]) /\ len \in Nat
    BY <1>4 DEF SliceIn
  <2>2. CASE ~Grows(c)
    <3>1. held[c] = lg.held[c] /\ kept[c] = lg.kept[c]
      BY <2>2
    <3>2. SliceIn(arrays', lg.held[c], lg.kept[c])
      <4> HIDE DEF lg
      <4> QED BY <1>7, <1>8, <2>1 DEF SliceIn
    <3> HIDE DEF held, kept
    <3> QED BY <3>1, <3>2
  <2>3. CASE Grows(c)
    <3>1. held[c] = Slice(new, c, len + 1, len + 1 + Spare)
      <4>1. held[c] = Grown(n, c, new)
        BY <2>3
      <4>2. Grown(n, c, new)
              = Slice(new, c, Prior(n, c).len + 1, Prior(n, c).len + 1 + Spare)
        BY <1>4, Zenon DEF Grown
      <4> HIDE DEF held
      <4> QED BY <1>4, <4>1, <4>2
    <3>2. kept[c] = Append(lg.kept[c], x(c))
      BY <2>3
    <3>3. /\ IsList(kept[c]) /\ Len(kept[c]) = len + 1
          /\ \A i \in 1..len : kept[c][i] = lg.kept[c][i]
          /\ kept[c][len + 1] = x(c)
      <4> HIDE DEF kept, x
      <4> QED BY <2>1, <3>2, ListAppend DEF SliceIn
    <3>4. <<new, c>> \in DOMAIN arrays' /\ arrays'[<<new, c>>] = Copied(n, c, x(c))
      BY <1>7, <1>9, <2>3
    <3>5. /\ Len(arrays'[<<new, c>>]) = len + 1 + Spare
          /\ \A i \in 1..len : arrays'[<<new, c>>][i] = lg.kept[c][i]
          /\ arrays'[<<new, c>>][len + 1] = x(c)
      <4> HIDE DEF x, lg, Kids
      <4> QED BY <1>10, <3>4, Zenon
    <3>6. \A i \in 1..len + 1 : arrays'[<<new, c>>][i] = kept[c][i]
      <4>1. \A i \in 1..len + 1 : i \in 1..len \/ i = len + 1
        BY <2>1
      <4> HIDE DEF x, lg, Kids, kept, len
      <4> QED BY <3>3, <3>5, <4>1, Zenon
    <3>7. /\ held[c].arr = <<new, c>> /\ held[c].len = len + 1
          /\ held[c] = [arr |-> held[c].arr, len |-> held[c].len, cap |-> held[c].cap]
      <4> HIDE DEF held, lg, len
      <4> QED BY <3>1 DEF Slice
    <3>8. len + 1 <= len + 1 + Spare /\ len + 1 \in Nat
      BY <2>1, SpareAssumption
    <3>9. held[c].cap = len + 1 + Spare
      <4> HIDE DEF held, lg, len
      <4> QED BY <3>1 DEF Slice
    <3>10. \A i \in 1..len + 1 : kept[c][i] # None
      <4>1. \A i \in 1..len + 1 : i \in 1..len \/ i = len + 1
        BY <2>1
      <4>2. x(c) # None
        BY <2>3, HeldIsCall DEF HeldInv
      <4>3. \A i \in 1..len : lg.kept[c][i] # None
        BY <2>1 DEF SliceIn
      <4> HIDE DEF x, lg, Kids, kept, len
      <4> QED BY <3>3, <4>1, <4>2, <4>3, Zenon
    <3>11. /\ IsList(kept[c]) /\ Len(kept[c]) = held[c].len /\ held[c].len \in Nat
           /\ held[c].arr \in DOMAIN arrays'
           /\ held[c].len <= held[c].cap /\ held[c].cap = Len(arrays'[held[c].arr])
      <4> HIDE DEF held, kept, lg, len, Kids, x
      <4> QED BY <3>3, <3>4, <3>5, <3>7, <3>8, <3>9
    <3>12. \A i \in 1..held[c].len :
               arrays'[held[c].arr][i] = kept[c][i] /\ kept[c][i] # None
      <4> HIDE DEF held, kept, lg, len, Kids
      <4> QED BY <3>6, <3>7, <3>10
    <3> HIDE DEF held, kept, lg, len, Kids
    <3> QED BY <3>7, <3>11, <3>12 DEF SliceIn
  <2> QED BY <2>2, <2>3
<1>13. LoggerIn(arrays', loggers'[new])
  <2>1. /\ made.children = lg.children /\ made.held = held /\ made.kept = kept
        /\ made = [children |-> made.children, held |-> made.held,
                   kept |-> made.kept, term |-> made.term, made |-> made.made]
    <3> HIDE DEF lg, held, kept, term
    <3> QED OBVIOUS
  <2>2. DOMAIN held = Kids /\ DOMAIN kept = Kids
    OBVIOUS
  <2>3. loggers'[new] = made /\ DOMAIN lg.children = Kids
    BY <1>6
  <2>4. \A c \in Kids : SliceIn(arrays', made.held[c], made.kept[c])
    BY <1>12, <2>1
  <2>5. /\ lg.children \in {scenario.children, DefaultChildren} /\ IsList(lg.made)
        /\ \A c \in Kids : lg.children[c].kind = "component" => lg.term[c] = lg.made
    BY <1>2 DEF LoggerIn
  <2>6. IsList(made.made)
    BY <2>5, ListAppend
  <2>7. ASSUME NEW c \in Kids, lg.children[c].kind = "component"
        PROVE  made.term[c] = made.made
    <3>1. made.term[c] = lg.made \o <<op>>
      BY <2>5, <2>7, ComponentHandsOn
    <3>2. lg.made \o <<op>> = Append(lg.made, op)
      <4>1. lg.made \in Seq(Range1(lg.made) \cup {op})
        BY <2>5, SeqMonotonic DEF IsList
      <4> HIDE DEF lg
      <4> QED BY <4>1, AppendIsConcat
    <3> QED BY <3>1, <3>2
  <2> HIDE DEF made, held, kept, lg
  <2> QED BY <2>1, <2>2, <2>3, <2>4, <2>5, <2>6, <2>7 DEF LoggerIn
<1>14. ArraysOK'
  <2>1. ASSUME NEW a \in DOMAIN arrays'
        PROVE  a[1] \in 1..new /\ IsList(arrays'[a])
    <3>1. CASE a \in DOMAIN arrays
      BY <1>1, <1>3, <1>5, <1>8, <3>1
    <3>2. ASSUME NEW c \in Kids, a = <<new, c>>
          PROVE  a[1] \in 1..new /\ IsList(arrays'[a])
      <4>1. IsList(<<>>)
        BY EmptySeq DEF IsList
      <4> QED BY <1>1, <1>3, <1>9, <1>10, <3>2, <4>1
    <3> QED BY <1>7, <2>1, <3>1, <3>2
  <2> QED BY <1>6, <2>1 DEF ArraysOK
<1>15. scenario' \in Scenarios /\ UNCHANGED scenario
  BY DEF HeldInv, Derive
<1>16. \A i \in DOMAIN loggers' : LoggerIn(arrays', loggers'[i])
  BY <1>1, <1>3, <1>6, <1>11, <1>13
<1>17. \A i \in DOMAIN loggers' : LoggerIn(arrays, loggers[i])'
  BY <1>15, <1>16 DEF LoggerIn, DefaultChildren
<1> QED BY <1>6, <1>14, <1>15, <1>17 DEF HeldInv

\* WithAttrs and WithGroup, on any logger and any number of times, leave what every
\* slice covers as it was: append never writes where another slice reads.
THEOREM HeldInvCorrect == Spec => []HeldInv
<1>1. Init => HeldInv
  BY HeldInvInit
<1>2. HeldInv /\ [Next]_vars => HeldInv'
  <2> SUFFICES ASSUME HeldInv, [Next]_vars PROVE HeldInv'
    OBVIOUS
  <2>1. CASE UNCHANGED <<scenario, arrays, loggers>>
    BY <2>1 DEF HeldInv, LoggerIn, SliceIn, ArraysOK
  <2>2. ASSUME NEW n \in DOMAIN loggers, With(n) PROVE HeldInv'
    BY <2>2, DeriveKeeps DEF With
  <2>3. ASSUME NEW n \in DOMAIN loggers, Log(n) PROVE HeldInv'
    BY <2>1, <2>3 DEF Log
  <2>4. ASSUME NEW g \in Goroutines, CallGlobal(g) PROVE HeldInv'
    BY <2>1, <2>4 DEF CallGlobal
  <2>5. CASE UNCHANGED vars
    BY <2>1, <2>5 DEF vars
  <2> QED BY <2>2, <2>3, <2>4, <2>5 DEF Next
<1> QED BY <1>1, <1>2, PTL DEF Spec

\* What a slice covers is what its logger was given.
LEMMA CoveredIsKept ==
    ASSUME NEW arrs, NEW s, NEW kept, SliceIn(arrs, s, kept), IsList(arrs[s.arr])
    PROVE  SubSeq(arrs[s.arr], 1, s.len) = kept
<1> DEFINE t == arrs[s.arr]
           n == s.len
<1>1. t \in Seq(Range1(t)) /\ Len(t) \in Nat /\ n \in Nat /\ n <= Len(t)
  BY LenProperties DEF SliceIn, IsList
<1>2. kept \in Seq(Range1(kept)) /\ Len(kept) = n /\ kept = [i \in 1..n |-> kept[i]]
  BY LenProperties DEF SliceIn, IsList
<1>3. \A i \in 1..n : t[i] = kept[i]
  BY DEF SliceIn
<1>4. SubSeq(t, 1, n) = [i \in 1..n |-> t[i]]
  <2> HIDE DEF t, n
  <2> QED BY <1>1
<1> HIDE DEF t, n
<1>5. SubSeq(t, 1, n) = kept
  BY <1>2, <1>3, <1>4
<1> QED BY <1>5 DEF t, n

\* Each logger holds the calls that derived it and no others, however many loggers
\* are derived from one another and whatever room append leaves (derive, WithAttrs,
\* WithGroup: "siblings derived from the same parent never share a backing array").
THEOREM DerivedLoggersIsolated == Spec => []SiblingsIsolated
<1>1. HeldInv => SiblingsIsolated
  <2> SUFFICES ASSUME HeldInv, NEW n \in DOMAIN loggers,
                      NEW c \in DOMAIN loggers[n].children
               PROVE  Content(loggers[n].held[c]) = loggers[n].kept[c]
    BY DEF SiblingsIsolated
  <2>1. SliceIn(arrays, loggers[n].held[c], loggers[n].kept[c])
    BY DEF HeldInv, LoggerIn
  <2>2. IsList(arrays[loggers[n].held[c].arr])
    BY <2>1 DEF HeldInv, ArraysOK, SliceIn
  <2> QED BY <2>1, <2>2, CoveredIsKept DEF Content
<1> QED BY <1>1, HeldInvCorrect, PTL

-----------------------------------------------------------------------------
(* The global logger.                                                        *)

\* A process starts with no logger stored and the once unused.
LEMMA GlobalInvInit == Init => GlobalInv
<1> SUFFICES ASSUME GlobalInit PROVE GlobalInv
  BY DEF Init
<1>1. GlobalTypes
  BY DEF GlobalInit, GlobalTypes, OnceStates, Places
<1> QED BY <1>1 DEF GlobalInit, GlobalInv

\* A step of L or EnsureLoggerOnce.
LEMMA GlobalStepKeeps ==
    ASSUME GlobalInv, NEW g \in Goroutines, GlobalStep(g)
    PROVE  GlobalInv'
<1> USE GlobalAssumption DEF GlobalInv, GlobalTypes, OnceStates, Places, At
<1>1. CASE LLoad(g)
  <2>1. CASE global # None
    BY <1>1, <2>1, ZenonT(30) DEF LLoad
  <2>2. CASE global = None
    BY <1>1, <2>2 DEF LLoad
  <2> QED BY <2>1, <2>2
<1>2. CASE LOnce(g)
  BY <1>2 DEF LOnce
<1>3. CASE LBuild(g)
  BY <1>3 DEF LBuild
<1>4. CASE LReload(g)
  BY <1>4 DEF LReload
<1>5. CASE EnsureBegin(g)
  BY <1>5 DEF EnsureBegin
<1>6. CASE EnsureSet(g)
  BY <1>6 DEF EnsureSet, Store
<1> QED BY <1>1, <1>2, <1>3, <1>4, <1>5, <1>6 DEF GlobalStep

\* SetGlobal stores a logger of the caller's: never the lazy default.
LEMMA SetGlobalKeeps ==
    ASSUME GlobalInv, NEW g \in Goroutines, NEW n, n \notin {None, LazyDefault},
           SetGlobal(g, n)
    PROVE  GlobalInv'
BY DEF GlobalInv, GlobalTypes, SetGlobal, Store

\* Every step keeps the invariant: what is stored is a logger, and which one.
LEMMA GlobalInvNext == HeldInv /\ GlobalInv /\ [Next]_vars => GlobalInv'
<1> SUFFICES ASSUME HeldInv, GlobalInv, [Next]_vars PROVE GlobalInv'
  OBVIOUS
<1>1. CASE UNCHANGED globalVars
  BY <1>1 DEF globalVars, GlobalInv, GlobalTypes
<1>2. ASSUME NEW g \in Goroutines, CallGlobal(g) PROVE GlobalInv'
  <2>1. CASE GlobalStep(g)
    BY <2>1, GlobalStepKeeps
  <2>2. ASSUME NEW n \in DOMAIN loggers, n # LazyDefault, SetGlobal(g, n)
        PROVE  GlobalInv'
    <3>1. n \in Nat
      BY ElementOfSeq, LenProperties DEF HeldInv, IsList
    <3>2. n # None
      BY <3>1, LoggersAssumption
    <3> QED BY <2>2, <3>2, SetGlobalKeeps
  <2> QED BY <1>2, <2>1, <2>2 DEF CallGlobal
<1>3. ASSUME NEW n \in DOMAIN loggers, With(n) \/ Log(n) PROVE UNCHANGED globalVars
  BY <1>3 DEF With, Derive, Log
<1>4. CASE UNCHANGED vars
  BY <1>1, <1>4 DEF vars
<1> QED BY <1>1, <1>2, <1>3, <1>4 DEF Next

\* An explicit logger is never replaced by the lazy default, nor given up for it by
\* an L that began after it was installed (SetGlobal, L), for any goroutines.
THEOREM ExplicitLoggerWins == Spec => []ExplicitWins
<1>1. Init => GlobalInv
  BY GlobalInvInit
<1>2. GlobalInv => ExplicitWins
  BY DEF GlobalInv, GlobalTypes, ExplicitWins
<1> QED BY <1>1, <1>2, GlobalInvNext, HeldInvCorrect, PTL DEF Spec

-----------------------------------------------------------------------------
(* Types: what is installed, was returned or wrote a line is a logger.       *)
RefsInv ==
    /\ ensureOnce \in OnceStates
    /\ 1..3 \subseteq DOMAIN loggers
    /\ global \in {None} \cup DOMAIN loggers
    /\ \A g \in Goroutines : got[g] \in {None} \cup DOMAIN loggers
    /\ line.by \in {0} \cup DOMAIN loggers

\* At first nothing refers to a logger.
LEMMA RefsInit == Init => RefsInv
<1> SUFFICES ASSUME Init PROVE RefsInv
  OBVIOUS
<1>1. DOMAIN loggers = 1..3
  BY ListOfThree DEF Init
<1>2. line.by = 0
  BY DEF Init, NoLine
<1> QED BY <1>1, <1>2 DEF Init, GlobalInit, RefsInv, OnceStates

\* A step of L or EnsureLoggerOnce refers to loggers there are.
LEMMA RefsGlobal ==
    ASSUME GlobalInv, RefsInv, NEW g \in Goroutines, GlobalStep(g)
    PROVE  /\ ensureOnce' \in OnceStates
           /\ global' \in {None} \cup DOMAIN loggers
           /\ \A h \in Goroutines : got'[h] \in {None} \cup DOMAIN loggers
<1>1. {LazyDefault, Ensured} \subseteq DOMAIN loggers
  BY LoggersAssumption DEF RefsInv
<1>2. got = [h \in Goroutines |-> got[h]]
  BY DEF GlobalInv, GlobalTypes
<1> USE <1>1, <1>2 DEF RefsInv, OnceStates, Store
<1>3. CASE LLoad(g)
  BY <1>3 DEF LLoad
<1>4. CASE LOnce(g)
  BY <1>4 DEF LOnce
<1>5. CASE LBuild(g)
  BY <1>5 DEF LBuild
<1>6. CASE LReload(g)
  BY <1>6 DEF LReload
<1>7. CASE EnsureBegin(g)
  BY <1>7 DEF EnsureBegin
<1>8. CASE EnsureSet(g)
  BY <1>8 DEF EnsureSet
<1> QED BY <1>3, <1>4, <1>5, <1>6, <1>7, <1>8 DEF GlobalStep

\* There are only ever more loggers.
LEMMA LoggersGrow ==
    ASSUME HeldInv, NEW n \in DOMAIN loggers, NEW op, Derive(n, op)
    PROVE  DOMAIN loggers \subseteq DOMAIN loggers'
<1>1. PICK x : loggers' = Append(loggers, x)
  BY DEF Derive
<1>2. /\ DOMAIN loggers = 1..Len(loggers) /\ Len(loggers) \in Nat
      /\ DOMAIN loggers' = 1..Len(loggers) + 1
  BY <1>1, ListIsFunction, ListAppend DEF HeldInv
<1> QED BY <1>2

\* No step refers to a logger that is not there.
LEMMA RefsNext == HeldInv /\ GlobalInv /\ RefsInv /\ [Next]_vars => RefsInv'
<1> SUFFICES ASSUME HeldInv, GlobalInv, RefsInv, [Next]_vars PROVE RefsInv'
  OBVIOUS
<1>1. ASSUME NEW n \in DOMAIN loggers, With(n) PROVE RefsInv'
  <2>1. PICK op \in scenario.ops : Derive(n, op)
    BY <1>1 DEF With
  <2>2. UNCHANGED globalVars /\ line' = NoLine
    BY <2>1 DEF Derive
  <2>3. line'.by = 0
    BY <2>2 DEF NoLine
  <2>4. DOMAIN loggers \subseteq DOMAIN loggers'
    BY <2>1, LoggersGrow
  <2> QED BY <2>2, <2>3, <2>4 DEF RefsInv, globalVars
<1>2. ASSUME NEW n \in DOMAIN loggers, Log(n) PROVE RefsInv'
  <2>1. line'.by = n /\ UNCHANGED <<globalVars, loggers>>
    BY <1>2 DEF Log
  <2> QED BY <2>1 DEF RefsInv, globalVars
<1>3. ASSUME NEW g \in Goroutines, CallGlobal(g) PROVE RefsInv'
  <2>1. UNCHANGED loggers /\ line' = NoLine
    BY <1>3 DEF CallGlobal
  <2>2. line'.by = 0
    BY <2>1 DEF NoLine
  <2>3. CASE GlobalStep(g)
    BY <2>1, <2>2, <2>3, RefsGlobal DEF RefsInv
  <2>4. ASSUME NEW n \in DOMAIN loggers, SetGlobal(g, n) PROVE RefsInv'
    BY <2>1, <2>2, <2>4 DEF RefsInv, SetGlobal, Store
  <2> QED BY <1>3, <2>3, <2>4 DEF CallGlobal
<1>4. CASE UNCHANGED vars
  BY <1>4 DEF vars, globalVars, RefsInv
<1> QED BY <1>1, <1>2, <1>3, <1>4 DEF Next
\* What is installed, what L returned and who wrote the line are loggers there are,
\* a goroutine is somewhere in one call, and every slice lies in an array, ends where
\* the array ends and covers no free cell, for any chains, calls and goroutines.
THEOREM TypesCorrect == Spec => []TypeOK
<1>1. HeldInv /\ GlobalInv /\ RefsInv => TypeOK
  <2> SUFFICES ASSUME HeldInv, GlobalInv, RefsInv PROVE TypeOK
    OBVIOUS
  <2>1. \A g \in Goroutines : place[g] \in Places
    BY DEF GlobalInv, GlobalTypes
  <2>2. ASSUME NEW n \in DOMAIN loggers, NEW c \in DOMAIN loggers[n].children
        PROVE  LET s == loggers[n].held[c] IN
               /\ s.arr \in DOMAIN arrays
               /\ s.len <= s.cap /\ s.cap = Len(arrays[s.arr])
               /\ \A i \in 1..s.len : arrays[s.arr][i] # None
    <3>1. SliceIn(arrays, loggers[n].held[c], loggers[n].kept[c])
      BY DEF HeldInv, LoggerIn
    <3> QED BY <3>1, Zenon DEF SliceIn
  <2>3. /\ installed \in BOOLEAN /\ lazyOnce \in OnceStates /\ ensureOnce \in OnceStates
        /\ global \in {None} \cup DOMAIN loggers /\ line.by \in {0} \cup DOMAIN loggers
        /\ \A g \in Goroutines : got[g] \in {None} \cup DOMAIN loggers
    BY DEF GlobalInv, GlobalTypes, RefsInv
  <2> QED BY <2>1, <2>2, <2>3 DEF TypeOK
<1> QED BY <1>1, GlobalInvInit, GlobalInvNext, RefsInit, RefsNext, HeldInvCorrect, PTL DEF Spec

-----------------------------------------------------------------------------
(* The lines. While no logger is made and no other call is logged, the last  *)
(* line is what its author's children write of its record.                   *)
LineInv ==
    line.by # 0 =>
        LET children == loggers[line.by].children IN
        /\ line.by \in DOMAIN loggers /\ line.rec \in scenario.records
        /\ line.out = [c \in DOMAIN children |->
              IF ~Enabled(children[c], line.rec) THEN <<>>
              ELSE Written(children[c], Content(loggers[line.by].held[c]),
                           loggers[line.by].term[c], Handed(children, c, line.rec))]

\* Log writes such a line, and every other step takes the last one back.
LEMMA LineNext == LineInv /\ [Next]_vars => LineInv'
<1> SUFFICES ASSUME LineInv, [Next]_vars PROVE LineInv'
  OBVIOUS
<1>1. CASE line' = NoLine
  BY <1>1 DEF LineInv, NoLine
<1>2. ASSUME NEW n \in DOMAIN loggers, Log(n) PROVE LineInv'
  <2>1. PICK rec \in scenario.records :
            line' = [by |-> n, rec |-> rec, out |->
              [c \in DOMAIN loggers[n].children |->
                  IF ~Enabled(loggers[n].children[c], rec) THEN <<>>
                  ELSE Written(loggers[n].children[c], Content(loggers[n].held[c]),
                               loggers[n].term[c], Handed(loggers[n].children, c, rec))]]
    BY <1>2, Zenon DEF Log
  <2>2. UNCHANGED <<scenario, arrays, loggers>>
    BY <1>2 DEF Log
  <2>3. /\ line'.by = n /\ line'.rec = rec
        /\ line'.out = [c \in DOMAIN loggers[n].children |->
              IF ~Enabled(loggers[n].children[c], rec) THEN <<>>
              ELSE Written(loggers[n].children[c], Content(loggers[n].held[c]),
                           loggers[n].term[c], Handed(loggers[n].children, c, rec))]
    BY <2>1, Zenon
  <2> QED BY <2>2, <2>3, Zenon DEF LineInv, Content
<1>3. CASE UNCHANGED <<scenario, arrays, loggers, line>>
  BY <1>3, Zenon DEF LineInv, Content
<1>4. ASSUME NEW n \in DOMAIN loggers, With(n) PROVE line' = NoLine
  BY <1>4 DEF With, Derive
<1>5. ASSUME NEW g \in Goroutines, CallGlobal(g) PROVE line' = NoLine
  BY <1>5 DEF CallGlobal
<1>6. CASE UNCHANGED vars
  BY <1>3, <1>6 DEF vars
<1> QED BY <1>1, <1>2, <1>4, <1>5, <1>6 DEF Next
\* MultiHandler gives each child a record of its own with what the call has said.
LEMMA HandedIsRecord ==
    ASSUME NEW rec, rec = [attrs |-> rec.attrs, pc |-> rec.pc, level |-> rec.level,
                           shared |-> FALSE],
           NEW children, NEW c
    PROVE  Handed(children, c, rec) = rec
BY DEF Handed

\* A FilterHandler that does not drop hands one record on.
LEMMA FilterPasses ==
    ASSUME NEW rules, NEW mode, mode # "drop", NEW held, NEW as
    PROVE  \E x : FilterHandle(rules, mode, held, as) = <<x>>
BY Zenon DEF FilterHandle

\* So every child that does not drop writes a line.
LEMMA ChildWrites ==
    ASSUME NEW child, child.kind \in {"decorated", "globals", "component"},
           child.mode # "drop", NEW held, NEW term, NEW rec
    PROVE  Written(child, held, term, rec) # <<>>
<1>1. CASE child.kind = "decorated"
  <2> DEFINE as == IF child.source THEN AddAttrs(rec, CallSite("source")) ELSE rec.attrs
             passed == FilterHandle(child.rules, child.mode, held, as)
             Out(p) == [i \in DOMAIN p |->
                           DedupHandle(Pinned(child), BuiltInKeys, ValidOps(held), p[i])]
  <2>1. PICK x : passed = <<x>>
    BY FilterPasses
  <2>2. Written(child, held, term, rec) = Out(passed)
    BY <1>1, Zenon DEF Written
  <2>3. \A p : DOMAIN Out(p) = DOMAIN p
    OBVIOUS
  <2>4. DOMAIN <<x>> = 1..1 /\ DOMAIN <<>> = {}
    OBVIOUS
  <2> HIDE DEF passed, Out
  <2> QED BY <2>1, <2>2, <2>3, <2>4
<1>2. CASE child.kind = "globals"
  <2>1. PICK x : Written(child, held, term, rec) = <<x>>
    BY <1>2, Zenon DEF Written
  <2> QED BY <2>1
<1>3. CASE child.kind = "component"
  <2>1. PICK x : Written(child, held, term, rec) = <<x>>
    BY <1>3, Zenon DEF Written
  <2> QED BY <2>1
<1> QED BY <1>1, <1>2, <1>3

\* A ComponentHandler's line, when its record shares storage with nobody's.
LEMMA ComponentWrites ==
    ASSUME NEW child, child.kind = "component", NEW held, NEW term, NEW rec,
           ~rec.shared, rec.attrs \in Seq(Attributes)
    PROVE  Written(child, held, term, rec)[1]
             = Render(Claims(term,
                   rec.attrs \o IF rec.pc THEN <<CallSite("component")>> ELSE <<>>))
<1> DEFINE site == CallSite("component")
           as == AddAttrs(rec, site)
           said == rec.attrs \o IF rec.pc THEN <<site>> ELSE <<>>
<1>1. rec.attrs \o <<>> = rec.attrs
  BY ConcatEmptySeq
<1>2. as = said
  <2> HIDE DEF site
  <2> QED BY <1>1 DEF AddAttrs
<1>3. Written(child, held, term, rec) = <<Render(Claims(term, as))>>
  BY Zenon DEF Written
<1> HIDE DEF as, said
<1>4. Written(child, held, term, rec)[1] = Render(Claims(term, said))
  BY <1>2, <1>3
<1> QED BY <1>4 DEF said

\* What the handlers below a logger write does not depend on one another: whatever
\* the siblings add to the record, a ComponentHandler's line has what the calls and
\* the record say and its own group, and each child that neither drops nor is too
\* high writes (MultiHandler.Handle and its Clone), for any chains and records.
THEOREM ChildrenServedAlone == Spec => []ChildrenIndependent
<1>1. Init => LineInv
  BY DEF Init, LineInv, NoLine
<1>2. HeldInv /\ LineInv => ChildrenIndependent
  <2> SUFFICES ASSUME HeldInv, LineInv, NEW c \in Served
               PROVE  /\ Wrote(c) \/ Author.children[c].mode = "drop"
                      /\ Author.children[c].kind = "component" =>
                            Output(c) = Render(Claims(Author.made, line.rec.attrs
                                \o IF line.rec.pc THEN <<CallSite("component")>> ELSE <<>>))
    BY Zenon DEF ChildrenIndependent
  <2> DEFINE children == Author.children
             child == children[c]
             held == Content(Author.held[c])
             term == Author.term[c]
             rec == line.rec
  <2>1. line.by # 0 /\ line.by \in DOMAIN loggers /\ c \in DOMAIN children /\ Enabled(child, rec)
    BY DEF Served, LineInv
  <2>2. /\ rec = [attrs |-> rec.attrs, pc |-> rec.pc, level |-> rec.level, shared |-> FALSE]
        /\ rec.attrs \in Seq(Attributes)
    BY <2>1, LoggersAssumption DEF LineInv, HeldInv
  <2>3. line.out[c] = Written(child, held, term, rec)
    <3>1. line.out[c] = Written(child, held, term, Handed(children, c, rec))
      BY <2>1, Zenon DEF LineInv, Author
    <3> QED BY <2>2, <3>1, HandedIsRecord
  <2>4. LoggerIn(arrays, Author)
    BY <2>1 DEF HeldInv, Author
  <2>5. child.kind \in {"decorated", "globals", "component"}
    <3>1. CASE children = scenario.children
      BY <2>1, <3>1, LoggersAssumption DEF HeldInv
    <3>2. CASE children = DefaultChildren
      BY <2>1, <3>2 DEF DefaultChildren
    <3> QED BY <2>4, <3>1, <3>2 DEF LoggerIn
  <2>6. Wrote(c) \/ child.mode = "drop"
    BY <2>1, <2>3, <2>5, ChildWrites DEF Wrote
  <2>7. ASSUME child.kind = "component"
        PROVE  Output(c) = Render(Claims(Author.made,
                   rec.attrs \o IF rec.pc THEN <<CallSite("component")>> ELSE <<>>))
    <3>1. term = Author.made
      BY <2>1, <2>4, <2>7 DEF LoggerIn
    <3>2. ~rec.shared
      BY <2>2
    <3>3. Written(child, held, term, rec)[1]
            = Render(Claims(term,
                  rec.attrs \o IF rec.pc THEN <<CallSite("component")>> ELSE <<>>))
      <4> HIDE DEF rec, child, held, term
      <4> QED BY <2>2, <2>7, <3>2, ComponentWrites
    <3> QED BY <2>3, <3>1, <3>3, Zenon DEF Output
  <2> QED BY <2>6, <2>7
<1> QED BY <1>1, <1>2, LineNext, HeldInvCorrect, PTL DEF Spec

-----------------------------------------------------------------------------
(* Claims. A group is claimed before what is below it, and nothing from      *)
(* outside comes between: the claims that calls and a record make are rooted.*)

\* q is a proper prefix of p.
Below(q, p) == Len(q) < Len(p) /\ \A k \in 1..Len(q) : q[k] = p[k]

Paths(K) == Seq(K) \ {<<>>}

\* Prefixes, element by element.
LEMMA PrefixIs ==
    ASSUME NEW K, NEW p \in Paths(K), NEW q \in Paths(K)
    PROVE  /\ IsStrictPrefix(q, p) <=> Below(q, p)
           /\ IsPrefix(q, p) <=> (q = p \/ Below(q, p))
<1>1. /\ Len(p) \in Nat /\ DOMAIN p = 1..Len(p) /\ p \in Seq(K) /\ Len(p) # 0
      /\ Len(q) \in Nat /\ DOMAIN q = 1..Len(q) /\ q \in Seq(K) /\ Len(q) # 0
  BY LenProperties, EmptySeq DEF Paths
<1>2. SubSeq(q, 1, Len(q)) = q
  BY <1>1, SubSeqFull
<1>3. ASSUME Len(q) <= Len(p)
      PROVE  SubSeq(p, 1, Len(q)) = q <=> \A k \in 1..Len(q) : q[k] = p[k]
  <2>1. /\ SubSeq(p, 1, Len(q)) \in Seq(K) /\ Len(SubSeq(p, 1, Len(q))) = Len(q)
        /\ \A k \in 1..Len(q) : SubSeq(p, 1, Len(q))[k] = p[k]
    BY <1>1, <1>3, SubSeqProperties
  <2> QED BY <1>1, <2>1, SeqEqual
<1> DEFINE Same == \A k \in 1..Len(q) : q[k] = p[k]
<1>4. IsPrefix(q, p) <=> Len(q) <= Len(p) /\ Same
  BY <1>2, <1>3 DEF IsPrefix
<1>5. Len(q) = Len(p) => (q = p <=> Same)
  BY <1>1, SeqEqual
<1>6. q = p => Len(q) = Len(p)
  OBVIOUS
<1>7. /\ Len(q) <= Len(p) <=> Len(q) < Len(p) \/ Len(q) = Len(p)
      /\ ~(Len(q) < Len(p) /\ Len(q) = Len(p))
  <2>1. \A m, n \in Nat : (m <= n <=> m < n \/ m = n) /\ ~(m < n /\ m = n)
    OBVIOUS
  <2>2. Len(p) \in Nat /\ Len(q) \in Nat
    BY <1>1
  <2> QED BY <2>1, <2>2, Zenon
<1> HIDE DEF Same
<1>8. Below(q, p) <=> Len(q) < Len(p) /\ Same
  BY DEF Below, Same
<1> QED BY <1>4, <1>5, <1>6, <1>7, <1>8, Zenon DEF IsStrictPrefix

\* Proper prefixes are ordered; two prefixes of one path are comparable.
LEMMA BelowOrder ==
    ASSUME NEW K, NEW p \in Paths(K), NEW q \in Paths(K), NEW r \in Paths(K)
    PROVE  /\ ~Below(p, p)
           /\ ~(Below(p, q) /\ Below(q, p))
           /\ Below(p, q) /\ Below(q, r) => Below(p, r)
           /\ Below(p, r) /\ Below(q, r) => p = q \/ Below(p, q) \/ Below(q, p)
<1>1. /\ Len(p) \in Nat /\ p \in Seq(K) /\ Len(q) \in Nat /\ q \in Seq(K)
      /\ Len(r) \in Nat /\ r \in Seq(K)
  BY LenProperties DEF Paths
<1>2. Below(p, r) /\ Below(q, r) /\ Len(p) = Len(q) => p = q
  BY <1>1, SeqEqual DEF Below
<1> QED BY <1>1, <1>2 DEF Below

-----------------------------------------------------------------------------
(* Claims and what they are claims of. *)

ClaimSet(K, V, A) ==
    {c \in [path : Paths(K), base : Nat,
            kind : {"open", "scalar", "group", "valuer"}, val : V, members : Seq(A)] :
        /\ c.base <= Len(c.path) /\ (IsLeaf(c) => c.base < Len(c.path))
        /\ \A k \in 1..c.base : c.path[k] # NoKey}

Shorter(m, n) == IF m < n THEN m ELSE n

\* The last claim of the group q in s, made with base b, is followed by claims
\* below q only.
Within(s, q, b) ==
    \E j \in DOMAIN s :
        /\ s[j].path = q /\ s[j].kind = "open" /\ s[j].base = b
        /\ \A k \in DOMAIN s : j < k => Below(q, s[k].path)

\* Every claim is made within the groups that its path goes through.
Follows(s, c, K) ==
    \A q \in Paths(K) : Below(q, c.path) => Within(s, q, Shorter(Len(q), c.base))

\* Every claim of a sequence follows those before it.
Rooted(s, K) ==
    \A i \in DOMAIN s, q \in Paths(K) :
        Below(q, s[i].path) =>
            \E j \in DOMAIN s :
                /\ j < i /\ s[j].path = q /\ s[j].kind = "open"
                /\ s[j].base = Shorter(Len(q), s[i].base)
                /\ \A k \in DOMAIN s : j < k /\ k < i => Below(q, s[k].path)

\* What is said after one claim more.
LEMMA WithinAppend ==
    ASSUME NEW C, NEW s \in Seq(C), NEW c \in C, NEW q, NEW b
    PROVE  Within(Append(s, c), q, b) <=>
               \/ c.path = q /\ c.kind = "open" /\ c.base = b
               \/ Within(s, q, b) /\ Below(q, c.path)
<1> DEFINE t == Append(s, c)
           n == Len(s)
<1>1. /\ n \in Nat /\ DOMAIN s = 1..n /\ DOMAIN t = 1..n + 1
      /\ t[n + 1] = c /\ \A i \in 1..n : t[i] = s[i]
  BY AppendProperties, LenProperties
<1>2. \A i \in 1..n + 1 : i \in 1..n \/ i = n + 1
  BY <1>1
<1> HIDE DEF t, n
<1>3. ASSUME Within(t, q, b)
      PROVE  \/ c.path = q /\ c.kind = "open" /\ c.base = b
             \/ Within(s, q, b) /\ Below(q, c.path)
  <2>1. PICK j \in 1..n + 1 : /\ t[j].path = q /\ t[j].kind = "open" /\ t[j].base = b
                              /\ \A k \in 1..n + 1 : j < k => Below(q, t[k].path)
    BY <1>1, <1>3 DEF Within
  <2>2. CASE j = n + 1
    BY <1>1, <2>1, <2>2
  <2>3. CASE j \in 1..n
    <3>1. Below(q, t[n + 1].path)
      BY <1>1, <2>1, <2>3
    <3>2. \A k \in 1..n : j < k => Below(q, s[k].path)
      BY <1>1, <2>1
    <3> QED BY <1>1, <2>1, <2>3, <3>1, <3>2 DEF Within
  <2> QED BY <1>2, <2>2, <2>3
<1>4. ASSUME c.path = q, c.kind = "open", c.base = b PROVE Within(t, q, b)
  BY <1>1, <1>4 DEF Within
<1>5. ASSUME Within(s, q, b), Below(q, c.path) PROVE Within(t, q, b)
  <2>1. PICK j \in 1..n : /\ s[j].path = q /\ s[j].kind = "open" /\ s[j].base = b
                          /\ \A k \in 1..n : j < k => Below(q, s[k].path)
    BY <1>1, <1>5 DEF Within
  <2>2. \A k \in 1..n + 1 : j < k => Below(q, t[k].path)
    BY <1>1, <1>2, <1>5, <2>1
  <2> QED BY <1>1, <2>1, <2>2 DEF Within
<1> QED BY <1>3, <1>4, <1>5 DEF t

\* One claim more is rooted when it follows the others, and they are.
LEMMA RootedAppend ==
    ASSUME NEW C, NEW s \in Seq(C), NEW c \in C, NEW K
    PROVE  Rooted(Append(s, c), K) <=> Rooted(s, K) /\ Follows(s, c, K)
<1> DEFINE t == Append(s, c)
           n == Len(s)
           From(u, i, q, j) ==
               /\ j < i /\ u[j].path = q /\ u[j].kind = "open"
               /\ u[j].base = Shorter(Len(q), u[i].base)
               /\ \A k \in DOMAIN u : j < k /\ k < i => Below(q, u[k].path)
<1>1. /\ n \in Nat /\ DOMAIN s = 1..n /\ DOMAIN t = 1..n + 1
      /\ t[n + 1] = c /\ \A i \in 1..n : t[i] = s[i]
  BY AppendProperties, LenProperties
<1>2. \A i \in 1..n + 1 : i \in 1..n \/ i = n + 1
  BY <1>1
<1> HIDE DEF t, n
<1>3. \A q : \A i, j \in 1..n : From(t, i, q, j) <=> From(s, i, q, j)
  BY <1>1
<1>4. \A q : \A i \in 1..n, j \in 1..n + 1 : From(t, i, q, j) => j \in 1..n
  BY <1>1, <1>2
<1>5. \A q : (\E j \in 1..n + 1 : From(t, n + 1, q, j)) <=> Within(s, q, Shorter(Len(q), c.base))
  <2>1. ASSUME NEW q, NEW j \in 1..n + 1, From(t, n + 1, q, j)
        PROVE  Within(s, q, Shorter(Len(q), c.base))
    <3>1. j \in 1..n
      BY <1>2, <2>1
    <3>2. \A k \in 1..n : j < k => Below(q, s[k].path)
      BY <1>1, <2>1
    <3> QED BY <1>1, <2>1, <3>1, <3>2 DEF Within
  <2>2. ASSUME NEW q, Within(s, q, Shorter(Len(q), c.base))
        PROVE  \E j \in 1..n + 1 : From(t, n + 1, q, j)
    <3>1. PICK j \in 1..n : /\ s[j].path = q /\ s[j].kind = "open"
                            /\ s[j].base = Shorter(Len(q), c.base)
                            /\ \A k \in 1..n : j < k => Below(q, s[k].path)
      BY <1>1, <2>2 DEF Within
    <3>2. \A k \in 1..n + 1 : j < k /\ k < n + 1 => Below(q, t[k].path)
      BY <1>1, <1>2, <3>1
    <3> QED BY <1>1, <3>1, <3>2
  <2> QED BY <2>1, <2>2
<1>6. \A u : Rooted(u, K) <=> \A i \in DOMAIN u, q \in Paths(K) :
                                  Below(q, u[i].path) => \E j \in DOMAIN u : From(u, i, q, j)
  BY Zenon DEF Rooted
<1> HIDE DEF From
<1>7. ASSUME Rooted(t, K) PROVE Rooted(s, K) /\ Follows(s, c, K)
  <2>1. ASSUME NEW i \in 1..n, NEW q \in Paths(K), Below(q, s[i].path)
        PROVE  \E j \in 1..n : From(s, i, q, j)
    <3>1. t[i] = s[i] /\ i \in DOMAIN t
      BY <1>1
    <3>2. PICK j \in DOMAIN t : From(t, i, q, j)
      BY <1>6, <1>7, <2>1, <3>1
    <3>3. j \in 1..n
      BY <1>1, <1>4, <3>2
    <3> QED BY <1>3, <3>2, <3>3
  <2>3. Rooted(s, K)
    BY <1>1, <1>6, <2>1
  <2>2. Follows(s, c, K)
    BY <1>1, <1>5, <1>6, <1>7 DEF Follows
  <2> QED BY <2>2, <2>3
<1>8. ASSUME Rooted(s, K), Follows(s, c, K) PROVE Rooted(t, K)
  <2>1. ASSUME NEW i \in 1..n, NEW q \in Paths(K), Below(q, t[i].path)
        PROVE  \E j \in 1..n + 1 : From(t, i, q, j)
    <3>1. PICK j \in 1..n : From(s, i, q, j)
      BY <1>1, <1>6, <1>8, <2>1
    <3>2. From(t, i, q, j) /\ j \in 1..n + 1
      BY <1>1, <1>3, <3>1
    <3> QED BY <3>2
  <2>2. ASSUME NEW q \in Paths(K), Below(q, t[n + 1].path)
        PROVE  \E j \in 1..n + 1 : From(t, n + 1, q, j)
    BY <1>1, <1>5, <1>8, <2>2 DEF Follows
  <2> QED BY <1>1, <1>2, <1>6, <2>1, <2>2
<1> QED BY <1>7, <1>8 DEF t

\* Attributes over keys K and values V, with the members they may have.
AttrSet(A, K, V) ==
    \A a \in A : /\ a.key \in K /\ a.val \in V /\ a.members \in Seq(A)
                 /\ a.kind \in {"scalar", "group", "valuer"}

\* The part of a path that WithGroup opened has names only.
Named(path, base) == base <= Len(path) /\ \A k \in 1..base : path[k] # NoKey

\* The groups on the way to path, and that at path itself, are being filled.
InPath(s, path, base, K) ==
    \A q \in Paths(K) :
        (q = path \/ Below(q, path)) => Within(s, q, Shorter(Len(q), base))

Kept(s, t, path, K) ==
    \A q \in Paths(K), b \in Nat :
        Within(s, q, b) /\ (q = path \/ Below(q, path)) => Within(t, q, b)

\* One key more.
LEMMA BelowAppend ==
    ASSUME NEW K, NEW p \in Seq(K), NEW k \in K
    PROVE  /\ Append(p, k) \in Paths(K) /\ Len(Append(p, k)) = Len(p) + 1
           /\ \A q \in Paths(K) : Below(q, Append(p, k)) <=> (q = p \/ Below(q, p))
<1> DEFINE r == Append(p, k)
<1>1. /\ r \in Seq(K) /\ Len(r) = Len(p) + 1 /\ Len(p) \in Nat
      /\ \A i \in 1..Len(p) : r[i] = p[i]
  BY AppendProperties, LenProperties
<1>2. r \in Paths(K)
  BY <1>1, EmptySeq DEF Paths
<1> HIDE DEF r
<1>3. ASSUME NEW q \in Paths(K) PROVE Below(q, r) <=> (q = p \/ Below(q, p))
  <2>1. Len(q) \in Nat /\ q \in Seq(K)
    BY LenProperties DEF Paths
  <2>2. ASSUME Below(q, r) PROVE q = p \/ Below(q, p)
    <3>1. Len(q) <= Len(p) /\ \A i \in 1..Len(q) : q[i] = p[i]
      BY <1>1, <2>1, <2>2 DEF Below
    <3>2. CASE Len(q) < Len(p)
      BY <3>1, <3>2 DEF Below
    <3>3. CASE Len(q) = Len(p)
      BY <2>1, <3>1, <3>3, SeqEqual
    <3> QED BY <1>1, <2>1, <3>1, <3>2, <3>3
  <2>3. ASSUME q = p \/ Below(q, p) PROVE Below(q, r)
    BY <1>1, <2>1, <2>3 DEF Below
  <2> QED BY <2>2, <2>3
<1> QED BY <1>1, <1>2, <1>3 DEF r

\* The claim of an attribute below a path.
LEMMA ClaimTyped ==
    ASSUME NEW K, NEW V, NEW A, AttrSet(A, K, V), NEW path \in Seq(K), NEW base \in Nat,
           Named(path, base), NEW a \in A
    PROVE  /\ Claim(path, base, a) \in ClaimSet(K, V, A)
           /\ Claim(path, base, a).path = Append(path, a.key)
           /\ Claim(path, base, a).base = base
           /\ Claim(path, base, a).kind # "open"
<1> DEFINE r == Append(path, a.key)
           c == Claim(path, base, a)
<1>1. /\ a.key \in K /\ a.val \in V /\ a.members \in Seq(A)
      /\ a.kind \in {"scalar", "group", "valuer"}
  BY DEF AttrSet
<1>2. /\ r \in Seq(K) /\ Len(r) = Len(path) + 1 /\ Len(path) \in Nat
      /\ \A i \in 1..Len(path) : r[i] = path[i]
  BY <1>1, AppendProperties, LenProperties
<1>3. r \in Paths(K)
  BY <1>2, EmptySeq DEF Paths
<1> HIDE DEF r
<1>4. c = [path |-> r, base |-> base, kind |-> a.kind, val |-> a.val, members |-> a.members]
  BY DEF Claim, r
<1>5. \A k \in 1..base : r[k] # NoKey
  BY <1>2 DEF Named
<1>6. base <= Len(r) /\ base < Len(r)
  BY <1>2 DEF Named
<1> HIDE DEF c
<1>7. c.path = r /\ c.base = base /\ c.kind = a.kind
  BY <1>4
<1>8. c \in [path : Paths(K), base : Nat, kind : {"open", "scalar", "group", "valuer"},
             val : V, members : Seq(A)]
  BY <1>1, <1>3, <1>4
<1>9. c \in ClaimSet(K, V, A)
  BY <1>5, <1>6, <1>7, <1>8 DEF ClaimSet
<1> QED BY <1>1, <1>7, <1>9 DEF r, c

\* The claims of attributes, one by one.
LEMMA AttrClaimsSteps ==
    ASSUME NEW K, NEW V, NEW A, AttrSet(A, K, V), NEW path \in Seq(K), NEW base \in Nat,
           Named(path, base)
    PROVE  /\ AttrClaims(path, base, <<>>) = <<>>
           /\ \A as \in Seq(A) : AttrClaims(path, base, as) \in Seq(ClaimSet(K, V, A))
           /\ \A as \in Seq(A), a \in A :
                 AttrClaims(path, base, Append(as, a))
                   = Append(AttrClaims(path, base, as), Claim(path, base, a))
<1> DEFINE w == [a \in A |-> Claim(path, base, a)]
           S == ClaimSet(K, V, A)
<1>1. w \in [A -> S]
  BY ClaimTyped
<1>2. \A a \in A : w[a] = Claim(path, base, a)
  OBVIOUS
<1>3. ASSUME NEW as \in Seq(A) PROVE AttrClaims(path, base, as) = Mapped(w, as)
  <2>1. \A i \in DOMAIN as : as[i] \in A
    BY LenProperties, ElementOfSeq
  <2> QED BY <2>1 DEF AttrClaims, Mapped
<1> HIDE DEF w, S
<1>4. <<>> \in Seq(A) /\ \A as \in Seq(A), a \in A : Append(as, a) \in Seq(A)
  BY EmptySeq, AppendProperties
<1>5. /\ Mapped(w, <<>>) = <<>> /\ \A as \in Seq(A) : Mapped(w, as) \in Seq(S)
      /\ \A as \in Seq(A), a \in A : Mapped(w, Append(as, a)) = Append(Mapped(w, as), w[a])
  BY <1>1, MappedSteps, ZenonT(30)
<1> QED BY <1>2, <1>3, <1>4, <1>5 DEF S

\* What comes behind a sequence, element by element.
LEMMA ConcatAppend ==
    ASSUME NEW S, NEW u \in Seq(S), NEW v \in Seq(S), NEW x \in S
    PROVE  /\ u \o v \in Seq(S) /\ u \o Append(v, x) = Append(u \o v, x)
           /\ u \o <<>> = u /\ <<>> \o u = u /\ u \o <<x>> = Append(u, x)
<1>1. <<x>> \in Seq(S) /\ u \o v \in Seq(S) /\ v \o <<x>> = Append(v, x)
  BY ConcatProperties, AppendIsConcat
<1>2. (u \o v) \o <<x>> = u \o (v \o <<x>>)
  BY <1>1, ConcatAssociative
<1>3. (u \o v) \o <<x>> = Append(u \o v, x) /\ u \o <<x>> = Append(u, x)
  BY <1>1, AppendIsConcat
<1> QED BY <1>1, <1>2, <1>3, ConcatEmptySeq

\* Attributes said below a path that is being filled leave it so, and are rooted.
LEMMA AttrBlock ==
    ASSUME NEW K, NEW V, NEW A, AttrSet(A, K, V), NEW path \in Seq(K), NEW base \in Nat,
           Named(path, base),
           NEW u \in Seq(ClaimSet(K, V, A)), Rooted(u, K), InPath(u, path, base, K),
           NEW as \in Seq(A)
    PROVE  /\ AttrClaims(path, base, as) \in Seq(ClaimSet(K, V, A))
           /\ u \o AttrClaims(path, base, as) \in Seq(ClaimSet(K, V, A))
           /\ Rooted(u \o AttrClaims(path, base, as), K)
           /\ Kept(u, u \o AttrClaims(path, base, as), path, K)
<1> DEFINE S == ClaimSet(K, V, A)
           X(v) == AttrClaims(path, base, v)
           C == {v \in Seq(A) : Rooted(u \o X(v), K) /\ Kept(u, u \o X(v), path, K)}
<1>1. /\ X(<<>>) = <<>>
      /\ \A v \in Seq(A) : X(v) \in Seq(S)
      /\ \A v \in Seq(A), a \in A : X(Append(v, a)) = Append(X(v), Claim(path, base, a))
  BY AttrClaimsSteps
<1>2. \A v \in Seq(A) : u \o X(v) \in Seq(S)
  BY <1>1, ConcatProperties
<1>3. <<>> \in C
  <2>1. u \o X(<<>>) = u
    BY <1>1, ConcatEmptySeq
  <2>2. Kept(u, u, path, K)
    BY DEF Kept
  <2> HIDE DEF X
  <2> QED BY <2>1, <2>2, EmptySeq
<1>4. ASSUME NEW v \in Seq(A), NEW a \in A, v \in C PROVE Append(v, a) \in C
  <2>1. PICK c \in S : /\ c = Claim(path, base, a) /\ c.path = Append(path, a.key)
                       /\ c.base = base /\ c.kind # "open"
    BY ClaimTyped
  <2>2. PICK t \in Seq(S) : t = u \o X(v)
    BY <1>2
  <2>3. u \o X(Append(v, a)) = Append(t, c)
    <3>1. X(v) \in Seq(S) /\ X(Append(v, a)) = Append(X(v), c)
      BY <1>1, <2>1
    <3> HIDE DEF X
    <3> QED BY <2>2, <3>1, ConcatAppend
  <2>4. Rooted(t, K) /\ Kept(u, t, path, K)
    BY <1>4, <2>2
  <2>5. a.key \in K
    BY DEF AttrSet
  <2>6. \A q \in Paths(K) : Below(q, c.path) <=> (q = path \/ Below(q, path))
    BY <2>1, <2>5, BelowAppend
  <2>7. Follows(t, c, K)
    <3> SUFFICES ASSUME NEW q \in Paths(K), Below(q, c.path)
                 PROVE  Within(t, q, Shorter(Len(q), c.base))
      BY DEF Follows
    <3>1. Within(u, q, Shorter(Len(q), base))
      BY <2>6 DEF InPath
    <3>2. Shorter(Len(q), base) \in Nat
      BY LenProperties DEF Shorter, Paths
    <3> QED BY <2>1, <2>4, <2>6, <3>1, <3>2 DEF Kept
  <2>8. Rooted(Append(t, c), K)
    BY <2>4, <2>7, RootedAppend
  <2>9. Kept(u, Append(t, c), path, K)
    BY <2>4, <2>6, WithinAppend DEF Kept
  <2>10. Append(v, a) \in Seq(A)
    BY AppendProperties
  <2> HIDE DEF X
  <2> QED BY <2>3, <2>8, <2>9, <2>10
<1>5. as \in C
  <2> HIDE DEF C
  <2> QED BY <1>3, <1>4, AppendInduction
<1> QED BY <1>1, <1>2, <1>5

\* Calls over attributes A with group names of K.
OpSet(A, K) ==
    {op \in [isGroup : BOOLEAN, group : K, attrs : Seq(A)] : op.isGroup => op.group # NoKey}

OpsSaid(ops) == FlattenSeq([i \in DOMAIN ops |-> OpClaims(ops, i)])

\* The groups that one call more leaves open.
LEMMA GroupsAppend ==
    ASSUME NEW A, NEW K, NEW ops \in Seq(OpSet(A, K)), NEW op \in OpSet(A, K)
    PROVE  /\ GroupsOf(<<>>) = <<>> /\ GroupsOf(ops) \in Seq(K)
           /\ op.isGroup => GroupsOf(Append(ops, op)) = Append(GroupsOf(ops), op.group)
           /\ ~op.isGroup => GroupsOf(Append(ops, op)) = GroupsOf(ops)
<1> DEFINE O == OpSet(A, K)
           f == [o \in O |-> IF o.isGroup THEN <<o.group>> ELSE <<>>]
<1>1. \A o \in O : o.isGroup \in BOOLEAN /\ o.group \in K
  BY DEF OpSet
<1>2. f \in [O -> Seq(K)]
  BY <1>1, EmptySeq
<1>3. ASSUME NEW p \in Seq(O) PROVE GroupsOf(p) = Spread(f, p)
  <2>1. \A i \in DOMAIN p : p[i] \in O
    BY LenProperties, ElementOfSeq
  <2>2. [i \in DOMAIN p |-> IF p[i].isGroup THEN <<p[i].group>> ELSE <<>>]
          = [i \in DOMAIN p |-> f[p[i]]]
    BY <2>1
  <2> QED BY <2>2 DEF GroupsOf, Spread
<1>4. f[op] = IF op.isGroup THEN <<op.group>> ELSE <<>>
  OBVIOUS
<1> HIDE DEF f, O
<1>5. /\ Spread(f, <<>>) = <<>> /\ \A p \in Seq(O) : Spread(f, p) \in Seq(K)
      /\ \A p \in Seq(O), x \in O : Spread(f, Append(p, x)) = Spread(f, p) \o f[x]
  BY <1>2, SpreadSteps
<1>6. <<>> \in Seq(O) /\ ops \in Seq(O) /\ op \in O /\ Append(ops, op) \in Seq(O)
  BY EmptySeq, AppendProperties DEF O
<1>7. GroupsOf(ops) \in Seq(K) /\ GroupsOf(Append(ops, op)) = GroupsOf(ops) \o f[op]
  BY <1>3, <1>5, <1>6
<1>8. op.group \in K
  BY <1>1, <1>6
<1>9. op.isGroup => GroupsOf(ops) \o f[op] = Append(GroupsOf(ops), op.group)
  BY <1>4, <1>7, <1>8, ConcatAppend
<1>10. ~op.isGroup => GroupsOf(ops) \o f[op] = GroupsOf(ops)
  BY <1>4, <1>7, ConcatEmptySeq
<1> QED BY <1>3, <1>5, <1>6, <1>7, <1>9, <1>10

\* What one call more says.
OpenClaim(path) ==
    [path |-> path, base |-> Len(path), kind |-> "open", val |-> NoVal, members |-> <<>>]

\* No calls, no groups.
LEMMA NoGroups == GroupsOf(<<>>) = <<>>
<1>1. PICK e : e = <<>>
  OBVIOUS
<1>2. FlattenSeq(<<>>) = <<>>
  BY EmptySeq DEF FlattenSeq
<1>3. DOMAIN e = {}
  BY <1>1
<1>4. [i \in DOMAIN e |-> IF e[i].isGroup THEN <<e[i].group>> ELSE <<>>] = <<>>
  BY <1>1, <1>3
<1>5. GroupsOf(e) = <<>>
  BY <1>2, <1>4 DEF GroupsOf
<1> QED BY <1>1, <1>5

AllNamed(g) == \A k \in 1..Len(g) : g[k] # NoKey

\* The groups that calls leave open have names.
LEMMA GroupsNamed ==
    ASSUME NEW A, NEW K, NEW ops \in Seq(OpSet(A, K))
    PROVE  GroupsOf(ops) \in Seq(K) /\ AllNamed(GroupsOf(ops))
<1> DEFINE O == OpSet(A, K)
           C == {os \in Seq(O) : GroupsOf(os) \in Seq(K) /\ AllNamed(GroupsOf(os))}
<1>1. <<>> \in C
  <2>1. O # {} => GroupsOf(<<>>) = <<>>
    BY GroupsAppend, EmptySeq
  <2>2. GroupsOf(<<>>) = <<>>
    BY NoGroups
  <2>3. Len(<<>>) = 0 /\ 1..0 = {}
    BY EmptySeq
  <2> QED BY <2>2, <2>3, EmptySeq DEF AllNamed
<1>2. ASSUME NEW os \in Seq(O), NEW op \in O, os \in C PROVE Append(os, op) \in C
  <2> DEFINE g == GroupsOf(os)
  <2>1. g \in Seq(K) /\ AllNamed(g)
    BY <1>2
  <2>2. /\ op.isGroup => GroupsOf(Append(os, op)) = Append(g, op.group)
        /\ ~op.isGroup => GroupsOf(Append(os, op)) = g
    BY GroupsAppend
  <2>3. op.group \in K /\ (op.isGroup => op.group # NoKey)
    BY DEF OpSet
  <2> HIDE DEF g
  <2>4. op.isGroup => Append(g, op.group) \in Seq(K) /\ AllNamed(Append(g, op.group))
    <3>1. /\ Append(g, op.group) \in Seq(K) /\ Len(Append(g, op.group)) = Len(g) + 1
          /\ Len(g) \in Nat /\ Append(g, op.group)[Len(g) + 1] = op.group
          /\ \A k \in 1..Len(g) : Append(g, op.group)[k] = g[k]
      BY <2>1, <2>3, AppendProperties, LenProperties
    <3>2. \A k \in 1..Len(g) + 1 : k \in 1..Len(g) \/ k = Len(g) + 1
      BY <3>1
    <3> QED BY <2>1, <2>3, <3>1, <3>2 DEF AllNamed
  <2>5. Append(os, op) \in Seq(O)
    BY AppendProperties
  <2> QED BY <2>1, <2>2, <2>4, <2>5
<1>3. ops \in C
  <2> HIDE DEF C
  <2> QED BY <1>1, <1>2, AppendInduction
<1> QED BY <1>3

\* The claim of the groups that are open.
LEMMA OpenClaimTyped ==
    ASSUME NEW K, NEW V, NEW A, NoVal \in V, NEW g \in Seq(K), AllNamed(g), g # <<>>
    PROVE  /\ OpenClaim(g) \in ClaimSet(K, V, A)
           /\ OpenClaim(g).path = g /\ OpenClaim(g).base = Len(g) /\ OpenClaim(g).kind = "open"
<1>1. g \in Paths(K) /\ Len(g) \in Nat /\ <<>> \in Seq(A)
  BY LenProperties, EmptySeq DEF Paths
<1> QED BY <1>1 DEF OpenClaim, ClaimSet, AllNamed, IsLeaf

\* What a call says is claims, whatever calls were before it.
LEMMA OpClaimsTyped ==
    ASSUME NEW K, NEW V, NEW A, AttrSet(A, K, V), NoVal \in V,
           NEW ops \in Seq(OpSet(A, K)), NEW i \in DOMAIN ops
    PROVE  OpClaims(ops, i) \in Seq(ClaimSet(K, V, A))
<1> DEFINE O == OpSet(A, K)
           S == ClaimSet(K, V, A)
           upto == SubSeq(ops, 1, i)
           prior == SubSeq(ops, 1, i - 1)
           g == GroupsOf(upto)
<1>1. Len(ops) \in Nat /\ DOMAIN ops = 1..Len(ops) /\ i \in 1..Len(ops) /\ ops[i] \in O
  BY LenProperties, ElementOfSeq
<1>2. upto \in Seq(O) /\ prior \in Seq(O)
  BY <1>1, SubSeqProperties
<1>3. upto = Append(prior, ops[i])
  <2>1. upto = prior \o <<ops[i]>>
    BY <1>1, SubSeqRecursiveSecond
  <2> QED BY <1>1, <1>2, <2>1, AppendIsConcat
<1> HIDE DEF upto, prior
<1>4. g \in Seq(K) /\ AllNamed(g) /\ Len(g) \in Nat
  BY <1>2, GroupsNamed, LenProperties
<1>5. ops[i].isGroup => g # <<>>
  <2>1. GroupsOf(prior) \in Seq(K) /\ ops[i].group \in K
    BY <1>1, <1>2, GroupsNamed DEF OpSet
  <2>2. ops[i].isGroup => g = Append(GroupsOf(prior), ops[i].group)
    BY <1>1, <1>2, <1>3, GroupsAppend
  <2>3. Append(GroupsOf(prior), ops[i].group) # <<>>
    BY <2>1, AppendProperties, EmptySeq
  <2> QED BY <2>2, <2>3
<1>6. ops[i].attrs \in Seq(A)
  BY <1>1 DEF OpSet
<1> HIDE DEF g
<1>7. ops[i].isGroup => <<OpenClaim(g)>> \in Seq(S)
  <2>1. ops[i].isGroup => OpenClaim(g) \in S
    BY <1>4, <1>5, OpenClaimTyped
  <2> QED BY <2>1
<1>8. AttrClaims(g, Len(g), ops[i].attrs) \in Seq(S)
  BY <1>4, <1>6, AttrClaimsSteps DEF AllNamed, Named
<1> QED BY <1>7, <1>8 DEF OpClaims, OpenClaim, g, upto

\* What the calls say grows by what the last one says.
LEMMA OpsSaidAppend ==
    ASSUME NEW K, NEW V, NEW A, AttrSet(A, K, V), NoVal \in V,
           NEW ops \in Seq(OpSet(A, K)), NEW op \in OpSet(A, K)
    PROVE  /\ OpsSaid(<<>>) = <<>> /\ OpsSaid(ops) \in Seq(ClaimSet(K, V, A))
           /\ op.isGroup => OpsSaid(Append(ops, op))
                              = OpsSaid(ops) \o <<OpenClaim(GroupsOf(Append(ops, op)))>>
           /\ ~op.isGroup => OpsSaid(Append(ops, op))
                              = OpsSaid(ops) \o AttrClaims(GroupsOf(ops), Len(GroupsOf(ops)), op.attrs)
<1> DEFINE O == OpSet(A, K)
           S == ClaimSet(K, V, A)
           n == Len(ops)
           more == Append(ops, op)
           q(os) == [i \in DOMAIN os |-> OpClaims(os, i)]
<1>1. /\ more \in Seq(O) /\ Len(more) = n + 1 /\ n \in Nat
      /\ DOMAIN ops = 1..n /\ DOMAIN more = 1..n + 1
      /\ more[n + 1] = op /\ \A i \in 1..n : more[i] = ops[i]
  BY AppendProperties, LenProperties
<1>0. \A os \in Seq(O) : \A i \in DOMAIN os : OpClaims(os, i) \in Seq(S)
  BY OpClaimsTyped
<1> HIDE DEF n, more, S
<1>2. ASSUME NEW os \in Seq(O)
      PROVE  /\ q(os) \in Seq(Seq(S)) /\ Len(q(os)) = Len(os)
             /\ \A i \in 1..Len(os) : q(os)[i] = OpClaims(os, i)
  <2>1. Len(os) \in Nat /\ DOMAIN os = 1..Len(os)
    BY LenProperties
  <2>2. \A i \in 1..Len(os) : OpClaims(os, i) \in Seq(S)
    BY <1>0, <2>1
  <2>3. q(os) \in Seq(Seq(S))
    BY <2>1, <2>2, IsASeq
  <2>4. DOMAIN q(os) = 1..Len(os)
    BY <2>1
  <2>5. \A i \in 1..Len(os) : q(os)[i] = OpClaims(os, i)
    BY <2>1
  <2> DEFINE r == q(os)
  <2>6. Len(r) = Len(os)
    <3>1. r \in Seq(Seq(S)) /\ DOMAIN r = 1..Len(os)
      BY <2>3, <2>4
    <3> HIDE DEF r
    <3>2. DOMAIN r = 1..Len(r) /\ Len(r) \in Nat
      BY <3>1, LenProperties
    <3> QED BY <2>1, <3>1, <3>2
  <2> QED BY <2>3, <2>5, <2>6
<1>3. ASSUME NEW i \in 1..n PROVE OpClaims(more, i) = OpClaims(ops, i)
  <2>1. SubSeq(more, 1, i) = SubSeq(ops, 1, i)
    <3>1. i \in 1..Len(more) /\ i \in 1..Len(ops)
      BY <1>1 DEF n
    <3>2. /\ SubSeq(more, 1, i) \in Seq(O) /\ Len(SubSeq(more, 1, i)) = i
          /\ \A k \in 1..i : SubSeq(more, 1, i)[k] = more[k]
      BY <1>1, <3>1, SubSeqProperties
    <3>3. /\ SubSeq(ops, 1, i) \in Seq(O) /\ Len(SubSeq(ops, 1, i)) = i
          /\ \A k \in 1..i : SubSeq(ops, 1, i)[k] = ops[k]
      BY <1>1, <3>1, SubSeqProperties
    <3>4. \A k \in 1..i : more[k] = ops[k]
      BY <1>1
    <3> QED BY <3>2, <3>3, <3>4, SeqEqual
  <2> QED BY <1>1, <2>1 DEF OpClaims
<1>4. SubSeq(more, 1, n + 1) = more
  BY <1>1, SubSeqFull
<1> DEFINE last == OpClaims(more, n + 1)
<1>5. last \in Seq(S)
  BY <1>0, <1>1
<1>6. q(more) = Append(q(ops), last)
  <2> DEFINE u == q(ops)
             v == q(more)
             r == Append(u, last)
  <2>1. /\ u \in Seq(Seq(S)) /\ v \in Seq(Seq(S)) /\ Len(u) = n /\ Len(v) = n + 1
        /\ \A i \in 1..n : u[i] = OpClaims(ops, i)
        /\ \A i \in 1..n + 1 : v[i] = OpClaims(more, i)
    BY <1>1, <1>2 DEF n
  <2> HIDE DEF u, v
  <2>2. v[n + 1] = last
    BY <1>1, <2>1
  <2> HIDE DEF last
  <2>3. /\ r \in Seq(Seq(S)) /\ Len(r) = n + 1
        /\ \A i \in 1..n : r[i] = u[i]
        /\ r[n + 1] = last
    BY <1>1, <1>5, <2>1, AppendProperties
  <2>4. \A i \in 1..n + 1 : i \in 1..n \/ i = n + 1
    BY <1>1
  <2>5. \A i \in 1..n : v[i] = u[i]
    BY <1>1, <1>3, <2>1
  <2> HIDE DEF r
  <2>7. \A i \in 1..Len(v) : v[i] = r[i]
    BY <2>1, <2>2, <2>3, <2>4, <2>5
  <2>6. v = r
    BY <2>1, <2>3, <2>7, SeqEqual
  <2> QED BY <2>6 DEF r, u, v
<1>7. OpsSaid(more) = OpsSaid(ops) \o last /\ OpsSaid(ops) \in Seq(S)
  <2>1. q(ops) \in Seq(Seq(S))
    BY <1>2
  <2> HIDE DEF q, last
  <2>2. FlattenSeq(Append(q(ops), last)) = FlattenSeq(q(ops)) \o last /\ FlattenSeq(q(ops)) \in Seq(S)
    BY <1>5, <2>1, FlattenAppend
  <2> QED BY <1>6, <2>2 DEF OpsSaid, q
<1>8. OpsSaid(<<>>) = <<>>
  <2>1. [i \in DOMAIN <<>> |-> OpClaims(<<>>, i)] = <<>>
    OBVIOUS
  <2>2. FlattenSeq(<<>>) = <<>>
    BY EmptySeq DEF FlattenSeq
  <2> QED BY <2>1, <2>2 DEF OpsSaid
<1>9. op.isGroup => last = <<OpenClaim(GroupsOf(more))>>
  BY <1>1, <1>4 DEF OpClaims, OpenClaim
<1>10. ~op.isGroup => last = AttrClaims(GroupsOf(ops), Len(GroupsOf(ops)), op.attrs)
  <2>1. ~op.isGroup => GroupsOf(more) = GroupsOf(ops)
    BY GroupsAppend DEF more
  <2> QED BY <1>1, <1>4, <2>1 DEF OpClaims
<1> QED BY <1>7, <1>8, <1>9, <1>10 DEF more, S
\* What calls say is rooted, in groups that are being filled.
SaidWell(s, g, K) == Rooted(s, K) /\ InPath(s, g, Len(g), K)

\* Calls one after the other.
LEMMA OpsSaidWell ==
    ASSUME NEW K, NEW V, NEW A, AttrSet(A, K, V), NoVal \in V, NEW ops \in Seq(OpSet(A, K))
    PROVE  OpsSaid(ops) \in Seq(ClaimSet(K, V, A)) /\ SaidWell(OpsSaid(ops), GroupsOf(ops), K)
<1> DEFINE O == OpSet(A, K)
           S == ClaimSet(K, V, A)
           C == {os \in Seq(O) : OpsSaid(os) \in Seq(S) /\ SaidWell(OpsSaid(os), GroupsOf(os), K)}
<1>2. <<>> \in C
  <2>1. OpsSaid(<<>>) = <<>> /\ GroupsOf(<<>>) = <<>>
    <3>1. [i \in DOMAIN <<>> |-> OpClaims(<<>>, i)] = <<>>
      OBVIOUS
    <3>3. FlattenSeq(<<>>) = <<>>
      BY EmptySeq DEF FlattenSeq
    <3> QED BY <3>1, <3>3, NoGroups DEF OpsSaid
  <2>2. Rooted(<<>>, K)
    BY DEF Rooted
  <2>3. InPath(<<>>, <<>>, Len(<<>>), K)
    <3>1. \A q \in Paths(K) : q # <<>> /\ ~Below(q, <<>>)
      BY EmptySeq, LenProperties DEF Paths, Below
    <3> QED BY <3>1 DEF InPath
  <2> QED BY <2>1, <2>2, <2>3, EmptySeq DEF SaidWell
<1>3. ASSUME NEW os \in Seq(O), NEW op \in O, os \in C PROVE Append(os, op) \in C
  <2> DEFINE s == OpsSaid(os)
             g == GroupsOf(os)
             t == OpsSaid(Append(os, op))
             h == GroupsOf(Append(os, op))
  <2>1. s \in Seq(S) /\ Rooted(s, K) /\ InPath(s, g, Len(g), K)
    BY <1>3 DEF SaidWell
  <2>2. /\ op.isGroup => h = Append(g, op.group)
        /\ ~op.isGroup => h = g
    BY GroupsAppend
  <2>3. /\ op.isGroup => t = s \o <<OpenClaim(h)>>
        /\ ~op.isGroup => t = s \o AttrClaims(g, Len(g), op.attrs)
    BY OpsSaidAppend
  <2>4. Append(os, op) \in Seq(O)
    BY AppendProperties
  <2>5. g \in Seq(K) /\ AllNamed(g) /\ h \in Seq(K) /\ AllNamed(h) /\ Len(g) \in Nat /\ Len(h) \in Nat
    BY <2>4, GroupsNamed, LenProperties
  <2>6. op.group \in K /\ op.attrs \in Seq(A)
    BY DEF OpSet
  <2> HIDE DEF s, g, t, h
  <2>7. CASE op.isGroup
    <3>1. h \in Paths(K) /\ h = Append(g, op.group) /\ Len(h) = Len(g) + 1
      BY <2>2, <2>5, <2>6, <2>7, AppendProperties, EmptySeq DEF Paths
    <3>2. \A q \in Paths(K) : Below(q, h) <=> (q = g \/ Below(q, g))
      BY <2>5, <2>6, <3>1, BelowAppend
    <3>3. PICK c \in S : /\ c = OpenClaim(h) /\ c.path = h /\ c.base = Len(h) /\ c.kind = "open"
      BY <2>5, <3>1, OpenClaimTyped DEF Paths
    <3>4. t = Append(s, c)
      BY <2>1, <2>3, <2>7, <3>3, ConcatAppend
    <3>5. \A q \in Paths(K) : Below(q, h) =>
              /\ Shorter(Len(q), Len(h)) = Shorter(Len(q), Len(g))
              /\ Within(s, q, Shorter(Len(q), Len(h)))
      <4> TAKE q \in Paths(K)
      <4> SUFFICES ASSUME Below(q, h)
                   PROVE  /\ Shorter(Len(q), Len(h)) = Shorter(Len(q), Len(g))
                          /\ Within(s, q, Shorter(Len(q), Len(h)))
        OBVIOUS
      <4>1. Len(q) \in Nat /\ Len(q) < Len(h)
        BY LenProperties DEF Paths, Below
      <4>2. Shorter(Len(q), Len(h)) = Shorter(Len(q), Len(g))
        BY <2>5, <3>1, <4>1 DEF Shorter
      <4> QED BY <2>1, <3>2, <4>2 DEF InPath
    <3>6. Follows(s, c, K)
      BY <3>3, <3>5 DEF Follows
    <3>7. Rooted(t, K)
      BY <2>1, <3>4, <3>6, RootedAppend
    <3>8. InPath(t, h, Len(h), K)
      <4> SUFFICES ASSUME NEW q \in Paths(K), q = h \/ Below(q, h)
                   PROVE  Within(t, q, Shorter(Len(q), Len(h)))
        BY DEF InPath
      <4>1. CASE q = h
        <5>1. Shorter(Len(h), Len(h)) = Len(h)
          BY DEF Shorter
        <5> QED BY <2>1, <3>3, <3>4, <4>1, <5>1, WithinAppend
      <4>2. CASE Below(q, h)
        BY <2>1, <3>3, <3>4, <3>5, <4>2, WithinAppend
      <4> QED BY <4>1, <4>2
    <3>9. t \in Seq(S)
      BY <2>1, <3>4, AppendProperties
    <3> QED BY <2>4, <3>7, <3>8, <3>9 DEF SaidWell, t, h
  <2>8. CASE ~op.isGroup
    <3>4. PICK b \in Nat : b = Len(g)
      BY <2>5
    <3>5. PICK as \in Seq(A) : as = op.attrs
      BY <2>6
    <3>1. Named(g, b) /\ InPath(s, g, b, K) /\ Rooted(s, K) /\ s \in Seq(S) /\ g \in Seq(K)
      BY <2>1, <2>5, <3>4 DEF AllNamed, Named
    <3>6. /\ s \o AttrClaims(g, b, as) \in Seq(S)
          /\ Rooted(s \o AttrClaims(g, b, as), K)
          /\ Kept(s, s \o AttrClaims(g, b, as), g, K)
      BY <3>1, AttrBlock
    <3>7. t = s \o AttrClaims(g, b, as)
      BY <2>3, <2>8, <3>4, <3>5
    <3>2. t \in Seq(S) /\ Rooted(t, K) /\ Kept(s, t, g, K)
      BY <3>6, <3>7
    <3>3. InPath(t, g, Len(g), K)
      <4> SUFFICES ASSUME NEW q \in Paths(K), q = g \/ Below(q, g)
                   PROVE  Within(t, q, Shorter(Len(q), Len(g)))
        BY DEF InPath
      <4>1. Within(s, q, Shorter(Len(q), Len(g)))
        BY <2>1 DEF InPath
      <4>2. Shorter(Len(q), Len(g)) \in Nat
        BY <2>5, LenProperties DEF Shorter, Paths
      <4> QED BY <3>2, <4>1, <4>2 DEF Kept
    <3> QED BY <2>2, <2>4, <2>8, <3>2, <3>3 DEF SaidWell, t, h
  <2> QED BY <2>7, <2>8
<1>4. ops \in C
  <2> HIDE DEF C
  <2> QED BY <1>2, <1>3, AppendInduction
<1> QED BY <1>4

\* What calls and then a record say is rooted.
LEMMA ClaimsRooted ==
    ASSUME NEW K, NEW V, NEW A, AttrSet(A, K, V), NoVal \in V, NEW ops \in Seq(OpSet(A, K)),
           NEW as \in Seq(A)
    PROVE  Claims(ops, as) \in Seq(ClaimSet(K, V, A)) /\ Rooted(Claims(ops, as), K)
<1> DEFINE s == OpsSaid(ops)
           g == GroupsOf(ops)
<1>1. s \in Seq(ClaimSet(K, V, A)) /\ Rooted(s, K) /\ InPath(s, g, Len(g), K)
  BY OpsSaidWell DEF SaidWell
<1>2. g \in Seq(K) /\ Len(g) \in Nat /\ Named(g, Len(g))
  BY GroupsNamed, LenProperties DEF AllNamed, Named
<1> HIDE DEF s, g
<1>3. PICK b \in Nat : b = Len(g)
  BY <1>2
<1>4. Named(g, b) /\ InPath(s, g, b, K)
  BY <1>1, <1>2, <1>3
<1>5. Claims(ops, as) = s \o AttrClaims(g, b, as)
  BY <1>3 DEF Claims, OpsSaid, s, g
<1>6. /\ s \o AttrClaims(g, b, as) \in Seq(ClaimSet(K, V, A))
      /\ Rooted(s \o AttrClaims(g, b, as), K)
  BY <1>1, <1>2, <1>4, AttrBlock
<1> QED BY <1>5, <1>6

-----------------------------------------------------------------------------
(* Taken apart and settled, rooted claims stay rooted.                       *)

\* t says what u does and then the claim c, or what c stands for.
Extended(u, t, c, K) ==
    /\ Rooted(t, K)
    /\ \A q \in Paths(K), b \in Nat : Within(u, q, b) /\ Below(q, c.path) => Within(t, q, b)
    /\ c.kind = "open" => Within(t, c.path, c.base)

\* One claim more.
LEMMA ExtendOne ==
    ASSUME NEW K, NEW V, NEW A, NEW c \in ClaimSet(K, V, A), NEW u \in Seq(ClaimSet(K, V, A)),
           Rooted(u, K), Follows(u, c, K)
    PROVE  u \o <<c>> \in Seq(ClaimSet(K, V, A)) /\ Extended(u, u \o <<c>>, c, K)
<1>1. u \o <<c>> = Append(u, c) /\ Append(u, c) \in Seq(ClaimSet(K, V, A))
  BY ConcatAppend, AppendProperties
<1>2. Rooted(Append(u, c), K)
  BY RootedAppend
<1>3. \A q, b : Within(Append(u, c), q, b) <=>
                    \/ c.path = q /\ c.kind = "open" /\ c.base = b
                    \/ Within(u, q, b) /\ Below(q, c.path)
  BY WithinAppend
<1> QED BY <1>1, <1>2, <1>3 DEF Extended

\* A claim taken apart.
LEMMA TakenApartWell ==
    ASSUME NEW K, NEW V, NEW A, AttrSet(A, K, V), NEW c \in ClaimSet(K, V, A),
           NEW u \in Seq(ClaimSet(K, V, A)), Rooted(u, K), Follows(u, c, K)
    PROVE  /\ TakenApart(c) \in Seq(ClaimSet(K, V, A))
           /\ Extended(u, u \o TakenApart(c), c, K)
<1> DEFINE S == ClaimSet(K, V, A)
<1>1. /\ c.path \in Paths(K) /\ c.path \in Seq(K) /\ c.base \in Nat /\ c.base <= Len(c.path)
      /\ c.members \in Seq(A) /\ Len(c.path) \in Nat /\ Named(c.path, c.base)
  BY LenProperties DEF ClaimSet, Paths, Named
<1>2. CASE c.kind # "group"
  <2>1. TakenApart(c) = <<c>>
    BY <1>2 DEF TakenApart
  <2>2. <<c>> \in Seq(S)
    OBVIOUS
  <2> QED BY <2>1, <2>2, ExtendOne
<1>3. CASE c.kind = "group" /\ c.members = <<>>
  <2>1. TakenApart(c) = <<>> /\ u \o <<>> = u /\ <<>> \in Seq(S)
    BY <1>3, ConcatEmptySeq, EmptySeq DEF TakenApart
  <2>2. Extended(u, u, c, K)
    BY <1>3 DEF Extended
  <2> QED BY <2>1, <2>2
<1>4. CASE c.kind = "group" /\ c.members # <<>>
  <2>1. PICK o : o = [c EXCEPT !.kind = "open", !.members = <<>>]
    OBVIOUS
  <2>2. /\ o.path = c.path /\ o.base = c.base /\ o.kind = "open" /\ o.val = c.val
        /\ o.members = <<>>
    BY <2>1 DEF ClaimSet
  <2>3. o \in S
    <3>1. <<>> \in Seq(A)
      BY EmptySeq
    <3>2. o \in [path : Paths(K), base : Nat, kind : {"open", "scalar", "group", "valuer"},
                 val : V, members : Seq(A)]
      BY <2>1, <3>1 DEF ClaimSet
    <3>3. ~IsLeaf(o)
      BY <2>2 DEF IsLeaf
    <3>4. \A k \in 1..c.base : c.path[k] # NoKey
      BY DEF ClaimSet
    <3> QED BY <1>1, <2>2, <3>2, <3>3, <3>4 DEF ClaimSet
  <2>4. TakenApart(c) = <<o>> \o AttrClaims(c.path, c.base, c.members)
    BY <1>4, <2>1 DEF TakenApart
  <2>5. Follows(u, o, K)
    BY <2>2 DEF Follows
  <2>6. PICK t \in Seq(S) : t = u \o <<o>>
    BY <2>3, ExtendOne, <2>5
  <2>7. Extended(u, t, o, K)
    BY <2>3, <2>5, <2>6, ExtendOne
  <2>8. PICK p \in Seq(K), b \in Nat, as \in Seq(A) : p = c.path /\ b = c.base /\ as = c.members
    BY <1>1
  <2>9. InPath(t, p, b, K)
    <3> SUFFICES ASSUME NEW q \in Paths(K), q = p \/ Below(q, p)
                 PROVE  Within(t, q, Shorter(Len(q), b))
      BY DEF InPath
    <3>1. CASE q = p
      <4>1. Shorter(Len(q), b) = b
        BY <1>1, <2>8, <3>1 DEF Shorter
      <4> QED BY <2>2, <2>7, <2>8, <3>1, <4>1 DEF Extended
    <3>2. CASE Below(q, p)
      <4>1. Within(u, q, Shorter(Len(q), b))
        BY <2>8, <3>2 DEF Follows
      <4>2. Shorter(Len(q), b) \in Nat
        BY LenProperties DEF Shorter, Paths
      <4> QED BY <2>2, <2>7, <2>8, <3>2, <4>1, <4>2 DEF Extended
    <3> QED BY <3>1, <3>2
  <2>10. Rooted(t, K) /\ Named(p, b)
    BY <1>1, <2>7, <2>8 DEF Extended
  <2> HIDE DEF S
  <2>11. /\ AttrClaims(p, b, as) \in Seq(S) /\ Rooted(t \o AttrClaims(p, b, as), K)
         /\ Kept(t, t \o AttrClaims(p, b, as), p, K)
    BY <2>9, <2>10, AttrBlock DEF S
  <2>12. PICK x \in Seq(S) : x = AttrClaims(p, b, as)
    BY <2>11
  <2>13. <<o>> \in Seq(S) /\ TakenApart(c) = <<o>> \o x
    BY <2>3, <2>4, <2>8, <2>12
  <2>14. u \in Seq(S)
    BY DEF S
  <2>15. <<o>> \o x \in Seq(S) /\ u \o (<<o>> \o x) = t \o x
    <3>1. PICK z \in Seq(S) : z = <<o>>
      BY <2>13
    <3>2. z \o x \in Seq(S) /\ u \o (z \o x) = (u \o z) \o x
      BY <2>14, ConcatProperties, ConcatAssociative, SMTT(20)
    <3> QED BY <2>6, <3>1, <3>2
  <2>16. Extended(u, t \o x, c, K)
    <3>1. \A q \in Paths(K), d \in Nat : Within(u, q, d) /\ Below(q, c.path) => Within(t \o x, q, d)
      BY <2>2, <2>7, <2>8, <2>11, <2>12 DEF Extended, Kept
    <3> QED BY <1>4, <2>11, <2>12, <3>1 DEF Extended
  <2> QED BY <2>13, <2>15, <2>16 DEF S
<1> QED BY <1>2, <1>3, <1>4

\* A claim resolved stays where it is.
LEMMA ResolvedWell ==
    ASSUME NEW K, NEW V, NEW A, NEW c \in ClaimSet(K, V, A)
    PROVE  /\ Resolved(c) \in ClaimSet(K, V, A) /\ Resolved(c).path = c.path
           /\ Resolved(c).base = c.base /\ (Resolved(c).kind = "open" <=> c.kind = "open")
<1>1. CASE c.kind # "valuer"
  BY <1>1 DEF Resolved
<1>2. CASE c.kind = "valuer"
  <2>1. PICK k \in {"group", "scalar"} : k = IF c.val = NoVal THEN "group" ELSE "scalar"
    OBVIOUS
  <2>2. Resolved(c) = [c EXCEPT !.kind = k]
    BY <1>2, <2>1 DEF Resolved
  <2>3. c \in [path : Paths(K), base : Nat, kind : {"open", "scalar", "group", "valuer"},
               val : V, members : Seq(A)]
    BY DEF ClaimSet
  <2>4. PICK d : d = [c EXCEPT !.kind = k]
    OBVIOUS
  <2>5. /\ d.path = c.path /\ d.base = c.base /\ d.kind = k
        /\ d \in [path : Paths(K), base : Nat, kind : {"open", "scalar", "group", "valuer"},
               val : V, members : Seq(A)]
    BY <2>3, <2>4
  <2>6. IsLeaf(c) /\ IsLeaf(d)
    BY <1>2, <2>5 DEF IsLeaf
  <2>7. d \in ClaimSet(K, V, A)
    BY <2>5, <2>6 DEF ClaimSet
  <2> QED BY <1>2, <2>2, <2>4, <2>5, <2>7
<1> QED BY <1>1, <1>2

\* What f makes of claims is in their place.
Expands(f, S, K) ==
    \A c \in S, u \in Seq(S) :
        Rooted(u, K) /\ Follows(u, c, K) => Extended(u, u \o f[c], c, K)

\* One round over all claims.
LEMMA SpreadWell ==
    ASSUME NEW K, NEW V, NEW A, NEW f \in [ClaimSet(K, V, A) -> Seq(ClaimSet(K, V, A))],
           Expands(f, ClaimSet(K, V, A), K), NEW cs \in Seq(ClaimSet(K, V, A)), Rooted(cs, K)
    PROVE  Spread(f, cs) \in Seq(ClaimSet(K, V, A)) /\ Rooted(Spread(f, cs), K)
<1> DEFINE S == ClaimSet(K, V, A)
           Stay(s) == \A q \in Paths(K), b \in Nat : Within(s, q, b) => Within(Spread(f, s), q, b)
           C == {s \in Seq(S) : Rooted(s, K) => Rooted(Spread(f, s), K) /\ Stay(s)}
<1>0. /\ Spread(f, <<>>) = <<>> /\ \A p \in Seq(S) : Spread(f, p) \in Seq(S)
      /\ \A p \in Seq(S), x \in S : Spread(f, Append(p, x)) = Spread(f, p) \o f[x]
  BY SpreadSteps
<1>1. <<>> \in C
  BY <1>0, EmptySeq DEF Rooted, Within
<1>2. ASSUME NEW s \in Seq(S), NEW c \in S, s \in C PROVE Append(s, c) \in C
  <2>1. Append(s, c) \in Seq(S)
    BY AppendProperties
  <2>2. SUFFICES ASSUME Rooted(Append(s, c), K)
                 PROVE  Rooted(Spread(f, Append(s, c)), K) /\ Stay(Append(s, c))
    BY <2>1
  <2>3. Rooted(s, K) /\ Follows(s, c, K)
    BY <2>2, RootedAppend
  <2>4. PICK u \in Seq(S) : u = Spread(f, s)
    BY <1>0
  <2>5. Rooted(u, K) /\ \A q \in Paths(K), b \in Nat : Within(s, q, b) => Within(u, q, b)
    BY <1>2, <2>3, <2>4
  <2>6. Follows(u, c, K)
    <3>1. \A q \in Paths(K) : Shorter(Len(q), c.base) \in Nat
      BY LenProperties DEF Shorter, Paths, ClaimSet
    <3> QED BY <2>3, <2>5, <3>1 DEF Follows
  <2>7. Extended(u, u \o f[c], c, K) /\ Spread(f, Append(s, c)) = u \o f[c]
    BY <1>0, <2>4, <2>5, <2>6 DEF Expands
  <2>8. ASSUME NEW q \in Paths(K), NEW b \in Nat, Within(Append(s, c), q, b)
        PROVE  Within(u \o f[c], q, b)
    <3>1. \/ c.path = q /\ c.kind = "open" /\ c.base = b
          \/ Within(s, q, b) /\ Below(q, c.path)
      BY <2>8, WithinAppend
    <3> QED BY <2>5, <2>7, <3>1 DEF Extended
  <2> QED BY <2>7, <2>8 DEF Extended
<1>3. cs \in C
  <2> HIDE DEF C
  <2> QED BY <1>1, <1>2, AppendInduction
<1> QED BY <1>0, <1>3

\* Claims with the same paths and bases are as rooted as one another.
LEMMA RootedSame ==
    ASSUME NEW K, NEW s, NEW t, Rooted(s, K), DOMAIN t = DOMAIN s,
           \A i \in DOMAIN s : t[i].path = s[i].path, \A i \in DOMAIN s : t[i].base = s[i].base,
           \A i \in DOMAIN s : t[i].kind = "open" <=> s[i].kind = "open"
    PROVE  Rooted(t, K)
<1>1. ASSUME NEW i \in DOMAIN t, NEW q \in Paths(K), Below(q, t[i].path)
      PROVE  \E j \in DOMAIN t :
                 /\ j < i /\ t[j].path = q /\ t[j].kind = "open"
                 /\ t[j].base = Shorter(Len(q), t[i].base)
                 /\ \A k \in DOMAIN t : j < k /\ k < i => Below(q, t[k].path)
  <2>1. i \in DOMAIN s /\ Below(q, s[i].path)
    BY <1>1
  <2>2. PICK j \in DOMAIN s :
            /\ j < i /\ s[j].path = q /\ s[j].kind = "open"
            /\ s[j].base = Shorter(Len(q), s[i].base)
            /\ \A k \in DOMAIN s : j < k /\ k < i => Below(q, s[k].path)
    BY <2>1 DEF Rooted
  <2>3. j \in DOMAIN t /\ t[j].path = q /\ t[j].base = Shorter(Len(q), t[i].base)
    BY <2>1, <2>2
  <2>4. t[j].kind = "open"
    BY <2>2
  <2>5. \A k \in DOMAIN t : j < k /\ k < i => Below(q, t[k].path)
    BY <2>2
  <2> QED BY <2>2, <2>3, <2>4, <2>5
<1> QED BY <1>1, Zenon DEF Rooted

\* Claims taken apart by one level are rooted.
LEMMA OneLevelRooted ==
    ASSUME NEW K, NEW V, NEW A, AttrSet(A, K, V), NEW cs \in Seq(ClaimSet(K, V, A)), Rooted(cs, K)
    PROVE  OneLevel(cs) \in Seq(ClaimSet(K, V, A)) /\ Rooted(OneLevel(cs), K)
<1> DEFINE S == ClaimSet(K, V, A)
           f == [c \in S |-> TakenApart(c)]
<1>1. \A c \in S : TakenApart(c) \in Seq(S)
  <2> TAKE c \in S
  <2>1. <<>> \in Seq(S)
    BY EmptySeq
  <2>2. CASE c.kind = "group" /\ c.members # <<>>
    <3>1. PICK o : o = [c EXCEPT !.kind = "open", !.members = <<>>]
      OBVIOUS
    <3>2. o \in S
      <4>1. /\ o.path = c.path /\ o.base = c.base /\ o.kind = "open"
            /\ o \in [path : Paths(K), base : Nat, kind : {"open", "scalar", "group", "valuer"},
                      val : V, members : Seq(A)]
        BY <3>1, EmptySeq DEF ClaimSet
      <4>2. c.base <= Len(c.path) /\ \A k \in 1..c.base : c.path[k] # NoKey
        BY DEF ClaimSet
      <4> QED BY <4>1, <4>2 DEF ClaimSet, IsLeaf
    <3>3. c.path \in Seq(K) /\ c.base \in Nat /\ Named(c.path, c.base) /\ c.members \in Seq(A)
      BY DEF ClaimSet, Paths, Named
    <3>4. AttrClaims(c.path, c.base, c.members) \in Seq(S)
      BY <3>3, AttrClaimsSteps
    <3>5. TakenApart(c) = <<o>> \o AttrClaims(c.path, c.base, c.members)
      BY <2>2, <3>1 DEF TakenApart
    <3>6. <<o>> \in Seq(S)
      BY <3>2
    <3> QED BY <3>4, <3>5, <3>6, ConcatProperties
  <2>3. CASE ~(c.kind = "group" /\ c.members # <<>>)
    BY <2>1, <2>3 DEF TakenApart
  <2> QED BY <2>2, <2>3
<1>2. f \in [S -> Seq(S)]
  BY <1>1
<1>3. \A c \in S : f[c] = TakenApart(c)
  OBVIOUS
<1>4. OneLevel(cs) = Spread(f, cs)
  <2>1. \A i \in DOMAIN cs : cs[i] \in S
    BY LenProperties, ElementOfSeq
  <2> QED BY <1>3, <2>1 DEF OneLevel, Spread
<1> HIDE DEF f
<1>5. Expands(f, S, K)
  BY <1>3, TakenApartWell DEF Expands
<1> QED BY <1>2, <1>4, <1>5, SpreadWell

\* So are claims resolved and taken apart.
LEMMA OneResolvedRooted ==
    ASSUME NEW K, NEW V, NEW A, AttrSet(A, K, V), NEW cs \in Seq(ClaimSet(K, V, A)), Rooted(cs, K)
    PROVE  OneResolved(cs) \in Seq(ClaimSet(K, V, A)) /\ Rooted(OneResolved(cs), K)
<1> DEFINE S == ClaimSet(K, V, A)
           w == [c \in S |-> Resolved(c)]
           r == Mapped(w, cs)
<1>1. w \in [S -> S]
  BY ResolvedWell
<1>2. \A i \in DOMAIN cs : cs[i] \in S
  BY LenProperties, ElementOfSeq
<1>3. OneResolved(cs) = OneLevel(r)
  BY <1>2 DEF OneResolved, OneLevel, Mapped
<1>4. r \in Seq(S) /\ DOMAIN r = DOMAIN cs
  <2>1. DOMAIN r = DOMAIN cs
    BY DEF Mapped
  <2> HIDE DEF w
  <2> QED BY <1>1, <2>1, MappedSteps
<1>5. \A i \in DOMAIN cs : r[i] = Resolved(cs[i])
  BY <1>2 DEF Mapped
<1>7. \A i \in DOMAIN cs : /\ r[i].path = cs[i].path /\ r[i].base = cs[i].base
                           /\ (r[i].kind = "open" <=> cs[i].kind = "open")
  BY <1>2, <1>5, ResolvedWell
<1> HIDE DEF r, w
<1>6. Rooted(r, K)
  BY <1>4, <1>7, RootedSame
<1> QED BY <1>3, <1>4, <1>6, OneLevelRooted

\* A path without its empty keys, key by key.
LEMMA WithoutEmptySteps ==
    ASSUME NEW K
    PROVE  /\ WithoutEmpty(<<>>) = <<>>
           /\ \A p \in Seq(K) : WithoutEmpty(p) \in Seq(K)
           /\ \A p \in Seq(K), k \in K :
                 WithoutEmpty(Append(p, k))
                   = IF k = NoKey THEN WithoutEmpty(p) ELSE Append(WithoutEmpty(p), k)
<1> DEFINE f == [k \in K |-> IF k = NoKey THEN <<>> ELSE <<k>>]
<1>1. f \in [K -> Seq(K)]
  BY EmptySeq
<1>2. ASSUME NEW p \in Seq(K) PROVE WithoutEmpty(p) = Spread(f, p)
  <2>1. \A i \in DOMAIN p : p[i] \in K
    BY LenProperties, ElementOfSeq
  <2>2. [i \in DOMAIN p |-> IF p[i] = NoKey THEN <<>> ELSE <<p[i]>>] = [i \in DOMAIN p |-> f[p[i]]]
    BY <2>1
  <2> QED BY <2>2 DEF WithoutEmpty, Spread
<1>3. \A k \in K : f[k] = IF k = NoKey THEN <<>> ELSE <<k>>
  OBVIOUS
<1> HIDE DEF f
<1>4. /\ Spread(f, <<>>) = <<>> /\ \A p \in Seq(K) : Spread(f, p) \in Seq(K)
      /\ \A p \in Seq(K), x \in K : Spread(f, Append(p, x)) = Spread(f, p) \o f[x]
  BY <1>1, SpreadSteps
<1>5. ASSUME NEW p \in Seq(K), NEW k \in K
      PROVE  WithoutEmpty(Append(p, k))
               = IF k = NoKey THEN WithoutEmpty(p) ELSE Append(WithoutEmpty(p), k)
  <2>1. Append(p, k) \in Seq(K)
    BY AppendProperties
  <2>2. PICK u \in Seq(K) : u = WithoutEmpty(p)
    BY <1>2, <1>4
  <2>3. WithoutEmpty(Append(p, k)) = u \o f[k]
    BY <1>2, <1>4, <2>1, <2>2
  <2>4. u \o <<>> = u /\ u \o <<k>> = Append(u, k)
    BY ConcatAppend
  <2> QED BY <1>3, <2>2, <2>3, <2>4
<1> QED BY <1>2, <1>4, <1>5, EmptySeq

\* q is p or a proper prefix of it.
Upto(q, p) == q = p \/ Below(q, p)

\* A path is one key more than the path before it.
LEMMA PathEnd ==
    ASSUME NEW K, NEW p \in Paths(K)
    PROVE  /\ Front(p) \in Seq(K) /\ Last(p) \in K /\ p = Append(Front(p), Last(p))
           /\ Len(p) = Len(Front(p)) + 1 /\ Last(p) = p[Len(p)]
<1>1. p \in Seq(K) /\ p # <<>> /\ Len(p) \in Nat /\ Len(p) # 0
  BY LenProperties, EmptySeq DEF Paths
<1>2. Len(p) \in 1..Len(p)
  BY <1>1
<1>3. p = SubSeq(p, 1, Len(p) - 1) \o <<p[Len(p)]>> /\ SubSeq(p, 1, Len(p)) = p
  BY <1>1, <1>2, SubSeqRecursiveSecond, SubSeqFull
<1>4. SubSeq(p, 1, Len(p) - 1) \in Seq(K) /\ Len(SubSeq(p, 1, Len(p) - 1)) = Len(p) - 1
  <2>1. \A i \in 1..Len(p) - 1 : p[i] \in K
    BY <1>1, ElementOfSeq
  <2>2. Len(p) - 1 \in Nat
    BY <1>1
  <2>3. PICK n \in Nat : n = Len(p) - 1
    BY <2>2
  <2>4. SubSeq(p, 1, n) \in Seq(K) /\ Len(SubSeq(p, 1, n)) = n
    BY <1>1, <2>1, <2>3, SubSeqProperties
  <2> QED BY <2>3, <2>4
<1>5. p[Len(p)] \in K
  BY <1>1, <1>2, ElementOfSeq
<1>6. Front(p) = SubSeq(p, 1, Len(p) - 1) /\ Last(p) = p[Len(p)]
  BY DEF Front, Last
<1>7. PICK f \in Seq(K), k \in K : f = SubSeq(p, 1, Len(p) - 1) /\ k = p[Len(p)]
  BY <1>4, <1>5
<1>8. p = Append(f, k)
  BY <1>3, <1>7, AppendIsConcat
<1> QED BY <1>1, <1>4, <1>6, <1>7, <1>8

\* What is left of a path has what is left of its prefixes as its prefixes.
LEMMA WithoutEmptyPrefixes ==
    ASSUME NEW K, NEW p \in Seq(K)
    PROVE  /\ \A r \in Paths(K) : Upto(r, WithoutEmpty(p)) =>
                 \E q \in Paths(K) : Upto(q, p) /\ Last(q) # NoKey /\ WithoutEmpty(q) = r
           /\ \A q \in Paths(K) : Upto(q, p) /\ Last(q) # NoKey =>
                 Upto(WithoutEmpty(q), WithoutEmpty(p)) /\ WithoutEmpty(q) \in Paths(K)
<1> DEFINE From(s) == \A r \in Paths(K) : Upto(r, WithoutEmpty(s)) =>
                 \E q \in Paths(K) : Upto(q, s) /\ Last(q) # NoKey /\ WithoutEmpty(q) = r
           To(s) == \A q \in Paths(K) : Upto(q, s) /\ Last(q) # NoKey =>
                 Upto(WithoutEmpty(q), WithoutEmpty(s)) /\ WithoutEmpty(q) \in Paths(K)
           C == {s \in Seq(K) : From(s) /\ To(s)}
<1>1. <<>> \in C
  <2>1. \A r \in Paths(K) : ~Upto(r, <<>>)
    BY EmptySeq, LenProperties DEF Paths, Upto, Below
  <2> QED BY <2>1, WithoutEmptySteps, EmptySeq
<1>2. ASSUME NEW s \in Seq(K), NEW k \in K, s \in C PROVE Append(s, k) \in C
  <2> DEFINE t == Append(s, k)
  <2>1. t \in Paths(K) /\ \A q \in Paths(K) : Below(q, t) <=> Upto(q, s)
    BY BelowAppend DEF Upto
  <2>2. Last(t) = k
    <3>1. t[Len(t)] = k
      BY AppendProperties, LenProperties
    <3> QED BY <3>1 DEF Last
  <2>3. PICK u \in Seq(K) : u = WithoutEmpty(s)
    BY WithoutEmptySteps
  <2>4. PICK v \in Seq(K) : v = WithoutEmpty(t) /\ v = IF k = NoKey THEN u ELSE Append(u, k)
    BY <2>1, <2>3, WithoutEmptySteps DEF Paths
  <2>5. k # NoKey => v \in Paths(K) /\ \A q \in Paths(K) : Below(q, v) <=> Upto(q, u)
    BY <2>4, BelowAppend DEF Upto
  <2> HIDE DEF t
  <2>6. ASSUME NEW r \in Paths(K), Upto(r, v)
        PROVE  \E q \in Paths(K) : Upto(q, t) /\ Last(q) # NoKey /\ WithoutEmpty(q) = r
    <3>1. CASE k # NoKey /\ r = v
      BY <2>1, <2>2, <2>4, <3>1 DEF Upto
    <3>2. CASE Upto(r, u)
      BY <1>2, <2>1, <2>3, <3>2 DEF Upto
    <3> QED BY <2>4, <2>5, <2>6, <3>1, <3>2 DEF Upto
  <2>7. ASSUME NEW q \in Paths(K), Upto(q, t), Last(q) # NoKey
        PROVE  Upto(WithoutEmpty(q), v) /\ WithoutEmpty(q) \in Paths(K)
    <3>1. CASE q = t
      BY <2>2, <2>4, <2>5, <2>7, <3>1 DEF Upto
    <3>2. CASE Upto(q, s)
      <4>1. Upto(WithoutEmpty(q), u) /\ WithoutEmpty(q) \in Paths(K)
        BY <1>2, <2>3, <2>7, <3>2
      <4> QED BY <2>4, <2>5, <4>1 DEF Upto
    <3> QED BY <2>1, <2>7, <3>1, <3>2 DEF Upto
  <2>8. From(t) /\ To(t)
    BY <2>4, <2>6, <2>7
  <2>9. t \in Seq(K)
    BY <2>1 DEF Paths
  <2> HIDE DEF From, To
  <2> QED BY <2>8, <2>9 DEF t
<1>3. p \in C
  <2> HIDE DEF C
  <2> QED BY <1>1, <1>2, AppendInduction
<1> QED BY <1>3

\* The names that a path begins with are left in it.
Begins(w, p) ==
    Len(w) <= Len(p) /\ \A b \in Nat : Named(p, b) => b <= Len(w) /\ \A k \in 1..b : w[k] = p[k]

\* The part of a path that WithGroup opened stays as it is.
LEMMA WithoutEmptyBegins ==
    ASSUME NEW K, NEW p \in Seq(K)
    PROVE  Begins(WithoutEmpty(p), p)
<1> DEFINE C == {s \in Seq(K) : Begins(WithoutEmpty(s), s)}
<1>1. <<>> \in C
  <2>1. WithoutEmpty(<<>>) = <<>> /\ <<>> \in Seq(K) /\ Len(<<>>) = 0
    BY WithoutEmptySteps, EmptySeq
  <2> QED BY <2>1 DEF Begins, Named
<1>2. ASSUME NEW s \in Seq(K), NEW k \in K, s \in C PROVE Append(s, k) \in C
  <2> DEFINE t == Append(s, k)
  <2>1. /\ t \in Seq(K) /\ Len(t) = Len(s) + 1 /\ Len(s) \in Nat
        /\ t[Len(s) + 1] = k /\ \A i \in 1..Len(s) : t[i] = s[i]
    BY AppendProperties, LenProperties
  <2>2. PICK u \in Seq(K) : u = WithoutEmpty(s)
    BY WithoutEmptySteps
  <2>3. PICK v \in Seq(K) : v = WithoutEmpty(t) /\ v = IF k = NoKey THEN u ELSE Append(u, k)
    BY <2>1, <2>2, WithoutEmptySteps
  <2>4. Begins(u, s) /\ Len(u) \in Nat
    BY <1>2, <2>2, LenProperties
  <2>5. /\ Append(u, k) \in Seq(K) /\ Len(Append(u, k)) = Len(u) + 1
        /\ Append(u, k)[Len(u) + 1] = k /\ \A i \in 1..Len(u) : Append(u, k)[i] = u[i]
    BY AppendProperties
  <2>6. \A i \in 1..Len(s) + 1 : i \in 1..Len(s) \/ i = Len(s) + 1
    BY <2>1
  <2> HIDE DEF t
  <2>7. Len(v) <= Len(t)
    BY <2>1, <2>3, <2>4, <2>5 DEF Begins
  <2>8. ASSUME NEW b \in Nat, Named(t, b)
        PROVE  b <= Len(v) /\ \A i \in 1..b : v[i] = t[i]
    <3>1. CASE b <= Len(s)
      <4>1. Named(s, b)
        <5>1. \A i \in 1..b : i \in 1..Len(s)
          BY <2>1, <3>1
        <5> QED BY <2>1, <2>8, <3>1, <5>1 DEF Named
      <4>2. b <= Len(u) /\ \A i \in 1..b : u[i] = s[i]
        BY <2>4, <4>1 DEF Begins
      <4>3. \A i \in 1..b : v[i] = u[i]
        BY <2>3, <2>4, <2>5, <4>2
      <4>4. Len(u) <= Len(v)
        BY <2>3, <2>4, <2>5
      <4> QED BY <2>1, <2>3, <2>4, <2>5, <3>1, <4>2, <4>3, <4>4
    <3>2. CASE b = Len(s) + 1
      <4>1. k # NoKey
        BY <2>1, <2>8, <3>2 DEF Named
      <4>2. Named(s, Len(s))
        BY <2>1, <2>8, <3>2 DEF Named
      <4>3. Len(s) <= Len(u) /\ \A i \in 1..Len(s) : u[i] = s[i]
        BY <2>1, <2>4, <4>2 DEF Begins
      <4>4. Len(u) = Len(s)
        BY <2>1, <2>4, <4>3 DEF Begins
      <4> QED BY <2>1, <2>3, <2>5, <2>6, <3>2, <4>1, <4>3, <4>4
    <3> QED BY <2>1, <2>8, <3>1, <3>2 DEF Named
  <2>9. Begins(v, t)
    BY <2>7, <2>8 DEF Begins
  <2> QED BY <2>1, <2>3, <2>9 DEF t
<1>3. p \in C
  <2> HIDE DEF C
  <2> QED BY <1>1, <1>2, AppendInduction
<1> QED BY <1>3

\* The path of a claim when the groups with an empty key are inlined.
Settles(p) == Append(WithoutEmpty(Front(p)), Last(p))

\* What is below it.
LEMMA SettlesBelow ==
    ASSUME NEW K, NEW p \in Paths(K)
    PROVE  /\ Settles(p) \in Paths(K)
           /\ Last(p) # NoKey => Settles(p) = WithoutEmpty(p)
           /\ \A r \in Paths(K) : Below(r, Settles(p)) =>
                 \E q \in Paths(K) : Below(q, p) /\ Last(q) # NoKey /\ WithoutEmpty(q) = r
           /\ \A q \in Paths(K) : Below(q, p) /\ Last(q) # NoKey =>
                 WithoutEmpty(q) \in Paths(K) /\ Below(WithoutEmpty(q), Settles(p))
<1>1. PICK f \in Seq(K), k \in K : f = Front(p) /\ k = Last(p) /\ p = Append(f, k)
  BY PathEnd
<1>2. PICK u \in Seq(K) : u = WithoutEmpty(f)
  BY WithoutEmptySteps
<1>3. Settles(p) = Append(u, k)
  BY <1>1, <1>2 DEF Settles
<1>4. /\ Append(u, k) \in Paths(K)
      /\ \A q \in Paths(K) : Below(q, Append(u, k)) <=> Upto(q, u)
      /\ \A q \in Paths(K) : Below(q, Append(f, k)) <=> Upto(q, f)
  BY BelowAppend DEF Upto
<1>5. Last(p) # NoKey => Settles(p) = WithoutEmpty(p)
  BY <1>1, <1>2, <1>3, WithoutEmptySteps
<1>6. /\ \A r \in Paths(K) : Upto(r, u) =>
            \E q \in Paths(K) : Upto(q, f) /\ Last(q) # NoKey /\ WithoutEmpty(q) = r
      /\ \A q \in Paths(K) : Upto(q, f) /\ Last(q) # NoKey =>
            Upto(WithoutEmpty(q), u) /\ WithoutEmpty(q) \in Paths(K)
  BY <1>2, WithoutEmptyPrefixes
<1> QED BY <1>1, <1>3, <1>4, <1>5, <1>6

\* A group on the way to a path is inside the part opened by WithGroup, or it is not.
LEMMA SettlesBase ==
    ASSUME NEW K, NEW p \in Paths(K), NEW q \in Paths(K), Below(q, p), Last(q) # NoKey,
           NEW b \in Nat, Named(p, b)
    PROVE  Shorter(Len(WithoutEmpty(q)), b) = Shorter(Len(q), b)
<1>1. q \in Seq(K) /\ Len(q) \in Nat /\ Len(p) \in Nat
  BY LenProperties DEF Paths
<1>2. PICK f \in Seq(K), k \in K : k = Last(q) /\ q = Append(f, k) /\ Len(q) = Len(f) + 1
  BY PathEnd
<1>3. PICK u \in Seq(K), w \in Seq(K) : u = WithoutEmpty(f) /\ w = WithoutEmpty(q) /\ w = Append(u, k)
  <2>1. WithoutEmpty(f) \in Seq(K) /\ WithoutEmpty(q) \in Seq(K)
    BY <1>1, WithoutEmptySteps
  <2>2. WithoutEmpty(q) = Append(WithoutEmpty(f), k)
    BY <1>2, WithoutEmptySteps
  <2> QED BY <2>1, <2>2
<1>4. /\ Begins(u, f) /\ Begins(w, q) /\ Len(w) \in Nat /\ Len(u) \in Nat /\ Len(f) \in Nat
      /\ Len(w) = Len(u) + 1
  BY <1>1, <1>3, WithoutEmptyBegins, LenProperties, AppendProperties, ZenonT(30)
<1>5. \A i \in 1..Len(q) : q[i] = p[i]
  BY DEF Below
<1>6. CASE Len(q) <= b
  <2>1. \A i \in 1..Len(q) : i \in 1..b
    BY <1>1, <1>6
  <2>2. Named(q, Len(q))
    BY <1>1, <1>5, <2>1 DEF Named
  <2>3. Len(w) = Len(q)
    BY <1>1, <1>4, <2>2 DEF Begins
  <2> QED BY <1>3, <2>3
<1>7. CASE b < Len(q)
  <2>1. b <= Len(f) /\ \A i \in 1..b : i \in 1..Len(f) /\ i \in 1..Len(q)
    BY <1>2, <1>4, <1>7
  <2>2. \A i \in 1..b : f[i] = q[i]
    BY <1>2, <2>1, AppendProperties
  <2>3. Named(f, b)
    BY <1>5, <2>1, <2>2 DEF Named
  <2>4. b <= Len(u)
    BY <1>4, <2>3 DEF Begins
  <2>5. ~(Len(w) < b) /\ ~(Len(q) < b)
    BY <1>1, <1>4, <1>7, <2>4
  <2> QED BY <1>3, <2>5 DEF Shorter
<1> QED BY <1>1, <1>6, <1>7

\* A claim is dropped, or it stays with what is left of its path.
LEMMA InlinedWell ==
    ASSUME NEW K, NEW V, NEW A, NEW c \in ClaimSet(K, V, A)
    PROVE  \/ Inlined(c) = <<>> /\ (c.kind = "open" => Last(c.path) = NoKey)
           \/ \E d \in ClaimSet(K, V, A) :
                 /\ Inlined(c) = <<d>> /\ d.path = Settles(c.path) /\ d.base = c.base
                 /\ d.kind = c.kind /\ d.val = c.val
<1>1. CASE Last(c.path) = NoKey /\ (c.kind = "open" \/ c.val = NoVal)
  BY <1>1 DEF Inlined
<1>2. CASE ~(Last(c.path) = NoKey /\ (c.kind = "open" \/ c.val = NoVal))
  <2>1. PICK d : d = [c EXCEPT !.path = Settles(c.path)]
    OBVIOUS
  <2>2. Inlined(c) = <<d>>
    BY <1>2, <2>1 DEF Inlined, Settles
  <2>3. /\ c.path \in Paths(K) /\ c.path \in Seq(K) /\ c.base \in Nat /\ c.base <= Len(c.path)
        /\ Len(c.path) \in Nat /\ (IsLeaf(c) => c.base < Len(c.path))
        /\ \A i \in 1..c.base : c.path[i] # NoKey
    BY LenProperties DEF ClaimSet, Paths
  <2>4. PICK p \in Paths(K), b \in Nat : p = c.path /\ b = c.base
    BY <2>3
  <2>5. Settles(p) \in Paths(K)
    BY SettlesBelow
  <2>6. /\ d \in [path : Paths(K), base : Nat, kind : {"open", "scalar", "group", "valuer"},
                  val : V, members : Seq(A)]
        /\ d.path = Settles(p) /\ d.base = b /\ d.kind = c.kind /\ d.val = c.val
    BY <2>1, <2>4, <2>5 DEF ClaimSet
  <2>7. PICK f \in Seq(K), k \in K : f = Front(p) /\ k = Last(p) /\ p = Append(f, k)
                                     /\ Len(p) = Len(f) + 1
    BY PathEnd
  <2>8. PICK u \in Seq(K) : u = WithoutEmpty(f)
    BY WithoutEmptySteps
  <2>9. Settles(p) = Append(u, k)
    BY <2>7, <2>8 DEF Settles
  <2>10. Begins(u, f) /\ Len(u) \in Nat /\ Len(f) \in Nat
    BY <2>8, WithoutEmptyBegins, LenProperties
  <2>11. /\ Len(Append(u, k)) = Len(u) + 1 /\ Append(u, k)[Len(u) + 1] = k
         /\ \A i \in 1..Len(u) : Append(u, k)[i] = u[i]
         /\ \A i \in 1..Len(f) : p[i] = f[i]
         /\ p[Len(f) + 1] = k
    BY <2>7, <2>10, AppendProperties
  <2>12. ASSUME b <= Len(f)
         PROVE  b < Len(Append(u, k)) /\ \A i \in 1..b : Append(u, k)[i] # NoKey
    <3>1. \A i \in 1..b : i \in 1..Len(f)
      BY <2>10, <2>12
    <3>2. Named(f, b)
      BY <2>3, <2>4, <2>11, <2>12, <3>1 DEF Named
    <3>3. b <= Len(u) /\ \A i \in 1..b : u[i] = f[i]
      BY <2>10, <3>2 DEF Begins
    <3>4. \A i \in 1..b : i \in 1..Len(u)
      BY <2>10, <3>3
    <3> QED BY <2>3, <2>4, <2>10, <2>11, <3>1, <3>3, <3>4
  <2>13. ASSUME b = Len(f) + 1
         PROVE  b <= Len(Append(u, k)) /\ \A i \in 1..b : Append(u, k)[i] # NoKey
    <3>1. \A i \in 1..Len(f) : i \in 1..b
      BY <2>10, <2>13
    <3>2. Named(f, Len(f))
      BY <2>3, <2>4, <2>10, <2>11, <3>1 DEF Named
    <3>3. Len(u) = Len(f) /\ \A i \in 1..Len(f) : u[i] = f[i]
      BY <2>10, <3>2 DEF Begins
    <3>4. \A i \in 1..b : i \in 1..Len(f) \/ i = Len(f) + 1
      BY <2>10, <2>13
    <3>5. b \in 1..b
      BY <2>10, <2>13
    <3> QED BY <2>3, <2>4, <2>10, <2>11, <2>13, <3>1, <3>3, <3>4, <3>5
  <2>14. b <= Len(f) \/ b = Len(f) + 1
    BY <2>3, <2>4, <2>7, <2>10
  <2>15. /\ b <= Len(Append(u, k)) /\ \A i \in 1..b : Append(u, k)[i] # NoKey
         /\ IsLeaf(c) => b < Len(Append(u, k))
    BY <2>3, <2>4, <2>7, <2>10, <2>11, <2>12, <2>13, <2>14
  <2>16. IsLeaf(d) <=> IsLeaf(c)
    BY <2>6 DEF IsLeaf
  <2>17. d \in ClaimSet(K, V, A)
    BY <2>6, <2>9, <2>15, <2>16 DEF ClaimSet
  <2> QED BY <2>2, <2>4, <2>6, <2>17
<1> QED BY <1>1, <1>2

\* The claims that are left, one by one.
Settling(cs) == FlattenSeq([i \in DOMAIN cs |-> Inlined(cs[i])])

\* Claims with empty groups inlined are rooted.
LEMMA SettlingRooted ==
    ASSUME NEW K, NEW V, NEW A, NEW cs \in Seq(ClaimSet(K, V, A)), Rooted(cs, K)
    PROVE  Settling(cs) \in Seq(ClaimSet(K, V, A)) /\ Rooted(Settling(cs), K)
<1> DEFINE S == ClaimSet(K, V, A)
           f == [c \in S |-> Inlined(c)]
           Stay(s, t) == \A q \in Paths(K), b \in Nat :
                            Last(q) # NoKey /\ Within(s, q, b) => Within(t, WithoutEmpty(q), b)
           C == {s \in Seq(S) : Rooted(s, K) => Rooted(Spread(f, s), K) /\ Stay(s, Spread(f, s))}
<1>1. \A c \in S : f[c] = Inlined(c)
  OBVIOUS
<1>2. f \in [S -> Seq(S)]
  <2>1. ASSUME NEW c \in S PROVE Inlined(c) \in Seq(S)
    <3>1. Inlined(c) = <<>> \/ \E d \in S : Inlined(c) = <<d>>
      BY InlinedWell
    <3>2. <<>> \in Seq(S) /\ \A d \in S : <<d>> \in Seq(S)
      BY EmptySeq
    <3> HIDE DEF S
    <3> QED BY <3>1, <3>2
  <2> QED BY <2>1
<1>3. Settling(cs) = Spread(f, cs)
  <2>1. \A i \in DOMAIN cs : cs[i] \in S
    BY LenProperties, ElementOfSeq
  <2> QED BY <1>1, <2>1 DEF Settling, Spread
<1> HIDE DEF f
<1>4. /\ Spread(f, <<>>) = <<>> /\ \A p \in Seq(S) : Spread(f, p) \in Seq(S)
      /\ \A p \in Seq(S), x \in S : Spread(f, Append(p, x)) = Spread(f, p) \o f[x]
  BY <1>2, SpreadSteps
<1>5. <<>> \in C
  BY <1>4, EmptySeq DEF Rooted, Within
<1>6. ASSUME NEW s \in Seq(S), NEW c \in S, s \in C PROVE Append(s, c) \in C
  <2>1. Append(s, c) \in Seq(S)
    BY AppendProperties
  <2>2. SUFFICES ASSUME Rooted(Append(s, c), K)
                 PROVE  /\ Rooted(Spread(f, Append(s, c)), K)
                        /\ Stay(Append(s, c), Spread(f, Append(s, c)))
    BY <2>1
  <2>3. Rooted(s, K) /\ Follows(s, c, K)
    BY <2>2, RootedAppend
  <2>4. PICK u \in Seq(S) : u = Spread(f, s)
    BY <1>4
  <2>5. Rooted(u, K) /\ Stay(s, u)
    BY <1>6, <2>3, <2>4
  <2>6. PICK p \in Paths(K), b \in Nat : p = c.path /\ b = c.base /\ Named(p, b)
    BY DEF ClaimSet, Named
  <2>7. CASE f[c] = <<>> /\ (c.kind = "open" => Last(c.path) = NoKey)
    <3>1. Spread(f, Append(s, c)) = u
      BY <1>4, <2>4, <2>7, ConcatEmptySeq, ZenonT(30)
    <3>2. Stay(Append(s, c), u)
      <4> SUFFICES ASSUME NEW q \in Paths(K), NEW d \in Nat, Last(q) # NoKey, Within(Append(s, c), q, d)
                   PROVE  Within(u, WithoutEmpty(q), d)
        OBVIOUS
      <4>1. Within(s, q, d)
        BY <2>7, WithinAppend
      <4> QED BY <2>5, <4>1
    <3> QED BY <2>5, <3>1, <3>2
  <2>8. ASSUME NEW d \in S, f[c] = <<d>>, d.path = Settles(p), d.base = b, d.kind = c.kind
        PROVE  Rooted(u \o f[c], K) /\ Stay(Append(s, c), u \o f[c])
    <3>1. u \o f[c] = Append(u, d)
      BY <2>8, ConcatAppend
    <3>2. Follows(u, d, K)
      <4> SUFFICES ASSUME NEW r \in Paths(K), Below(r, Settles(p))
                   PROVE  Within(u, r, Shorter(Len(r), b))
        BY <2>8 DEF Follows
      <4>1. PICK q \in Paths(K) : Below(q, p) /\ Last(q) # NoKey /\ WithoutEmpty(q) = r
        BY SettlesBelow
      <4>2. Within(s, q, Shorter(Len(q), b))
        BY <2>3, <2>6, <4>1 DEF Follows
      <4>3. Shorter(Len(r), b) = Shorter(Len(q), b)
        BY <2>6, <4>1, SettlesBase
      <4>4. Shorter(Len(q), b) \in Nat
        BY LenProperties DEF Shorter, Paths
      <4> QED BY <2>5, <4>1, <4>2, <4>3, <4>4
    <3>3. Rooted(Append(u, d), K)
      BY <2>5, <3>2, RootedAppend
    <3>4. Stay(Append(s, c), Append(u, d))
      <4> SUFFICES ASSUME NEW q \in Paths(K), NEW e \in Nat, Last(q) # NoKey, Within(Append(s, c), q, e)
                   PROVE  Within(Append(u, d), WithoutEmpty(q), e)
        OBVIOUS
      <4>1. CASE c.path = q /\ c.kind = "open" /\ c.base = e
        <5>1. d.path = WithoutEmpty(q)
          BY <2>6, <2>8, <4>1, SettlesBelow
        <5> QED BY <2>6, <2>8, <4>1, <5>1, WithinAppend
      <4>2. CASE Within(s, q, e) /\ Below(q, c.path)
        <5>1. Within(u, WithoutEmpty(q), e)
          BY <2>5, <4>2
        <5>2. Below(WithoutEmpty(q), d.path)
          BY <2>6, <2>8, <4>2, SettlesBelow
        <5> QED BY <5>1, <5>2, WithinAppend
      <4> QED BY <4>1, <4>2, WithinAppend
    <3> QED BY <3>1, <3>3, <3>4
  <2>9. Spread(f, Append(s, c)) = u \o f[c]
    BY <1>4, <2>4
  <2>10. \/ f[c] = <<>> /\ (c.kind = "open" => Last(c.path) = NoKey)
         \/ \E d \in S : /\ f[c] = <<d>> /\ d.path = Settles(p) /\ d.base = b
                         /\ d.kind = c.kind
    BY <1>1, <2>6, InlinedWell
  <2> HIDE DEF Stay
  <2> QED BY <2>7, <2>8, <2>9, <2>10
<1>7. cs \in C
  <2> HIDE DEF C
  <2> QED BY <1>5, <1>6, AppendInduction
<1> QED BY <1>3, <1>4, <1>7

\* So are claims settled.
LEMMA SettledRooted ==
    ASSUME NEW K, NEW V, NEW A, AttrSet(A, K, V), NEW cs \in Seq(ClaimSet(K, V, A)), Rooted(cs, K)
    PROVE  Settled(cs) \in Seq(ClaimSet(K, V, A)) /\ Rooted(Settled(cs), K)
<1> DEFINE S == ClaimSet(K, V, A)
<1>1. PICK d \in Seq(S) : d = OneResolved(cs) /\ Rooted(d, K)
  BY OneResolvedRooted
<1>2. PICK e \in Seq(S) : e = OneResolved(d) /\ Rooted(e, K)
  BY <1>1, OneResolvedRooted
<1>3. PICK g \in Seq(S) : g = OneResolved(e) /\ Rooted(g, K)
  BY <1>2, OneResolvedRooted
<1>4. Settled(cs) = Settling(g)
  BY <1>1, <1>2, <1>3 DEF Settled, Settling
<1> QED BY <1>3, <1>4, SettlingRooted

\* And claims walked.
LEMMA WalkedRooted ==
    ASSUME NEW K, NEW V, NEW A, AttrSet(A, K, V), NEW cs \in Seq(ClaimSet(K, V, A)), Rooted(cs, K)
    PROVE  Walked(cs) \in Seq(ClaimSet(K, V, A)) /\ Rooted(Walked(cs), K)
<1> DEFINE S == ClaimSet(K, V, A)
<1>1. PICK d \in Seq(S) : d = OneLevel(cs) /\ Rooted(d, K)
  BY OneLevelRooted
<1>2. PICK e \in Seq(S) : e = OneLevel(d) /\ Rooted(e, K)
  BY <1>1, OneLevelRooted
<1>3. PICK g \in Seq(S) : g = OneLevel(e) /\ Rooted(g, K)
  BY <1>2, OneLevelRooted
<1>4. Walked(cs) = g
  BY <1>1, <1>2, <1>3 DEF Walked
<1> QED BY <1>3, <1>4

\* And claims redacted.
LEMMA RedactRooted ==
    ASSUME NEW K, NEW V, NEW A, Redacted \in V, NEW rules,
           NEW cs \in Seq(ClaimSet(K, V, A)), Rooted(cs, K)
    PROVE  Redact(rules, cs) \in Seq(ClaimSet(K, V, A)) /\ Rooted(Redact(rules, cs), K)
<1> DEFINE S == ClaimSet(K, V, A)
           D(c) == IF Matches(rules, c)
                   THEN [c EXCEPT !.kind = "scalar", !.val = Redacted, !.members = <<>>] ELSE c
<1>1. ASSUME NEW c \in S
      PROVE  /\ D(c) \in S /\ D(c).path = c.path /\ D(c).base = c.base
             /\ (D(c).kind = "open" <=> c.kind = "open")
  <2>1. CASE ~Matches(rules, c)
    BY <2>1
  <2>2. CASE Matches(rules, c)
    <3>1. IsLeaf(c) /\ <<>> \in Seq(A)
      BY <2>2, EmptySeq DEF Matches
    <3>2. PICK d : d = [c EXCEPT !.kind = "scalar", !.val = Redacted, !.members = <<>>]
      OBVIOUS
    <3>3. /\ d.path = c.path /\ d.base = c.base /\ d.kind = "scalar"
          /\ d \in [path : Paths(K), base : Nat, kind : {"open", "scalar", "group", "valuer"},
                    val : V, members : Seq(A)]
      BY <3>1, <3>2 DEF ClaimSet
    <3>4. d \in S
      BY <3>1, <3>3 DEF ClaimSet, IsLeaf
    <3>5. c.kind # "open"
      BY <3>1 DEF IsLeaf
    <3>6. D(c) = d
      BY <2>2, <3>2
    <3> HIDE DEF D, S
    <3> QED BY <3>3, <3>4, <3>5, <3>6
  <2> QED BY <2>1, <2>2
<1>2. \A i \in DOMAIN cs : cs[i] \in S
  BY LenProperties, ElementOfSeq
<1>3. PICK t : t = Redact(rules, cs)
  OBVIOUS
<1>4. DOMAIN t = DOMAIN cs /\ \A i \in DOMAIN cs : t[i] = D(cs[i])
  BY <1>3 DEF Redact
<1>5. DOMAIN cs = 1..Len(cs) /\ Len(cs) \in Nat
  BY LenProperties
<1>6. t = [i \in 1..Len(cs) |-> D(cs[i])]
  BY <1>3, <1>5 DEF Redact
<1> HIDE DEF D
<1>7. \A i \in 1..Len(cs) : t[i] \in S
  BY <1>1, <1>2, <1>4, <1>5
<1>8. t \in Seq(S)
  <2>1. t = [i \in 1..Len(cs) |-> t[i]]
    BY <1>6
  <2> HIDE DEF S
  <2> QED BY <1>5, <1>7, <2>1, IsASeq
<1>9. Rooted(t, K)
  BY <1>1, <1>2, <1>4, RootedSame
<1> QED BY <1>3, <1>8, <1>9

-----------------------------------------------------------------------------
(* The reference: pins, what is heard beside them, and the top-level keys.   *)

\* Sequences over T, numbered from 1 to n.
Family(u, n, T) == u = [i \in 1..n |-> u[i]] /\ \A i \in 1..n : u[i] \in Seq(T)

Grows(u, v, n) == \A i \in 1..n : v[i] = u[i]

\* They are a sequence.
LEMMA FamilySeq ==
    ASSUME NEW T, NEW n \in Nat, NEW u, Family(u, n, T)
    PROVE  u \in Seq(Seq(T)) /\ DOMAIN u = 1..n /\ Len(u) = n
<1>1. PICK W : W = Seq(T)
  OBVIOUS
<1>2. u = [i \in 1..n |-> u[i]] /\ \A i \in 1..n : u[i] \in W
  BY <1>1 DEF Family
<1>3. u \in Seq(W)
  BY <1>2, IsASeq
<1>4. DOMAIN u = 1..n
  BY <1>2
<1>5. DOMAIN u = 1..Len(u) /\ Len(u) \in Nat
  BY <1>3, LenProperties
<1>6. Len(u) = n
  BY <1>4, <1>5
<1> QED BY <1>1, <1>3, <1>4, <1>6

\* One sequence more behind those that are joined.
LEMMA FlattenGrow ==
    ASSUME NEW T, NEW n \in Nat, NEW u, NEW v, Family(u, n, T), Family(v, n + 1, T), Grows(u, v, n)
    PROVE  FlattenSeq(u) \in Seq(T) /\ FlattenSeq(v) = FlattenSeq(u) \o v[n + 1]
<1>1. /\ u \in Seq(Seq(T)) /\ Len(u) = n
      /\ v \in Seq(Seq(T)) /\ Len(v) = n + 1
  BY FamilySeq
<1>2. \A i \in 1..n + 1 : i \in 1..n \/ i = n + 1
  OBVIOUS
<1>3. PICK y \in Seq(T) : y = v[n + 1]
  BY SMTT(20) DEF Family
<1>4. PICK w : w = Append(u, y)
  OBVIOUS
<1>5. /\ w \in Seq(Seq(T)) /\ Len(w) = n + 1
      /\ w[n + 1] = y /\ \A i \in 1..n : w[i] = u[i]
  BY <1>1, <1>4, AppendProperties
<1>6. \A i \in 1..n + 1 : v[i] = w[i]
  BY <1>2, <1>3, <1>5 DEF Grows
<1>7. v = w
  BY <1>1, <1>5, <1>6, SeqEqual
<1>8. FlattenSeq(u) \in Seq(T) /\ FlattenSeq(Append(u, y)) = FlattenSeq(u) \o y
  BY <1>1, FlattenAppend
<1> QED BY <1>3, <1>4, <1>7, <1>8

-----------------------------------------------------------------------------
(* The claims that count, one by one.                                       *)

\* An earlier value takes the place that c would have.
Stopped(s, c) ==
    \E j \in DOMAIN s : /\ IsLeaf(s[j]) /\ IsPrefix(s[j].path, c.path)
                        /\ s[j].path # c.path \/ ~IsLeaf(c)

\* A pinned claim more.
LEMMA PinsAppend ==
    ASSUME NEW S, NEW s \in Seq(S), NEW c \in S
    PROVE  /\ Pins(s) \in Seq(S)
           /\ Pins(Append(s, c)) = IF Stopped(s, c) THEN Pins(s) ELSE Append(Pins(s), c)
<1> DEFINE G(t) == [i \in DOMAIN t |->
                     IF \E j \in 1..i - 1 : /\ IsLeaf(t[j]) /\ IsPrefix(t[j].path, t[i].path)
                                            /\ t[j].path # t[i].path \/ ~IsLeaf(t[i])
                     THEN <<>> ELSE <<t[i]>>]
           t == Append(s, c)
           n == Len(s)
<1>1. /\ n \in Nat /\ DOMAIN s = 1..n /\ DOMAIN t = 1..n + 1 /\ t[n + 1] = c
      /\ \A i \in 1..n : t[i] = s[i] /\ s[i] \in S
  BY AppendProperties, LenProperties, ElementOfSeq
<1> HIDE DEF t, n
<1>2. \A i \in 1..n : \A j \in 1..i - 1 : j \in 1..n
  BY <1>1
<1>3. \A i \in 1..n : G(t)[i] = G(s)[i]
  BY <1>1, <1>2
<1>4. <<>> \in Seq(S) /\ \A x \in S : <<x>> \in Seq(S)
  BY EmptySeq
<1>5. \A i \in 1..n : G(s)[i] \in Seq(S)
  BY <1>1, <1>4
<1>6. G(t)[n + 1] = IF Stopped(s, c) THEN <<>> ELSE <<c>>
  <2>1. n + 1 \in DOMAIN t /\ (n + 1) - 1 = n
    BY <1>1
  <2>2. Stopped(s, c) <=>
          \E j \in 1..(n + 1) - 1 : /\ IsLeaf(t[j]) /\ IsPrefix(t[j].path, t[n + 1].path)
                                    /\ t[j].path # t[n + 1].path \/ ~IsLeaf(t[n + 1])
    BY <1>1, <2>1 DEF Stopped
  <2> QED BY <1>1, <2>1, <2>2
<1>7. PICK u, v : u = G(s) /\ v = G(t)
  OBVIOUS
<1>8. u = [i \in 1..n |-> u[i]] /\ v = [i \in 1..n + 1 |-> v[i]]
  BY <1>1, <1>7
<1>9. v[n + 1] = IF Stopped(s, c) THEN <<>> ELSE <<c>>
  BY <1>6, <1>7
<1>10. v[n + 1] \in Seq(S)
  BY <1>4, <1>9
<1>11. Pins(s) = FlattenSeq(u) /\ Pins(t) = FlattenSeq(v)
  BY <1>7 DEF Pins
<1>12. (\A i \in 1..n : u[i] \in Seq(S)) /\ \A i \in 1..n : v[i] = u[i]
  BY <1>3, <1>5, <1>7
<1> HIDE DEF G
<1>16. \A i \in 1..n + 1 : i \in 1..n \/ i = n + 1
  BY <1>1
<1>17. Family(u, n, S) /\ Family(v, n + 1, S) /\ Grows(u, v, n)
  BY <1>8, <1>10, <1>12, <1>16, Zenon DEF Family, Grows
<1>13. FlattenSeq(u) \in Seq(S) /\ FlattenSeq(v) = FlattenSeq(u) \o v[n + 1]
  BY <1>1, <1>17, FlattenGrow
<1>14. PICK w \in Seq(S) : w = FlattenSeq(u)
  BY <1>13
<1>15. w \o <<>> = w /\ w \o <<c>> = Append(w, c)
  BY ConcatAppend
<1> QED BY <1>9, <1>11, <1>13, <1>14, <1>15 DEF t

\* A claim of the line more.
LEMMA HeardAppend ==
    ASSUME NEW S, NEW ps, NEW s \in Seq(S), NEW c \in S
    PROVE  /\ Heard(ps, <<>>) = <<>> /\ Heard(ps, s) \in Seq(S)
           /\ Heard(ps, Append(s, c))
                = IF ShutOut(ps, c) THEN Heard(ps, s) ELSE Append(Heard(ps, s), c)
<1> DEFINE f == [x \in S |-> IF ShutOut(ps, x) THEN <<>> ELSE <<x>>]
<1>1. <<>> \in Seq(S) /\ \A x \in S : <<x>> \in Seq(S)
  BY EmptySeq
<1>2. f \in [S -> Seq(S)]
  BY <1>1
<1>3. ASSUME NEW q \in Seq(S) PROVE Heard(ps, q) = Spread(f, q)
  <2>1. \A i \in DOMAIN q : q[i] \in S
    BY LenProperties, ElementOfSeq
  <2>2. [i \in DOMAIN q |-> IF ShutOut(ps, q[i]) THEN <<>> ELSE <<q[i]>>] = [i \in DOMAIN q |-> f[q[i]]]
    BY <2>1
  <2> QED BY <2>2 DEF Heard, Spread
<1>4. \A x \in S : f[x] = IF ShutOut(ps, x) THEN <<>> ELSE <<x>>
  OBVIOUS
<1> HIDE DEF f
<1>5. /\ Spread(f, <<>>) = <<>> /\ \A p \in Seq(S) : Spread(f, p) \in Seq(S)
      /\ \A p \in Seq(S), x \in S : Spread(f, Append(p, x)) = Spread(f, p) \o f[x]
  BY <1>2, SpreadSteps
<1>6. Append(s, c) \in Seq(S)
  BY AppendProperties
<1>7. PICK w \in Seq(S) : w = Heard(ps, s)
  BY <1>3, <1>5
<1>8. Heard(ps, Append(s, c)) = w \o f[c]
  BY <1>3, <1>5, <1>6, <1>7
<1>9. w \o <<>> = w /\ w \o <<c>> = Append(w, c)
  BY ConcatAppend
<1> QED BY <1>1, <1>3, <1>4, <1>5, <1>7, <1>8, <1>9

\* The top-level keys of X, where they are first claimed.
KeysOf(h, X) ==
    FlattenSeq([i \in DOMAIN h |->
        IF (\A j \in 1..i - 1 : h[j].path[1] # h[i].path[1]) /\ h[i].path[1] \in X
        THEN <<h[i].path[1]>> ELSE <<>>])

Claimed(h, k) == \E i \in DOMAIN h : h[i].path[1] = k

\* The first keys of the claims in S are in K.
KeyedBy(S, K) == \A x \in S : x.path[1] \in K

\* The same keys with that of c behind, when it is new and one of X.
Keyed(ks, h, c, X) ==
    IF ~Claimed(h, c.path[1]) /\ c.path[1] \in X THEN Append(ks, c.path[1]) ELSE ks

\* One claim more.
LEMMA KeysAppend ==
    ASSUME NEW K, NEW S, KeyedBy(S, K), NEW X, NEW s \in Seq(S), NEW c \in S
    PROVE  /\ KeysOf(s, X) \in Seq(K) /\ c.path[1] \in K
           /\ KeysOf(Append(s, c), X) = Keyed(KeysOf(s, X), s, c, X)
<1> DEFINE G(t) == [i \in DOMAIN t |->
                     IF (\A j \in 1..i - 1 : t[j].path[1] # t[i].path[1]) /\ t[i].path[1] \in X
                     THEN <<t[i].path[1]>> ELSE <<>>]
           t == Append(s, c)
           n == Len(s)
<1>1. /\ n \in Nat /\ DOMAIN s = 1..n /\ DOMAIN t = 1..n + 1 /\ t[n + 1] = c
      /\ \A i \in 1..n : t[i] = s[i] /\ s[i] \in S
  BY AppendProperties, LenProperties, ElementOfSeq
<1> HIDE DEF t, n
<1>2. \A i \in 1..n : \A j \in 1..i - 1 : j \in 1..n
  BY <1>1
<1>3. \A i \in 1..n : G(t)[i] = G(s)[i]
  BY <1>1, <1>2
<1>4. <<>> \in Seq(K) /\ \A x \in K : <<x>> \in Seq(K)
  BY EmptySeq
<1>18. \A x \in S : x.path[1] \in K
  BY DEF KeyedBy
<1>5. \A i \in 1..n : G(s)[i] \in Seq(K)
  BY <1>1, <1>4, <1>18
<1> DEFINE k == c.path[1]
<1>6. G(t)[n + 1] = IF ~Claimed(s, k) /\ k \in X THEN <<k>> ELSE <<>>
  <2>1. n + 1 \in DOMAIN t /\ (n + 1) - 1 = n /\ t[n + 1].path[1] = k
    BY <1>1
  <2>2. ~Claimed(s, k) <=> \A j \in 1..(n + 1) - 1 : t[j].path[1] # k
    BY <1>1, <2>1 DEF Claimed
  <2> QED BY <1>1, <2>1, <2>2
<1>7. PICK u, v : u = G(s) /\ v = G(t)
  OBVIOUS
<1>8. u = [i \in 1..n |-> u[i]] /\ v = [i \in 1..n + 1 |-> v[i]]
  BY <1>1, <1>7
<1>9. v[n + 1] = IF ~Claimed(s, k) /\ k \in X THEN <<k>> ELSE <<>>
  BY <1>6, <1>7
<1>10. v[n + 1] \in Seq(K) /\ k \in K
  BY <1>4, <1>9, <1>18
<1>11. KeysOf(s, X) = FlattenSeq(u) /\ KeysOf(t, X) = FlattenSeq(v)
  BY <1>7 DEF KeysOf
<1>12. (\A i \in 1..n : u[i] \in Seq(K)) /\ \A i \in 1..n : v[i] = u[i]
  BY <1>3, <1>5, <1>7
<1> HIDE DEF G, k
<1>16. \A i \in 1..n + 1 : i \in 1..n \/ i = n + 1
  BY <1>1
<1>17. Family(u, n, K) /\ Family(v, n + 1, K) /\ Grows(u, v, n)
  BY <1>8, <1>10, <1>12, <1>16, Zenon DEF Family, Grows
<1>13. FlattenSeq(u) \in Seq(K) /\ FlattenSeq(v) = FlattenSeq(u) \o v[n + 1]
  BY <1>1, <1>17, FlattenGrow, SMTT(20)
<1>14. PICK w \in Seq(K) : w = FlattenSeq(u)
  BY <1>13
<1>15. w \o <<>> = w /\ w \o <<k>> = Append(w, k)
  BY <1>10, ConcatAppend
<1> QED BY <1>9, <1>10, <1>11, <1>13, <1>14, <1>15 DEF t, k, Keyed

\* The top-level keys of X that are in the tree, in its order.
TopsIn(order, X) ==
    FlattenSeq([i \in DOMAIN order |->
        IF Len(order[i]) = 1 /\ order[i][1] \in X THEN <<order[i][1]>> ELSE <<>>])

\* The same with the key of p behind, when it is one of them.
Topped(s, p, X) == IF Len(p) = 1 /\ p[1] \in X THEN Append(s, p[1]) ELSE s

\* One place more.
LEMMA TopsAppend ==
    ASSUME NEW K, NEW X, NEW o \in Seq(Paths(K)), NEW p \in Paths(K)
    PROVE  /\ TopsIn(<<>>, X) = <<>> /\ TopsIn(o, X) \in Seq(K) /\ p[1] \in K
           /\ TopsIn(Append(o, p), X) = Topped(TopsIn(o, X), p, X)
<1> DEFINE f == [x \in Paths(K) |-> IF Len(x) = 1 /\ x[1] \in X THEN <<x[1]>> ELSE <<>>]
<1>1. \A x \in Paths(K) : x[1] \in K
  <2> TAKE x \in Paths(K)
  <2>1. x \in Seq(K) /\ Len(x) \in Nat \ {0}
    BY EmptySeq DEF Paths
  <2>2. 1 \in 1..Len(x)
    BY <2>1
  <2> QED BY <2>1, <2>2, ElementOfSeq
<1>2. <<>> \in Seq(K) /\ \A x \in K : <<x>> \in Seq(K)
  BY EmptySeq
<1>3. f \in [Paths(K) -> Seq(K)]
  BY <1>1, <1>2
<1>4. ASSUME NEW q \in Seq(Paths(K)) PROVE TopsIn(q, X) = Spread(f, q)
  <2>1. \A i \in DOMAIN q : q[i] \in Paths(K)
    BY LenProperties, ElementOfSeq
  <2>2. [i \in DOMAIN q |-> IF Len(q[i]) = 1 /\ q[i][1] \in X THEN <<q[i][1]>> ELSE <<>>]
          = [i \in DOMAIN q |-> f[q[i]]]
    BY <2>1
  <2> QED BY <2>2 DEF TopsIn, Spread
<1>5. \A x \in Paths(K) : f[x] = IF Len(x) = 1 /\ x[1] \in X THEN <<x[1]>> ELSE <<>>
  OBVIOUS
<1> HIDE DEF f
<1>6. PICK P : P = Paths(K)
  OBVIOUS
<1>7. /\ Spread(f, <<>>) = <<>> /\ \A q \in Seq(P) : Spread(f, q) \in Seq(K)
      /\ \A q \in Seq(P), x \in P : Spread(f, Append(q, x)) = Spread(f, q) \o f[x]
  BY <1>3, <1>6, SpreadSteps
<1>8. Append(o, p) \in Seq(P) /\ <<>> \in Seq(P) /\ o \in Seq(P)
  BY <1>6, AppendProperties, EmptySeq
<1>9. PICK w \in Seq(K) : w = TopsIn(o, X)
  BY <1>4, <1>6, <1>7
<1>10. TopsIn(Append(o, p), X) = w \o f[p]
  BY <1>4, <1>6, <1>7, <1>8, <1>9
<1>11. w \o <<>> = w /\ w \o <<p[1]>> = Append(w, p[1])
  BY <1>1, ConcatAppend
<1> QED BY <1>1, <1>4, <1>5, <1>6, <1>7, <1>8, <1>9, <1>10, <1>11 DEF Topped

\* Nothing is made of nothing.
LEMMA NothingMade ==
    ASSUME NEW X, NEW ps
    PROVE  TopsIn(<<>>, X) = <<>> /\ KeysOf(<<>>, X) = <<>> /\ Pins(<<>>) = <<>> /\ Heard(ps, <<>>) = <<>>
<1> DEFINE a == [i \in DOMAIN <<>> |->
                   IF Len(<<>>[i]) = 1 /\ <<>>[i][1] \in X THEN <<<<>>[i][1]>> ELSE <<>>]
           b == [i \in DOMAIN <<>> |->
                   IF (\A j \in 1..i - 1 : <<>>[j].path[1] # <<>>[i].path[1]) /\ <<>>[i].path[1] \in X
                   THEN <<<<>>[i].path[1]>> ELSE <<>>]
           c == [i \in DOMAIN <<>> |->
                   IF \E j \in 1..i - 1 : /\ IsLeaf(<<>>[j]) /\ IsPrefix(<<>>[j].path, <<>>[i].path)
                                          /\ <<>>[j].path # <<>>[i].path \/ ~IsLeaf(<<>>[i])
                   THEN <<>> ELSE <<<<>>[i]>>]
           d == [i \in DOMAIN <<>> |-> IF ShutOut(ps, <<>>[i]) THEN <<>> ELSE <<<<>>[i]>>]
<1>1. /\ DOMAIN a = {} /\ a = [i \in DOMAIN a |-> a[i]] /\ DOMAIN b = {} /\ b = [i \in DOMAIN b |-> b[i]]
      /\ DOMAIN c = {} /\ c = [i \in DOMAIN c |-> c[i]] /\ DOMAIN d = {} /\ d = [i \in DOMAIN d |-> d[i]]
  <2>1. DOMAIN <<>> = {}
    OBVIOUS
  <2> QED BY <2>1
<1>2. /\ TopsIn(<<>>, X) = FlattenSeq(a) /\ KeysOf(<<>>, X) = FlattenSeq(b)
      /\ Pins(<<>>) = FlattenSeq(c) /\ Heard(ps, <<>>) = FlattenSeq(d)
  BY DEF TopsIn, KeysOf, Pins, Heard
<1> HIDE DEF a, b, c, d
<1>3. FlattenSeq(a) = <<>> /\ FlattenSeq(b) = <<>> /\ FlattenSeq(c) = <<>> /\ FlattenSeq(d) = <<>>
  BY <1>1, FlattenEmpty
<1> QED BY <1>2, <1>3

-----------------------------------------------------------------------------
(* Trees.                                                                   *)

Entries(V) == [leaf : BOOLEAN, val : V, pinned : BOOLEAN]
Tables(K, V) == UNION {[D -> Entries(V)] : D \in SUBSET Paths(K)}
Trees(K, V) == [order : Seq(Paths(K)), at : Tables(K, V)]

\* What an order keeps of the places, but for those below p.
CutBelow(o, p) ==
    FlattenSeq([i \in DOMAIN o |-> IF IsStrictPrefix(p, o[i]) THEN <<>> ELSE <<o[i]>>])

\* One place more.
LEMMA CutBelowAppend ==
    ASSUME NEW P, NEW p, NEW o \in Seq(P), NEW x \in P
    PROVE  /\ CutBelow(<<>>, p) = <<>> /\ CutBelow(o, p) \in Seq(P)
           /\ CutBelow(Append(o, x), p)
                = IF IsStrictPrefix(p, x) THEN CutBelow(o, p) ELSE Append(CutBelow(o, p), x)
<1> DEFINE f == [y \in P |-> IF IsStrictPrefix(p, y) THEN <<>> ELSE <<y>>]
<1>1. <<>> \in Seq(P) /\ \A y \in P : <<y>> \in Seq(P)
  BY EmptySeq
<1>2. f \in [P -> Seq(P)]
  BY <1>1
<1>3. ASSUME NEW q \in Seq(P) PROVE CutBelow(q, p) = Spread(f, q)
  <2>1. \A i \in DOMAIN q : q[i] \in P
    BY LenProperties, ElementOfSeq
  <2>2. [i \in DOMAIN q |-> IF IsStrictPrefix(p, q[i]) THEN <<>> ELSE <<q[i]>>]
          = [i \in DOMAIN q |-> f[q[i]]]
    BY <2>1
  <2> QED BY <2>2 DEF CutBelow, Spread
<1>4. \A y \in P : f[y] = IF IsStrictPrefix(p, y) THEN <<>> ELSE <<y>>
  OBVIOUS
<1> HIDE DEF f
<1>5. /\ Spread(f, <<>>) = <<>> /\ \A q \in Seq(P) : Spread(f, q) \in Seq(P)
      /\ \A q \in Seq(P), y \in P : Spread(f, Append(q, y)) = Spread(f, q) \o f[y]
  BY <1>2, SpreadSteps
<1>6. Append(o, x) \in Seq(P)
  BY AppendProperties
<1>7. PICK w \in Seq(P) : w = CutBelow(o, p)
  BY <1>3, <1>5
<1>8. CutBelow(Append(o, x), p) = w \o f[x]
  BY <1>3, <1>5, <1>6, <1>7
<1>9. w \o <<>> = w /\ w \o <<x>> = Append(w, x)
  BY ConcatAppend
<1> QED BY <1>1, <1>3, <1>4, <1>5, <1>7, <1>8, <1>9

\* No element twice.
Once(s) == \A i \in DOMAIN s : \A j \in DOMAIN s : s[i] = s[j] => i = j

\* The elements of a sequence with one more.
LEMMA RangeAppend ==
    ASSUME NEW S, NEW s \in Seq(S), NEW x \in S
    PROVE  /\ Range(Append(s, x)) = Range(s) \cup {x}
           /\ Once(Append(s, x)) <=> Once(s) /\ x \notin Range(s)
<1> DEFINE n == Len(s)
<1>1. PICK t : t = Append(s, x)
  OBVIOUS
<1>2. /\ n \in Nat /\ DOMAIN s = 1..n /\ DOMAIN t = 1..n + 1
      /\ t[n + 1] = x /\ \A i \in 1..n : t[i] = s[i]
  BY <1>1, AppendProperties, LenProperties
<1>3. \A i \in 1..n + 1 : i \in 1..n \/ i = n + 1
  BY <1>2
<1>4. n + 1 \in 1..n + 1 /\ \A i \in 1..n : i \in 1..n + 1 /\ i # n + 1
  BY <1>2
<1> HIDE DEF n
<1>5. Range(t) = Range(s) \cup {x}
  BY <1>2, <1>3, <1>4 DEF Range
<1>6. Once(t) => Once(s) /\ x \notin Range(s)
  BY <1>2, <1>4 DEF Once, Range
<1>7. Once(s) /\ x \notin Range(s) => Once(t)
  BY <1>2, <1>3 DEF Once, Range
<1> QED BY <1>1, <1>5, <1>6, <1>7

\* What is cut is what is below p, and no top-level key.
CutFrom(t, o, p, X) ==
    /\ Range(t) = {x \in Range(o) : ~IsStrictPrefix(p, x)}
    /\ Once(o) => Once(t)
    /\ TopsIn(t, X) = TopsIn(o, X)

\* Places below p have paths longer than one key.
LEMMA CutIs ==
    ASSUME NEW K, NEW p \in Paths(K), NEW o \in Seq(Paths(K)), NEW X
    PROVE  CutBelow(o, p) \in Seq(Paths(K)) /\ CutFrom(CutBelow(o, p), o, p, X)
<1> DEFINE C == {s \in Seq(Paths(K)) : CutFrom(CutBelow(s, p), s, p, X)}
<1>1. <<>> \in C
  <2>1. CutBelow(<<>>, p) = <<>>
    <3>1. PICK P : P = Paths(K) /\ p \in P /\ <<>> \in Seq(P)
      BY EmptySeq
    <3> QED BY <3>1, CutBelowAppend
  <2>2. Range(<<>>) = {} /\ Once(<<>>)
    BY DEF Range, Once
  <2> QED BY <2>1, <2>2, EmptySeq DEF CutFrom
<1>2. ASSUME NEW s \in Seq(Paths(K)), NEW x \in Paths(K), s \in C PROVE Append(s, x) \in C
  <2>1. PICK P : P = Paths(K)
    OBVIOUS
  <2>2. PICK w \in Seq(P) : w = CutBelow(s, p)
    BY <2>1, CutBelowAppend
  <2>3. PICK t \in Seq(P) : t = Append(s, x)
    BY <2>1, AppendProperties
  <2>4. CutBelow(t, p) = IF IsStrictPrefix(p, x) THEN w ELSE Append(w, x)
    BY <2>1, <2>2, <2>3, CutBelowAppend
  <2>5. CutFrom(w, s, p, X)
    BY <1>2, <2>2
  <2>6. /\ Range(t) = Range(s) \cup {x} /\ (Once(t) <=> Once(s) /\ x \notin Range(s))
        /\ Range(Append(w, x)) = Range(w) \cup {x}
        /\ (Once(Append(w, x)) <=> Once(w) /\ x \notin Range(w))
    BY <2>1, <2>2, <2>3, RangeAppend
  <2>7. /\ TopsIn(t, X) = Topped(TopsIn(s, X), x, X)
        /\ TopsIn(Append(w, x), X) = Topped(TopsIn(w, X), x, X)
    <3>1. s \in Seq(Paths(K)) /\ w \in Seq(Paths(K))
      BY <2>1
    <3>2. \A v \in Seq(Paths(K)) : TopsIn(Append(v, x), X) = Topped(TopsIn(v, X), x, X)
      BY TopsAppend
    <3> QED BY <2>3, <3>1, <3>2
  <2>8. CASE IsStrictPrefix(p, x)
    <3>1. Len(x) # 1
      <4>1. Below(p, x)
        BY <2>8, PrefixIs
      <4>2. Len(p) \in Nat \ {0} /\ Len(x) \in Nat
        BY EmptySeq, LenProperties DEF Paths
      <4>3. Len(p) < Len(x)
        BY <4>1 DEF Below
      <4>4. \A m \in Nat \ {0}, l \in Nat : m < l => l # 1
        OBVIOUS
      <4> QED BY <4>2, <4>3, <4>4
    <3> QED BY <2>1, <2>3, <2>4, <2>5, <2>6, <2>7, <2>8, <3>1 DEF CutFrom, Topped
  <2>9. CASE ~IsStrictPrefix(p, x)
    <3>1. CutBelow(t, p) = Append(w, x)
      BY <2>4, <2>9
    <3>2. Range(Append(w, x)) = {y \in Range(t) : ~IsStrictPrefix(p, y)}
      BY <2>5, <2>6, <2>9 DEF CutFrom
    <3>3. Once(t) => Once(Append(w, x))
      BY <2>5, <2>6 DEF CutFrom
    <3>4. TopsIn(Append(w, x), X) = TopsIn(t, X)
      BY <2>5, <2>7 DEF CutFrom
    <3> QED BY <2>1, <2>3, <3>1, <3>2, <3>3, <3>4 DEF CutFrom
  <2> QED BY <2>8, <2>9
<1>3. o \in C
  <2> HIDE DEF C
  <2> QED BY <1>1, <1>2, AppendInduction
<1>4. CutBelow(o, p) \in Seq(Paths(K))
  <2>1. PICK P : P = Paths(K)
    OBVIOUS
  <2> QED BY <2>1, CutBelowAppend
<1> QED BY <1>3, <1>4

-----------------------------------------------------------------------------
(* Claims are put into a tree.                                              *)

\* An insertion that does not yield.
EntryOf(tree, c, pinned) ==
    [leaf |-> IsLeaf(c), val |-> IF ~IsLeaf(c) /\ Has(tree, c.path) /\ ~tree.at[c.path].leaf
                                 THEN NoVal ELSE c.val,
     pinned |-> pinned \/ (Has(tree, c.path) /\ tree.at[c.path].pinned)]

Put(tree, c, pinned) ==
    IF ~IsLeaf(c) /\ Has(tree, c.path) /\ ~tree.at[c.path].leaf
    THEN Place(tree, c.path, EntryOf(tree, c, pinned))
    ELSE Place(Prune(tree, c.path), c.path, EntryOf(tree, c, pinned))

\* A claim is inserted or it yields.
LEMMA InsertIs ==
    ASSUME NEW tree, NEW c, NEW pinned
    PROVE  Insert(tree, c, pinned) = IF Yields(tree, c, pinned) THEN tree ELSE Put(tree, c, pinned)
<1>1. CASE ~IsLeaf(c) /\ Has(tree, c.path) /\ ~tree.at[c.path].leaf
  <2>1. PICK l, b : l = IsLeaf(c) /\ b = (pinned \/ (Has(tree, c.path) /\ tree.at[c.path].pinned))
    OBVIOUS
  <2>2. [[leaf |-> l, val |-> c.val, pinned |-> b] EXCEPT !.val = NoVal]
          = [leaf |-> l, val |-> NoVal, pinned |-> b]
    OBVIOUS
  <2>3. EntryOf(tree, c, pinned) = [leaf |-> l, val |-> NoVal, pinned |-> b]
    BY <1>1, <2>1, Zenon DEF EntryOf
  <2>4. Put(tree, c, pinned) = Place(tree, c.path, [leaf |-> l, val |-> NoVal, pinned |-> b])
    BY <1>1, <2>3, Zenon DEF Put
  <2>5. Insert(tree, c, pinned)
          = IF Yields(tree, c, pinned) THEN tree
            ELSE Place(tree, c.path, [[leaf |-> l, val |-> c.val, pinned |-> b] EXCEPT !.val = NoVal])
    BY <1>1, <2>1, Zenon DEF Insert
  <2> QED BY <2>2, <2>4, <2>5
<1>2. CASE ~(~IsLeaf(c) /\ Has(tree, c.path) /\ ~tree.at[c.path].leaf)
  BY <1>2, Zenon DEF Insert, Put, EntryOf
<1> QED BY <1>1, <1>2

\* The paths in a tree.
PathsIn(tree) == DOMAIN tree.at

\* A tree is a table of entries.
LEMMA TreeParts ==
    ASSUME NEW K, NEW V, NEW tree \in Trees(K, V)
    PROVE  /\ tree.order \in Seq(Paths(K)) /\ PathsIn(tree) \subseteq Paths(K)
           /\ tree.at \in [PathsIn(tree) -> Entries(V)]
           /\ tree = [order |-> tree.order, at |-> tree.at]
<1>1. tree.order \in Seq(Paths(K)) /\ tree.at \in Tables(K, V)
      /\ tree = [order |-> tree.order, at |-> tree.at]
  BY DEF Trees
<1>2. PICK D \in SUBSET Paths(K) : tree.at \in [D -> Entries(V)]
  BY <1>1 DEF Tables
<1> QED BY <1>1, <1>2 DEF PathsIn

\* A tree that is a table of entries.
LEMMA TreeOf ==
    ASSUME NEW K, NEW V, NEW D \in SUBSET Paths(K), NEW o \in Seq(Paths(K)), NEW a \in [D -> Entries(V)]
    PROVE  [order |-> o, at |-> a] \in Trees(K, V)
BY DEF Trees, Tables

\* Every path in the tree has its place in the order.
Ordered(tree) == Range(tree.order) = PathsIn(tree) /\ Once(tree.order)

\* A path gets an entry.
PlaceEffect(tree, t, p, entry, X) ==
    /\ PathsIn(t) = PathsIn(tree) \cup {p}
    /\ t.at[p] = entry
    /\ \A q \in PathsIn(tree) : q # p => t.at[q] = tree.at[q]
    /\ Ordered(tree) => Ordered(t)
    /\ TopsIn(t.order, X) = IF p \in PathsIn(tree) THEN TopsIn(tree.order, X)
                            ELSE Topped(TopsIn(tree.order, X), p, X)

\* The other entries stay.
LEMMA PlaceWell ==
    ASSUME NEW K, NEW V, NEW tree \in Trees(K, V), NEW p \in Paths(K), NEW entry \in Entries(V), NEW X
    PROVE  Place(tree, p, entry) \in Trees(K, V) /\ PlaceEffect(tree, Place(tree, p, entry), p, entry, X)
<1> DEFINE D == PathsIn(tree)
           E == D \cup {p}
<1>1. /\ tree.order \in Seq(Paths(K)) /\ D \subseteq Paths(K) /\ tree.at \in [D -> Entries(V)]
  BY TreeParts
<1>2. PICK P : P = Paths(K)
  OBVIOUS
<1>3. PICK o \in Seq(P) : o = tree.order
  BY <1>1, <1>2
<1>4. PICK r : r = IF p \in D THEN o ELSE Append(o, p)
  OBVIOUS
<1>5. r \in Seq(P)
  BY <1>2, <1>4, AppendProperties
<1>6. PICK a : a = [q \in E |-> IF q = p THEN entry ELSE tree.at[q]]
  OBVIOUS
<1>7. a \in [E -> Entries(V)] /\ a[p] = entry /\ \A q \in D : q # p => a[q] = tree.at[q]
  BY <1>1, <1>6
<1>8. PICK t : t = [order |-> r, at |-> a]
  OBVIOUS
<1>9. Place(tree, p, entry) = t
  BY <1>3, <1>4, <1>6, <1>8 DEF Place, Has, PathsIn
<1>10. t \in Trees(K, V) /\ t.order = r /\ t.at = a
  BY <1>1, <1>2, <1>5, <1>7, <1>8, TreeOf
<1>11. PathsIn(t) = E
  BY <1>7, <1>10 DEF PathsIn
<1>12. /\ Range(Append(o, p)) = Range(o) \cup {p}
       /\ Once(Append(o, p)) <=> Once(o) /\ p \notin Range(o)
  BY <1>2, RangeAppend
<1> HIDE DEF D
<1>13. Ordered(tree) => Ordered(t)
  <2>1. Ordered(tree) <=> Range(o) = D /\ Once(o)
    BY <1>3 DEF Ordered, D
  <2>2. Ordered(t) <=> Range(r) = E /\ Once(r)
    BY <1>10, <1>11 DEF Ordered
  <2> QED BY <1>4, <1>12, <2>1, <2>2
<1>14. TopsIn(Append(o, p), X) = Topped(TopsIn(o, X), p, X)
  BY <1>2, TopsAppend
<1>15. TopsIn(t.order, X) = IF p \in D THEN TopsIn(o, X) ELSE Topped(TopsIn(o, X), p, X)
  BY <1>4, <1>10, <1>14
<1> QED BY <1>3, <1>7, <1>9, <1>10, <1>11, <1>13, <1>15 DEF PlaceEffect, D

\* What is below a path is taken out.
PruneEffect(tree, t, p, X) ==
    /\ PathsIn(t) = {q \in PathsIn(tree) : ~IsStrictPrefix(p, q)}
    /\ \A q \in PathsIn(t) : t.at[q] = tree.at[q]
    /\ Ordered(tree) => Ordered(t)
    /\ TopsIn(t.order, X) = TopsIn(tree.order, X)

\* The other entries stay.
LEMMA PruneWell ==
    ASSUME NEW K, NEW V, NEW tree \in Trees(K, V), NEW p \in Paths(K), NEW X
    PROVE  Prune(tree, p) \in Trees(K, V) /\ PruneEffect(tree, Prune(tree, p), p, X)
<1> DEFINE D == PathsIn(tree)
           E == {q \in D : ~IsStrictPrefix(p, q)}
<1>1. /\ tree.order \in Seq(Paths(K)) /\ D \subseteq Paths(K) /\ tree.at \in [D -> Entries(V)]
  BY TreeParts
<1>2. PICK r : r = CutBelow(tree.order, p)
  OBVIOUS
<1>3. r \in Seq(Paths(K)) /\ CutFrom(r, tree.order, p, X)
  BY <1>1, <1>2, CutIs
<1>4. PICK a : a = [q \in E |-> tree.at[q]]
  OBVIOUS
<1>5. a \in [E -> Entries(V)] /\ \A q \in E : a[q] = tree.at[q]
  BY <1>1, <1>4
<1>6. PICK t : t = [order |-> r, at |-> a]
  OBVIOUS
<1>7. Prune(tree, p) = t
  BY <1>2, <1>4, <1>6 DEF Prune, CutBelow, PathsIn
<1>8. t \in Trees(K, V) /\ t.order = r /\ t.at = a
  BY <1>1, <1>3, <1>5, <1>6, TreeOf
<1>9. PathsIn(t) = E
  BY <1>5, <1>8 DEF PathsIn
<1>10. Ordered(tree) => Ordered(t)
  BY <1>3, <1>8, <1>9 DEF Ordered, CutFrom
<1> QED BY <1>3, <1>5, <1>7, <1>8, <1>9, <1>10 DEF PruneEffect, CutFrom

\* Whether c is put beside what is below its path.
Joins(tree, c) == ~IsLeaf(c) /\ Has(tree, c.path) /\ ~tree.at[c.path].leaf

\* What putting a claim does to a tree.
PutEffect(tree, t, c, pinned, X) ==
    /\ PathsIn(t) = {q \in PathsIn(tree) : Joins(tree, c) \/ ~Below(c.path, q)} \cup {c.path}
    /\ t.at[c.path] = EntryOf(tree, c, pinned)
    /\ \A q \in PathsIn(t) : q # c.path => t.at[q] = tree.at[q]
    /\ Ordered(tree) => Ordered(t)
    /\ TopsIn(t.order, X) = IF c.path \in PathsIn(tree) THEN TopsIn(tree.order, X)
                            ELSE Topped(TopsIn(tree.order, X), c.path, X)

\* A claim is put where its path says.
LEMMA PutWell ==
    ASSUME NEW K, NEW V, NEW A, NoVal \in V, NEW tree \in Trees(K, V), NEW c \in ClaimSet(K, V, A),
           NEW pinned \in BOOLEAN, NEW X
    PROVE  Put(tree, c, pinned) \in Trees(K, V) /\ PutEffect(tree, Put(tree, c, pinned), c, pinned, X)
<1>1. PICK p \in Paths(K) : p = c.path
  BY DEF ClaimSet
<1>2. PICK e : e = EntryOf(tree, c, pinned)
  OBVIOUS
<1>3. e \in Entries(V)
  <2>1. c.val \in V /\ IsLeaf(c) \in BOOLEAN
    BY DEF ClaimSet, IsLeaf
  <2>2. Has(tree, p) => tree.at[p].pinned \in BOOLEAN
    BY TreeParts DEF Has, PathsIn, Entries
  <2>3. (pinned \/ (Has(tree, p) /\ tree.at[p].pinned)) \in BOOLEAN
    OBVIOUS
  <2> QED BY <1>1, <1>2, <2>1, <2>3 DEF EntryOf, Entries
<1>4. CASE Joins(tree, c)
  <2>1. Put(tree, c, pinned) = Place(tree, p, e)
    BY <1>1, <1>2, <1>4 DEF Put, Joins
  <2>2. Place(tree, p, e) \in Trees(K, V) /\ PlaceEffect(tree, Place(tree, p, e), p, e, X)
    BY <1>3, PlaceWell
  <2> QED BY <1>1, <1>2, <1>4, <2>1, <2>2 DEF PlaceEffect, PutEffect
<1>5. CASE ~Joins(tree, c)
  <2>1. PICK m \in Trees(K, V) : m = Prune(tree, p) /\ PruneEffect(tree, m, p, X)
    BY PruneWell
  <2>2. PICK t \in Trees(K, V) : t = Place(m, p, e) /\ PlaceEffect(m, t, p, e, X)
    BY <1>3, PlaceWell
  <2>3. Put(tree, c, pinned) = t
    BY <1>1, <1>2, <1>5, <2>1, <2>2 DEF Put, Joins
  <2>4. \A q \in PathsIn(tree) : IsStrictPrefix(p, q) <=> Below(p, q)
    BY TreeParts, PrefixIs
  <2>5. p \in PathsIn(m) <=> p \in PathsIn(tree)
    <3>1. ~Below(p, p)
      BY BelowOrder
    <3> QED BY <2>1, <2>4, <3>1 DEF PruneEffect
  <2>6. PathsIn(t) = {q \in PathsIn(tree) : Joins(tree, c) \/ ~Below(c.path, q)} \cup {c.path}
    BY <1>1, <1>5, <2>1, <2>2, <2>4 DEF PruneEffect, PlaceEffect
  <2> QED BY <1>1, <1>2, <2>1, <2>2, <2>3, <2>5, <2>6 DEF PruneEffect, PlaceEffect, PutEffect
<1> QED BY <1>4, <1>5

\* Inserted or not, it stays a tree.
LEMMA InsertTyped ==
    ASSUME NEW K, NEW V, NEW A, NoVal \in V, NEW tree \in Trees(K, V), NEW c \in ClaimSet(K, V, A),
           NEW pinned \in BOOLEAN
    PROVE  Insert(tree, c, pinned) \in Trees(K, V)
BY InsertIs, PutWell

-----------------------------------------------------------------------------
(* Claims are inserted one after the other.                                 *)

\* InsertAll, step by step.
LEMMA InsertAllSteps ==
    ASSUME NEW K, NEW V, NEW A, NoVal \in V, NEW tree \in Trees(K, V),
           NEW cs \in Seq(ClaimSet(K, V, A)), NEW pinned \in BOOLEAN
    PROVE  \E g \in [0..Len(cs) -> Trees(K, V)] :
              /\ g[0] = tree /\ InsertAll(tree, cs, pinned) = g[Len(cs)]
              /\ \A i \in 1..Len(cs) : g[i] = Insert(g[i - 1], cs[i], pinned)
<1> DEFINE n == Len(cs)
           W == Trees(K, V)
           Body(v) == [i \in 0..n |-> IF i = 0 THEN tree
                                      ELSE LET prior == v[i - 1] IN Insert(prior, cs[i], pinned)]
           F == [v \in [0..n -> W] |-> Body(v)]
           grown == CHOOSE v : v = Body(v)
<1>1. n \in Nat /\ \A i \in 1..n : cs[i] \in ClaimSet(K, V, A)
  BY LenProperties, ElementOfSeq
<1>2. InsertAll(tree, cs, pinned) = grown[n]
  BY DEF InsertAll
<1> HIDE DEF n
<1>3. \A w \in W : \A i \in 1..n : Insert(w, cs[i], pinned) \in W
  BY <1>1, InsertTyped
<1>4. tree \in W
  OBVIOUS
<1> HIDE DEF W
<1>5. ASSUME NEW v \in [0..n -> W] PROVE Body(v) \in [0..n -> W]
  <2>1. ASSUME NEW i \in 0..n, i # 0 PROVE Insert(v[i - 1], cs[i], pinned) \in W
    <3>1. i - 1 \in 0..n /\ i \in 1..n
      BY <1>1, <2>1
    <3>2. v[i - 1] \in W
      BY <3>1
    <3> QED BY <1>3, <3>1, <3>2
  <2> QED BY <1>4, <2>1
<1>6. F \in [[0..n -> W] -> [0..n -> W]] /\ \A v \in [0..n -> W] : F[v] = Body(v)
  BY <1>5
<1>7. ASSUME NEW v \in [0..n -> W], NEW w \in [0..n -> W], NEW h \in 0..n,
             \A i \in 0..h - 1 : v[i] = w[i]
      PROVE  Body(v)[h] = Body(w)[h]
  <2>1. h # 0 => v[h - 1] = w[h - 1]
    BY <1>1, <1>7
  <2> QED BY <2>1
<1>8. \E w \in [0..n -> W] : w = F[w]
  <2>1. \A v \in [0..n -> W], w \in [0..n -> W], h \in 0..n :
            (\A i \in 0..h - 1 : v[i] = w[i]) => F[v][h] = F[w][h]
    BY <1>6, <1>7
  <2>2. F \in [[0..n -> W] -> [0..n -> W]]
    BY <1>6
  <2>3. W # {} /\ 0 \in Nat
    BY <1>4
  <2> HIDE DEF F, Body
  <2>4. FromBelow(F, 0, n, W)
    BY <2>1, <2>2 DEF FromBelow
  <2> QED BY <1>1, <2>3, <2>4, UpwardRecursion
<1>9. grown = Body(grown)
  <2>1. \E w : w = Body(w)
    BY <1>6, <1>8
  <2> HIDE DEF Body
  <2> QED BY <2>1
<1> HIDE DEF grown
<1>10. /\ grown[0] = tree
       /\ \A i \in 1..n : grown[i] = Insert(grown[i - 1], cs[i], pinned)
  BY <1>1, <1>9
<1>11. grown = [i \in 0..n |-> grown[i]]
  BY <1>9
<1>12. \A i \in 0..n : grown[i] \in W
  <2> DEFINE C == {i \in Nat : i <= n => grown[i] \in W}
  <2>1. 0 \in C
    BY <1>4, <1>10
  <2>2. ASSUME NEW i \in Nat, i \in C PROVE i + 1 \in C
    <3>1. SUFFICES ASSUME i + 1 <= n PROVE grown[i + 1] \in W
      OBVIOUS
    <3>2. i + 1 \in 1..n /\ (i + 1) - 1 = i /\ grown[i] \in W
      BY <1>1, <2>2, <3>1
    <3> QED BY <1>3, <1>10, <3>2
  <2>3. \A i \in Nat : i \in C
    <3> HIDE DEF C
    <3> QED BY <2>1, <2>2, NatSetInduction
  <2>4. \A i \in 0..n : i \in Nat /\ i <= n
    BY <1>1
  <2> QED BY <2>3, <2>4
<1>13. grown \in [0..n -> W]
  BY <1>11, <1>12
<1> QED BY <1>2, <1>10, <1>13 DEF n, W

\* One claim more.
LEMMA InsertAllAppend ==
    ASSUME NEW K, NEW V, NEW A, NoVal \in V, NEW tree \in Trees(K, V),
           NEW cs \in Seq(ClaimSet(K, V, A)), NEW c \in ClaimSet(K, V, A), NEW pinned \in BOOLEAN
    PROVE  /\ InsertAll(tree, <<>>, pinned) = tree
           /\ InsertAll(tree, cs, pinned) \in Trees(K, V)
           /\ InsertAll(tree, Append(cs, c), pinned) = Insert(InsertAll(tree, cs, pinned), c, pinned)
<1> DEFINE n == Len(cs)
           W == Trees(K, V)
<1>1. PICK r \in Seq(ClaimSet(K, V, A)) : r = Append(cs, c)
  BY AppendProperties
<1>2. n \in Nat /\ Len(r) = n + 1 /\ r[n + 1] = c /\ \A i \in 1..n : r[i] = cs[i]
  BY <1>1, AppendProperties, LenProperties
<1>3. PICK f \in [0..n -> W] :
          /\ f[0] = tree /\ InsertAll(tree, cs, pinned) = f[n]
          /\ \A i \in 1..n : f[i] = Insert(f[i - 1], cs[i], pinned)
  BY InsertAllSteps
<1>4. PICK g \in [0..Len(r) -> W] :
          /\ g[0] = tree /\ InsertAll(tree, r, pinned) = g[Len(r)]
          /\ \A i \in 1..Len(r) : g[i] = Insert(g[i - 1], r[i], pinned)
  BY InsertAllSteps
<1> HIDE DEF n
<1> DEFINE D == {i \in Nat : i <= n => g[i] = f[i]}
<1>5. 0 \in D
  BY <1>3, <1>4
<1>6. ASSUME NEW i \in Nat, i \in D PROVE i + 1 \in D
  <2>1. SUFFICES ASSUME i + 1 <= n PROVE g[i + 1] = f[i + 1]
    OBVIOUS
  <2>2. i + 1 \in 1..n /\ i + 1 \in 1..Len(r) /\ (i + 1) - 1 = i /\ g[i] = f[i]
    BY <1>2, <1>6, <2>1
  <2>3. f[i + 1] = Insert(f[i], cs[i + 1], pinned)
    BY <1>3, <2>2
  <2>4. g[i + 1] = Insert(g[i], r[i + 1], pinned)
    BY <1>4, <2>2
  <2> QED BY <1>2, <2>2, <2>3, <2>4
<1>7. \A i \in Nat : i \in D
  <2> HIDE DEF D
  <2> QED BY <1>5, <1>6, NatSetInduction
<1>8. g[n] = f[n] /\ n + 1 \in 1..Len(r) /\ (n + 1) - 1 = n
  BY <1>2, <1>7
<1>9. g[n + 1] = Insert(f[n], c, pinned)
  BY <1>2, <1>4, <1>8
<1>10. f[n] \in W
  BY <1>2, <1>3
<1>11. InsertAll(tree, <<>>, pinned) = tree
  <2>1. PICK e \in Seq(ClaimSet(K, V, A)) : e = <<>> /\ Len(e) = 0
    BY EmptySeq
  <2>2. PICK k \in [0..Len(e) -> W] : k[0] = tree /\ InsertAll(tree, e, pinned) = k[Len(e)]
    BY InsertAllSteps
  <2> QED BY <2>1, <2>2
<1> QED BY <1>1, <1>2, <1>3, <1>4, <1>8, <1>9, <1>10, <1>11

-----------------------------------------------------------------------------
(* What a tree shows of the claims that were put into it.                   *)

IsLeafAt(tree, p) == p \in PathsIn(tree) /\ tree.at[p].leaf
IsNodeAt(tree, p) == p \in PathsIn(tree) /\ ~tree.at[p].leaf

\* Its values are those of the claims that count.
Valued(tree, h) ==
    /\ \A p \in PathsIn(tree) : tree.at[p].leaf =>
          \E i \in DOMAIN h : Counts(h, i) /\ h[i].path = p /\ h[i].val = tree.at[p].val
    /\ \A i \in DOMAIN h : Counts(h, i) =>
          IsLeafAt(tree, h[i].path) /\ tree.at[h[i].path].val = h[i].val

\* Above every path there are nodes.
Branching(tree, K) ==
    \A p \in PathsIn(tree) : \A q \in Paths(K) : Below(q, p) => IsNodeAt(tree, q)

\* A group that is being filled is a node.
Opened(tree, h, K) == \A q \in Paths(K), b \in Nat : Within(h, q, b) => IsNodeAt(tree, q)

\* The first key of every claim has a place, and every place was claimed.
Placed(tree, h) ==
    /\ \A i \in DOMAIN h : <<h[i].path[1]>> \in PathsIn(tree)
    /\ \A p \in PathsIn(tree) : \E i \in DOMAIN h : h[i].path = p

Mirrors(tree, h, K, X) ==
    /\ Ordered(tree) /\ Valued(tree, h) /\ Branching(tree, K) /\ Opened(tree, h, K)
    /\ Placed(tree, h) /\ TopsIn(tree.order, X) = KeysOf(h, X)

\* The path of the first key alone.
LEMMA HeadPath ==
    ASSUME NEW K, NEW p \in Paths(K)
    PROVE  /\ p[1] \in K /\ <<p[1]>> \in Paths(K) /\ Len(<<p[1]>>) = 1
           /\ (Len(p) = 1 /\ <<p[1]>> = p) \/ (Len(p) # 1 /\ Below(<<p[1]>>, p))
           /\ \A q \in Paths(K) : ~Below(q, <<p[1]>>)
<1>1. p \in Seq(K) /\ Len(p) \in Nat \ {0}
  BY EmptySeq, LenProperties DEF Paths
<1>2. 1 \in 1..Len(p)
  BY <1>1
<1>3. p[1] \in K
  BY <1>1, <1>2, ElementOfSeq
<1>4. PICK r : r = <<p[1]>>
  OBVIOUS
<1>5. r \in Seq(K) /\ Len(r) = 1 /\ r[1] = p[1] /\ r # <<>>
  BY <1>3, <1>4
<1>6. Len(p) = 1 => r = p
  <2>1. \A i \in 1..1 : i = 1
    OBVIOUS
  <2> QED BY <1>1, <1>5, <2>1, SeqEqual
<1>7. Len(p) # 1 => Below(r, p)
  <2>1. \A i \in 1..1 : i = 1
    OBVIOUS
  <2>3. \A m \in Nat \ {0} : m # 1 => 1 < m
    OBVIOUS
  <2>2. Len(p) # 1 => 1 < Len(p)
    BY <1>1, <2>3
  <2> QED BY <1>5, <2>1, <2>2 DEF Below
<1>8. ASSUME NEW q \in Paths(K) PROVE ~Below(q, r)
  <2>1. Len(q) \in Nat \ {0}
    BY EmptySeq, LenProperties DEF Paths
  <2>2. \A m \in Nat \ {0} : ~(m < 1)
    OBVIOUS
  <2> QED BY <1>5, <2>1, <2>2 DEF Below
<1> QED BY <1>3, <1>4, <1>5, <1>6, <1>7, <1>8 DEF Paths

\* Which claims count after one more.
LEMMA CountsAppend ==
    ASSUME NEW S, NEW h \in Seq(S), NEW c \in S
    PROVE  /\ \A i \in DOMAIN h : Counts(Append(h, c), i) <=> Counts(h, i) /\ ~Overrules(c, h[i])
           /\ Counts(Append(h, c), Len(h) + 1) <=> IsLeaf(c)
<1> DEFINE n == Len(h)
<1>1. PICK g : g = Append(h, c)
  OBVIOUS
<1>2. /\ n \in Nat /\ DOMAIN h = 1..n /\ DOMAIN g = 1..n + 1 /\ Len(g) = n + 1
      /\ g[n + 1] = c /\ \A i \in 1..n : g[i] = h[i]
  BY <1>1, AppendProperties, LenProperties
<1> HIDE DEF n
<1>3. ASSUME NEW i \in 1..n
      PROVE  Counts(g, i) <=> Counts(h, i) /\ ~Overrules(c, h[i])
  <2>1. \A j \in i + 1..n + 1 : j \in i + 1..n \/ j = n + 1
    BY <1>2
  <2>2. \A j \in i + 1..n : j \in i + 1..n + 1 /\ j \in 1..n
    BY <1>2
  <2>3. n + 1 \in i + 1..n + 1
    BY <1>2
  <2>4. (\A j \in i + 1..n + 1 : ~Overrules(g[j], g[i]))
          <=> (\A j \in i + 1..n : ~Overrules(h[j], h[i])) /\ ~Overrules(c, h[i])
    <3>1. g[i] = h[i]
      BY <1>2
    <3>2. ASSUME \A j \in i + 1..n + 1 : ~Overrules(g[j], g[i])
          PROVE  (\A j \in i + 1..n : ~Overrules(h[j], h[i])) /\ ~Overrules(c, h[i])
      BY <1>2, <2>2, <2>3, <3>1, <3>2
    <3>3. ASSUME (\A j \in i + 1..n : ~Overrules(h[j], h[i])), ~Overrules(c, h[i])
          PROVE  \A j \in i + 1..n + 1 : ~Overrules(g[j], g[i])
      BY <1>2, <2>1, <2>2, <3>1, <3>3
    <3> QED BY <3>2, <3>3
  <2>5. Counts(g, i) <=> IsLeaf(h[i]) /\ \A j \in i + 1..n + 1 : ~Overrules(g[j], g[i])
    BY <1>2 DEF Counts
  <2>6. Counts(h, i) <=> IsLeaf(h[i]) /\ \A j \in i + 1..n : ~Overrules(h[j], h[i])
    BY <1>2 DEF Counts, n
  <2> QED BY <2>4, <2>5, <2>6
<1>4. Counts(g, n + 1) <=> IsLeaf(c)
  <2>1. (n + 1) + 1..n + 1 = {}
    BY <1>2
  <2> QED BY <1>2, <2>1 DEF Counts
<1> QED BY <1>1, <1>2, <1>3, <1>4 DEF n

\* Putting a claim is mirrored.
LEMMA PutMirrors ==
    ASSUME NEW K, NEW V, NEW A, NoVal \in V, NEW X, NEW tree \in Trees(K, V),
           NEW h \in Seq(ClaimSet(K, V, A)), NEW c \in ClaimSet(K, V, A), NEW pinned \in BOOLEAN,
           Mirrors(tree, h, K, X), Follows(h, c, K)
    PROVE  Mirrors(Put(tree, c, pinned), Append(h, c), K, X)
<1> DEFINE S == ClaimSet(K, V, A)
           n == Len(h)
<1>1. PICK p \in Paths(K) : p = c.path
  BY DEF ClaimSet
<1>2. PICK t \in Trees(K, V) : t = Put(tree, c, pinned) /\ PutEffect(tree, t, c, pinned, X)
  BY PutWell
<1>3. PICK g \in Seq(S) : g = Append(h, c)
  BY AppendProperties
<1>4. /\ n \in Nat /\ DOMAIN h = 1..n /\ DOMAIN g = 1..n + 1
      /\ g[n + 1] = c /\ \A i \in 1..n : g[i] = h[i] /\ h[i] \in S /\ h[i].path \in Paths(K)
  <2>1. \A x \in S : x.path \in Paths(K)
    BY DEF ClaimSet
  <2> QED BY <1>3, <2>1, AppendProperties, LenProperties, ElementOfSeq
<1>5. /\ \A i \in 1..n : Counts(g, i) <=> Counts(h, i) /\ ~Overrules(c, h[i])
      /\ Counts(g, n + 1) <=> IsLeaf(c)
  BY <1>3, <1>4, CountsAppend
<1>6. \A i \in 1..n + 1 : i \in 1..n \/ i = n + 1
  BY <1>4
<1>7. \A i \in 1..n : i \in 1..n + 1
  BY <1>4
<1>8. n + 1 \in 1..n + 1
  BY <1>4
<1> HIDE DEF n
<1>9. /\ PathsIn(tree) \subseteq Paths(K) /\ PathsIn(t) \subseteq Paths(K)
  BY TreeParts
<1>10. /\ \A q \in Paths(K) : q \in PathsIn(t) <=>
              q = p \/ (q \in PathsIn(tree) /\ (Joins(tree, c) \/ ~Below(p, q)))
       /\ \A q \in PathsIn(t) : q # p => q \in PathsIn(tree) /\ t.at[q] = tree.at[q]
       /\ t.at[p] = EntryOf(tree, c, pinned)
       /\ Ordered(tree) => Ordered(t)
  BY <1>1, <1>2, <1>9 DEF PutEffect
<1>11. t.at[p].leaf = IsLeaf(c) /\ (IsLeaf(c) => t.at[p].val = c.val)
  BY <1>10 DEF EntryOf
<1>12. Joins(tree, c) <=> ~IsLeaf(c) /\ IsNodeAt(tree, p)
  BY <1>1 DEF Joins, Has, IsNodeAt, PathsIn
<1>13. /\ Ordered(tree) /\ Valued(tree, h) /\ Branching(tree, K) /\ Opened(tree, h, K)
       /\ Placed(tree, h) /\ TopsIn(tree.order, X) = KeysOf(h, X)
  BY DEF Mirrors
<1>14. \A q \in Paths(K) : Below(q, p) => IsNodeAt(tree, q)
  <2>1. \A q \in Paths(K) : Shorter(Len(q), c.base) \in Nat
    BY LenProperties DEF Shorter, Paths, ClaimSet
  <2> QED BY <1>1, <1>13, <2>1 DEF Opened, Follows
<1>15. \A q \in Paths(K) : Below(q, p) => IsNodeAt(t, q) /\ q # p
  <2> TAKE q \in Paths(K)
  <2>1. Below(q, p) => ~Below(p, q) /\ q # p
    BY BelowOrder
  <2> QED BY <1>10, <1>14, <2>1 DEF IsNodeAt
<1>16. \A a, b \in Paths(K) : IsPrefix(a, b) <=> a = b \/ Below(a, b)
  BY PrefixIs
<1>17. Valued(t, g)
  <2>1. ASSUME NEW q \in PathsIn(t), t.at[q].leaf
        PROVE  \E i \in 1..n + 1 : Counts(g, i) /\ g[i].path = q /\ g[i].val = t.at[q].val
    <3>1. CASE q = p
      BY <1>1, <1>4, <1>5, <1>8, <1>11, <2>1, <3>1
    <3>2. CASE q # p
      <4>1. q \in PathsIn(tree) /\ t.at[q] = tree.at[q] /\ tree.at[q].leaf
        BY <1>10, <2>1, <3>2
      <4>2. PICK i \in 1..n : Counts(h, i) /\ h[i].path = q /\ h[i].val = tree.at[q].val
        BY <1>4, <1>13, <4>1 DEF Valued
      <4>3. ~Overrules(c, h[i])
        <5>1. CASE IsLeaf(c)
          <6>1. ~Below(p, q)
            BY <1>9, <1>10, <1>12, <3>2, <5>1
          <6> QED BY <1>1, <1>9, <1>16, <3>2, <4>2, <5>1, <6>1 DEF Overrules
        <5>2. CASE ~IsLeaf(c)
          <6>1. ~Below(q, p)
            BY <1>9, <1>14, <4>1 DEF IsNodeAt
          <6> QED BY <1>1, <1>9, <1>16, <3>2, <4>2, <5>2, <6>1 DEF Overrules
        <5> QED BY <5>1, <5>2
      <4> QED BY <1>4, <1>5, <1>7, <4>1, <4>2, <4>3
    <3> QED BY <3>1, <3>2
  <2>2. ASSUME NEW i \in 1..n + 1, Counts(g, i)
        PROVE  IsLeafAt(t, g[i].path) /\ t.at[g[i].path].val = g[i].val
    <3>1. CASE i = n + 1
      BY <1>1, <1>4, <1>5, <1>10, <1>11, <2>2, <3>1 DEF IsLeafAt
    <3>2. CASE i \in 1..n
      <4>1. Counts(h, i) /\ ~Overrules(c, h[i]) /\ g[i] = h[i]
        BY <1>4, <1>5, <2>2, <3>2
      <4>2. PICK q \in Paths(K) : q = h[i].path
        BY <1>4, <3>2
      <4>3. q \in PathsIn(tree) /\ tree.at[q].leaf /\ tree.at[q].val = h[i].val
        BY <1>4, <1>13, <3>2, <4>1, <4>2 DEF Valued, IsLeafAt
      <4>4. q # p /\ (Joins(tree, c) \/ ~Below(p, q))
        <5>1. CASE IsLeaf(c)
          BY <1>1, <1>16, <4>1, <4>2, <5>1 DEF Overrules
        <5>2. CASE ~IsLeaf(c)
          <6>1. q # p
            BY <1>1, <1>16, <4>1, <4>2, <5>2 DEF Overrules
          <6>2. Below(p, q) => IsNodeAt(tree, p)
            BY <1>13, <4>3 DEF Branching
          <6> QED BY <1>12, <5>2, <6>1, <6>2
        <5> QED BY <5>1, <5>2
      <4>5. q \in PathsIn(t) /\ t.at[q] = tree.at[q]
        BY <1>10, <4>3, <4>4
      <4> QED BY <4>1, <4>2, <4>3, <4>5 DEF IsLeafAt
    <3> QED BY <1>6, <3>1, <3>2
  <2> QED BY <1>4, <2>1, <2>2 DEF Valued
<1>18. Branching(t, K)
  <2> SUFFICES ASSUME NEW r \in PathsIn(t), NEW q \in Paths(K), Below(q, r) PROVE IsNodeAt(t, q)
    BY DEF Branching
  <2>1. CASE r = p
    BY <1>15, <2>1
  <2>2. CASE r # p
    <3>1. r \in PathsIn(tree) /\ (Joins(tree, c) \/ ~Below(p, r))
      BY <1>9, <1>10, <2>2
    <3>2. IsNodeAt(tree, q)
      BY <1>13, <3>1 DEF Branching
    <3>3. CASE q = p
      BY <1>10, <1>11, <1>12, <3>1, <3>3 DEF IsNodeAt
    <3>4. CASE q # p
      <4>1. Below(p, q) => Below(p, r)
        BY <1>9, BelowOrder
      <4> QED BY <1>10, <3>1, <3>2, <3>4, <4>1 DEF IsNodeAt
    <3> QED BY <3>3, <3>4
  <2> QED BY <2>1, <2>2
<1>19. Opened(t, g, K)
  <2> SUFFICES ASSUME NEW q \in Paths(K), NEW b \in Nat, Within(g, q, b) PROVE IsNodeAt(t, q)
    BY DEF Opened
  <2>1. \/ c.path = q /\ c.kind = "open" /\ c.base = b
        \/ Within(h, q, b) /\ Below(q, c.path)
    BY <1>3, WithinAppend
  <2>2. CASE c.path = q /\ c.kind = "open"
    BY <1>1, <1>10, <1>11, <2>2 DEF IsNodeAt, IsLeaf
  <2>3. CASE Below(q, c.path)
    BY <1>1, <1>15, <2>3
  <2> QED BY <2>1, <2>2, <2>3
<1>20. Placed(t, g)
  <2>1. ASSUME NEW i \in 1..n + 1 PROVE <<g[i].path[1]>> \in PathsIn(t)
    <3>1. CASE i \in 1..n
      <4>1. PICK q \in Paths(K) : q = h[i].path /\ g[i] = h[i]
        BY <1>4, <3>1
      <4>2. <<q[1]>> \in PathsIn(tree)
        BY <1>4, <1>13, <3>1, <4>1 DEF Placed
      <4>3. <<q[1]>> \in Paths(K) /\ ~Below(p, <<q[1]>>)
        BY HeadPath
      <4> QED BY <1>10, <4>1, <4>2, <4>3
    <3>2. CASE i = n + 1
      <4>1. <<p[1]>> \in Paths(K) /\ (<<p[1]>> = p \/ Below(<<p[1]>>, p))
        BY HeadPath
      <4>2. p \in PathsIn(t)
        BY <1>10
      <4> QED BY <1>1, <1>4, <1>15, <3>2, <4>1, <4>2 DEF IsNodeAt
    <3> QED BY <1>6, <3>1, <3>2
  <2>2. ASSUME NEW q \in PathsIn(t) PROVE \E i \in 1..n + 1 : g[i].path = q
    <3>1. CASE q = p
      BY <1>1, <1>4, <1>8, <3>1
    <3>2. CASE q # p
      <4>1. q \in PathsIn(tree)
        BY <1>10, <3>2
      <4>2. PICK i \in 1..n : h[i].path = q
        BY <1>4, <1>13, <4>1 DEF Placed
      <4> QED BY <1>4, <1>7, <4>2
    <3> QED BY <3>1, <3>2
  <2> QED BY <1>4, <2>1, <2>2 DEF Placed
<1>21. TopsIn(t.order, X) = KeysOf(g, X)
  <2>1. TopsIn(t.order, X) = IF p \in PathsIn(tree) THEN KeysOf(h, X)
                             ELSE Topped(KeysOf(h, X), p, X)
    BY <1>1, <1>2, <1>13 DEF PutEffect
  <2>2. KeysOf(g, X) = Keyed(KeysOf(h, X), h, c, X)
    <3>1. KeyedBy(S, K)
      <4>1. \A x \in S : x.path \in Paths(K)
        BY DEF ClaimSet
      <4> QED BY <4>1, HeadPath DEF KeyedBy
    <3> HIDE DEF S
    <3>2. h \in Seq(S) /\ c \in S
      BY DEF S
    <3> QED BY <1>3, <3>1, <3>2, KeysAppend
  <2>3. (p \notin PathsIn(tree) /\ Len(p) = 1) <=> ~Claimed(h, p[1])
    <3>1. /\ <<p[1]>> \in Paths(K)
          /\ (Len(p) = 1 /\ <<p[1]>> = p) \/ (Len(p) # 1 /\ Below(<<p[1]>>, p))
      BY HeadPath
    <3>2. ASSUME Len(p) = 1, Claimed(h, p[1]) PROVE p \in PathsIn(tree)
      <4>1. PICK i \in DOMAIN h : h[i].path[1] = p[1]
        BY <3>2 DEF Claimed
      <4>2. <<h[i].path[1]>> \in PathsIn(tree)
        BY <1>13 DEF Placed
      <4> QED BY <3>1, <3>2, <4>1, <4>2
    <3>3. ASSUME p \in PathsIn(tree) PROVE Claimed(h, p[1])
      BY <1>13, <3>3 DEF Placed, Claimed
    <3>4. ASSUME Len(p) # 1 PROVE Claimed(h, p[1])
      <4>1. <<p[1]>> \in PathsIn(tree)
        BY <1>14, <3>1, <3>4 DEF IsNodeAt
      <4>2. PICK i \in DOMAIN h : h[i].path = <<p[1]>>
        BY <1>13, <4>1 DEF Placed
      <4>3. <<p[1]>>[1] = p[1]
        OBVIOUS
      <4> QED BY <4>2, <4>3 DEF Claimed
    <3> QED BY <3>2, <3>3, <3>4
  <2> QED BY <1>1, <2>1, <2>2, <2>3 DEF Topped, Keyed
<1> QED BY <1>2, <1>3, <1>10, <1>13, <1>17, <1>18, <1>19, <1>20, <1>21 DEF Mirrors

-----------------------------------------------------------------------------
(* What is pinned.                                                          *)

\* The first n elements.
LEMMA FirstPart ==
    ASSUME NEW K, NEW r \in Seq(K), NEW m \in Nat, m = Len(r), NEW n \in 1..m
    PROVE  /\ SubSeq(r, 1, n) \in Seq(K) /\ Len(SubSeq(r, 1, n)) = n
           /\ \A k \in 1..n : SubSeq(r, 1, n)[k] = r[k]
           /\ n = m => SubSeq(r, 1, n) = r
<1>1. /\ n \in Nat /\ 1 \in Nat /\ 1 <= n /\ n - 1 + 1 = n /\ DOMAIN r = 1..m
      /\ \A k \in 1..n : k \in 1..m /\ 1 + k - 1 = k
  BY LenProperties
<1>2. \A k \in 1..n : r[k] \in K
  BY <1>1, ElementOfSeq
<1>3. /\ SubSeq(r, 1, n) \in Seq(K) /\ Len(SubSeq(r, 1, n)) = IF 1 <= n THEN n - 1 + 1 ELSE 0
      /\ \A k \in 1..n - 1 + 1 : SubSeq(r, 1, n)[k] = r[1 + k - 1]
  BY <1>1, <1>2, SubSeqProperties
<1>4. SubSeq(r, 1, Len(r)) = r
  BY SubSeqFull
<1> QED BY <1>1, <1>3, <1>4

\* An entry on the way to c that c yields to.
YieldsTo(tree, c, pinned, p) ==
    /\ p = c.path \/ Below(p, c.path)
    /\ tree.at[p].pinned
    /\ (tree.at[p].leaf /\ (p # c.path \/ ~IsLeaf(c))) \/ (~pinned /\ Len(p) > c.base)

\* Entry by entry, rather than length by length.
LEMMA YieldsIs ==
    ASSUME NEW K, NEW V, NEW A, NEW tree \in Trees(K, V), NEW c \in ClaimSet(K, V, A),
           NEW pinned \in BOOLEAN
    PROVE  Yields(tree, c, pinned) <=> \E p \in PathsIn(tree) : YieldsTo(tree, c, pinned, p)
<1>1. PICK r \in Paths(K) : r = c.path
  BY DEF ClaimSet
<1>2. r \in Seq(K) /\ Len(r) \in Nat \ {0} /\ DOMAIN r = 1..Len(r) /\ c.base \in Nat
  BY EmptySeq, LenProperties DEF Paths, ClaimSet
<1>3. PathsIn(tree) \subseteq Paths(K)
  BY TreeParts
<1>4. ASSUME NEW n \in 1..Len(r)
      PROVE  /\ SubSeq(r, 1, n) \in Paths(K) /\ Len(SubSeq(r, 1, n)) = n
             /\ SubSeq(r, 1, n) = r \/ Below(SubSeq(r, 1, n), r)
             /\ n < Len(r) <=> SubSeq(r, 1, n) # r
  <2>6. PICK m \in Nat \ {0} : m = Len(r)
    BY <1>2
  <2>1. n \in Nat /\ n <= m /\ n # 0 /\ (n < m <=> n # m)
    BY <2>6
  <2>2. PICK p \in Seq(K) : p = SubSeq(r, 1, n) /\ Len(p) = n /\ (\A k \in 1..n : p[k] = r[k])
                           /\ (n = m => p = r)
    <3>1. n \in 1..m /\ r \in Seq(K)
      BY <1>2, <2>6
    <3>2. /\ SubSeq(r, 1, n) \in Seq(K) /\ Len(SubSeq(r, 1, n)) = n
          /\ \A k \in 1..n : SubSeq(r, 1, n)[k] = r[k]
          /\ n = m => SubSeq(r, 1, n) = r
      BY <2>6, <3>1, FirstPart
    <3> QED BY <3>2
  <2>3. p # <<>>
    BY <2>1, <2>2, EmptySeq
  <2>4. n = Len(r) => p = r
    BY <2>2, <2>6
  <2>5. n < Len(r) => Below(p, r)
    BY <2>2 DEF Below
  <2> QED BY <2>1, <2>2, <2>3, <2>4, <2>5, <2>6 DEF Paths
<1>5. ASSUME NEW p \in Paths(K), p = r \/ Below(p, r)
      PROVE  Len(p) \in 1..Len(r) /\ p = SubSeq(r, 1, Len(p))
  <2>1. p \in Seq(K) /\ Len(p) \in Nat \ {0}
    BY EmptySeq, LenProperties DEF Paths
  <2>2. Len(p) <= Len(r) /\ \A k \in 1..Len(p) : p[k] = r[k]
    BY <1>2, <1>5, <2>1 DEF Below
  <2>3. Len(p) \in 1..Len(r)
    BY <1>2, <2>1, <2>2
  <2>5. PICK n : n = Len(p)
    OBVIOUS
  <2>6. PICK m \in Nat : m = Len(r) /\ n \in 1..m
    BY <1>2, <2>3, <2>5
  <2>7. PICK w \in Seq(K) : w = SubSeq(r, 1, n) /\ Len(w) = n /\ \A k \in 1..n : w[k] = r[k]
    <3>1. n \in 1..m /\ r \in Seq(K)
      BY <1>2, <2>6
    <3>2. /\ SubSeq(r, 1, n) \in Seq(K) /\ Len(SubSeq(r, 1, n)) = n
          /\ \A k \in 1..n : SubSeq(r, 1, n)[k] = r[k]
      BY <2>6, <3>1, FirstPart
    <3> QED BY <3>2
  <2>4. w = SubSeq(r, 1, Len(p)) /\ Len(w) = Len(p) /\ \A k \in 1..Len(p) : w[k] = r[k]
    BY <2>5, <2>7
  <2> QED BY <2>1, <2>2, <2>3, <2>4, <2>7, SeqEqual
<1>6. ASSUME Yields(tree, c, pinned) PROVE \E p \in PathsIn(tree) : YieldsTo(tree, c, pinned, p)
  <2>1. PICK n \in 1..Len(r) :
            LET p == SubSeq(r, 1, n) IN
            /\ Has(tree, p) /\ tree.at[p].pinned
            /\ \/ tree.at[p].leaf /\ (n < Len(r) \/ ~IsLeaf(c))
               \/ ~pinned /\ n > c.base
    BY <1>1, <1>6 DEF Yields
  <2>2. PICK p \in Paths(K) : p = SubSeq(r, 1, n) /\ Len(p) = n /\ (p = r \/ Below(p, r))
                              /\ (n < Len(r) <=> p # r)
    BY <1>4
  <2> QED BY <1>1, <2>1, <2>2 DEF YieldsTo, Has, PathsIn
<1>7. ASSUME NEW p \in PathsIn(tree), YieldsTo(tree, c, pinned, p) PROVE Yields(tree, c, pinned)
  <2>1. PICK n \in 1..Len(r) : n = Len(p) /\ p = SubSeq(r, 1, n)
    BY <1>1, <1>3, <1>5, <1>7 DEF YieldsTo
  <2>2. n < Len(r) <=> p # r
    BY <1>4, <2>1
  <2> QED BY <1>1, <1>7, <2>1, <2>2 DEF YieldsTo, Yields, Has, PathsIn
<1> QED BY <1>6, <1>7

\* A claim that was made is at its place, or a value is there or above it.
StandsAt(tree, c) ==
    \/ \E p \in PathsIn(tree) : tree.at[p].leaf /\ Upto(p, c.path)
    \/ ~IsLeaf(c) /\ IsNodeAt(tree, c.path)

Stands(tree, s) == \A i \in DOMAIN s : StandsAt(tree, s[i])

AllPinned(tree) == \A p \in PathsIn(tree) : tree.at[p].pinned

\* A group that is being filled is so among the claims that count, unless a value
\* is above it.
Fills(s, h, K) ==
    \A q \in Paths(K), b \in Nat : Within(s, q, b) =>
        \/ Within(h, q, b)
        \/ \E j \in DOMAIN s : IsLeaf(s[j]) /\ Upto(s[j].path, q)

RootsWell(tree, s, h, K, X) ==
    /\ Mirrors(tree, h, K, X) /\ AllPinned(tree) /\ Stands(tree, s) /\ Fills(s, h, K)
    /\ \A i \in DOMAIN h : \E j \in DOMAIN s : s[j] = h[i]

\* Nothing is put into the empty tree.
LEMMA EmptyTreeWell ==
    ASSUME NEW K, NEW V, NEW X
    PROVE  /\ EmptyTree \in Trees(K, V) /\ RootsWell(EmptyTree, <<>>, <<>>, K, X)
           /\ Pins(<<>>) = <<>>
<1> DEFINE a == [p \in {} |-> NoVal]
<1>1. EmptyTree = [order |-> <<>>, at |-> a]
  BY Zenon DEF EmptyTree
<1>2. DOMAIN a = {} /\ a \in [{} -> Entries(V)]
  OBVIOUS
<1> HIDE DEF a
<1>3. EmptyTree.order = <<>> /\ EmptyTree.at = a
  BY <1>1
<1>4. PathsIn(EmptyTree) = {}
  BY <1>2, <1>3 DEF PathsIn
<1>5. EmptyTree \in Trees(K, V)
  BY <1>1, <1>2, EmptySeq, TreeOf
<1>6. DOMAIN <<>> = {}
  OBVIOUS
<1>7. Ordered(EmptyTree)
  BY <1>3, <1>4, <1>6 DEF Ordered, Once, Range
<1>8. \A q, b : ~Within(<<>>, q, b)
  BY <1>6 DEF Within
<1>9. TopsIn(<<>>, X) = <<>> /\ KeysOf(<<>>, X) = <<>> /\ Pins(<<>>) = <<>>
  BY NothingMade
<1>12. /\ Valued(EmptyTree, <<>>) /\ Branching(EmptyTree, K) /\ Opened(EmptyTree, <<>>, K)
       /\ Placed(EmptyTree, <<>>) /\ AllPinned(EmptyTree) /\ Stands(EmptyTree, <<>>)
       /\ Fills(<<>>, <<>>, K)
  BY <1>4, <1>6, <1>8 DEF Valued, Branching, Opened, Placed, AllPinned, Stands, Fills
<1> QED BY <1>3, <1>5, <1>6, <1>7, <1>9, <1>12 DEF RootsWell, Mirrors

\* Claims have paths.
LEMMA ClaimsIn ==
    ASSUME NEW K, NEW V, NEW A, NEW s \in Seq(ClaimSet(K, V, A))
    PROVE  /\ \A x \in ClaimSet(K, V, A) : x.path \in Paths(K) /\ x.base \in Nat
           /\ \A i \in DOMAIN s : s[i] \in ClaimSet(K, V, A) /\ s[i].path \in Paths(K)
<1>1. \A x \in ClaimSet(K, V, A) : x.path \in Paths(K) /\ x.base \in Nat
  BY DEF ClaimSet
<1>2. PICK S : S = ClaimSet(K, V, A)
  OBVIOUS
<1>3. \A i \in DOMAIN s : s[i] \in S
  BY <1>2, LenProperties, ElementOfSeq
<1> QED BY <1>1, <1>2, <1>3

\* A pinned claim yields when an earlier value has its place.
LEMMA YieldsStopped ==
    ASSUME NEW K, NEW V, NEW A, NEW X, NEW tree \in Trees(K, V),
           NEW s \in Seq(ClaimSet(K, V, A)), NEW h \in Seq(ClaimSet(K, V, A)),
           NEW c \in ClaimSet(K, V, A), RootsWell(tree, s, h, K, X)
    PROVE  Yields(tree, c, TRUE) <=> Stopped(s, c)
<1> DEFINE S == ClaimSet(K, V, A)
<1>1. PICK r \in Paths(K) : r = c.path
  BY DEF ClaimSet
<1>2. /\ \A x \in S : x.path \in Paths(K)
      /\ \A i \in DOMAIN s : s[i] \in S
      /\ \A i \in DOMAIN h : h[i] \in S
  BY ClaimsIn
<1>3. PathsIn(tree) \subseteq Paths(K)
  BY TreeParts
<1>4. Yields(tree, c, TRUE) <=> \E p \in PathsIn(tree) : YieldsTo(tree, c, TRUE, p)
  BY YieldsIs
<1>5. \A a, b \in Paths(K) : IsPrefix(a, b) <=> a = b \/ Below(a, b)
  BY PrefixIs
<1>6. /\ AllPinned(tree) /\ Stands(tree, s) /\ Valued(tree, h) /\ Branching(tree, K)
      /\ \A i \in DOMAIN h : \E j \in DOMAIN s : s[j] = h[i]
  BY DEF RootsWell, Mirrors
<1> HIDE DEF S
<1>7. ASSUME NEW p \in PathsIn(tree), YieldsTo(tree, c, TRUE, p) PROVE Stopped(s, c)
  <2>1. tree.at[p].leaf /\ (p = r \/ Below(p, r)) /\ (p # r \/ ~IsLeaf(c))
    BY <1>1, <1>7 DEF YieldsTo
  <2>2. PICK i \in DOMAIN h : Counts(h, i) /\ h[i].path = p
    BY <1>6, <2>1 DEF Valued
  <2>3. PICK j \in DOMAIN s : s[j] = h[i]
    BY <1>6
  <2>4. IsLeaf(s[j]) /\ s[j].path = p /\ IsPrefix(p, r)
    BY <1>3, <1>5, <2>1, <2>2, <2>3 DEF Counts
  <2> QED BY <1>1, <2>1, <2>4 DEF Stopped
<1>8. ASSUME Stopped(s, c) PROVE \E p \in PathsIn(tree) : YieldsTo(tree, c, TRUE, p)
  <2>1. PICK j \in DOMAIN s : /\ IsLeaf(s[j]) /\ IsPrefix(s[j].path, r)
                              /\ s[j].path # r \/ ~IsLeaf(c)
    BY <1>1, <1>8 DEF Stopped
  <2>2. PICK q \in Paths(K) : q = s[j].path
    BY <1>2
  <2>3. PICK p \in PathsIn(tree) : tree.at[p].leaf /\ Upto(p, q)
    BY <1>6, <2>1, <2>2 DEF Stands, StandsAt
  <2>4. (q = r \/ Below(q, r)) /\ p \in Paths(K) /\ tree.at[p].pinned
    BY <1>3, <1>5, <1>6, <2>1, <2>2 DEF AllPinned
  <2>5. /\ p = r \/ Below(p, r)
        /\ p = r => q = r
    <3>1. Below(p, q) /\ Below(q, r) => Below(p, r)
      BY <2>4, BelowOrder
    <3>2. ~(Below(p, q) /\ Below(q, p)) /\ ~Below(p, p)
      BY <2>4, BelowOrder
    <3> QED BY <2>3, <2>4, <3>1, <3>2 DEF Upto
  <2> QED BY <1>1, <2>1, <2>2, <2>3, <2>4, <2>5 DEF YieldsTo
<1> QED BY <1>4, <1>7, <1>8

\* An entry is pinned, or it stays so.
LEMMA EntryParts ==
    ASSUME NEW tree, NEW c, NEW pinned
    PROVE  /\ EntryOf(tree, c, pinned).leaf = IsLeaf(c)
           /\ EntryOf(tree, c, pinned).pinned
                <=> pinned \/ (Has(tree, c.path) /\ tree.at[c.path].pinned)
<1>1. PICK l, b, v :
          /\ l = IsLeaf(c) /\ b = (pinned \/ (Has(tree, c.path) /\ tree.at[c.path].pinned))
          /\ v = IF ~IsLeaf(c) /\ Has(tree, c.path) /\ ~tree.at[c.path].leaf THEN NoVal ELSE c.val
  OBVIOUS
<1>2. EntryOf(tree, c, pinned) = [leaf |-> l, val |-> v, pinned |-> b]
  BY <1>1 DEF EntryOf
<1>3. EntryOf(tree, c, pinned).leaf = l /\ EntryOf(tree, c, pinned).pinned = b
  BY <1>2
<1> QED BY <1>1, <1>3, Zenon

\* What stands stays, or a value takes its place.
LEMMA PutStands ==
    ASSUME NEW K, NEW V, NEW A, NoVal \in V, NEW tree \in Trees(K, V), NEW c \in ClaimSet(K, V, A),
           NEW d \in ClaimSet(K, V, A), Branching(tree, K),
           ~Yields(tree, c, TRUE), AllPinned(tree), StandsAt(tree, d) \/ d = c
    PROVE  StandsAt(Put(tree, c, TRUE), d) /\ AllPinned(Put(tree, c, TRUE))
<1>1. PICK r, e \in Paths(K) : r = c.path /\ e = d.path
  BY DEF ClaimSet
<1>2. PICK t \in Trees(K, V) : t = Put(tree, c, TRUE) /\ PutEffect(tree, t, c, TRUE, {})
  BY PutWell
<1>3. PathsIn(tree) \subseteq Paths(K) /\ PathsIn(t) \subseteq Paths(K)
  BY TreeParts
<1>4. /\ \A q \in Paths(K) : q \in PathsIn(t) <=>
              q = r \/ (q \in PathsIn(tree) /\ (Joins(tree, c) \/ ~Below(r, q)))
      /\ \A q \in PathsIn(t) : q # r => q \in PathsIn(tree) /\ t.at[q] = tree.at[q]
      /\ t.at[r] = EntryOf(tree, c, TRUE)
  BY <1>1, <1>2, <1>3 DEF PutEffect
<1>5. t.at[r].leaf = IsLeaf(c) /\ t.at[r].pinned
  <2>1. EntryOf(tree, c, TRUE).leaf = IsLeaf(c) /\ EntryOf(tree, c, TRUE).pinned
    BY EntryParts, Zenon
  <2>2. t.at[r] = EntryOf(tree, c, TRUE)
    BY <1>4, Zenon
  <2> QED BY <2>1, <2>2
<1>6. AllPinned(t)
  BY <1>4, <1>5 DEF AllPinned
<1>7. \A p \in PathsIn(tree) : ~YieldsTo(tree, c, TRUE, p)
  BY YieldsIs
<1>8. \A p \in PathsIn(tree) : tree.at[p].leaf => ~Below(p, r) /\ (p = r => IsLeaf(c))
  <2> TAKE p \in PathsIn(tree)
  <2>1. tree.at[p].pinned /\ ~YieldsTo(tree, c, TRUE, p)
    BY <1>7 DEF AllPinned
  <2>2. ~Below(r, r)
    BY BelowOrder
  <2> QED BY <1>1, <2>1, <2>2, Zenon DEF YieldsTo
<1>9. StandsAt(t, d)
  <2>1. CASE d = c
    BY <1>1, <1>4, <1>5, <2>1 DEF StandsAt, IsNodeAt, Upto
  <2>2. CASE StandsAt(tree, d)
    <3>1. ASSUME NEW p \in PathsIn(tree), tree.at[p].leaf, Upto(p, e) PROVE StandsAt(t, d)
      <4>1. CASE p \in PathsIn(t) /\ p # r
        BY <1>1, <1>4, <3>1, <4>1 DEF StandsAt
      <4>2. CASE p = r
        BY <1>1, <1>4, <1>5, <1>8, <3>1, <4>2 DEF StandsAt
      <4>3. CASE p \notin PathsIn(t)
        <5>1. p \in Paths(K) /\ Below(r, p) /\ ~Joins(tree, c)
          BY <1>3, <1>4, <4>3
        <5>2. IsNodeAt(tree, r)
          BY <5>1 DEF Branching
        <5>3. IsLeaf(c)
          BY <1>1, <5>1, <5>2 DEF Joins, Has, IsNodeAt, PathsIn
        <5>4. Upto(r, e)
          <6>1. Below(r, p) /\ Below(p, e) => Below(r, e)
            BY <5>1, BelowOrder
          <6> QED BY <3>1, <5>1, <6>1 DEF Upto
        <5>5. r \in PathsIn(t) /\ t.at[r].leaf
          BY <1>4, <1>5, <5>3
        <5> QED BY <1>1, <5>4, <5>5 DEF StandsAt
      <4> QED BY <4>1, <4>2, <4>3
    <3>2. ASSUME ~IsLeaf(d), IsNodeAt(tree, e) PROVE StandsAt(t, d)
      <4>1. CASE e = r
        BY <1>1, <1>4, <1>5, <3>2, <4>1 DEF StandsAt, IsNodeAt, Upto
      <4>2. CASE e # r /\ e \in PathsIn(t)
        BY <1>1, <1>4, <3>2, <4>2 DEF StandsAt, IsNodeAt
      <4>3. CASE e # r /\ e \notin PathsIn(t)
        <5>1. Below(r, e) /\ ~Joins(tree, c)
          BY <1>4, <3>2, <4>3 DEF IsNodeAt
        <5>2. IsNodeAt(tree, r)
          BY <3>2, <5>1 DEF Branching, IsNodeAt
        <5>3. IsLeaf(c)
          BY <1>1, <5>1, <5>2 DEF Joins, Has, IsNodeAt, PathsIn
        <5> QED BY <1>1, <1>4, <1>5, <5>1, <5>3 DEF StandsAt, Upto
      <4> QED BY <4>1, <4>2, <4>3
    <3> QED BY <1>1, <2>2, <3>1, <3>2 DEF StandsAt
  <2> QED BY <2>1, <2>2
<1> QED BY <1>2, <1>6, <1>9

\* Inserted or not, what is pinned is mirrored.
LEMMA PinnedStep ==
    ASSUME NEW K, NEW V, NEW A, NoVal \in V, NEW X, NEW tree \in Trees(K, V),
           NEW s \in Seq(ClaimSet(K, V, A)), NEW c \in ClaimSet(K, V, A),
           RootsWell(tree, s, Pins(s), K, X), Follows(s, c, K)
    PROVE  RootsWell(Insert(tree, c, TRUE), Append(s, c), Pins(Append(s, c)), K, X)
<1> DEFINE n == Len(s)
<1>1. PICK S : S = ClaimSet(K, V, A)
  OBVIOUS
<1>2. PICK h \in Seq(S) : h = Pins(s)
  BY <1>1, PinsAppend
<1>3. PICK u \in Seq(S) : u = Append(s, c)
  BY <1>1, AppendProperties
<1>4. PICK r \in Paths(K) : r = c.path /\ c.base \in Nat
  BY ClaimsIn
<1>5. Pins(u) = IF Stopped(s, c) THEN h ELSE Append(h, c)
  BY <1>1, <1>2, <1>3, PinsAppend
<1>6. /\ Mirrors(tree, h, K, X) /\ AllPinned(tree) /\ Stands(tree, s) /\ Fills(s, h, K)
      /\ \A i \in DOMAIN h : \E j \in DOMAIN s : s[j] = h[i]
      /\ Valued(tree, h) /\ Branching(tree, K)
  BY <1>2 DEF RootsWell, Mirrors
<1>7. /\ n \in Nat /\ DOMAIN s = 1..n /\ DOMAIN u = 1..n + 1
      /\ u[n + 1] = c /\ \A i \in 1..n : u[i] = s[i] /\ i \in 1..n + 1
  BY <1>1, <1>3, AppendProperties, LenProperties
<1>8. \A i \in 1..n + 1 : i \in 1..n \/ i = n + 1
  BY <1>7
<1>9. n + 1 \in 1..n + 1
  BY <1>7
<1> HIDE DEF n
<1>10. Yields(tree, c, TRUE) <=> Stopped(s, c)
  BY <1>1, <1>2, YieldsStopped
<1>11. Insert(tree, c, TRUE) = IF Yields(tree, c, TRUE) THEN tree ELSE Put(tree, c, TRUE)
  BY InsertIs
<1>12. \A q \in Paths(K), b \in Nat : Within(u, q, b) <=>
           \/ c.path = q /\ c.kind = "open" /\ c.base = b
           \/ Within(s, q, b) /\ Below(q, c.path)
  BY <1>1, <1>3, WithinAppend
<1>13. \A a, b \in Paths(K) : IsPrefix(a, b) <=> a = b \/ Below(a, b)
  BY PrefixIs
<1>14. \A i \in DOMAIN s : s[i].path \in Paths(K)
  BY ClaimsIn
<1>15. CASE Stopped(s, c)
  <2>1. Pins(u) = h /\ Insert(tree, c, TRUE) = tree
    BY <1>5, <1>10, <1>11, <1>15
  <2>2. PICK p \in PathsIn(tree) : YieldsTo(tree, c, TRUE, p)
    BY <1>10, <1>15, YieldsIs
  <2>3. StandsAt(tree, c)
    BY <2>2 DEF YieldsTo, StandsAt, Upto
  <2>4. Stands(tree, u)
    BY <1>6, <1>7, <1>8, <2>3 DEF Stands
  <2>5. Fills(u, h, K)
    <3> SUFFICES ASSUME NEW q \in Paths(K), NEW b \in Nat, Within(u, q, b)
                 PROVE  Within(h, q, b) \/ \E j \in DOMAIN u : IsLeaf(u[j]) /\ Upto(u[j].path, q)
      BY DEF Fills
    <3>1. CASE c.path = q
      <4>1. PICK j \in DOMAIN s : IsLeaf(s[j]) /\ IsPrefix(s[j].path, q)
        BY <1>15, <3>1 DEF Stopped
      <4>2. Upto(s[j].path, q)
        BY <1>13, <1>14, <4>1 DEF Upto
      <4> QED BY <1>7, <4>1, <4>2
    <3>2. CASE Within(s, q, b)
      <4>1. CASE Within(h, q, b)
        BY <4>1
      <4>2. CASE \E j \in DOMAIN s : IsLeaf(s[j]) /\ Upto(s[j].path, q)
        BY <1>7, <4>2
      <4> QED BY <1>6, <3>2, <4>1, <4>2 DEF Fills
    <3> QED BY <1>12, <3>1, <3>2
  <2>6. \A i \in DOMAIN h : \E j \in DOMAIN u : u[j] = h[i]
    <3> TAKE i \in DOMAIN h
    <3>1. PICK j \in 1..n : s[j] = h[i]
      BY <1>6, <1>7
    <3> QED BY <1>7, <3>1
  <2> QED BY <1>3, <1>6, <2>1, <2>4, <2>5, <2>6 DEF RootsWell
<1>16. CASE ~Stopped(s, c)
  <2>1. Pins(u) = Append(h, c) /\ Insert(tree, c, TRUE) = Put(tree, c, TRUE)
    BY <1>5, <1>10, <1>11, <1>16
  <2>2. Follows(h, c, K)
    <3> SUFFICES ASSUME NEW q \in Paths(K), Below(q, c.path)
                 PROVE  Within(h, q, Shorter(Len(q), c.base))
      BY DEF Follows
    <3>1. Shorter(Len(q), c.base) \in Nat
      BY <1>4, LenProperties DEF Shorter, Paths
    <3>2. Within(s, q, Shorter(Len(q), c.base))
      BY DEF Follows
    <3>3. ASSUME NEW j \in DOMAIN s, IsLeaf(s[j]), Upto(s[j].path, q) PROVE FALSE
      <4>1. Below(s[j].path, r) /\ s[j].path # r
        BY <1>4, <1>14, <3>3, BelowOrder DEF Upto
      <4>2. IsPrefix(s[j].path, c.path)
        BY <1>4, <1>13, <1>14, <4>1
      <4> QED BY <1>4, <1>16, <3>3, <4>1, <4>2 DEF Stopped
    <3> QED BY <1>6, <3>1, <3>2, <3>3 DEF Fills
  <2>3. Mirrors(Put(tree, c, TRUE), Append(h, c), K, X)
    BY <1>1, <1>2, <1>6, <2>2, PutMirrors
  <2>4. ~Yields(tree, c, TRUE)
    BY <1>10, <1>16
  <2>5. ASSUME NEW d \in ClaimSet(K, V, A), StandsAt(tree, d) \/ d = c
        PROVE  StandsAt(Put(tree, c, TRUE), d) /\ AllPinned(Put(tree, c, TRUE))
    BY <1>6, <2>4, <2>5, PutStands
  <2>6. \A i \in DOMAIN s : s[i] \in ClaimSet(K, V, A)
    BY ClaimsIn
  <2>7. Stands(Put(tree, c, TRUE), u)
    BY <1>6, <1>7, <1>8, <2>5, <2>6 DEF Stands
  <2>8. /\ Append(h, c) \in Seq(S) /\ DOMAIN Append(h, c) = 1..Len(h) + 1 /\ Len(h) \in Nat
        /\ Append(h, c)[Len(h) + 1] = c /\ DOMAIN h = 1..Len(h)
        /\ \A i \in 1..Len(h) : Append(h, c)[i] = h[i]
    BY <1>1, AppendProperties, LenProperties
  <2>9. PICK g \in Seq(S) : g = Append(h, c)
    BY <2>8
  <2>10. \A i \in DOMAIN g : \E j \in DOMAIN u : u[j] = g[i]
    <3> TAKE i \in DOMAIN g
    <3>1. CASE i \in DOMAIN h
      <4>1. PICK j \in 1..n : s[j] = h[i]
        BY <1>6, <1>7, <3>1
      <4> QED BY <1>7, <2>8, <2>9, <3>1, <4>1
    <3>2. CASE i = Len(h) + 1
      BY <1>7, <1>9, <2>8, <2>9, <3>2
    <3> QED BY <2>8, <2>9, <3>1, <3>2
  <2>11. Fills(u, g, K)
    <3> SUFFICES ASSUME NEW q \in Paths(K), NEW b \in Nat, Within(u, q, b)
                 PROVE  Within(g, q, b) \/ \E j \in DOMAIN u : IsLeaf(u[j]) /\ Upto(u[j].path, q)
      BY DEF Fills
    <3>1. Within(g, q, b) <=> \/ c.path = q /\ c.kind = "open" /\ c.base = b
                              \/ Within(h, q, b) /\ Below(q, c.path)
      BY <1>1, <2>9, WithinAppend
    <3>2. CASE Within(s, q, b) /\ Below(q, c.path)
      <4>1. CASE Within(h, q, b)
        BY <3>1, <3>2, <4>1
      <4>2. CASE \E j \in DOMAIN s : IsLeaf(s[j]) /\ Upto(s[j].path, q)
        BY <1>7, <4>2
      <4> QED BY <1>6, <3>2, <4>1, <4>2 DEF Fills
    <3> QED BY <1>12, <3>1, <3>2
  <2> QED BY <1>3, <2>1, <2>3, <2>5, <2>7, <2>9, <2>10, <2>11 DEF RootsWell
<1> QED BY <1>15, <1>16

\* Claims inserted make a tree.
LEMMA InsertAllTyped ==
    ASSUME NEW K, NEW V, NEW A, NoVal \in V, NEW tree \in Trees(K, V),
           NEW cs \in Seq(ClaimSet(K, V, A)), NEW pinned \in BOOLEAN
    PROVE  InsertAll(tree, <<>>, pinned) = tree /\ InsertAll(tree, cs, pinned) \in Trees(K, V)
<1>1. PICK e \in Seq(ClaimSet(K, V, A)) : e = <<>> /\ Len(e) = 0
  BY EmptySeq
<1>2. PICK k \in [0..Len(e) -> Trees(K, V)] : k[0] = tree /\ InsertAll(tree, e, pinned) = k[Len(e)]
  BY InsertAllSteps
<1>3. PICK l \in [0..Len(cs) -> Trees(K, V)] : InsertAll(tree, cs, pinned) = l[Len(cs)]
  BY InsertAllSteps
<1>4. Len(cs) \in 0..Len(cs)
  BY LenProperties
<1> QED BY <1>1, <1>2, <1>3, <1>4

\* What is pinned is mirrored, whatever it is.
LEMMA PinnedWell ==
    ASSUME NEW K, NEW V, NEW A, NoVal \in V, NEW X,
           NEW s \in Seq(ClaimSet(K, V, A)), Rooted(s, K)
    PROVE  /\ InsertAll(EmptyTree, s, TRUE) \in Trees(K, V) /\ Pins(s) \in Seq(ClaimSet(K, V, A))
           /\ RootsWell(InsertAll(EmptyTree, s, TRUE), s, Pins(s), K, X)
<1>10. PICK b \in BOOLEAN, E \in Trees(K, V) : b = TRUE /\ E = EmptyTree
  BY EmptyTreeWell
<1> DEFINE S == ClaimSet(K, V, A)
           Well(q) == RootsWell(InsertAll(E, q, b), q, Pins(q), K, X)
           C == {q \in Seq(S) : Rooted(q, K) => Well(q)}
<1>1. InsertAll(E, <<>>, b) = E /\ InsertAll(E, s, b) \in Trees(K, V)
  BY InsertAllTyped
<1>2. <<>> \in C
  BY <1>1, <1>10, EmptyTreeWell, EmptySeq
<1>3. ASSUME NEW q \in Seq(S), NEW c \in S, q \in C PROVE Append(q, c) \in C
  <2>1. Append(q, c) \in Seq(S) /\ (Rooted(Append(q, c), K) <=> Rooted(q, K) /\ Follows(q, c, K))
    BY AppendProperties, RootedAppend
  <2>2. /\ InsertAll(E, q, b) \in Trees(K, V)
        /\ InsertAll(E, Append(q, c), b) = Insert(InsertAll(E, q, b), c, b)
    BY InsertAllAppend
  <2>3. ASSUME Rooted(Append(q, c), K) PROVE Well(Append(q, c))
    <3>1. Well(q) /\ Follows(q, c, K)
      BY <1>3, <2>1, <2>3
    <3>2. PICK t \in Trees(K, V) : t = InsertAll(E, q, b)
      BY <2>2
    <3> QED BY <1>10, <2>2, <3>1, <3>2, PinnedStep
  <2> QED BY <2>1, <2>3
<1>4. s \in C
  <2> HIDE DEF C
  <2> QED BY <1>2, <1>3, AppendInduction
<1>5. Pins(s) \in Seq(S)
  <2>1. PICK T : T = S
    OBVIOUS
  <2>2. CASE s = <<>>
    BY <2>2, EmptyTreeWell, EmptySeq
  <2>3. CASE s # <<>>
    <3>1. PICK x \in T : TRUE
      <4>1. 1 \in 1..Len(s)
        BY <2>3, EmptySeq, LenProperties
      <4> QED BY <2>1, <4>1, ElementOfSeq
    <3> QED BY <2>1, <3>1, PinsAppend
  <2> QED BY <2>2, <2>3
<1> QED BY <1>1, <1>4, <1>5, <1>10

-----------------------------------------------------------------------------
(* What the line says.                                                      *)

\* What is pinned shuts out a group at q made with base b.
ShutAt(ps, q, b) ==
    \E i \in DOMAIN ps : Upto(ps[i].path, q) /\ (IsLeaf(ps[i]) \/ Len(ps[i].path) > b)

\* A group that is being filled is so among the claims that count, unless it is
\* shut out.
Listens(s, ps, h, K) ==
    \A q \in Paths(K), b \in Nat : Within(s, q, b) => ShutAt(ps, q, b) \/ Within(h, q, b)

\* The entries of the root stay, they and no others are pinned.
Keeps(tree, root) ==
    /\ \A p \in PathsIn(root) : p \in PathsIn(tree) /\ (tree.at[p].leaf <=> root.at[p].leaf)
    /\ \A p \in PathsIn(tree) : tree.at[p].pinned <=> p \in PathsIn(root)

LinesWell(tree, root, s, ps, h, K, X) ==
    Mirrors(tree, h, K, X) /\ Keeps(tree, root) /\ Listens(s, ps, h, K)

\* A claim yields when a pinned one shuts it out.
LEMMA YieldsShut ==
    ASSUME NEW K, NEW V, NEW A, NEW X, NEW tree \in Trees(K, V), NEW root \in Trees(K, V),
           NEW ps \in Seq(ClaimSet(K, V, A)), NEW c \in ClaimSet(K, V, A),
           Mirrors(root, ps, K, X), Stands(root, ps), Keeps(tree, root)
    PROVE  Yields(tree, c, FALSE) <=> ShutOut(ps, c)
<1>1. PICK r \in Paths(K) : r = c.path
  BY ClaimsIn
<1>2. PICK b \in BOOLEAN : b = FALSE
  OBVIOUS
<1>3. Yields(tree, c, b) <=> \E p \in PathsIn(tree) : YieldsTo(tree, c, b, p)
  BY YieldsIs
<1>4. \A x, y \in Paths(K) : IsPrefix(x, y) <=> x = y \/ Below(x, y)
  BY PrefixIs
<1>5. \A i \in DOMAIN ps : ps[i].path \in Paths(K)
  BY ClaimsIn
<1>6. /\ PathsIn(tree) \subseteq Paths(K) /\ PathsIn(root) \subseteq Paths(K)
  BY TreeParts
<1>7. /\ Len(r) \in Nat /\ c.base \in Nat
      /\ IsLeaf(c) => c.base < Len(r)
  BY <1>1, LenProperties DEF ClaimSet, Paths
<1>8. /\ \A p \in PathsIn(root) : p \in PathsIn(tree) /\ (tree.at[p].leaf <=> root.at[p].leaf)
      /\ \A p \in PathsIn(tree) : tree.at[p].pinned <=> p \in PathsIn(root)
  BY DEF Keeps
<1>9. ASSUME NEW p \in PathsIn(tree), YieldsTo(tree, c, b, p) PROVE ShutOut(ps, c)
  <2>1. /\ p = r \/ Below(p, r)
        /\ p \in PathsIn(root)
        /\ tree.at[p].leaf \/ Len(p) > c.base
    BY <1>1, <1>8, <1>9 DEF YieldsTo
  <2>2. \E i \in DOMAIN ps : ps[i].path = p /\ (IsLeaf(ps[i]) \/ Len(p) > c.base)
    <3>1. CASE tree.at[p].leaf
      <4>1. PICK i \in DOMAIN ps : Counts(ps, i) /\ ps[i].path = p
        BY <1>8, <2>1, <3>1 DEF Mirrors, Valued
      <4> QED BY <4>1 DEF Counts
    <3>2. CASE Len(p) > c.base
      BY <2>1, <3>2 DEF Mirrors, Placed
    <3> QED BY <2>1, <3>1, <3>2
  <2> QED BY <1>1, <1>4, <1>6, <2>1, <2>2 DEF ShutOut
<1>10. ASSUME ShutOut(ps, c) PROVE \E p \in PathsIn(tree) : YieldsTo(tree, c, b, p)
  <2>1. PICK i \in DOMAIN ps : IsPrefix(ps[i].path, r) /\ (IsLeaf(ps[i]) \/ Len(ps[i].path) > c.base)
    BY <1>1, <1>10 DEF ShutOut
  <2>2. PICK q \in Paths(K) : q = ps[i].path
    BY <1>5
  <2>3. q = r \/ Below(q, r)
    BY <1>4, <2>1, <2>2
  <2>4. StandsAt(root, ps[i])
    BY DEF Stands
  <2>5. ASSUME NEW p \in PathsIn(root), root.at[p].leaf, Upto(p, q)
        PROVE  \E o \in PathsIn(tree) : YieldsTo(tree, c, b, o)
    <3>1. p \in PathsIn(tree) /\ tree.at[p].leaf /\ tree.at[p].pinned /\ p \in Paths(K)
      BY <1>6, <1>8, <2>5
    <3>2. p = r \/ Below(p, r)
      BY <2>3, <2>5, <3>1, BelowOrder DEF Upto
    <3>3. CASE p # r
      BY <1>1, <3>1, <3>2, <3>3 DEF YieldsTo
    <3>4. CASE p = r
      <4>1. q = r
        BY <2>3, <2>5, <3>4, BelowOrder DEF Upto
      <4>2. ~IsLeaf(c) \/ Len(p) > c.base
        BY <1>7, <3>4
      <4> QED BY <1>1, <1>2, <3>1, <3>4, <4>2 DEF YieldsTo
    <3> QED BY <3>3, <3>4
  <2>6. ASSUME ~IsLeaf(ps[i]), IsNodeAt(root, q) PROVE \E o \in PathsIn(tree) : YieldsTo(tree, c, b, o)
    <3>1. q \in PathsIn(tree) /\ tree.at[q].pinned
      BY <1>8, <2>6 DEF IsNodeAt
    <3> QED BY <1>1, <1>2, <2>1, <2>2, <2>3, <2>6, <3>1 DEF YieldsTo
  <2> QED BY <2>2, <2>4, <2>5, <2>6 DEF StandsAt
<1> QED BY <1>2, <1>3, <1>9, <1>10

\* What is put does not touch the root.
LEMMA PutKeeps ==
    ASSUME NEW K, NEW V, NEW A, NoVal \in V, NEW tree \in Trees(K, V), NEW root \in Trees(K, V),
           NEW c \in ClaimSet(K, V, A), Branching(root, K), Keeps(tree, root),
           ~Yields(tree, c, FALSE)
    PROVE  Keeps(Put(tree, c, FALSE), root)
<1>1. PICK r \in Paths(K) : r = c.path
  BY DEF ClaimSet
<1>2. PICK b \in BOOLEAN : b = FALSE
  OBVIOUS
<1>3. PICK t \in Trees(K, V) : t = Put(tree, c, b) /\ PutEffect(tree, t, c, b, {})
  BY PutWell
<1>4. PathsIn(tree) \subseteq Paths(K) /\ PathsIn(t) \subseteq Paths(K) /\ PathsIn(root) \subseteq Paths(K)
  BY TreeParts
<1>5. /\ \A q \in Paths(K) : q \in PathsIn(t) <=>
              q = r \/ (q \in PathsIn(tree) /\ (Joins(tree, c) \/ ~Below(r, q)))
      /\ \A q \in PathsIn(t) : q # r => q \in PathsIn(tree) /\ t.at[q] = tree.at[q]
      /\ t.at[r] = EntryOf(tree, c, b)
  BY <1>1, <1>3, <1>4 DEF PutEffect
<1>6. /\ EntryOf(tree, c, b).leaf = IsLeaf(c)
      /\ EntryOf(tree, c, b).pinned <=> b \/ (Has(tree, c.path) /\ tree.at[c.path].pinned)
  BY EntryParts, Zenon
<1>7. t.at[r].leaf = IsLeaf(c) /\ (t.at[r].pinned <=> r \in PathsIn(tree) /\ tree.at[r].pinned)
  <2>1. t.at[r].leaf = EntryOf(tree, c, b).leaf /\ t.at[r].pinned = EntryOf(tree, c, b).pinned
    BY <1>5
  <2> QED BY <1>1, <1>2, <1>6, <2>1, Zenon DEF Has, PathsIn
<1>8. /\ \A p \in PathsIn(root) : p \in PathsIn(tree) /\ (tree.at[p].leaf <=> root.at[p].leaf)
      /\ \A p \in PathsIn(tree) : tree.at[p].pinned <=> p \in PathsIn(root)
  BY DEF Keeps
<1>9. \A p \in PathsIn(tree) : ~YieldsTo(tree, c, b, p)
  BY <1>2, YieldsIs
<1>10. r \in PathsIn(root) => ~IsLeaf(c) /\ ~root.at[r].leaf /\ Joins(tree, c)
  <2> SUFFICES ASSUME r \in PathsIn(root) PROVE ~IsLeaf(c) /\ ~root.at[r].leaf /\ Joins(tree, c)
    OBVIOUS
  <2>1. r \in PathsIn(tree) /\ tree.at[r].pinned /\ (tree.at[r].leaf <=> root.at[r].leaf)
    BY <1>8
  <2>2. ~(tree.at[r].leaf /\ ~IsLeaf(c)) /\ ~(Len(r) > c.base)
    BY <1>1, <1>2, <1>9, <2>1 DEF YieldsTo
  <2>3. Len(r) \in Nat /\ c.base \in Nat /\ (IsLeaf(c) => c.base < Len(r))
    BY <1>1, LenProperties DEF ClaimSet, Paths
  <2>4. ~IsLeaf(c)
    BY <2>2, <2>3
  <2> QED BY <1>1, <2>1, <2>2, <2>4 DEF Joins, Has, PathsIn
<1>11. ASSUME NEW p \in PathsIn(root) PROVE p \in PathsIn(t) /\ (t.at[p].leaf <=> root.at[p].leaf)
  <2>1. p \in PathsIn(tree) /\ (tree.at[p].leaf <=> root.at[p].leaf) /\ p \in Paths(K)
    BY <1>4, <1>8
  <2>2. CASE p = r
    BY <1>5, <1>7, <1>10, <2>2
  <2>3. CASE p # r
    <3>1. Below(r, p) => r \in PathsIn(root)
      BY DEF Branching, IsNodeAt
    <3> QED BY <1>5, <1>10, <2>1, <2>3, <3>1
  <2> QED BY <2>2, <2>3
<1>12. ASSUME NEW p \in PathsIn(t) PROVE t.at[p].pinned <=> p \in PathsIn(root)
  <2>1. CASE p = r
    BY <1>7, <1>8, <2>1
  <2>2. CASE p # r
    BY <1>5, <1>8, <2>2
  <2> QED BY <2>1, <2>2
<1> QED BY <1>2, <1>3, <1>11, <1>12 DEF Keeps

\* Inserted or not, what the line says is mirrored.
LEMMA LineStep ==
    ASSUME NEW K, NEW V, NEW A, NoVal \in V, NEW X, NEW tree \in Trees(K, V), NEW root \in Trees(K, V),
           NEW s \in Seq(ClaimSet(K, V, A)), NEW ps \in Seq(ClaimSet(K, V, A)),
           NEW c \in ClaimSet(K, V, A), Mirrors(root, ps, K, X), Stands(root, ps),
           LinesWell(tree, root, s, ps, ps \o Heard(ps, s), K, X), Follows(s, c, K)
    PROVE  LinesWell(Insert(tree, c, FALSE), root, Append(s, c), ps,
                     ps \o Heard(ps, Append(s, c)), K, X)
<1>1. PICK S : S = ClaimSet(K, V, A)
  OBVIOUS
<1>2. PICK w \in Seq(S) : w = Heard(ps, s)
  BY <1>1, HeardAppend
<1>3. PICK h \in Seq(S) : h = ps \o w
  BY <1>1, <1>2, ConcatProperties
<1>4. PICK u \in Seq(S) : u = Append(s, c)
  BY <1>1, AppendProperties
<1>5. PICK r \in Paths(K) : r = c.path /\ c.base \in Nat /\ (c.kind = "open" <=> ~IsLeaf(c))
  BY DEF ClaimSet, IsLeaf
<1>6. ps \o Heard(ps, u) = IF ShutOut(ps, c) THEN h ELSE Append(h, c)
  <2>1. Heard(ps, u) = IF ShutOut(ps, c) THEN w ELSE Append(w, c)
    BY <1>1, <1>2, <1>4, HeardAppend
  <2>2. ps \o Append(w, c) = Append(ps \o w, c)
    BY <1>1, <1>2, ConcatAppend
  <2> QED BY <1>3, <2>1, <2>2
<1>7. /\ Mirrors(tree, h, K, X) /\ Keeps(tree, root) /\ Listens(s, ps, h, K)
      /\ Branching(root, K)
  BY <1>2, <1>3 DEF LinesWell, Mirrors
<1>8. Yields(tree, c, FALSE) <=> ShutOut(ps, c)
  BY <1>7, YieldsShut
<1>9. Insert(tree, c, FALSE) = IF Yields(tree, c, FALSE) THEN tree ELSE Put(tree, c, FALSE)
  BY InsertIs
<1>10. \A q \in Paths(K), b \in Nat : Within(u, q, b) <=>
           \/ c.path = q /\ c.kind = "open" /\ c.base = b
           \/ Within(s, q, b) /\ Below(q, c.path)
  BY <1>1, <1>4, WithinAppend
<1>11. \A x, y \in Paths(K) : IsPrefix(x, y) <=> x = y \/ Below(x, y)
  BY PrefixIs
<1>12. \A i \in DOMAIN ps : ps[i].path \in Paths(K)
  BY ClaimsIn
<1>13. ShutOut(ps, c) <=> ShutAt(ps, r, c.base)
  BY <1>5, <1>11, <1>12 DEF ShutOut, ShutAt, Upto
<1>14. CASE ShutOut(ps, c)
  <2>1. Listens(u, ps, h, K)
    BY <1>5, <1>7, <1>10, <1>13, <1>14 DEF Listens
  <2> QED BY <1>4, <1>6, <1>7, <1>8, <1>9, <1>14, <2>1 DEF LinesWell
<1>15. CASE ~ShutOut(ps, c)
  <2>1. Insert(tree, c, FALSE) = Put(tree, c, FALSE) /\ ~Yields(tree, c, FALSE)
    BY <1>8, <1>9, <1>15
  <2>2. Follows(h, c, K)
    <3> SUFFICES ASSUME NEW q \in Paths(K), Below(q, c.path)
                 PROVE  Within(h, q, Shorter(Len(q), c.base))
      BY DEF Follows
    <3>1. PICK b \in Nat : b = Shorter(Len(q), c.base)
      BY <1>5, LenProperties DEF Shorter, Paths
    <3>2. Within(s, q, b)
      BY <3>1 DEF Follows
    <3>3. ASSUME NEW i \in DOMAIN ps, Upto(ps[i].path, q), IsLeaf(ps[i]) \/ Len(ps[i].path) > b
          PROVE  FALSE
      <4>1. PICK e \in Paths(K) : e = ps[i].path
        BY <1>12
      <4>2. Upto(e, r)
        BY <1>5, <3>3, <4>1, BelowOrder DEF Upto
      <4>3. Len(e) \in Nat /\ Len(q) \in Nat /\ Len(e) <= Len(q)
        BY <3>3, <4>1, LenProperties DEF Upto, Below, Paths
      <4>4. Len(e) > b => Len(e) > c.base
        BY <1>5, <3>1, <4>3 DEF Shorter
      <4> QED BY <1>13, <1>15, <3>3, <4>1, <4>2, <4>4 DEF ShutAt
    <3> QED BY <1>7, <3>1, <3>2, <3>3 DEF Listens, ShutAt
  <2>3. PICK b \in BOOLEAN : b = FALSE
    OBVIOUS
  <2>4. Mirrors(Put(tree, c, b), Append(h, c), K, X)
    BY <1>1, <1>7, <2>2, PutMirrors
  <2>5. Keeps(Put(tree, c, FALSE), root)
    BY <1>7, <2>1, PutKeeps
  <2>6. Listens(u, ps, Append(h, c), K)
    <3> SUFFICES ASSUME NEW q \in Paths(K), NEW e \in Nat, Within(u, q, e)
                 PROVE  ShutAt(ps, q, e) \/ Within(Append(h, c), q, e)
      BY DEF Listens
    <3>1. Within(Append(h, c), q, e) <=> \/ c.path = q /\ c.kind = "open" /\ c.base = e
                                         \/ Within(h, q, e) /\ Below(q, c.path)
      BY <1>1, WithinAppend
    <3> QED BY <1>7, <1>10, <3>1 DEF Listens
  <2> QED BY <1>4, <1>6, <1>15, <2>1, <2>3, <2>4, <2>5, <2>6 DEF LinesWell
<1> QED BY <1>14, <1>15

\* What is pinned and what is said makes a tree that mirrors all that counts.
LEMMA LineWell ==
    ASSUME NEW K, NEW V, NEW A, NoVal \in V, NEW X,
           NEW s \in Seq(ClaimSet(K, V, A)), Rooted(s, K),
           NEW t \in Seq(ClaimSet(K, V, A)), Rooted(t, K)
    PROVE  LET tree == InsertAll(InsertAll(EmptyTree, s, TRUE), t, FALSE)
               all == Pins(s) \o Heard(Pins(s), t)
           IN /\ tree \in Trees(K, V) /\ all \in Seq(ClaimSet(K, V, A))
              /\ Mirrors(tree, all, K, X)
<1>1. PICK root \in Trees(K, V), ps \in Seq(ClaimSet(K, V, A)) :
          /\ root = InsertAll(EmptyTree, s, TRUE) /\ ps = Pins(s)
          /\ RootsWell(root, s, ps, K, X)
  BY PinnedWell
<1>2. PICK b \in BOOLEAN : b = FALSE
  OBVIOUS
<1> DEFINE S == ClaimSet(K, V, A)
           Well(q) == LinesWell(InsertAll(root, q, b), root, q, ps, ps \o Heard(ps, q), K, X)
           C == {q \in Seq(S) : Rooted(q, K) => Well(q)}
<1>3. /\ Mirrors(root, ps, K, X) /\ AllPinned(root) /\ Stands(root, s)
      /\ \A i \in DOMAIN ps : \E j \in DOMAIN s : s[j] = ps[i]
  BY <1>1 DEF RootsWell
<1>4. Stands(root, ps)
  BY <1>3 DEF Stands
<1>5. InsertAll(root, <<>>, b) = root /\ InsertAll(root, t, b) \in Trees(K, V)
  BY InsertAllTyped
<1>12. Heard(ps, <<>>) = <<>>
  BY NothingMade
<1>6. <<>> \in C
  <2>1. Keeps(root, root)
    BY <1>3 DEF Keeps, AllPinned
  <2>2. Listens(<<>>, ps, ps, K)
    <3>1. DOMAIN <<>> = {}
      OBVIOUS
    <3> QED BY <3>1 DEF Listens, Within
  <2>3. ps \o <<>> = ps
    BY ConcatEmptySeq
  <2> QED BY <1>3, <1>5, <1>12, <2>1, <2>2, <2>3, EmptySeq DEF LinesWell
<1>7. ASSUME NEW q \in Seq(S), NEW c \in S, q \in C PROVE Append(q, c) \in C
  <2>1. Append(q, c) \in Seq(S) /\ (Rooted(Append(q, c), K) <=> Rooted(q, K) /\ Follows(q, c, K))
    BY AppendProperties, RootedAppend
  <2>2. /\ InsertAll(root, q, b) \in Trees(K, V)
        /\ InsertAll(root, Append(q, c), b) = Insert(InsertAll(root, q, b), c, b)
    BY InsertAllAppend
  <2>3. ASSUME Rooted(Append(q, c), K) PROVE Well(Append(q, c))
    <3>1. Well(q) /\ Follows(q, c, K)
      BY <1>7, <2>1, <2>3
    <3>2. PICK tree \in Trees(K, V) : tree = InsertAll(root, q, b)
      BY <2>2
    <3> QED BY <1>2, <1>3, <1>4, <2>2, <3>1, <3>2, LineStep
  <2> QED BY <2>1, <2>3
<1>8. t \in C
  <2> HIDE DEF C
  <2> QED BY <1>6, <1>7, AppendInduction
<1>9. Mirrors(InsertAll(root, t, b), ps \o Heard(ps, t), K, X)
  BY <1>8 DEF LinesWell
<1>10. Heard(ps, t) \in Seq(S)
  <2>1. PICK T : T = S
    OBVIOUS
  <2>2. CASE t = <<>>
    BY <1>12, <2>2, EmptySeq
  <2>3. CASE t # <<>>
    <3>1. PICK x \in T : TRUE
      <4>1. 1 \in 1..Len(t)
        BY <2>3, EmptySeq, LenProperties
      <4> QED BY <2>1, <4>1, ElementOfSeq
    <3> QED BY <2>1, <3>1, HeardAppend
  <2> QED BY <2>2, <2>3
<1>11. ps \o Heard(ps, t) \in Seq(S)
  BY <1>10, ConcatProperties
<1> QED BY <1>1, <1>2, <1>5, <1>9, <1>11

-----------------------------------------------------------------------------
(* The line that is made of a tree.                                         *)

\* The keys that show anything.
ShownKeys(all) == {v.path[1] : v \in Resolution(all)}

\* A key is listed once, and it is claimed.
ListsOnce(h, X) ==
    Once(KeysOf(h, X)) /\ \A k \in Range(KeysOf(h, X)) : Claimed(h, k)

\* The keys of a line are listed once.
LEMMA KeysOnce ==
    ASSUME NEW K, NEW S, KeyedBy(S, K), NEW X, NEW h \in Seq(S)
    PROVE  KeysOf(h, X) \in Seq(K) /\ Once(KeysOf(h, X))
<1> DEFINE C == {s \in Seq(S) : KeysOf(s, X) \in Seq(K) /\ ListsOnce(s, X)}
<1>1. <<>> \in C
  <2>1. DOMAIN <<>> = {}
    OBVIOUS
  <2>3. KeysOf(<<>>, X) = <<>>
    BY NothingMade
  <2> QED BY <2>1, <2>3, EmptySeq DEF ListsOnce, Once, Range
<1>2. ASSUME NEW s \in Seq(S), NEW c \in S, s \in C PROVE Append(s, c) \in C
  <2>1. PICK t \in Seq(S) : t = Append(s, c)
    BY AppendProperties
  <2>2. /\ DOMAIN s = 1..Len(s) /\ DOMAIN t = 1..Len(s) + 1 /\ t[Len(s) + 1] = c /\ Len(s) \in Nat
        /\ \A i \in 1..Len(s) : t[i] = s[i]
    BY <2>1, AppendProperties, LenProperties
  <2>3. \A k : Claimed(s, k) \/ c.path[1] = k => Claimed(t, k)
    BY <2>2 DEF Claimed
  <2>4. PICK ks \in Seq(K) : ks = KeysOf(s, X)
    BY <1>2
  <2>5. KeysOf(t, X) = Keyed(ks, s, c, X) /\ c.path[1] \in K
    BY <2>1, <2>4, KeysAppend
  <2>6. Once(ks) /\ \A k \in Range(ks) : Claimed(s, k)
    BY <1>2, <2>4 DEF ListsOnce
  <2>7. CASE ~Claimed(s, c.path[1]) /\ c.path[1] \in X
    <3>1. KeysOf(t, X) = Append(ks, c.path[1])
      BY <2>5, <2>7 DEF Keyed
    <3>2. PICK k \in K : k = c.path[1]
      BY <2>5
    <3>3. PICK g \in Seq(K) : g = Append(ks, k)
      BY AppendProperties
    <3>4. Range(g) = Range(ks) \cup {k} /\ (Once(g) <=> Once(ks) /\ k \notin Range(ks))
      BY <3>3, RangeAppend
    <3> QED BY <2>1, <2>3, <2>6, <2>7, <3>1, <3>2, <3>3, <3>4 DEF ListsOnce
  <2>8. CASE ~(~Claimed(s, c.path[1]) /\ c.path[1] \in X)
    <3>1. KeysOf(t, X) = ks
      BY <2>5, <2>8 DEF Keyed
    <3> QED BY <2>1, <2>3, <2>6, <3>1 DEF ListsOnce
  <2> QED BY <2>7, <2>8
<1>3. h \in C
  <2> HIDE DEF C
  <2> QED BY <1>1, <1>2, AppendInduction
<1> QED BY <1>3 DEF ListsOnce

\* The top-level keys of an order as a line has them.
ToppedAs(o, X, reserved) ==
    FlattenSeq([i \in DOMAIN o |->
        IF Len(o[i]) = 1 /\ o[i][1] \in X THEN <<Renamed(reserved, o[i][1])>> ELSE <<>>])

\* They are the keys, renamed.
LEMMA TopsRenamed ==
    ASSUME NEW K, NEW X, NEW reserved, NEW o \in Seq(Paths(K))
    PROVE  ToppedAs(o, X, reserved)
             = [i \in DOMAIN TopsIn(o, X) |-> Renamed(reserved, TopsIn(o, X)[i])]
<1>1. PICK P : P = Paths(K)
  OBVIOUS
<1> DEFINE R == {Renamed(reserved, k) : k \in K}
           w == [k \in K |-> Renamed(reserved, k)]
           f == [x \in P |-> IF Len(x) = 1 /\ x[1] \in X THEN <<Renamed(reserved, x[1])>> ELSE <<>>]
           C == {s \in Seq(P) : ToppedAs(s, X, reserved) = Mapped(w, TopsIn(s, X))}
<1>2. w \in [K -> R]
  OBVIOUS
<1>3. \A x \in P : x[1] \in K
  BY <1>1, HeadPath
<1>4. <<>> \in Seq(R) /\ \A k \in K : <<Renamed(reserved, k)>> \in Seq(R)
  BY EmptySeq
<1>5. f \in [P -> Seq(R)]
  BY <1>3, <1>4
<1>6. ASSUME NEW q \in Seq(P) PROVE ToppedAs(q, X, reserved) = Spread(f, q)
  <2>1. \A i \in DOMAIN q : q[i] \in P
    BY LenProperties, ElementOfSeq
  <2>2. [i \in DOMAIN q |-> IF Len(q[i]) = 1 /\ q[i][1] \in X THEN <<Renamed(reserved, q[i][1])>> ELSE <<>>]
          = [i \in DOMAIN q |-> f[q[i]]]
    BY <2>1
  <2> QED BY <2>2 DEF ToppedAs, Spread
<1>7. \A x \in P : f[x] = IF Len(x) = 1 /\ x[1] \in X THEN <<w[x[1]]>> ELSE <<>>
  BY <1>3
<1>8. \A k \in K : w[k] \in R /\ w[k] = Renamed(reserved, k)
  OBVIOUS
<1> HIDE DEF f, w, R
<1>9. /\ Spread(f, <<>>) = <<>> /\ \A q \in Seq(P) : Spread(f, q) \in Seq(R)
      /\ \A q \in Seq(P), x \in P : Spread(f, Append(q, x)) = Spread(f, q) \o f[x]
  BY <1>5, SpreadSteps
<1>10. /\ Mapped(w, <<>>) = <<>> /\ \A q \in Seq(K) : Mapped(w, q) \in Seq(R)
       /\ \A q \in Seq(K), k \in K : Mapped(w, Append(q, k)) = Append(Mapped(w, q), w[k])
  BY <1>2, MappedSteps, ZenonT(30)
<1>11. ASSUME NEW q \in Seq(P), NEW x \in P
       PROVE  /\ TopsIn(<<>>, X) = <<>> /\ TopsIn(q, X) \in Seq(K)
              /\ TopsIn(Append(q, x), X) = Topped(TopsIn(q, X), x, X)
  <2>1. q \in Seq(Paths(K)) /\ x \in Paths(K)
    BY <1>1
  <2> QED BY <2>1, TopsAppend
<1>12. <<>> \in C
  <2>1. TopsIn(<<>>, X) = <<>>
    BY NothingMade
  <2>2. <<>> \in Seq(P)
    BY EmptySeq
  <2> QED BY <1>6, <1>9, <1>10, <2>1, <2>2
<1>13. ASSUME NEW q \in Seq(P), NEW x \in P, q \in C PROVE Append(q, x) \in C
  <2>1. Append(q, x) \in Seq(P)
    BY AppendProperties
  <2>2. PICK ts \in Seq(K) : ts = TopsIn(q, X) /\ TopsIn(Append(q, x), X) = Topped(ts, x, X)
    BY <1>11
  <2>3. PICK v \in Seq(R) : v = Spread(f, q) /\ v = Mapped(w, ts)
    BY <1>6, <1>9, <1>13, <2>2
  <2>4. ToppedAs(Append(q, x), X, reserved) = v \o f[x]
    BY <1>6, <1>9, <2>1, <2>3
  <2>5. PICK y \in R : y = w[x[1]]
    BY <1>3, <1>8
  <2>6. v \o <<>> = v /\ v \o <<y>> = Append(v, y)
    BY ConcatAppend
  <2>7. Mapped(w, Append(ts, x[1])) = Append(v, y)
    BY <1>3, <1>10, <2>3, <2>5
  <2> QED BY <1>7, <2>1, <2>2, <2>3, <2>4, <2>5, <2>6, <2>7 DEF Topped
<1>14. o \in C
  <2>1. o \in Seq(P)
    BY <1>1
  <2> HIDE DEF C
  <2> QED BY <1>12, <1>13, <2>1, AppendInduction
<1>15. TopsIn(o, X) \in Seq(K)
  <2>1. CASE o = <<>>
    BY <2>1, NothingMade, EmptySeq
  <2>2. CASE o # <<>>
    <3>1. 1 \in 1..Len(o)
      BY <2>2, EmptySeq, LenProperties
    <3>2. o \in Seq(P) /\ o[1] \in P
      BY <1>1, <3>1, ElementOfSeq
    <3> QED BY <1>11, <3>2
  <2> QED BY <2>1, <2>2
<1>16. \A i \in DOMAIN TopsIn(o, X) : TopsIn(o, X)[i] \in K
  BY <1>15, LenProperties, ElementOfSeq
<1> QED BY <1>8, <1>14, <1>16 DEF Mapped

\* A value of a tree, and how a line has it.
ValueAt(tree, p) == [path |-> p, val |-> tree.at[p].val]

LineAt(tree, p, reserved) ==
    [path |-> [p EXCEPT ![1] = Renamed(reserved, @)], val |-> tree.at[p].val]

LeavesAs(tree, o, reserved) ==
    FlattenSeq([i \in DOMAIN o |-> IF tree.at[o[i]].leaf THEN <<LineAt(tree, o[i], reserved)>> ELSE <<>>])

ValuesOf(tree, D) == {ValueAt(tree, p) : p \in {q \in D : tree.at[q].leaf}}

\* A line has the values at the places of an order, each once.
LeavesListed(tree, o, reserved) ==
    /\ IsFiniteSet(ValuesOf(tree, Range(o)))
    /\ Len(LeavesAs(tree, o, reserved)) = Cardinality(ValuesOf(tree, Range(o)))
    /\ Range(LeavesAs(tree, o, reserved))
         = {LineAt(tree, p, reserved) : p \in {q \in Range(o) : tree.at[q].leaf}}

\* Whatever the order.
LEMMA LeavesAreListed ==
    ASSUME NEW tree, NEW D, NEW reserved, NEW o \in Seq(D), Once(o)
    PROVE  LeavesListed(tree, o, reserved)
<1> DEFINE R == {LineAt(tree, x, reserved) : x \in D}
           f == [x \in D |-> IF tree.at[x].leaf THEN <<LineAt(tree, x, reserved)>> ELSE <<>>]
           C == {s \in Seq(D) : Once(s) => LeavesListed(tree, s, reserved)}
<1>1. <<>> \in Seq(R) /\ \A x \in D : <<LineAt(tree, x, reserved)>> \in Seq(R)
  BY EmptySeq
<1>2. f \in [D -> Seq(R)]
  BY <1>1
<1>3. ASSUME NEW q \in Seq(D) PROVE LeavesAs(tree, q, reserved) = Spread(f, q)
  <2>1. \A i \in DOMAIN q : q[i] \in D
    BY LenProperties, ElementOfSeq
  <2>2. [i \in DOMAIN q |-> IF tree.at[q[i]].leaf THEN <<LineAt(tree, q[i], reserved)>> ELSE <<>>]
          = [i \in DOMAIN q |-> f[q[i]]]
    BY <2>1
  <2> QED BY <2>2 DEF LeavesAs, Spread
<1>4. \A x \in D : /\ LineAt(tree, x, reserved) \in R
                   /\ f[x] = IF tree.at[x].leaf THEN <<LineAt(tree, x, reserved)>> ELSE <<>>
  OBVIOUS
<1> HIDE DEF f, R
<1>5. /\ Spread(f, <<>>) = <<>> /\ \A q \in Seq(D) : Spread(f, q) \in Seq(R)
      /\ \A q \in Seq(D), x \in D : Spread(f, Append(q, x)) = Spread(f, q) \o f[x]
  BY <1>2, SpreadSteps
<1>6. <<>> \in C
  <2>1. <<>> \in Seq(D) /\ Range(<<>>) = {} /\ Len(<<>>) = 0
    BY EmptySeq DEF Range
  <2>2. LeavesAs(tree, <<>>, reserved) = <<>>
    BY <1>3, <1>5, <2>1
  <2>3. ValuesOf(tree, Range(<<>>)) = {}
    BY <2>1 DEF ValuesOf
  <2> QED BY <2>1, <2>2, <2>3, FS_EmptySet DEF LeavesListed
<1>7. ASSUME NEW q \in Seq(D), NEW x \in D, q \in C PROVE Append(q, x) \in C
  <2>1. PICK t \in Seq(D) : t = Append(q, x)
    BY AppendProperties
  <2>2. Range(t) = Range(q) \cup {x} /\ (Once(t) <=> Once(q) /\ x \notin Range(q))
    BY <2>1, RangeAppend
  <2> SUFFICES ASSUME Once(t) PROVE LeavesListed(tree, t, reserved)
    BY <2>1
  <2>3. LeavesListed(tree, q, reserved) /\ x \notin Range(q)
    BY <1>7, <2>2
  <2>4. PICK w \in Seq(R) : w = LeavesAs(tree, q, reserved)
    BY <1>3, <1>5
  <2>5. LeavesAs(tree, t, reserved) = w \o f[x]
    BY <1>3, <1>5, <2>1, <2>4
  <2>6. PICK W : W = ValuesOf(tree, Range(q)) /\ IsFiniteSet(W) /\ Len(w) = Cardinality(W)
    BY <2>3, <2>4 DEF LeavesListed
  <2>7. CASE ~tree.at[x].leaf
    <3>1. LeavesAs(tree, t, reserved) = w
      BY <1>4, <2>5, <2>7, ConcatAppend
    <3>2. {p \in Range(t) : tree.at[p].leaf} = {p \in Range(q) : tree.at[p].leaf}
      BY <2>2, <2>7
    <3> QED BY <2>3, <2>4, <3>1, <3>2 DEF LeavesListed, ValuesOf
  <2>8. CASE tree.at[x].leaf
    <3>1. PICK y \in R : y = LineAt(tree, x, reserved)
      BY <1>4
    <3>2. PICK g \in Seq(R) : g = Append(w, y)
      BY AppendProperties
    <3>10. f[x] = <<y>>
      BY <1>4, <2>8, <3>1
    <3>11. w \o <<y>> = Append(w, y)
      BY ConcatAppend
    <3>3. LeavesAs(tree, t, reserved) = g
      BY <2>5, <3>2, <3>10, <3>11
    <3>4. Len(g) = Len(w) + 1 /\ Range(g) = Range(w) \cup {y}
      BY <3>2, AppendProperties, RangeAppend
    <3>5. {p \in Range(t) : tree.at[p].leaf} = {p \in Range(q) : tree.at[p].leaf} \cup {x}
      BY <2>2, <2>8
    <3>6. ValuesOf(tree, Range(t)) = W \cup {ValueAt(tree, x)}
      BY <2>6, <3>5 DEF ValuesOf
    <3>7. ValueAt(tree, x) \notin W
      BY <2>3, <2>6 DEF ValuesOf, ValueAt
    <3>8. /\ IsFiniteSet(W \cup {ValueAt(tree, x)})
          /\ Cardinality(W \cup {ValueAt(tree, x)}) = Cardinality(W) + 1
      BY <2>6, <3>7, FS_AddElement
    <3>9. Range(g) = {LineAt(tree, p, reserved) : p \in {p \in Range(t) : tree.at[p].leaf}}
      BY <2>3, <2>4, <3>1, <3>4, <3>5 DEF LeavesListed
    <3> QED BY <2>6, <3>3, <3>4, <3>6, <3>8, <3>9 DEF LeavesListed
  <2> QED BY <2>7, <2>8
<1>8. o \in C
  <2> HIDE DEF C
  <2> QED BY <1>6, <1>7, AppendInduction
<1> QED BY <1>8

\* What a tree says is what counts of the claims that it mirrors.
LEMMA ValuesCount ==
    ASSUME NEW tree, NEW all, Valued(tree, all)
    PROVE  ValuesOf(tree, PathsIn(tree)) = Resolution(all)
<1>1. ASSUME NEW p \in PathsIn(tree), tree.at[p].leaf PROVE ValueAt(tree, p) \in Resolution(all)
  <2>1. PICK i \in DOMAIN all : Counts(all, i) /\ all[i].path = p /\ all[i].val = tree.at[p].val
    BY <1>1 DEF Valued
  <2> QED BY <2>1 DEF ValueAt, Resolution
<1>2. ASSUME NEW i \in DOMAIN all, Counts(all, i)
      PROVE  [path |-> all[i].path, val |-> all[i].val] \in ValuesOf(tree, PathsIn(tree))
  <2>1. IsLeafAt(tree, all[i].path) /\ tree.at[all[i].path].val = all[i].val
    BY <1>2 DEF Valued
  <2> QED BY <2>1 DEF IsLeafAt, ValuesOf, ValueAt
<1>3. \A v \in ValuesOf(tree, PathsIn(tree)) : v \in Resolution(all)
  BY <1>1 DEF ValuesOf
<1>4. \A v \in Resolution(all) : v \in ValuesOf(tree, PathsIn(tree))
  BY <1>2 DEF Resolution
<1> QED BY <1>3, <1>4

\* A line has what counts, each path once, in the order of the first claims.
Reads(out, all, reserved) ==
    LET keys == FirstSeen(all)
    IN /\ AsSet(out.leaves) = {[v EXCEPT !.path[1] = Renamed(reserved, @)] : v \in Resolution(all)}
       /\ Len(out.leaves) = Cardinality(Resolution(all))
       /\ out.top = [i \in DOMAIN keys |-> Renamed(reserved, keys[i])]
       /\ \A i, j \in DOMAIN out.top :
             out.top[i] = out.top[j] => i = j \/ {keys[i], keys[j]} \cap reserved # {}

\* The line that is made of a tree has what counts of the claims that it mirrors.
LEMMA MaterializeReads ==
    ASSUME NEW K, NEW V, NEW A, NEW tree \in Trees(K, V), NEW all \in Seq(ClaimSet(K, V, A)),
           NEW reserved, Mirrors(tree, all, K, ShownKeys(all))
    PROVE  Reads(Materialize(tree, reserved), all, reserved)
<1> DEFINE X == ShownKeys(all)
           D == PathsIn(tree)
           o == tree.order
           out == Materialize(tree, reserved)
<1>1. o \in Seq(Paths(K)) /\ D \subseteq Paths(K)
  BY TreeParts
<1>2. Ordered(tree) /\ Valued(tree, all) /\ TopsIn(o, X) = KeysOf(all, X)
  BY DEF Mirrors
<1>3. DOMAIN o = 1..Len(o) /\ \A i \in DOMAIN o : o[i] \in D /\ o[i] \in Paths(K)
  BY <1>1, <1>2, LenProperties, ElementOfSeq DEF Ordered, Range
<1>4. o \in Seq(D)
  <2>1. o \in Seq(Range(o))
    <3>1. o = [i \in 1..Len(o) |-> o[i]] /\ Len(o) \in Nat
      BY <1>1, LenProperties
    <3>2. \A i \in 1..Len(o) : o[i] \in Range(o)
      BY <1>3 DEF Range
    <3> QED BY <3>1, <3>2, IsASeq
  <2> QED BY <1>2, <2>1 DEF Ordered
<1>5. out = [top |-> FlattenSeq([i \in DOMAIN o |->
                IF Len(o[i]) = 1 /\ (\E q \in D : tree.at[q].leaf /\ IsPrefix(o[i], q))
                THEN <<Renamed(reserved, o[i][1])>> ELSE <<>>]),
             leaves |-> LeavesAs(tree, o, reserved)]
  BY Zenon DEF Materialize, LeavesAs, LineAt, PathsIn
<1>6. \A p \in Paths(K) : Len(p) = 1 =>
          ((\E q \in D : tree.at[q].leaf /\ IsPrefix(p, q)) <=> p[1] \in X)
  <2> TAKE p \in Paths(K)
  <2> HAVE Len(p) = 1
  <2>1. p = <<p[1]>> /\ \A q \in Paths(K) : (IsPrefix(p, q) <=> p = q \/ Below(p, q))
    BY HeadPath, PrefixIs
  <2>2. \A q \in Paths(K) : IsPrefix(p, q) <=> q[1] = p[1]
    <3> TAKE q \in Paths(K)
    <3>1. ASSUME p = q \/ Below(p, q) PROVE q[1] = p[1]
      BY <3>1 DEF Below
    <3>2. ASSUME q[1] = p[1] PROVE p = q \/ Below(p, q)
      BY <2>1, <3>2, HeadPath
    <3> QED BY <2>1, <3>1, <3>2
  <2>3. X = {v.path[1] : v \in ValuesOf(tree, D)}
    BY <1>2, ValuesCount DEF ShownKeys
  <2>4. \A k : k \in X <=> \E q \in D : tree.at[q].leaf /\ k = q[1]
    <3>1. \A q : ValueAt(tree, q).path = q
      BY DEF ValueAt
    <3>2. \A k : k \in {v.path[1] : v \in ValuesOf(tree, D)} <=> \E q \in D : tree.at[q].leaf /\ k = q[1]
      BY <3>1, ZenonT(30) DEF ValuesOf
    <3> QED BY <2>3, <3>2
  <2> QED BY <1>1, <2>2, <2>4
<1>7. [i \in DOMAIN o |->
          IF Len(o[i]) = 1 /\ (\E q \in D : tree.at[q].leaf /\ IsPrefix(o[i], q))
          THEN <<Renamed(reserved, o[i][1])>> ELSE <<>>]
      = [i \in DOMAIN o |-> IF Len(o[i]) = 1 /\ o[i][1] \in X THEN <<Renamed(reserved, o[i][1])>> ELSE <<>>]
  <2> HIDE DEF X, D, o
  <2> QED BY <1>3, <1>6
<1>8. out.top = ToppedAs(o, X, reserved) /\ out.leaves = LeavesAs(tree, o, reserved)
  <2> HIDE DEF X, D, o
  <2> QED BY <1>5, <1>7 DEF ToppedAs
<1> HIDE DEF out
<1>9. out.top = [i \in DOMAIN TopsIn(o, X) |-> Renamed(reserved, TopsIn(o, X)[i])]
  BY <1>1, <1>8, TopsRenamed
<1>10. FirstSeen(all) = KeysOf(all, X)
  BY Zenon DEF FirstSeen, KeysOf, ShownKeys
<1>11. Once(KeysOf(all, X)) /\ KeysOf(all, X) \in Seq(K)
  <2>1. KeyedBy(ClaimSet(K, V, A), K)
    BY ClaimsIn, HeadPath DEF KeyedBy
  <2> QED BY <2>1, KeysOnce
<1>12. PICK keys : keys = FirstSeen(all)
  OBVIOUS
<1>13. out.top = [i \in DOMAIN keys |-> Renamed(reserved, keys[i])] /\ Once(keys)
  BY <1>2, <1>9, <1>10, <1>11, <1>12
<1>14. \A i, j \in DOMAIN out.top :
           out.top[i] = out.top[j] => i = j \/ {keys[i], keys[j]} \cap reserved # {}
  BY <1>13 DEF Once, Renamed
<1>15. LeavesListed(tree, o, reserved) /\ Range(o) = D
  BY <1>2, <1>4, LeavesAreListed DEF Ordered
<1>16. ValuesOf(tree, D) = Resolution(all)
  BY <1>2, ValuesCount
<1>17. Len(out.leaves) = Cardinality(Resolution(all))
  BY <1>8, <1>15, <1>16 DEF LeavesListed
<1>18. AsSet(out.leaves) = {LineAt(tree, p, reserved) : p \in {q \in D : tree.at[q].leaf}}
  BY <1>8, <1>15 DEF LeavesListed, AsSet, Range
<1>19. \A p : [ValueAt(tree, p) EXCEPT !.path[1] = Renamed(reserved, @)] = LineAt(tree, p, reserved)
  BY DEF ValueAt, LineAt
<1>20. {[v EXCEPT !.path[1] = Renamed(reserved, @)] : v \in ValuesOf(tree, D)}
         = {LineAt(tree, p, reserved) : p \in {q \in D : tree.at[q].leaf}}
  BY <1>19 DEF ValuesOf
<1>21. AsSet(out.leaves) = {[v EXCEPT !.path[1] = Renamed(reserved, @)] : v \in Resolution(all)}
  BY <1>16, <1>18, <1>20, Zenon
<1> QED BY <1>12, <1>13, <1>14, <1>17, <1>21, ZenonT(30) DEF Reads, out

-----------------------------------------------------------------------------
(* A record that is forwarded untouched.                                    *)

\* Single elements, one behind the other.
LEMMA FlattenSingles ==
    ASSUME NEW S, NEW s \in Seq(S)
    PROVE  FlattenSeq([i \in DOMAIN s |-> <<s[i]>>]) = s
<1> DEFINE f == [x \in S |-> <<x>>]
           C == {q \in Seq(S) : Spread(f, q) = q}
<1>1. \A x \in S : <<x>> \in Seq(S) /\ f[x] = <<x>>
  OBVIOUS
<1>2. f \in [S -> Seq(S)]
  BY <1>1
<1>3. \A i \in DOMAIN s : s[i] \in S
  BY LenProperties, ElementOfSeq
<1>4. [i \in DOMAIN s |-> <<s[i]>>] = [i \in DOMAIN s |-> f[s[i]]]
  BY <1>1, <1>3
<1> HIDE DEF f
<1>5. /\ Spread(f, <<>>) = <<>>
      /\ \A q \in Seq(S), x \in S : Spread(f, Append(q, x)) = Spread(f, q) \o f[x]
  BY <1>2, SpreadSteps
<1>6. <<>> \in C
  BY <1>5, EmptySeq
<1>7. ASSUME NEW q \in Seq(S), NEW x \in S, q \in C PROVE Append(q, x) \in C
  <2>1. Append(q, x) \in Seq(S) /\ q \o <<x>> = Append(q, x)
    BY AppendProperties, AppendIsConcat
  <2>2. Spread(f, Append(q, x)) = q \o <<x>>
    BY <1>1, <1>5, <1>7
  <2> QED BY <2>1, <2>2
<1>8. s \in C
  <2> HIDE DEF C
  <2> QED BY <1>6, <1>7, AppendInduction
<1> QED BY <1>4, <1>8 DEF Spread

\* Scalars at the top level, none twice.
PlainOne(c, reserved) == c.kind = "scalar" /\ Len(c.path) = 1 /\ c.path[1] \notin reserved

Plainly(s, reserved) ==
    /\ \A i \in DOMAIN s : PlainOne(s[i], reserved)
    /\ \A i \in DOMAIN s : \A j \in DOMAIN s : s[i].path = s[j].path => i = j

\* A path of one key stays as it is.
LEMMA SettlesOne ==
    ASSUME NEW K, NEW p \in Paths(K), Len(p) = 1
    PROVE  Settles(p) = p /\ Last(p) = p[1] /\ p = <<p[1]>>
<1>1. p = <<p[1]>>
  BY HeadPath
<1>2. /\ Front(p) \in Seq(K) /\ p = Append(Front(p), Last(p))
      /\ Len(p) = Len(Front(p)) + 1 /\ Last(p) = p[Len(p)]
  BY PathEnd
<1>3. Front(p) = <<>>
  <2>1. Len(Front(p)) = 0
    BY <1>2, LenProperties, SMTT(20)
  <2> QED BY <1>2, <2>1, EmptySeq
<1>4. WithoutEmpty(<<>>) = <<>>
  BY WithoutEmptySteps
<1> QED BY <1>1, <1>2, <1>3, <1>4 DEF Settles

\* Claims that are clean, and rooted, are plain.
LEMMA CleanIsPlain ==
    ASSUME NEW K, NEW V, NEW A, NEW cs \in Seq(ClaimSet(K, V, A)), Rooted(cs, K), NEW reserved,
           IsClean(cs, reserved)
    PROVE  Plainly(cs, reserved)
<1>1. \A i \in DOMAIN cs : cs[i].path \in Paths(K)
  BY ClaimsIn
<1>2. \A i \in DOMAIN cs : cs[i].kind = "scalar" /\ Last(cs[i].path) \notin reserved
  BY DEF IsClean
<1>3. ASSUME NEW i \in DOMAIN cs PROVE PlainOne(cs[i], reserved)
  <2>1. PICK p \in Paths(K) : p = cs[i].path
    BY <1>1
  <2>2. Len(p) = 1
    <3>1. SUFFICES ASSUME Len(p) # 1 PROVE FALSE
      OBVIOUS
    <3>2. <<p[1]>> \in Paths(K) /\ Below(<<p[1]>>, p)
      BY <3>1, HeadPath
    <3>3. PICK j \in DOMAIN cs : cs[j].kind = "open"
      BY <2>1, <3>2 DEF Rooted
    <3> QED BY <1>2, <3>3
  <2> QED BY <1>2, <2>1, <2>2, SettlesOne DEF PlainOne
<1>4. \A i \in DOMAIN cs : \A j \in DOMAIN cs : cs[i].path = cs[j].path => i = j
  <2>1. DOMAIN cs = 1..Len(cs) /\ Len(cs) \in Nat
    BY LenProperties
  <2>2. \A i \in DOMAIN cs : \A j \in 1..i - 1 : cs[j].path # cs[i].path
    BY DEF IsClean
  <2> TAKE i \in DOMAIN cs
  <2> TAKE j \in DOMAIN cs
  <2>3. i = j \/ i \in 1..j - 1 \/ j \in 1..i - 1
    BY <2>1
  <2> QED BY <2>2, <2>3
<1> QED BY <1>3, <1>4 DEF Plainly

\* Plain claims stand for themselves.
LEMMA PlainResolved ==
    ASSUME NEW S, NEW s \in Seq(S), NEW reserved, Plainly(s, reserved)
    PROVE  OneResolved(s) = s
<1>1. \A i \in DOMAIN s : TakenApart(Resolved(s[i])) = <<s[i]>>
  BY DEF Plainly, PlainOne, TakenApart, Resolved
<1>2. [i \in DOMAIN s |-> TakenApart(Resolved(s[i]))] = [i \in DOMAIN s |-> <<s[i]>>]
  BY <1>1
<1> QED BY <1>2, FlattenSingles DEF OneResolved

\* But for the zero attribute.
LEMMA PlainSettled ==
    ASSUME NEW K, NEW V, NEW A, NEW s \in Seq(ClaimSet(K, V, A)), NEW reserved, Plainly(s, reserved)
    PROVE  Settled(s) \in Seq(ClaimSet(K, V, A)) /\ Plainly(Settled(s), reserved)
<1> DEFINE S == ClaimSet(K, V, A)
           f == [c \in S |-> Inlined(c)]
           Less(q, t) ==
               t \in Seq(S) /\ Plainly(t, reserved)
               /\ \A i \in DOMAIN t : \E j \in DOMAIN q : q[j].path = t[i].path
           C == {q \in Seq(S) : Plainly(q, reserved) => Less(q, Settling(q))}
<1>1. \A c \in S : Inlined(c) = <<>> \/ \E d \in S :
          Inlined(c) = <<d>> /\ d.path = Settles(c.path) /\ d.kind = c.kind
  BY InlinedWell
<1>2. <<>> \in Seq(S) /\ \A d \in S : <<d>> \in Seq(S)
  BY EmptySeq
<1>3. f \in [S -> Seq(S)]
  BY <1>1, <1>2
<1>4. \A c \in S : f[c] = Inlined(c) /\ c.path \in Paths(K)
  BY ClaimsIn
<1>5. ASSUME NEW q \in Seq(S) PROVE Settling(q) = Spread(f, q)
  <2>1. \A i \in DOMAIN q : q[i] \in S
    BY ClaimsIn
  <2>2. [i \in DOMAIN q |-> Inlined(q[i])] = [i \in DOMAIN q |-> f[q[i]]]
    BY <2>1
  <2> QED BY <2>2 DEF Settling, Spread
<1> HIDE DEF f, S
<1>6. /\ Spread(f, <<>>) = <<>> /\ \A q \in Seq(S) : Spread(f, q) \in Seq(S)
      /\ \A q \in Seq(S), c \in S : Spread(f, Append(q, c)) = Spread(f, q) \o f[c]
  BY <1>3, SpreadSteps
<1>7. <<>> \in C
  <2>1. Settling(<<>>) = <<>>
    <3>1. PICK e \in Seq(S) : e = <<>>
      BY <1>2
    <3> QED BY <1>5, <1>6, <3>1
  <2>2. DOMAIN <<>> = {}
    OBVIOUS
  <2> QED BY <1>2, <2>1, <2>2 DEF Plainly
<1>8. ASSUME NEW q \in Seq(S), NEW c \in S, q \in C PROVE Append(q, c) \in C
  <2>1. PICK t \in Seq(S) : t = Append(q, c)
    BY AppendProperties
  <2>2. /\ DOMAIN q = 1..Len(q) /\ DOMAIN t = 1..Len(q) + 1 /\ t[Len(q) + 1] = c /\ Len(q) \in Nat
        /\ \A i \in 1..Len(q) : t[i] = q[i] /\ i \in 1..Len(q) + 1 /\ i # Len(q) + 1
        /\ Len(q) + 1 \in 1..Len(q) + 1
    BY <2>1, AppendProperties, LenProperties
  <2> SUFFICES ASSUME Plainly(t, reserved) PROVE Less(t, Settling(t))
    BY <2>1
  <2>3. Plainly(q, reserved) /\ PlainOne(c, reserved) /\ \A i \in DOMAIN q : q[i].path # c.path
    BY <2>2 DEF Plainly
  <2>4. PICK w \in Seq(S) : w = Settling(q) /\ Less(q, w)
    BY <1>5, <1>6, <1>8, <2>3
  <2>5. Settling(t) = w \o Inlined(c)
    BY <1>4, <1>5, <1>6, <2>1, <2>4
  <2>6. CASE Inlined(c) = <<>>
    <3>1. Settling(t) = w
      BY <2>5, <2>6, ConcatAppend
    <3> QED BY <2>2, <2>4, <3>1
  <2>7. ASSUME NEW d \in S, Inlined(c) = <<d>>, d.path = Settles(c.path), d.kind = c.kind
        PROVE  Less(t, Settling(t))
    <3>1. d.path = c.path /\ PlainOne(d, reserved)
      BY <1>4, <2>3, <2>7, SettlesOne DEF PlainOne
    <3>2. PICK g \in Seq(S) : g = Append(w, d)
      BY AppendProperties
    <3>3. Settling(t) = g
      BY <2>5, <2>7, <3>2, ConcatAppend
    <3>4. /\ DOMAIN w = 1..Len(w) /\ DOMAIN g = 1..Len(w) + 1 /\ g[Len(w) + 1] = d /\ Len(w) \in Nat
          /\ \A i \in 1..Len(w) : g[i] = w[i]
      BY <3>2, AppendProperties, LenProperties
    <3>5. \A i \in 1..Len(w) + 1 : i \in 1..Len(w) \/ i = Len(w) + 1
      BY <3>4
    <3>6. \A i \in DOMAIN w : w[i].path # c.path
      BY <2>3, <2>4
    <3>7. Plainly(g, reserved)
      BY <2>4, <3>1, <3>4, <3>5, <3>6 DEF Plainly
    <3>8. \A i \in DOMAIN g : \E j \in DOMAIN t : t[j].path = g[i].path
      <4> TAKE i \in DOMAIN g
      <4>1. CASE i \in 1..Len(w)
        <5>1. PICK j \in DOMAIN q : q[j].path = w[i].path
          BY <2>4, <3>4, <4>1
        <5> QED BY <2>2, <3>4, <4>1, <5>1
      <4>2. CASE i = Len(w) + 1
        BY <2>2, <3>1, <3>4, <4>2
      <4> QED BY <3>4, <3>5, <4>1, <4>2
    <3> QED BY <3>3, <3>7, <3>8
  <2> QED BY <1>1, <2>6, <2>7
<1>9. s \in C
  <2>1. s \in Seq(S)
    BY DEF S
  <2> HIDE DEF C
  <2> QED BY <1>7, <1>8, <2>1, AppendInduction
<1>10. Settled(s) = Settling(s)
  <2>1. OneResolved(s) = s
    BY PlainResolved
  <2> QED BY <2>1 DEF Settled, Settling
<1> QED BY <1>9, <1>10 DEF S

\* What is pinned when nothing is.
LEMMA NothingPinned == Settled(Claims(<<>>, <<>>)) = <<>>
<1> DEFINE a == [i \in DOMAIN <<>> |-> OpClaims(<<>>, i)]
           b == AttrClaims(GroupsOf(<<>>), Len(GroupsOf(<<>>)), <<>>)
           c == [i \in DOMAIN <<>> |-> TakenApart(Resolved(<<>>[i]))]
           d == [i \in DOMAIN <<>> |-> Inlined(<<>>[i])]
<1>1. DOMAIN <<>> = {}
  OBVIOUS
<1>2. /\ DOMAIN a = {} /\ a = [i \in DOMAIN a |-> a[i]] /\ DOMAIN c = {} /\ c = [i \in DOMAIN c |-> c[i]]
      /\ DOMAIN d = {} /\ d = [i \in DOMAIN d |-> d[i]]
  BY <1>1
<1>3. b = <<>>
  BY <1>1 DEF AttrClaims
<1>4. Claims(<<>>, <<>>) = FlattenSeq(a) \o b
  BY DEF Claims
<1>5. OneResolved(<<>>) = FlattenSeq(c)
  BY DEF OneResolved
<1>6. Settled(<<>>) = LET all == OneResolved(OneResolved(OneResolved(<<>>)))
                      IN FlattenSeq([i \in DOMAIN all |-> Inlined(all[i])])
  BY Zenon DEF Settled
<1> HIDE DEF a, b, c
<1>7. FlattenSeq(a) = <<>> /\ FlattenSeq(c) = <<>>
  BY <1>2, FlattenEmpty
<1>8. Settled(<<>>) = FlattenSeq(d)
  BY <1>5, <1>6, <1>7
<1> HIDE DEF d
<1>9. FlattenSeq(d) = <<>>
  BY <1>2, FlattenEmpty
<1>10. <<>> \o <<>> = <<>>
  BY EmptySeq, ConcatEmptySeq
<1> QED BY <1>3, <1>4, <1>7, <1>8, <1>9, <1>10

\* With nothing pinned everything is heard.
LEMMA AllHeard ==
    ASSUME NEW S, NEW s \in Seq(S)
    PROVE  Pins(<<>>) \o Heard(Pins(<<>>), s) = s
<1>1. Pins(<<>>) = <<>>
  BY NothingMade
<1>2. \A c : ~ShutOut(<<>>, c)
  BY DEF ShutOut
<1>3. Heard(<<>>, s) = FlattenSeq([i \in DOMAIN s |-> <<s[i]>>])
  BY <1>2 DEF Heard
<1> QED BY <1>1, <1>3, FlattenSingles, ConcatEmptySeq

\* Plain claims are read as they are, all of them.
LEMMA PlainReads ==
    ASSUME NEW K, NEW V, NEW A, NEW s \in Seq(ClaimSet(K, V, A)), NEW reserved, Plainly(s, reserved),
           NEW out, out.top = [i \in DOMAIN s |-> s[i].path[1]],
           out.leaves = [i \in DOMAIN s |-> [path |-> s[i].path, val |-> s[i].val]]
    PROVE  Reads(out, s, reserved)
<1>0. PICK n, ks, vs, W :
          /\ n = Len(s) /\ ks = [i \in DOMAIN s |-> s[i].path[1]]
          /\ vs = [i \in DOMAIN s |-> [path |-> s[i].path, val |-> s[i].val]]
          /\ W = {vs[i] : i \in 1..n}
  OBVIOUS
<1>1. DOMAIN s = 1..n /\ n \in Nat
  BY <1>0, LenProperties
<1>2. \A i \in 1..n : /\ s[i].path \in Paths(K) /\ s[i].path = <<ks[i]>> /\ Len(s[i].path) = 1
                      /\ ks[i] \notin reserved /\ IsLeaf(s[i]) /\ ks[i] \in K
  <2> TAKE i \in 1..n
  <2>1. PICK p \in Paths(K) : p = s[i].path /\ i \in DOMAIN s
    BY <1>1, ClaimsIn
  <2>2. s[i].kind = "scalar" /\ Len(p) = 1 /\ p[1] \notin reserved
    BY <2>1 DEF Plainly, PlainOne
  <2>3. ks[i] = p[1]
    BY <1>0, <2>1
  <2> QED BY <2>1, <2>2, <2>3, HeadPath DEF IsLeaf
<1>3. \A i, j \in 1..n : ks[i] = ks[j] => i = j
  BY <1>1, <1>2 DEF Plainly
<1>4. \A i \in 1..n : vs[i] = [path |-> s[i].path, val |-> s[i].val]
  BY <1>0, <1>1
<1>40. \A i \in 1..n : vs[i].path = s[i].path
  <2> TAKE i \in 1..n
  <2>1. PICK q, x : q = s[i].path /\ x = s[i].val
    OBVIOUS
  <2>2. vs[i] = [path |-> q, val |-> x]
    BY <1>4, <2>1
  <2> QED BY <2>1, <2>2
<1>5. \A i \in 1..n : Counts(s, i)
  <2> TAKE i \in 1..n
  <2> SUFFICES ASSUME NEW j \in i + 1..n PROVE ~IsPrefix(s[j].path, s[i].path)
    BY <1>0, <1>1, <1>2 DEF Counts, Overrules
  <2>1. j \in 1..n /\ j # i
    BY <1>1
  <2>2. s[j].path # s[i].path
    BY <1>1, <2>1 DEF Plainly
  <2>3. ~Below(s[j].path, s[i].path)
    <3>1. Len(s[j].path) = 1 /\ Len(s[i].path) = 1
      BY <1>2, <2>1
    <3> QED BY <3>1 DEF Below
  <2> QED BY <1>2, <2>1, <2>2, <2>3, PrefixIs
<1>6. Resolution(s) = W
  BY <1>0, <1>1, <1>4, <1>5 DEF Resolution
<1>7. KeysOf(s, {v.path[1] : v \in Resolution(s)}) = ks
  <2>0. \A i \in 1..n : s[i].path[1] = ks[i]
    BY <1>0, <1>1
  <2>1. \A i \in 1..n : ks[i] \in {v.path[1] : v \in Resolution(s)}
    <3> TAKE i \in 1..n
    <3>1. vs[i] \in Resolution(s)
      BY <1>0, <1>6
    <3>2. vs[i].path = s[i].path
      BY <1>40
    <3>3. vs[i].path[1] = ks[i]
      BY <2>0, <3>2
    <3> QED BY <3>1, <3>3
  <2>2. \A i \in 1..n : \A j \in 1..i - 1 : s[j].path[1] # s[i].path[1]
    <3> TAKE i \in 1..n
    <3> TAKE j \in 1..i - 1
    <3>1. j \in 1..n /\ i # j
      BY <1>1
    <3>2. ks[i] # ks[j]
      BY <1>3, <3>1
    <3> QED BY <2>0, <3>1, <3>2
  <2>5. ks = [i \in 1..n |-> ks[i]]
    BY <1>0, <1>1
  <2>7. \A i \in 1..n : ks[i] \in K
    BY <1>2
  <2>3. ks \in Seq(K)
    <3>1. n \in Nat
      BY <1>1
    <3> QED BY <2>5, <2>7, <3>1, IsASeq
  <2>4. FlattenSeq([i \in DOMAIN ks |-> <<ks[i]>>]) = ks
    BY <2>3, FlattenSingles
  <2>6. DOMAIN ks = 1..n
    BY <2>5
  <2>8. PICK P : P = {v.path[1] : v \in Resolution(s)}
    OBVIOUS
  <2> DEFINE Shows(i) ==
               IF (\A j \in 1..i - 1 : s[j].path[1] # s[i].path[1]) /\ s[i].path[1] \in P
               THEN <<s[i].path[1]>> ELSE <<>>
  <2>11. ASSUME NEW i \in 1..n PROVE Shows(i) = <<ks[i]>>
    <3>1. s[i].path[1] = ks[i] /\ ks[i] \in P
      BY <2>0, <2>1, <2>8
    <3>2. \A j \in 1..i - 1 : s[j].path[1] # s[i].path[1]
      BY <2>2
    <3> QED BY <3>1, <3>2
  <2>12. KeysOf(s, P) = FlattenSeq([i \in DOMAIN s |-> Shows(i)])
    BY DEF KeysOf
  <2> HIDE DEF Shows
  <2>9. [i \in DOMAIN s |-> Shows(i)] = [i \in DOMAIN ks |-> <<ks[i]>>]
    BY <1>1, <2>6, <2>11
  <2>10. KeysOf(s, P) = ks
    BY <2>4, <2>9, <2>12
  <2> QED BY <2>8, <2>10
<1>8. FirstSeen(s) = ks
  BY <1>7, Zenon DEF FirstSeen, KeysOf
<1>9. Cardinality(W) = n
  <2> DEFINE f == [i \in 1..n |-> vs[i]]
  <2>4. f \in [1..n -> W] /\ \A i \in 1..n : f[i] = vs[i]
    BY <1>0
  <2>5. \A i, j \in 1..n : f[i] = f[j] => i = j
    <3> TAKE i, j \in 1..n
    <3>3. \A k \in 1..n : vs[k].path = <<ks[k]>>
      <4> TAKE k \in 1..n
      <4>1. vs[k].path = s[k].path
        BY <1>40
      <4>2. s[k].path = <<ks[k]>>
        BY <1>2
      <4> QED BY <4>1, <4>2
    <3>4. f[i] = vs[i] /\ f[j] = vs[j]
      BY <2>4
    <3> HIDE DEF f
    <3>1. f[i].path = <<ks[i]>> /\ f[j].path = <<ks[j]>>
      BY <3>3, <3>4
    <3>2. f[i] = f[j] => ks[i] = ks[j]
      BY <3>1
    <3> QED BY <1>3, <3>2
  <2>6. \A x \in W : \E i \in 1..n : f[i] = x
    BY <1>0, <2>4
  <2> HIDE DEF f
  <2>1. f \in Bijection(1..n, W)
    BY <2>4, <2>5, <2>6 DEF Bijection, Injection, Surjection, IsInjective
  <2>2. IsFiniteSet(1..n) /\ Cardinality(1..n) = n
    BY <1>1, FS_Interval
  <2>3. ExistsBijection(1..n, W)
    BY <2>1 DEF ExistsBijection
  <2> QED BY <2>2, <2>3, FS_Bijection
<1>10. Len(vs) = n
  <2>1. vs = [i \in 1..n |-> vs[i]] /\ \A i \in 1..n : vs[i] \in W
    BY <1>0, <1>1
  <2>2. vs \in Seq(W)
    BY <1>1, <2>1, IsASeq
  <2>3. DOMAIN vs = 1..n /\ DOMAIN vs = 1..Len(vs) /\ Len(vs) \in Nat
    BY <2>1, <2>2, LenProperties
  <2> QED BY <1>1, <2>3
<1>11. \A i \in 1..n : Renamed(reserved, ks[i]) = ks[i]
  BY <1>2 DEF Renamed
<1>12. \A v \in W : [v EXCEPT !.path[1] = Renamed(reserved, @)] = v
  <2> TAKE v \in W
  <2>0. PICK i \in 1..n : v = vs[i]
    BY <1>0
  <2>1. PICK k : k = ks[i] /\ Renamed(reserved, k) = k
    BY <1>11
  <2>2. PICK x : x = s[i].val
    OBVIOUS
  <2>3. v = [path |-> <<k>>, val |-> x]
    BY <1>2, <1>4, <2>0, <2>1, <2>2
  <2>4. [[path |-> <<k>>, val |-> x] EXCEPT !.path[1] = k] = [path |-> <<k>>, val |-> x]
    OBVIOUS
  <2>5. v.path[1] = k
    BY <2>3
  <2> QED BY <2>1, <2>3, <2>4, <2>5
<1>13. {[v EXCEPT !.path[1] = Renamed(reserved, @)] : v \in W} = W
  BY <1>12
<1>14. AsSet(vs) = W
  BY <1>0, <1>1 DEF AsSet
<1>15. DOMAIN ks = 1..n
  BY <1>0, <1>1
<1>16. ks = [i \in DOMAIN ks |-> Renamed(reserved, ks[i])]
  BY <1>0, <1>1, <1>11, <1>15
<1>17. \A i, j \in DOMAIN ks : ks[i] = ks[j] => i = j
  BY <1>3, <1>15
<1>18. out.leaves = vs /\ out.top = ks
  BY <1>0
<1>20. AsSet(out.leaves) = {[v EXCEPT !.path[1] = Renamed(reserved, @)] : v \in Resolution(s)}
  BY <1>6, <1>13, <1>14, <1>18
<1>21. Len(out.leaves) = Cardinality(Resolution(s))
  BY <1>6, <1>9, <1>10, <1>18
<1>22. out.top = [i \in DOMAIN FirstSeen(s) |-> Renamed(reserved, FirstSeen(s)[i])]
  BY <1>8, <1>16, <1>18
<1>23. \A i, j \in DOMAIN out.top :
           out.top[i] = out.top[j] => i = j \/ {FirstSeen(s)[i], FirstSeen(s)[j]} \cap reserved # {}
  BY <1>17, <1>18
<1> QED BY <1>20, <1>21, <1>22, <1>23, Zenon DEF Reads

-----------------------------------------------------------------------------
(* The two ways in which DedupHandler writes a record.                      *)

\* One by one.
Listed(out, s) ==
    /\ out.top = [i \in DOMAIN s |-> s[i].path[1]]
    /\ out.leaves = [i \in DOMAIN s |-> [path |-> s[i].path, val |-> s[i].val]]

\* Plain claims are rendered one by one.
LEMMA RenderPlain ==
    ASSUME NEW K, NEW V, NEW A, NEW cs, NEW s \in Seq(ClaimSet(K, V, A)), s = Settled(cs),
           NEW reserved, Plainly(s, reserved)
    PROVE  Listed(Render(cs), s)
<1> DEFINE Shown(i) == \/ IsLeaf(s[i])
                       \/ \E j \in i + 1..Len(s) :
                             IsLeaf(s[j]) /\ IsStrictPrefix(s[i].path, s[j].path)
           Top(i) == IF Len(s[i].path) = 1 /\ Shown(i) THEN s[i].path ELSE <<>>
           Leaf(i) == IF IsLeaf(s[i]) THEN <<[path |-> s[i].path, val |-> s[i].val]>> ELSE <<>>
           ks == [i \in DOMAIN s |-> s[i].path[1]]
           vs == [i \in DOMAIN s |-> [path |-> s[i].path, val |-> s[i].val]]
<1>1. /\ Render(cs).top = FlattenSeq([i \in DOMAIN s |-> Top(i)])
      /\ Render(cs).leaves = FlattenSeq([i \in DOMAIN s |-> Leaf(i)])
  BY DEF Render
<1>2. PICK n : n = Len(s)
  OBVIOUS
<1>3. DOMAIN s = 1..n /\ n \in Nat
  BY <1>2, LenProperties
<1>4. ASSUME NEW i \in 1..n
      PROVE  Top(i) = <<ks[i]>> /\ Leaf(i) = <<vs[i]>> /\ ks[i] \in K
  <2>1. PICK p \in Paths(K) : p = s[i].path /\ i \in DOMAIN s
    BY <1>3, ClaimsIn
  <2>2. IsLeaf(s[i]) /\ Len(p) = 1
    BY <2>1 DEF Plainly, PlainOne, IsLeaf
  <2>3. p = <<p[1]>> /\ p[1] \in K
    BY <2>1, <2>2, HeadPath
  <2>4. ks[i] = p[1]
    BY <2>1
  <2>5. Top(i) = p
    BY <2>1, <2>2
  <2>6. Leaf(i) = <<vs[i]>>
    BY <2>1, <2>2
  <2> QED BY <2>3, <2>4, <2>5, <2>6
<1>5. /\ DOMAIN ks = 1..n /\ ks = [i \in 1..n |-> ks[i]]
      /\ DOMAIN vs = 1..n /\ vs = [i \in 1..n |-> vs[i]]
  BY <1>3
<1> HIDE DEF Top, Leaf, ks, vs
<1>6. FlattenSeq([i \in DOMAIN s |-> Top(i)]) = ks
  <2>1. \A i \in 1..n : ks[i] \in K
    BY <1>4
  <2>2. ks \in Seq(K)
    BY <1>3, <1>5, <2>1, IsASeq
  <2>3. [i \in DOMAIN s |-> Top(i)] = [i \in DOMAIN ks |-> <<ks[i]>>]
    BY <1>3, <1>4, <1>5
  <2> QED BY <2>2, <2>3, FlattenSingles
<1>7. FlattenSeq([i \in DOMAIN s |-> Leaf(i)]) = vs
  <2> DEFINE W == {vs[i] : i \in 1..n}
  <2>1. \A i \in 1..n : vs[i] \in W
    OBVIOUS
  <2> HIDE DEF W
  <2>2. vs \in Seq(W)
    BY <1>3, <1>5, <2>1, IsASeq
  <2>3. [i \in DOMAIN s |-> Leaf(i)] = [i \in DOMAIN vs |-> <<vs[i]>>]
    BY <1>3, <1>4, <1>5
  <2> QED BY <2>2, <2>3, FlattenSingles
<1> QED BY <1>1, <1>6, <1>7 DEF ks, vs, Listed

\* A record that is forwarded untouched is read as what it says.
LEMMA CleanReads ==
    ASSUME NEW K, NEW V, NEW A, NEW cs \in Seq(ClaimSet(K, V, A)), Rooted(cs, K), NEW reserved,
           IsClean(cs, reserved)
    PROVE  Reads(Render(cs), Settled(cs), reserved)
<1>1. Plainly(cs, reserved)
  BY CleanIsPlain
<1>2. PICK s \in Seq(ClaimSet(K, V, A)) : s = Settled(cs) /\ Plainly(s, reserved)
  BY <1>1, PlainSettled
<1>3. PICK out : out = Render(cs)
  OBVIOUS
<1>4. /\ out.top = [i \in DOMAIN s |-> s[i].path[1]]
      /\ out.leaves = [i \in DOMAIN s |-> [path |-> s[i].path, val |-> s[i].val]]
  <2>1. Listed(out, s)
    BY <1>2, <1>3, RenderPlain
  <2> QED BY <2>1 DEF Listed
<1>5. Reads(out, s, reserved)
  BY <1>2, <1>4, PlainReads
<1> QED BY <1>2, <1>3, <1>5

\* DedupHandler writes what counts of the pinned claims that have an effect and
\* of those they let through.
LEMMA DedupReads ==
    ASSUME NEW K, NEW V, NEW A, AttrSet(A, K, V), NoVal \in V, NEW pinned \in Seq(A), NEW ops,
           NEW cs \in Seq(ClaimSet(K, V, A)), Rooted(cs, K), NEW reserved
    PROVE  LET pins == Pins(Settled(Claims(<<>>, pinned)))
           IN Reads(DedupHandle(pinned, reserved, ops, cs), pins \o Heard(pins, Settled(cs)), reserved)
<1> DEFINE s == Settled(Claims(<<>>, pinned))
           t == Settled(cs)
           all == Pins(s) \o Heard(Pins(s), t)
           out == DedupHandle(pinned, reserved, ops, cs)
           tree == InsertAll(InsertAll(EmptyTree, s, TRUE), t, FALSE)
<1>1. t \in Seq(ClaimSet(K, V, A)) /\ Rooted(t, K)
  BY SettledRooted
<1>2. s \in Seq(ClaimSet(K, V, A)) /\ Rooted(s, K)
  <2>1. <<>> \in Seq(OpSet(A, K))
    BY EmptySeq
  <2>2. PICK e \in Seq(OpSet(A, K)) : e = <<>>
    BY <2>1
  <2>3. PICK c \in Seq(ClaimSet(K, V, A)) : c = Claims(<<>>, pinned) /\ Rooted(c, K)
    BY <2>2, ClaimsRooted
  <2>4. Settled(c) \in Seq(ClaimSet(K, V, A)) /\ Rooted(Settled(c), K)
    BY <2>3, SettledRooted
  <2> QED BY <2>3, <2>4
<1>3. CASE ops = <<>> /\ pinned = <<>> /\ IsClean(cs, reserved)
  <2>1. out = Render(cs)
    BY <1>3 DEF DedupHandle
  <2>2. s = <<>>
    BY <1>3, NothingPinned
  <2>3. all = t
    <3> HIDE DEF t
    <3> QED BY <1>1, <2>2, AllHeard
  <2>4. Reads(Render(cs), t, reserved)
    BY <1>3, CleanReads
  <2> HIDE DEF out, all, t, s
  <2>5. Reads(out, all, reserved)
    BY <2>1, <2>3, <2>4
  <2> QED BY <2>5 DEF out, all, t, s
<1>4. CASE ~(ops = <<>> /\ pinned = <<>> /\ IsClean(cs, reserved))
  <2>1. out = Materialize(tree, reserved)
    BY <1>4 DEF DedupHandle
  <2>2. PICK u \in Seq(ClaimSet(K, V, A)) : u = s /\ Rooted(u, K)
    BY <1>2
  <2>3. PICK w \in Seq(ClaimSet(K, V, A)) : w = t /\ Rooted(w, K)
    BY <1>1
  <2>4. PICK h, d : /\ h = Pins(u) \o Heard(Pins(u), w)
                    /\ d = InsertAll(InsertAll(EmptyTree, u, TRUE), w, FALSE)
    OBVIOUS
  <2>5. d \in Trees(K, V) /\ h \in Seq(ClaimSet(K, V, A)) /\ Mirrors(d, h, K, ShownKeys(h))
    <3>1. PICK X : X = ShownKeys(h)
      OBVIOUS
    <3>2. d \in Trees(K, V) /\ h \in Seq(ClaimSet(K, V, A)) /\ Mirrors(d, h, K, X)
      BY <2>2, <2>3, <2>4, LineWell
    <3> QED BY <3>1, <3>2
  <2>6. Reads(Materialize(d, reserved), h, reserved)
    BY <2>5, MaterializeReads
  <2>7. d = tree /\ h = all
    BY <2>2, <2>3, <2>4
  <2> HIDE DEF out, all, t, s, tree
  <2>8. Reads(out, all, reserved)
    BY <2>1, <2>6, <2>7
  <2> QED BY <2>8 DEF out, all, t, s
<1> QED BY <1>3, <1>4

-----------------------------------------------------------------------------
(* What a logger has been told, and the lines of a decorated chain.         *)

\* What is picked of a sequence.
Without(s, D) == FlattenSeq([i \in DOMAIN s |-> IF s[i] \in D THEN <<>> ELSE <<s[i]>>])

\* It is a sequence of the same elements.
LEMMA WithoutTyped ==
    ASSUME NEW S, NEW D, NEW s \in Seq(S)
    PROVE  Without(s, D) \in Seq(S)
<1> DEFINE f == [x \in S |-> IF x \in D THEN <<>> ELSE <<x>>]
<1>1. \A x \in S : <<x>> \in Seq(S) /\ <<>> \in Seq(S)
  BY EmptySeq
<1>2. f \in [S -> Seq(S)]
  BY <1>1
<1>3. \A i \in DOMAIN s : s[i] \in S
  BY LenProperties, ElementOfSeq
<1>4. [i \in DOMAIN s |-> IF s[i] \in D THEN <<>> ELSE <<s[i]>>] = [i \in DOMAIN s |-> f[s[i]]]
  BY <1>3
<1>5. Without(s, D) = Spread(f, s)
  BY <1>4 DEF Without, Spread
<1> HIDE DEF f
<1> QED BY <1>2, <1>5, SpreadSteps

\* Attributes without a key are dropped from a call.
LEMMA ValidTyped ==
    ASSUME NEW A, NEW as \in Seq(A)
    PROVE  FilterValidAttrs(as) \in Seq(A)
<1> DEFINE D == {a \in A : a.key = NoKey}
<1>1. \A i \in DOMAIN as : as[i] \in A
  BY LenProperties, ElementOfSeq
<1>2. FilterValidAttrs(as) = Without(as, D)
  BY <1>1 DEF FilterValidAttrs, Without
<1> QED BY <1>2, WithoutTyped

\* What is pinned is some of a handler's fields.
LEMMA PinnedTyped ==
    ASSUME NEW A, NEW child, child.fields \in Seq(A)
    PROVE  Pinned(child) \in Seq(A)
<1> DEFINE no == {NoKey} \cup (IF child.source THEN {"source"} ELSE {})
           D == {a \in A : a.key \in no}
<1>1. PICK as \in Seq(A) : as = child.fields
  OBVIOUS
<1>2. \A i \in DOMAIN as : as[i] \in A
  BY LenProperties, ElementOfSeq
<1>3. Pinned(child) = FlattenSeq([i \in DOMAIN as |-> IF as[i].key \in no THEN <<>> ELSE <<as[i]>>])
  BY <1>1 DEF Pinned
<1> HIDE DEF no
<1>4. Pinned(child) = Without(as, D)
  BY <1>2, <1>3 DEF Without
<1> QED BY <1>4, WithoutTyped

\* One call, when it is held.
LEMMA ValidOpIs ==
    ASSUME NEW K, NoKey \in K, NEW A, NEW op \in OpSet(A, K)
    PROVE  /\ ValidOp(op) \in Seq(OpSet(A, K))
           /\ ValidOp(op) = <<>> \/ \E x \in OpSet(A, K) : ValidOp(op) = <<x>>
<1>1. <<>> \in Seq(OpSet(A, K)) /\ \A x \in OpSet(A, K) : <<x>> \in Seq(OpSet(A, K))
  BY EmptySeq
<1>2. FilterValidAttrs(op.attrs) \in Seq(A)
  BY ValidTyped DEF OpSet
<1>3. AttrsOp(FilterValidAttrs(op.attrs)) \in OpSet(A, K)
  BY <1>2 DEF AttrsOp, OpSet
<1> QED BY <1>1, <1>3 DEF ValidOp

\* The calls that are held of a sequence of calls, with one call more.
LEMMA ValidOpsSteps ==
    ASSUME NEW K, NoKey \in K, NEW A
    PROVE  /\ ValidOps(<<>>) = <<>>
           /\ \A ops \in Seq(OpSet(A, K)) : ValidOps(ops) \in Seq(OpSet(A, K))
           /\ \A ops \in Seq(OpSet(A, K)), op \in OpSet(A, K) :
                 ValidOps(Append(ops, op)) = ValidOps(ops) \o ValidOp(op)
           /\ \A op \in OpSet(A, K) : ValidOps(<<op>>) = ValidOp(op)
<1> DEFINE O == OpSet(A, K)
           f == [op \in O |-> ValidOp(op)]
<1>1. \A op \in O : ValidOp(op) \in Seq(O)
  BY ValidOpIs
<1>2. f \in [O -> Seq(O)] /\ \A op \in O : f[op] = ValidOp(op)
  BY <1>1
<1>3. ASSUME NEW ops \in Seq(O) PROVE ValidOps(ops) = Spread(f, ops)
  <2>1. \A i \in DOMAIN ops : ops[i] \in O
    BY LenProperties, ElementOfSeq
  <2> HIDE DEF O
  <2>2. [i \in DOMAIN ops |-> ValidOp(ops[i])] = [i \in DOMAIN ops |-> f[ops[i]]]
    BY <2>1
  <2> QED BY <2>2 DEF ValidOps, Spread
<1> HIDE DEF f, O
<1>4. /\ Spread(f, <<>>) = <<>> /\ \A p \in Seq(O) : Spread(f, p) \in Seq(O)
      /\ \A p \in Seq(O), x \in O : Spread(f, Append(p, x)) = Spread(f, p) \o f[x]
  BY <1>2, SpreadSteps, ZenonT(30)
<1>5. <<>> \in Seq(O)
  BY EmptySeq
<1>6. ValidOps(<<>>) = <<>>
  <2>1. PICK e \in Seq(O) : e = <<>>
    BY <1>5
  <2> QED BY <1>3, <1>4, <2>1
<1>7. \A ops \in Seq(O) : ValidOps(ops) \in Seq(O)
  BY <1>3, <1>4
<1>8. ASSUME NEW ops \in Seq(O), NEW op \in O
      PROVE  ValidOps(Append(ops, op)) = ValidOps(ops) \o ValidOp(op)
  <2>1. Append(ops, op) \in Seq(O)
    BY AppendProperties
  <2> QED BY <1>2, <1>3, <1>4, <2>1
<1>9. ASSUME NEW op \in O PROVE ValidOps(<<op>>) = ValidOp(op)
  <2>1. PICK e \in Seq(O) : e = <<>>
    BY <1>5
  <2>2. Append(e, op) = <<op>>
    BY <2>1
  <2>3. ValidOps(<<op>>) = <<>> \o ValidOp(op)
    BY <1>6, <1>8, <2>1, <2>2
  <2>4. ValidOp(op) \in Seq(O)
    BY <1>1
  <2> QED BY <2>3, <2>4, ConcatEmptySeq
<1> QED BY <1>6, <1>7, <1>8, <1>9 DEF O

-----------------------------------------------------------------------------
(* A decorated chain holds the calls themselves when it has rules, and what *)
(* is valid of them when it has none.                                       *)
Keys == STRING \cup {NoKey, "source", "line"}
Calls == OpSet(Attributes, Keys)

KeptOf(child, made) == IF child.rules = <<>> THEN ValidOps(made) ELSE made

ToldIn(lg) ==
    /\ lg.made \in Seq(Calls)
    /\ \A c \in DOMAIN lg.children : lg.children[c].kind = "decorated" =>
          lg.kept[c] = KeptOf(lg.children[c], lg.made)

SaidInv == \A n \in DOMAIN loggers : ToldIn(loggers[n])

\* The calls of a scenario are calls.
LEMMA ScenarioCalls ==
    ASSUME NEW s \in Scenarios, NEW op \in s.ops
    PROVE  op \in Calls
BY LoggersAssumption DEF Calls, Keys, OpSet

\* What a decorated chain holds of one call more.
LEMMA KeptGrows ==
    ASSUME NEW child, child.kind = "decorated", NEW made \in Seq(Calls), NEW op \in Calls, NEW any
    PROVE  /\ Holds(child, any, op) = <<>> =>
                KeptOf(child, Append(made, op)) = KeptOf(child, made)
           /\ Holds(child, any, op) # <<>> =>
                KeptOf(child, Append(made, op))
                  = Append(KeptOf(child, made), Holds(child, any, op)[1])
<1>1. NoKey \in Keys
  BY DEF Keys
<1>2. CASE child.rules # <<>>
  <2>1. Holds(child, any, op) = <<op>>
    BY <1>2, Zenon DEF Holds
  <2>2. <<op>> # <<>> /\ <<op>>[1] = op
    OBVIOUS
  <2> QED BY <1>2, <2>1, <2>2 DEF KeptOf
<1>3. CASE child.rules = <<>>
  <2> DEFINE h == ValidOps(made)
  <2>1. Holds(child, any, op) = ValidOp(op)
    BY <1>1, <1>3, ValidOpsSteps DEF Holds, Calls
  <2>2. h \in Seq(Calls) /\ ValidOps(Append(made, op)) = h \o ValidOp(op)
    BY <1>1, ValidOpsSteps DEF Calls
  <2>3. KeptOf(child, made) = h /\ KeptOf(child, Append(made, op)) = h \o ValidOp(op)
    BY <1>3, <2>2 DEF KeptOf
  <2>4. CASE ValidOp(op) = <<>>
    <3>1. h \o <<>> = h
      <4> HIDE DEF h
      <4> QED BY <2>2, ConcatEmptySeq
    <3> HIDE DEF h
    <3> QED BY <2>1, <2>3, <2>4, <3>1
  <2>5. ASSUME NEW x \in Calls, ValidOp(op) = <<x>>
        PROVE  /\ Holds(child, any, op) # <<>> /\ Holds(child, any, op)[1] = x
               /\ KeptOf(child, Append(made, op)) = Append(KeptOf(child, made), x)
    <3>1. h \o <<x>> = Append(h, x)
      <4> HIDE DEF h
      <4> QED BY <2>2, AppendIsConcat
    <3> HIDE DEF h
    <3> QED BY <2>1, <2>3, <2>5, <3>1
  <2>6. ValidOp(op) = <<>> \/ \E x \in Calls : ValidOp(op) = <<x>>
    BY <1>1, ValidOpIs DEF Calls
  <2> HIDE DEF h
  <2> QED BY <2>1, <2>3, <2>4, <2>5, <2>6
<1> QED BY <1>2, <1>3

\* New: no call has been made.
LEMMA SaidInit == Init => SaidInv
<1> SUFFICES ASSUME Init PROVE SaidInv
  OBVIOUS
<1>1. ValidOps(<<>>) = <<>> /\ <<>> \in Seq(Calls)
  <2>1. NoKey \in Keys
    BY DEF Keys
  <2> QED BY <2>1, ValidOpsSteps, EmptySeq DEF Calls
<1>2. ASSUME NEW n, NEW children PROVE ToldIn(Built(n, children))
  BY <1>1 DEF ToldIn, Built, KeptOf
<1>3. IsList(loggers) /\ DOMAIN loggers = 1..3
  BY ListOfThree DEF Init
<1>4. \A n \in 1..3 : ToldIn(loggers[n])
  <2>1. ToldIn(loggers[1])
    BY <1>2 DEF Init
  <2>2. ToldIn(loggers[2])
    BY <1>2 DEF Init
  <2>3. ToldIn(loggers[3])
    BY <1>2 DEF Init
  <2> QED BY <2>1, <2>2, <2>3
<1> QED BY <1>3, <1>4 DEF SaidInv

\* With and WithGroup: every child holds what it should of the call.
LEMMA SaidDerive ==
    ASSUME HeldInv, SaidInv, NEW n \in DOMAIN loggers, NEW op \in scenario.ops, Derive(n, op)
    PROVE  SaidInv'
<1>1. PICK new \in Nat : new = Len(loggers) + 1
  BY ListIsFunction DEF HeldInv
<1> DEFINE lg == loggers[n]
           Kids == DOMAIN lg.children
           Grows0(c) == Op(n, c, op) # <<>>
           x(c) == Op(n, c, op)[1]
           held == [c \in Kids |-> IF Grows0(c) THEN Grown(n, c, new) ELSE lg.held[c]]
           kept == [c \in Kids |-> IF Grows0(c) THEN Append(lg.kept[c], x(c)) ELSE lg.kept[c]]
           term == [c \in Kids |->
                       lg.term[c] \o HandsOn(lg.children[c], lg.held[c].len > 0, op)]
           made == [children |-> lg.children, held |-> held, kept |-> kept,
                    term |-> term, made |-> Append(lg.made, op)]
<1>2. loggers' = Append(loggers, made)
  BY <1>1 DEF Derive
<1>3. /\ IsList(loggers) /\ Len(loggers) \in Nat /\ DOMAIN loggers = 1..Len(loggers)
      /\ DOMAIN loggers' = 1..new
      /\ \A i \in 1..Len(loggers) : loggers'[i] = loggers[i]
      /\ loggers'[new] = made
  <2> HIDE DEF made
  <2> QED BY <1>1, <1>2, ListAppend, ListIsFunction DEF HeldInv
<1>4. ToldIn(lg) /\ op \in Calls
  BY ScenarioCalls DEF SaidInv, HeldInv
<1>5. /\ made.children = lg.children /\ made.kept = kept /\ made.made = Append(lg.made, op)
  <2> HIDE DEF lg, kept, held, term
  <2> QED OBVIOUS
<1>6. Append(lg.made, op) \in Seq(Calls)
  <2>1. lg.made \in Seq(Calls)
    BY <1>4 DEF ToldIn
  <2> HIDE DEF lg
  <2> QED BY <1>4, <2>1, AppendProperties
<1>7. ASSUME NEW c \in Kids, lg.children[c].kind = "decorated"
      PROVE  kept[c] = KeptOf(lg.children[c], Append(lg.made, op))
  <2> DEFINE child == lg.children[c]
             any == lg.held[c].len > 0
             m == lg.made
             v == Op(n, c, op)
  <2>1. v = Holds(child, any, op)
    BY DEF Op
  <2>2. m \in Seq(Calls) /\ lg.kept[c] = KeptOf(child, m)
    BY <1>4, <1>7 DEF ToldIn
  <2>3. child.kind = "decorated"
    BY <1>7
  <2>4. kept[c] = IF v # <<>> THEN Append(lg.kept[c], v[1]) ELSE lg.kept[c]
    BY <1>7
  <2> HIDE DEF child, any, m, v, lg, kept
  <2>5. /\ v = <<>> => KeptOf(child, Append(m, op)) = KeptOf(child, m)
        /\ v # <<>> => KeptOf(child, Append(m, op)) = Append(KeptOf(child, m), v[1])
    BY <1>4, <2>1, <2>2, <2>3, KeptGrows
  <2>6. kept[c] = KeptOf(child, Append(m, op))
    BY <2>2, <2>4, <2>5
  <2> QED BY <2>6 DEF child, m
<1>8. ToldIn(made)
  <2> HIDE DEF made, kept, lg
  <2> QED BY <1>5, <1>6, <1>7 DEF ToldIn, Kids
<1>9. \A i \in DOMAIN loggers' : ToldIn(loggers'[i])
  <2>1. \A i \in 1..new : i \in 1..Len(loggers) \/ i = new
    BY <1>1, <1>3
  <2> HIDE DEF made
  <2> QED BY <1>3, <1>8, <2>1 DEF SaidInv
<1> QED BY <1>9 DEF SaidInv, ToldIn, KeptOf

\* And nothing else changes what it has been told.
LEMMA SaidNext == HeldInv /\ SaidInv /\ [Next]_vars => SaidInv'
<1> SUFFICES ASSUME HeldInv, SaidInv, [Next]_vars PROVE SaidInv'
  OBVIOUS
<1>1. CASE UNCHANGED loggers
  BY <1>1 DEF SaidInv, ToldIn
<1>2. ASSUME NEW n \in DOMAIN loggers, With(n) PROVE SaidInv'
  BY <1>2, SaidDerive DEF With
<1>3. ASSUME NEW n \in DOMAIN loggers, Log(n) PROVE SaidInv'
  BY <1>1, <1>3 DEF Log
<1>4. ASSUME NEW g \in Goroutines, CallGlobal(g) PROVE SaidInv'
  BY <1>1, <1>4 DEF CallGlobal
<1>5. CASE UNCHANGED vars
  BY <1>1, <1>5 DEF vars
<1> QED BY <1>2, <1>3, <1>4, <1>5 DEF Next

-----------------------------------------------------------------------------
(* The line that a decorated chain writes.                                  *)

\* All attributes that may come to such a chain, and all their values.
Site == CallSite("source")
AllAttrs == Attributes \cup {Site, Scalar("line", "42")}
AllVals == {a.val : a \in AllAttrs} \cup {NoVal, Redacted}

\* SourceHandler's group has an attribute, which has none.
LEMMA AllAttrsSet == AttrSet(AllAttrs, Keys, AllVals)
<1> DEFINE x == Scalar("line", "42")
<1>1. x.key = "line" /\ x.kind = "scalar" /\ x.members = <<>>
  BY DEF Scalar
<1>2. Site.key = "source" /\ Site.kind = "group" /\ Site.members = <<x>>
  BY DEF Site, CallSite, GroupAttr
<1>3. x \in AllAttrs /\ Attributes \subseteq AllAttrs
  BY DEF AllAttrs
<1>4. <<>> \in Seq(AllAttrs) /\ <<x>> \in Seq(AllAttrs)
  <2> HIDE DEF x
  <2> QED BY <1>3, EmptySeq
<1>5. ASSUME NEW a \in AllAttrs
      PROVE  /\ a.key \in Keys /\ a.members \in Seq(AllAttrs)
             /\ a.kind \in {"scalar", "group", "valuer"}
  <2>1. CASE a \in Attributes
    <3>1. a.members \in Seq(AllAttrs)
      BY <1>3, <2>1, AttributesAssumption, SeqMonotonic
    <3> QED BY <2>1, <3>1, AttributesAssumption DEF Keys
  <2>2. CASE a = x
    <3> HIDE DEF x
    <3> QED BY <1>1, <1>4, <2>2 DEF Keys
  <2>3. CASE a = Site
    <3> HIDE DEF x
    <3> QED BY <1>2, <1>4, <2>3 DEF Keys
  <2> QED BY <2>1, <2>2, <2>3 DEF AllAttrs
<1>6. \A a \in AllAttrs : a.val \in AllVals
  BY DEF AllVals
<1> QED BY <1>5, <1>6 DEF AttrSet

\* What is said to a decorated chain is what its FilterHandler hands on.
PassedOn(child, said) ==
    IF child.rules = <<>> THEN said ELSE Redact(child.rules, Walked(said))

\* Its line, when it writes one.
LEMMA DecoratedWrites ==
    ASSUME NEW child, child.kind = "decorated", NEW made \in Seq(Calls), NEW held,
           held = KeptOf(child, made), NEW term, NEW rec, ~rec.shared,
           rec.attrs \in Seq(Attributes), Written(child, held, term, rec) # <<>>
    PROVE  Written(child, held, term, rec)[1]
             = DedupHandle(Pinned(child), BuiltInKeys, ValidOps(held),
                   PassedOn(child, Claims(ValidOps(made),
                       rec.attrs \o IF child.source /\ rec.pc THEN <<Site>> ELSE <<>>)))
<1> DEFINE as == IF child.source THEN AddAttrs(rec, CallSite("source")) ELSE rec.attrs
           said == rec.attrs \o IF child.source /\ rec.pc THEN <<Site>> ELSE <<>>
           passed == FilterHandle(child.rules, child.mode, held, as)
           Out(p) == [i \in DOMAIN p |->
                         DedupHandle(Pinned(child), BuiltInKeys, ValidOps(held), p[i])]
           cs == PassedOn(child, Claims(ValidOps(made), said))
<1>1. as = said
  <2>1. rec.attrs \o <<>> = rec.attrs
    BY ConcatEmptySeq
  <2>2. Site = CallSite("source")
    BY DEF Site
  <2> QED BY <2>1, <2>2 DEF AddAttrs
<1>2. Written(child, held, term, rec) = Out(passed)
  BY Zenon DEF Written
<1>3. passed = <<>> \/ passed = <<cs>>
  <2> HIDE DEF as, said
  <2>1. CASE child.rules = <<>>
    <3>1. held = ValidOps(made)
      BY <2>1 DEF KeptOf
    <3>2. passed = <<Claims(ValidOps(made), said)>>
      BY <1>1, <2>1, <3>1 DEF FilterHandle
    <3>3. cs = Claims(ValidOps(made), said)
      BY <2>1 DEF PassedOn
    <3> QED BY <3>2, <3>3
  <2>2. CASE child.rules # <<>>
    <3>1. held = made
      BY <2>2 DEF KeptOf
    <3>2. cs = Redact(child.rules, Walked(Claims(ValidOps(made), said)))
      BY <2>2 DEF PassedOn
    <3>3. passed = <<>> \/ passed = <<Redact(child.rules, Walked(Claims(ValidOps(made), said)))>>
      BY <1>1, <2>2, <3>1 DEF FilterHandle
    <3> QED BY <3>2, <3>3
  <2> QED BY <2>1, <2>2
<1>4. \A p : p = <<>> => Out(p) = <<>>
  OBVIOUS
<1>5. \A p : p = <<cs>> => Out(p)[1] = DedupHandle(Pinned(child), BuiltInKeys, ValidOps(held), cs)
  <2> HIDE DEF cs
  <2> QED OBVIOUS
<1> HIDE DEF Out, passed, cs, as
<1>6. Written(child, held, term, rec)[1]
        = DedupHandle(Pinned(child), BuiltInKeys, ValidOps(held), cs)
  BY <1>2, <1>3, <1>4, <1>5
<1> QED BY <1>6 DEF cs

\* What it hands on is rooted.
LEMMA PassedRooted ==
    ASSUME NEW child, NEW made \in Seq(Calls), NEW as \in Seq(AllAttrs)
    PROVE  LET cs == PassedOn(child, Claims(ValidOps(made), as))
           IN cs \in Seq(ClaimSet(Keys, AllVals, AllAttrs)) /\ Rooted(cs, Keys)
<1>1. PICK ops \in Seq(Calls) : ops = ValidOps(made)
  <2>1. NoKey \in Keys
    BY DEF Keys
  <2> QED BY <2>1, ValidOpsSteps DEF Calls
<1>2. ops \in Seq(OpSet(AllAttrs, Keys))
  <2>1. Seq(Attributes) \subseteq Seq(AllAttrs)
    BY SeqMonotonic DEF AllAttrs
  <2>2. Calls \subseteq OpSet(AllAttrs, Keys)
    BY <2>1 DEF Calls, OpSet
  <2> QED BY <1>1, <2>2, SeqMonotonic
<1>3. NoVal \in AllVals /\ Redacted \in AllVals
  BY DEF AllVals
<1>4. PICK K, V, A : /\ K = Keys /\ V = AllVals /\ A = AllAttrs
  OBVIOUS
<1>5. AttrSet(A, K, V) /\ NoVal \in V /\ Redacted \in V /\ ops \in Seq(OpSet(A, K)) /\ as \in Seq(A)
  BY <1>2, <1>3, <1>4, AllAttrsSet
<1>6. PICK said \in Seq(ClaimSet(K, V, A)) : said = Claims(ops, as) /\ Rooted(said, K)
  BY <1>5, ClaimsRooted
<1>7. PICK seen \in Seq(ClaimSet(K, V, A)) : seen = Walked(said) /\ Rooted(seen, K)
  BY <1>5, <1>6, WalkedRooted
<1>8. Redact(child.rules, seen) \in Seq(ClaimSet(K, V, A)) /\ Rooted(Redact(child.rules, seen), K)
  BY <1>5, <1>7, RedactRooted
<1>9. PassedOn(child, said) \in Seq(ClaimSet(K, V, A)) /\ Rooted(PassedOn(child, said), K)
  BY <1>6, <1>7, <1>8 DEF PassedOn
<1> QED BY <1>1, <1>4, <1>6, <1>9

\* The line of a decorated chain reads as what its FilterHandler hands on, below
\* what is pinned.
LEMMA DecoratedReads ==
    ASSUME NEW child, child.kind = "decorated", child.fields \in Seq(Attributes),
           NEW made \in Seq(Calls), NEW as \in Seq(AllAttrs), NEW ops
    PROVE  LET pins == Pins(Settled(Claims(<<>>, Pinned(child))))
               cs == PassedOn(child, Claims(ValidOps(made), as))
           IN Reads(DedupHandle(Pinned(child), BuiltInKeys, ops, cs),
                    pins \o Heard(pins, Settled(cs)), BuiltInKeys)
<1>1. PICK cs \in Seq(ClaimSet(Keys, AllVals, AllAttrs)) :
          cs = PassedOn(child, Claims(ValidOps(made), as)) /\ Rooted(cs, Keys)
  BY PassedRooted
<1>2. PICK pinned \in Seq(AllAttrs) : pinned = Pinned(child)
  <2>1. Seq(Attributes) \subseteq Seq(AllAttrs)
    BY SeqMonotonic DEF AllAttrs
  <2> QED BY <2>1, PinnedTyped
<1>3. PICK reserved : reserved = BuiltInKeys
  OBVIOUS
<1>4. NoVal \in AllVals
  BY DEF AllVals
<1>5. Reads(DedupHandle(pinned, reserved, ops, cs),
            Pins(Settled(Claims(<<>>, pinned))) \o Heard(Pins(Settled(Claims(<<>>, pinned))), Settled(cs)),
            reserved)
  BY <1>1, <1>4, AllAttrsSet, DedupReads
<1> QED BY <1>1, <1>2, <1>3, <1>5

\* What a logger's child writes, when it holds what was made of its logger.
LEMMA ServedLine ==
    ASSUME HeldInv, LineInv, NEW c \in Served
    PROVE  /\ line.by \in DOMAIN loggers /\ c \in DOMAIN Author.children
           /\ LoggerIn(arrays, Author) /\ scenario \in Scenarios
           /\ Author.children[c].kind \in {"decorated", "globals", "component"}
           /\ Author.children[c].fields \in Seq(Attributes)
           /\ ~line.rec.shared /\ line.rec.attrs \in Seq(Attributes)
           /\ line.out[c] = Written(Author.children[c], Author.kept[c], Author.term[c], line.rec)
<1> DEFINE children == Author.children
           child == children[c]
           rec == line.rec
<1>1. line.by # 0 /\ line.by \in DOMAIN loggers /\ c \in DOMAIN children /\ Enabled(child, rec)
  BY DEF Served, LineInv
<1>2. /\ rec = [attrs |-> rec.attrs, pc |-> rec.pc, level |-> rec.level, shared |-> FALSE]
      /\ rec.attrs \in Seq(Attributes)
  BY <1>1, LoggersAssumption DEF LineInv, HeldInv
<1>3. LoggerIn(arrays, Author) /\ scenario \in Scenarios
  BY <1>1 DEF HeldInv, Author
<1>4. child.kind \in {"decorated", "globals", "component"} /\ child.fields \in Seq(Attributes)
  <2>1. CASE children = scenario.children
    BY <1>1, <1>3, <2>1, LoggersAssumption
  <2>2. CASE children = DefaultChildren
    <3>1. child.kind = "decorated" /\ child.fields = <<>>
      BY <1>1, <2>2 DEF DefaultChildren
    <3> QED BY <3>1, EmptySeq
  <2> QED BY <1>3, <2>1, <2>2 DEF LoggerIn
<1>5. Content(Author.held[c]) = Author.kept[c]
  <2>1. SliceIn(arrays, Author.held[c], Author.kept[c])
    BY <1>1, <1>3 DEF LoggerIn
  <2>2. IsList(arrays[Author.held[c].arr])
    BY <2>1 DEF HeldInv, ArraysOK, SliceIn
  <2> QED BY <2>1, <2>2, CoveredIsKept DEF Content
<1>6. line.out[c] = Written(child, Author.kept[c], Author.term[c], rec)
  <2>1. line.out[c] = Written(child, Content(Author.held[c]), Author.term[c],
                              Handed(children, c, rec))
    BY <1>1, Zenon DEF LineInv, Author
  <2>2. Handed(children, c, rec) = rec
    BY <1>2, HandedIsRecord
  <2> QED BY <1>5, <2>1, <2>2
<1>7. ~rec.shared
  BY <1>2
<1> QED BY <1>1, <1>2, <1>3, <1>4, <1>6, <1>7

\* What a decorated chain was told, as it hands it on.
LineSaid(c) ==
    PassedOn(Author.children[c],
             Claims(ValidOps(Author.made), SourceAdded(Author.children[c])))

\* The line of a decorated chain.
LEMMA LineReads ==
    ASSUME HeldInv, SaidInv, LineInv, NEW c \in Served,
           Author.children[c].kind = "decorated", Wrote(c)
    PROVE  LET pins == Pins(Settled(Claims(<<>>, Pinned(Author.children[c]))))
           IN Reads(Output(c), pins \o Heard(pins, Settled(LineSaid(c))), BuiltInKeys)
<1> DEFINE child == Author.children[c]
           made == Author.made
           kept == Author.kept[c]
           term == Author.term[c]
           as == SourceAdded(child)
<1>1. /\ line.by \in DOMAIN loggers /\ c \in DOMAIN Author.children
      /\ child.fields \in Seq(Attributes) /\ child.kind = "decorated"
      /\ ~line.rec.shared /\ line.rec.attrs \in Seq(Attributes)
      /\ line.out[c] = Written(child, kept, term, line.rec)
  BY ServedLine
<1>2. made \in Seq(Calls) /\ kept = KeptOf(child, made)
  BY <1>1 DEF SaidInv, ToldIn, Author
<1>3. as = line.rec.attrs \o IF child.source /\ line.rec.pc THEN <<Site>> ELSE <<>>
  BY DEF SourceAdded, Site
<1>4. as \in Seq(AllAttrs)
  <2>1. line.rec.attrs \in Seq(AllAttrs) /\ Site \in AllAttrs
    BY <1>1, SeqMonotonic DEF AllAttrs
  <2>2. <<>> \in Seq(AllAttrs) /\ <<Site>> \in Seq(AllAttrs)
    BY <2>1, EmptySeq
  <2> QED BY <1>3, <2>1, <2>2, ConcatProperties
<1>5. Written(child, kept, term, line.rec) # <<>>
  BY <1>1 DEF Wrote
<1> HIDE DEF child, made, kept, term, as
<1>6. Output(c) = DedupHandle(Pinned(child), BuiltInKeys, ValidOps(kept),
                              PassedOn(child, Claims(ValidOps(made), as)))
  <2>1. PICK rec : rec = line.rec
    OBVIOUS
  <2>2. Written(child, kept, term, rec)[1]
          = DedupHandle(Pinned(child), BuiltInKeys, ValidOps(kept),
               PassedOn(child, Claims(ValidOps(made),
                   rec.attrs \o IF child.source /\ rec.pc THEN <<Site>> ELSE <<>>)))
    BY <1>1, <1>2, <1>5, <2>1, DecoratedWrites
  <2> QED BY <1>1, <1>3, <2>1, <2>2 DEF Output
<1>7. LET pins == Pins(Settled(Claims(<<>>, Pinned(child))))
          cs == PassedOn(child, Claims(ValidOps(made), as))
      IN Reads(DedupHandle(Pinned(child), BuiltInKeys, ValidOps(kept), cs),
               pins \o Heard(pins, Settled(cs)), BuiltInKeys)
  BY <1>1, <1>2, <1>4, DecoratedReads
<1> QED BY <1>6, <1>7 DEF child, made, as, LineSaid

\* What a line of such a chain is made of.
LEMMA SourceAddedTyped ==
    ASSUME HeldInv, LineInv, NEW c \in Served
    PROVE  SourceAdded(Author.children[c]) \in Seq(AllAttrs)
<1>1. line.rec.attrs \in Seq(AllAttrs) /\ Site \in AllAttrs
  BY ServedLine, SeqMonotonic DEF AllAttrs
<1>2. <<>> \in Seq(AllAttrs) /\ <<Site>> \in Seq(AllAttrs)
  BY <1>1, EmptySeq
<1>3. \A s, t \in Seq(AllAttrs) : s \o t \in Seq(AllAttrs)
  BY ConcatProperties
<1> QED BY <1>1, <1>2, <1>3 DEF SourceAdded, Site

\* Whatever was pinned, made of the logger and logged, and in whatever groups, and
\* whatever the rules redact: every line of a decorated chain has the last value of
\* each path, each path once, and its keys where they first occurred
\* (DedupHandler.Handle, NewDedupHandler, FilterHandler.Handle).
THEOREM LinesMergedCorrectly == Spec => []LastValueFirstPlace
<1>1. Init => LineInv
  BY DEF Init, LineInv, NoLine
<1>2. HeldInv /\ SaidInv /\ LineInv => LastValueFirstPlace
  BY LineReads, Zenon DEF LastValueFirstPlace, LineSaid, Reads, PassedOn
<1> QED BY <1>1, <1>2, SaidInit, SaidNext, LineNext, HeldInvCorrect, PTL DEF Spec

-----------------------------------------------------------------------------
(* What a sequence of claims is made of, claim by claim.                    *)

\* Elements that are left out or kept, one by one.
Chosen(s, q) ==
    /\ q = [i \in DOMAIN s |-> q[i]]
    /\ \A i \in DOMAIN s : q[i] = <<>> \/ q[i] = <<s[i]>>

ChosenOf(s, q) == {s[i] : i \in {j \in DOMAIN s : q[j] = <<s[j]>>}}

\* Joined, they are those that are kept.
LEMMA LeftOut ==
    ASSUME NEW S, NEW s \in Seq(S), NEW q, Chosen(s, q)
    PROVE  FlattenSeq(q) \in Seq(S) /\ AsSet(FlattenSeq(q)) = ChosenOf(s, q)
<1>0. q = [i \in DOMAIN s |-> q[i]] /\ \A i \in DOMAIN s : q[i] = <<>> \/ q[i] = <<s[i]>>
  BY DEF Chosen
<1>1. PICK n \in Nat : n = Len(s) /\ DOMAIN s = 1..n /\ \A i \in 1..n : s[i] \in S
  BY LenProperties, ElementOfSeq
<1>2. <<>> \in Seq(S) /\ \A x \in S : <<x>> \in Seq(S)
  BY EmptySeq
<1>3. q \in Seq(Seq(S))
  <2>1. \A i \in 1..n : q[i] \in Seq(S)
    BY <1>0, <1>1, <1>2
  <2>2. q = [i \in 1..n |-> q[i]]
    BY <1>0, <1>1
  <2> QED BY <2>1, <2>2, IsASeq
<1>4. Len(q) = n
  <2>1. DOMAIN q = 1..n
    BY <1>0, <1>1
  <2>2. DOMAIN q = 1..Len(q) /\ Len(q) \in Nat
    BY <1>3, LenProperties
  <2> QED BY <2>1, <2>2
<1>5. FlattenSeq(q) \in Seq(S) /\ Range(FlattenSeq(q)) = UNION {Range(q[i]) : i \in 1..Len(q)}
  BY <1>3, FlattenRange
<1>6. \A i \in 1..n : Range(q[i]) = IF q[i] = <<s[i]>> THEN {s[i]} ELSE {}
  <2> TAKE i \in 1..n
  <2>1. \A x : Range(<<x>>) = {x} /\ Range(<<>>) = {} /\ <<x>> # <<>>
    BY DEF Range
  <2> QED BY <1>0, <1>1, <2>1
<1>7. AsSet(FlattenSeq(q)) = Range(FlattenSeq(q))
  BY DEF AsSet, Range
<1> DEFINE X == {s[i] : i \in {j \in DOMAIN s : q[j] = <<s[j]>>}}
<1>8. UNION {Range(q[i]) : i \in 1..n} = X
  <2>1. UNION {Range(q[i]) : i \in 1..n} \subseteq X
    <3> SUFFICES ASSUME NEW i \in 1..n, NEW x \in Range(q[i]) PROVE x \in X
      OBVIOUS
    <3>1. q[i] = <<s[i]>> /\ x = s[i]
      BY <1>6
    <3> QED BY <1>1, <3>1
  <2>2. X \subseteq UNION {Range(q[i]) : i \in 1..n}
    <3> SUFFICES ASSUME NEW x \in X PROVE \E i \in 1..n : x \in Range(q[i])
      OBVIOUS
    <3>1. PICK i \in 1..n : q[i] = <<s[i]>> /\ x = s[i]
      BY <1>1
    <3>2. x \in Range(q[i])
      BY <1>6, <3>1
    <3> QED BY <3>2
  <2> QED BY <2>1, <2>2
<1> HIDE DEF X
<1>9. AsSet(FlattenSeq(q)) = X
  BY <1>4, <1>5, <1>7, <1>8
<1> QED BY <1>5, <1>9 DEF X, ChosenOf

\* What f makes of the elements.
LEMMA SpreadElements ==
    ASSUME NEW S, NEW T, NEW f \in [S -> Seq(T)], NEW s \in Seq(S)
    PROVE  AsSet(Spread(f, s)) = UNION {AsSet(f[x]) : x \in AsSet(s)}
<1> DEFINE q == [i \in DOMAIN s |-> f[s[i]]]
<1>1. PICK n \in Nat : n = Len(s) /\ DOMAIN s = 1..n /\ \A i \in 1..n : s[i] \in S
  BY LenProperties, ElementOfSeq
<1>2. q = [i \in 1..n |-> q[i]] /\ \A i \in 1..n : q[i] = f[s[i]] /\ q[i] \in Seq(T)
  BY <1>1
<1>3. Spread(f, s) = FlattenSeq(q)
  BY DEF Spread
<1> HIDE DEF q
<1>4. q \in Seq(Seq(T))
  <2>1. \A i \in 1..n : q[i] \in Seq(T)
    BY <1>2
  <2>2. q = [i \in 1..n |-> q[i]]
    BY <1>2
  <2> QED BY <2>1, <2>2, IsASeq
<1>5. Len(q) = n
  <2>1. DOMAIN q = 1..n
    BY <1>2
  <2>2. DOMAIN q = 1..Len(q) /\ Len(q) \in Nat
    BY <1>4, LenProperties
  <2> QED BY <2>1, <2>2
<1>6. Range(FlattenSeq(q)) = UNION {Range(q[i]) : i \in 1..n}
  BY <1>4, <1>5, FlattenRange
<1>7. \A x : AsSet(x) = Range(x)
  BY DEF AsSet, Range
<1>8. UNION {Range(q[i]) : i \in 1..n} = UNION {AsSet(f[x]) : x \in AsSet(s)}
  <2>1. \A i \in 1..n : Range(q[i]) = AsSet(f[s[i]])
    BY <1>2, <1>7
  <2>2. AsSet(s) = {s[i] : i \in 1..n}
    BY <1>1 DEF AsSet
  <2> QED BY <2>1, <2>2
<1> QED BY <1>3, <1>6, <1>7, <1>8

\* A claim taken apart is claims.
LEMMA ApartTyped ==
    ASSUME NEW K, NEW V, NEW A, AttrSet(A, K, V), NEW c \in ClaimSet(K, V, A)
    PROVE  TakenApart(c) \in Seq(ClaimSet(K, V, A))
<1> DEFINE S == ClaimSet(K, V, A)
<1>1. /\ c.path \in Seq(K) /\ c.base \in Nat /\ c.base <= Len(c.path)
      /\ c.members \in Seq(A) /\ Len(c.path) \in Nat /\ Named(c.path, c.base)
  BY LenProperties DEF ClaimSet, Paths, Named
<1>2. <<>> \in Seq(S) /\ \A x \in S : <<x>> \in Seq(S)
  BY EmptySeq
<1>3. CASE c.kind # "group" \/ c.members = <<>>
  BY <1>2, <1>3 DEF TakenApart
<1>4. CASE c.kind = "group" /\ c.members # <<>>
  <2>1. PICK o : o = [c EXCEPT !.kind = "open", !.members = <<>>]
    OBVIOUS
  <2>2. o \in S
    BY <2>1, EmptySeq DEF ClaimSet, IsLeaf
  <2>3. AttrClaims(c.path, c.base, c.members) \in Seq(S)
    BY <1>1, AttrClaimsSteps
  <2>4. TakenApart(c) = <<o>> \o AttrClaims(c.path, c.base, c.members)
    BY <1>4, <2>1 DEF TakenApart
  <2>5. <<o>> \in Seq(S)
    BY <1>2, <2>2
  <2>6. <<o>> \o AttrClaims(c.path, c.base, c.members) \in Seq(S)
    <3> HIDE DEF S
    <3> QED BY <2>3, <2>5, ConcatProperties
  <2> QED BY <2>4, <2>6
<1> QED BY <1>3, <1>4

\* Sets of claims, one level down, and settled.
LevelSet(S) == UNION {AsSet(TakenApart(c)) : c \in S}
ResolvedSet(S) == UNION {AsSet(TakenApart(Resolved(c))) : c \in S}
InlinedSet(S) == UNION {AsSet(Inlined(c)) : c \in S}
SettledSet(S) == InlinedSet(ResolvedSet(ResolvedSet(ResolvedSet(S))))
WalkedSet(S) == LevelSet(LevelSet(LevelSet(S)))

\* They are those of the sequences.
LEMMA LevelElements ==
    ASSUME NEW K, NEW V, NEW A, AttrSet(A, K, V), NEW cs \in Seq(ClaimSet(K, V, A))
    PROVE  /\ OneLevel(cs) \in Seq(ClaimSet(K, V, A)) /\ AsSet(OneLevel(cs)) = LevelSet(AsSet(cs))
           /\ OneResolved(cs) \in Seq(ClaimSet(K, V, A))
           /\ AsSet(OneResolved(cs)) = ResolvedSet(AsSet(cs))
           /\ Settling(cs) \in Seq(ClaimSet(K, V, A)) /\ AsSet(Settling(cs)) = InlinedSet(AsSet(cs))
<1> DEFINE S == ClaimSet(K, V, A)
           f == [c \in S |-> TakenApart(c)]
           g == [c \in S |-> TakenApart(Resolved(c))]
           h == [c \in S |-> Inlined(c)]
<1>1. \A c \in S : TakenApart(c) \in Seq(S) /\ TakenApart(Resolved(c)) \in Seq(S)
  BY ApartTyped, ResolvedWell
<1>2. \A c \in S : Inlined(c) \in Seq(S)
  <2>1. <<>> \in Seq(S) /\ \A x \in S : <<x>> \in Seq(S)
    BY EmptySeq
  <2>2. \A c \in S : Inlined(c) = <<>> \/ \E d \in S : Inlined(c) = <<d>>
    BY InlinedWell
  <2> HIDE DEF S
  <2> QED BY <2>1, <2>2
<1>3. \A i \in DOMAIN cs : cs[i] \in S
  BY ClaimsIn
<1>4. AsSet(cs) \subseteq S
  BY <1>3 DEF AsSet
<1>5. f \in [S -> Seq(S)] /\ g \in [S -> Seq(S)] /\ h \in [S -> Seq(S)]
  BY <1>1, <1>2
<1>6. \A c \in S : f[c] = TakenApart(c) /\ g[c] = TakenApart(Resolved(c)) /\ h[c] = Inlined(c)
  OBVIOUS
<1>7. cs \in Seq(S)
  OBVIOUS
<1> HIDE DEF f, g, h, S
<1>8. OneLevel(cs) = Spread(f, cs)
  <2>1. [i \in DOMAIN cs |-> TakenApart(cs[i])] = [i \in DOMAIN cs |-> f[cs[i]]]
    BY <1>3, <1>6
  <2> QED BY <2>1 DEF OneLevel, Spread
<1>9. OneResolved(cs) = Spread(g, cs)
  <2>1. [i \in DOMAIN cs |-> TakenApart(Resolved(cs[i]))] = [i \in DOMAIN cs |-> g[cs[i]]]
    BY <1>3, <1>6
  <2> QED BY <2>1 DEF OneResolved, Spread
<1>10. Settling(cs) = Spread(h, cs)
  <2>1. [i \in DOMAIN cs |-> Inlined(cs[i])] = [i \in DOMAIN cs |-> h[cs[i]]]
    BY <1>3, <1>6
  <2> QED BY <2>1 DEF Settling, Spread
<1>11. \A u \in [S -> Seq(S)] : Spread(u, cs) \in Seq(S)
  BY <1>7, SpreadSteps
<1>12. \A u \in [S -> Seq(S)] : AsSet(Spread(u, cs)) = UNION {AsSet(u[x]) : x \in AsSet(cs)}
  BY <1>7, SpreadElements, SMTT(20)
<1>13. /\ UNION {AsSet(f[x]) : x \in AsSet(cs)} = LevelSet(AsSet(cs))
       /\ UNION {AsSet(g[x]) : x \in AsSet(cs)} = ResolvedSet(AsSet(cs))
       /\ UNION {AsSet(h[x]) : x \in AsSet(cs)} = InlinedSet(AsSet(cs))
  BY <1>4, <1>6 DEF LevelSet, ResolvedSet, InlinedSet
<1> QED BY <1>5, <1>8, <1>9, <1>10, <1>11, <1>12, <1>13 DEF S

\* Settled and walked, they are made of what each claim is made of.
LEMMA SettledElements ==
    ASSUME NEW K, NEW V, NEW A, AttrSet(A, K, V), NEW cs \in Seq(ClaimSet(K, V, A))
    PROVE  /\ Settled(cs) \in Seq(ClaimSet(K, V, A)) /\ AsSet(Settled(cs)) = SettledSet(AsSet(cs))
           /\ Walked(cs) \in Seq(ClaimSet(K, V, A)) /\ AsSet(Walked(cs)) = WalkedSet(AsSet(cs))
<1>1. PICK r \in Seq(ClaimSet(K, V, A)) : r = OneResolved(cs) /\ AsSet(r) = ResolvedSet(AsSet(cs))
  BY LevelElements
<1>2. PICK s \in Seq(ClaimSet(K, V, A)) : s = OneResolved(r) /\ AsSet(s) = ResolvedSet(AsSet(r))
  BY LevelElements
<1>3. PICK t \in Seq(ClaimSet(K, V, A)) : t = OneResolved(s) /\ AsSet(t) = ResolvedSet(AsSet(s))
  BY LevelElements
<1>4. Settling(t) \in Seq(ClaimSet(K, V, A)) /\ AsSet(Settling(t)) = InlinedSet(AsSet(t))
  BY LevelElements
<1>5. Settled(cs) = Settling(t)
  BY <1>1, <1>2, <1>3 DEF Settled, Settling
<1>6. PICK u \in Seq(ClaimSet(K, V, A)) : u = OneLevel(cs) /\ AsSet(u) = LevelSet(AsSet(cs))
  BY LevelElements
<1>7. PICK v \in Seq(ClaimSet(K, V, A)) : v = OneLevel(u) /\ AsSet(v) = LevelSet(AsSet(u))
  BY LevelElements
<1>8. OneLevel(v) \in Seq(ClaimSet(K, V, A)) /\ AsSet(OneLevel(v)) = LevelSet(AsSet(v))
  BY LevelElements
<1>9. Walked(cs) = OneLevel(v)
  BY <1>6, <1>7 DEF Walked
<1> QED BY <1>1, <1>2, <1>3, <1>4, <1>5, <1>6, <1>7, <1>8, <1>9 DEF SettledSet, WalkedSet

\* More claims are made of more.
LEMMA SetsGrow ==
    ASSUME NEW S, NEW T, S \subseteq T
    PROVE  SettledSet(S) \subseteq SettledSet(T) /\ WalkedSet(S) \subseteq WalkedSet(T)
<1>1. \A X, Y : X \subseteq Y => /\ ResolvedSet(X) \subseteq ResolvedSet(Y)
                                 /\ LevelSet(X) \subseteq LevelSet(Y)
                                 /\ InlinedSet(X) \subseteq InlinedSet(Y)
  BY DEF ResolvedSet, LevelSet, InlinedSet
<1>2. SettledSet(S) \subseteq SettledSet(T)
  BY <1>1 DEF SettledSet
<1>3. WalkedSet(S) \subseteq WalkedSet(T)
  BY <1>1 DEF WalkedSet
<1> QED BY <1>2, <1>3

\* What is settled comes from one claim.
LEMMA SettledFrom ==
    ASSUME NEW S, NEW d \in SettledSet(S)
    PROVE  \E c \in S : d \in SettledSet({c})
<1>1. \A X, x : x \in ResolvedSet(X) <=> \E c \in X : x \in ResolvedSet({c})
  BY DEF ResolvedSet
<1>2. PICK e \in ResolvedSet(ResolvedSet(ResolvedSet(S))) : d \in AsSet(Inlined(e))
  BY DEF SettledSet, InlinedSet
<1>3. PICK t \in ResolvedSet(ResolvedSet(S)) : e \in ResolvedSet({t})
  BY <1>1, <1>2
<1>4. PICK s \in ResolvedSet(S) : t \in ResolvedSet({s})
  BY <1>1, <1>3
<1>5. PICK c \in S : s \in ResolvedSet({c})
  BY <1>1, <1>4
<1>6. t \in ResolvedSet(ResolvedSet({c}))
  BY <1>1, <1>4, <1>5
<1>7. e \in ResolvedSet(ResolvedSet(ResolvedSet({c})))
  BY <1>1, <1>3, <1>6
<1>8. d \in SettledSet({c})
  BY <1>2, <1>7 DEF SettledSet, InlinedSet
<1> QED BY <1>5, <1>8

-----------------------------------------------------------------------------
(* What the rules hide.                                                     *)

\* A claim that is no group is what it stands for.
LEMMA SettledSingle ==
    ASSUME NEW c, c.kind \in {"open", "scalar"}
    PROVE  SettledSet({c}) = AsSet(Inlined(c))
<1>1. TakenApart(Resolved(c)) = <<c>>
  BY DEF TakenApart, Resolved
<1>2. AsSet(<<c>>) = {c}
  BY DEF AsSet
<1>3. ResolvedSet({c}) = {c}
  BY <1>1, <1>2 DEF ResolvedSet
<1>4. InlinedSet({c}) = AsSet(Inlined(c))
  BY DEF InlinedSet
<1> QED BY <1>3, <1>4 DEF SettledSet

\* A LogValuer with a value stands for that value.
LEMMA SettledValuer ==
    ASSUME NEW K, NEW V, NEW A, NEW c \in ClaimSet(K, V, A), c.kind = "valuer", c.val # NoVal
    PROVE  \E e \in ClaimSet(K, V, A) :
              /\ e.kind = "scalar" /\ e.path = c.path /\ e.val = c.val
              /\ SettledSet({c}) = AsSet(Inlined(e))
<1>1. PICK e : e = Resolved(c)
  OBVIOUS
<1>2. e \in ClaimSet(K, V, A) /\ e.path = c.path
  BY <1>1, ResolvedWell
<1>3. e = [c EXCEPT !.kind = "scalar"]
  BY <1>1 DEF Resolved
<1>4. e.kind = "scalar" /\ e.val = c.val
  BY <1>3 DEF ClaimSet
<1>5. TakenApart(e) = <<e>> /\ TakenApart(Resolved(e)) = <<e>>
  BY <1>4 DEF TakenApart, Resolved
<1>6. AsSet(<<e>>) = {e}
  BY DEF AsSet
<1>7. ResolvedSet({c}) = {e} /\ ResolvedSet({e}) = {e}
  BY <1>1, <1>5, <1>6 DEF ResolvedSet
<1>8. InlinedSet({e}) = AsSet(Inlined(e))
  BY DEF InlinedSet
<1>9. SettledSet({c}) = AsSet(Inlined(e))
  BY <1>7, <1>8 DEF SettledSet
<1> QED BY <1>2, <1>4, <1>9

\* Where all groups have names, nothing is inlined.
LEMMA NothingInlined ==
    ASSUME NEW K, NEW p \in Paths(K), NoKey \notin AsSet(Front(p))
    PROVE  Settles(p) = p
<1>1. /\ Front(p) \in Seq(K) /\ p = Append(Front(p), Last(p))
  BY PathEnd
<1>2. PICK f \in Seq(K) : f = Front(p)
  BY <1>1
<1>3. \A i \in DOMAIN f : f[i] # NoKey
  BY <1>2 DEF AsSet
<1>4. [i \in DOMAIN f |-> IF f[i] = NoKey THEN <<>> ELSE <<f[i]>>] = [i \in DOMAIN f |-> <<f[i]>>]
  BY <1>3
<1>5. WithoutEmpty(f) = f
  BY <1>4, FlattenSingles DEF WithoutEmpty
<1> QED BY <1>1, <1>2, <1>5 DEF Settles

\* A scalar is shown where it was said, with its value.
LEMMA ScalarShown ==
    ASSUME NEW K, NEW V, NEW A, NEW c \in ClaimSet(K, V, A), NEW d \in AsSet(Inlined(c))
    PROVE  /\ d.val = c.val /\ d.kind = c.kind
           /\ NoKey \notin AsSet(Front(c.path)) => d.path = c.path
<1>1. AsSet(<<>>) = {} /\ \A x : AsSet(<<x>>) = {x}
  BY DEF AsSet
<1>2. Inlined(c) = <<>> \/ \E e \in ClaimSet(K, V, A) :
          Inlined(c) = <<e>> /\ e.path = Settles(c.path) /\ e.kind = c.kind /\ e.val = c.val
  BY InlinedWell
<1>3. d.path = Settles(c.path) /\ d.kind = c.kind /\ d.val = c.val
  BY <1>1, <1>2
<1>4. c.path \in Paths(K)
  BY ClaimsIn DEF ClaimSet
<1>5. NoKey \notin AsSet(Front(c.path)) => Settles(c.path) = c.path
  BY <1>4, NothingInlined
<1> QED BY <1>3, <1>5

\* What a rule cannot recognise.
Hides(rule, c) ==
    \/ c.kind = "group" \/ NoKey \in AsSet(Front(c.path))
    \/ c.kind = "valuer" /\ (c.val = NoVal \/ rule.val # AnyVal)

\* It is that of the claims there are.
LEMMA DisguisedElements ==
    ASSUME NEW S, NEW cs \in Seq(S), NEW rule
    PROVE  Disguised(rule, cs) \in Seq(S) /\ AsSet(Disguised(rule, cs)) = {c \in AsSet(cs) : Hides(rule, c)}
<1> DEFINE q == [i \in DOMAIN cs |-> IF Hides(rule, cs[i]) THEN <<cs[i]>> ELSE <<>>]
<1>1. Disguised(rule, cs) = FlattenSeq(q)
  BY DEF Disguised, Hides
<1>2. q = [i \in DOMAIN cs |-> q[i]]
  OBVIOUS
<1>3. \A i \in DOMAIN cs : q[i] = <<>> \/ q[i] = <<cs[i]>>
  OBVIOUS
<1>4. \A i \in DOMAIN cs : q[i] = <<cs[i]>> <=> Hides(rule, cs[i])
  <2>1. \A x : <<x>> # <<>>
    OBVIOUS
  <2> QED BY <2>1
<1> HIDE DEF q
<1>5. FlattenSeq(q) \in Seq(S) /\ AsSet(FlattenSeq(q)) = ChosenOf(cs, q)
  BY <1>2, <1>3, LeftOut DEF Chosen
<1>6. ChosenOf(cs, q) = {c \in AsSet(cs) : Hides(rule, c)}
  BY <1>4 DEF AsSet, ChosenOf
<1> QED BY <1>1, <1>5, <1>6

\* A rule that names what is shown of a claim matched the claim, or met it disguised.
LEMMA NamedMatched ==
    ASSUME NEW K, NEW V, NEW A, NEW c \in ClaimSet(K, V, A), NEW d \in SettledSet({c}), IsLeaf(d),
           NEW rule, NamedBy(rule, [path |-> d.path, val |-> d.val]), ~Hides(rule, c)
    PROVE  IsLeaf(c) /\ MatchRule(rule, c)
<1>1. c.kind \in {"open", "scalar", "valuer"} /\ NoKey \notin AsSet(Front(c.path))
  BY DEF Hides, ClaimSet
<1>2. /\ rule.key \in {<<Folded(Last(d.path))>>, FoldedPath(d.path)}
      /\ rule.val \in {AnyVal, d.val}
  BY DEF NamedBy
<1>3. CASE c.kind \in {"open", "scalar"}
  <2>1. d \in AsSet(Inlined(c))
    BY <1>3, SettledSingle
  <2>2. d.val = c.val /\ d.kind = c.kind /\ d.path = c.path
    BY <1>1, <2>1, ScalarShown
  <2>3. c.kind = "scalar"
    BY <1>3, <2>2 DEF IsLeaf
  <2> QED BY <1>2, <2>2, <2>3 DEF IsLeaf, MatchRule
<1>4. CASE c.kind = "valuer"
  <2>1. c.val # NoVal /\ rule.val = AnyVal
    BY <1>4 DEF Hides
  <2>2. PICK e \in ClaimSet(K, V, A) :
            e.kind = "scalar" /\ e.path = c.path /\ e.val = c.val /\ SettledSet({c}) = AsSet(Inlined(e))
    BY <1>4, <2>1, SettledValuer
  <2>3. d.path = c.path
    BY <1>1, <2>2, ScalarShown
  <2> QED BY <1>2, <1>4, <2>1, <2>3 DEF IsLeaf, MatchRule
<1> QED BY <1>1, <1>3, <1>4

\* What FilterHandler hands on shows a named value only where it was disguised.
LEMMA RedactHides ==
    ASSUME NEW K, NEW V, NEW A, AttrSet(A, K, V), Redacted \in V,
           NEW seen \in Seq(ClaimSet(K, V, A)), Rooted(seen, K), NEW rules,
           NEW d \in AsSet(Settled(Redact(rules, seen))), IsLeaf(d)
    PROVE  LET u == [path |-> d.path, val |-> d.val]
           IN \/ u.val = Redacted /\ Hit(rules, seen)
              \/ u \in Values(Settled(seen)) /\ \A r \in AsSet(rules) :
                    NamedBy(r, u) => u \in Values(Settled(Disguised(r, seen)))
<1> DEFINE u == [path |-> d.path, val |-> d.val]
<1>1. PICK p \in Seq(ClaimSet(K, V, A)) : p = Redact(rules, seen)
  BY RedactRooted
<1>2. DOMAIN p = DOMAIN seen
  BY <1>1 DEF Redact
<1>3. d \in SettledSet(AsSet(p))
  BY <1>1, SettledElements
<1>4. PICK e \in AsSet(p) : d \in SettledSet({e})
  BY <1>3, SettledFrom
<1>5. PICK i \in DOMAIN seen : e = p[i]
  BY <1>2, <1>4 DEF AsSet
<1>6. PICK c \in ClaimSet(K, V, A) : c = seen[i]
  BY ClaimsIn
<1>7. e = IF Matches(rules, c) THEN [c EXCEPT !.kind = "scalar", !.val = Redacted, !.members = <<>>]
          ELSE c
  BY <1>1, <1>5, <1>6 DEF Redact
<1>8. CASE Matches(rules, c)
  <2>1. e \in ClaimSet(K, V, A)
    BY <1>2, <1>5, ClaimsIn
  <2>2. e.kind = "scalar" /\ e.val = Redacted
    BY <1>7, <1>8 DEF ClaimSet
  <2>3. d \in AsSet(Inlined(e))
    BY <1>4, <2>2, SettledSingle
  <2>4. d.val = Redacted
    BY <2>1, <2>2, <2>3, ScalarShown
  <2>5. Hit(rules, seen)
    BY <1>6, <1>8 DEF Hit
  <2> QED BY <2>4, <2>5
<1>9. CASE ~Matches(rules, c)
  <2>1. d \in SettledSet({c}) /\ c \in AsSet(seen)
    BY <1>4, <1>6, <1>7, <1>9 DEF AsSet
  <2>2. ASSUME NEW s \in Seq(ClaimSet(K, V, A)), c \in AsSet(s) PROVE u \in Values(Settled(s))
    <3>1. {c} \subseteq AsSet(s)
      BY <2>2
    <3>3. PICK T : T = AsSet(s)
      OBVIOUS
    <3>4. SettledSet({c}) \subseteq SettledSet(T)
      BY <3>1, <3>3, SetsGrow
    <3>5. AsSet(Settled(s)) = SettledSet(T)
      BY <3>3, SettledElements
    <3>2. d \in AsSet(Settled(s))
      BY <2>1, <3>4, <3>5
    <3> QED BY <3>2 DEF Values
  <2>3. u \in Values(Settled(seen))
    BY <2>1, <2>2
  <2>4. ASSUME NEW r \in AsSet(rules), NamedBy(r, u) PROVE u \in Values(Settled(Disguised(r, seen)))
    <3>1. ~(IsLeaf(c) /\ MatchRule(r, c))
      BY <1>9 DEF Matches, AsSet
    <3>2. Hides(r, c)
      BY <2>1, <2>4, <3>1, NamedMatched
    <3>3. PICK s \in Seq(ClaimSet(K, V, A)) :
              s = Disguised(r, seen) /\ AsSet(s) = {x \in AsSet(seen) : Hides(r, x)}
      BY DisguisedElements
    <3>4. c \in AsSet(s)
      BY <2>1, <3>2, <3>3
    <3> HIDE DEF u
    <3> QED BY <2>2, <3>3, <3>4
  <2> QED BY <2>3, <2>4
<1> QED BY <1>8, <1>9

-----------------------------------------------------------------------------
(* What is pinned, heard and held is of what was said.                      *)

\* Pinned claims are claims that were to be pinned, heard ones were made.
LEMMA AmongClaims ==
    ASSUME NEW S, NEW s \in Seq(S), NEW ps
    PROVE  /\ Pins(s) \in Seq(S) /\ AsSet(Pins(s)) \subseteq AsSet(s)
           /\ Heard(ps, s) \in Seq(S) /\ AsSet(Heard(ps, s)) \subseteq AsSet(s)
<1> DEFINE Stop(i) == \E j \in 1..i - 1 : /\ IsLeaf(s[j]) /\ IsPrefix(s[j].path, s[i].path)
                                          /\ s[j].path # s[i].path \/ ~IsLeaf(s[i])
           q == [i \in DOMAIN s |-> IF Stop(i) THEN <<>> ELSE <<s[i]>>]
           r == [i \in DOMAIN s |-> IF ShutOut(ps, s[i]) THEN <<>> ELSE <<s[i]>>]
<1>1. Pins(s) = FlattenSeq(q)
  BY Zenon DEF Pins
<1>2. Heard(ps, s) = FlattenSeq(r)
  BY DEF Heard
<1> HIDE DEF Stop
<1>3. Chosen(s, q) /\ Chosen(s, r)
  BY DEF Chosen
<1>4. \A u : ChosenOf(s, u) \subseteq AsSet(s)
  BY DEF ChosenOf, AsSet
<1> HIDE DEF q, r
<1>5. /\ FlattenSeq(q) \in Seq(S) /\ AsSet(FlattenSeq(q)) \subseteq AsSet(s)
      /\ FlattenSeq(r) \in Seq(S) /\ AsSet(FlattenSeq(r)) \subseteq AsSet(s)
  BY <1>3, <1>4, LeftOut
<1> QED BY <1>1, <1>2, <1>5

\* What two sequences have.
LEMMA JoinedElements ==
    ASSUME NEW S, NEW p \in Seq(S), NEW q \in Seq(S)
    PROVE  p \o q \in Seq(S) /\ AsSet(p \o q) = AsSet(p) \cup AsSet(q)
<1>1. \A x : AsSet(x) = Range(x)
  BY DEF AsSet, Range
<1> QED BY <1>1, RangeConcatenation, ConcatProperties

\* Attributes with an empty key are dropped.
LEMMA ValidAmong ==
    ASSUME NEW A, NEW as \in Seq(A)
    PROVE  FilterValidAttrs(as) \in Seq(A) /\ AsSet(FilterValidAttrs(as)) \subseteq AsSet(as)
<1> DEFINE q == [i \in DOMAIN as |-> IF as[i].key = NoKey THEN <<>> ELSE <<as[i]>>]
<1>1. FilterValidAttrs(as) = FlattenSeq(q)
  BY DEF FilterValidAttrs
<1>2. Chosen(as, q)
  BY DEF Chosen
<1>3. ChosenOf(as, q) \subseteq AsSet(as)
  BY DEF ChosenOf, AsSet
<1> HIDE DEF q
<1> QED BY <1>1, <1>2, <1>3, LeftOut

\* Fewer attributes say less.
LEMMA LessSaid ==
    ASSUME NEW path, NEW base, NEW as, NEW bs, AsSet(as) \subseteq AsSet(bs)
    PROVE  AsSet(AttrClaims(path, base, as)) \subseteq AsSet(AttrClaims(path, base, bs))
<1> SUFFICES ASSUME NEW i \in DOMAIN AttrClaims(path, base, as)
             PROVE  AttrClaims(path, base, as)[i] \in AsSet(AttrClaims(path, base, bs))
  BY DEF AsSet
<1>1. i \in DOMAIN as /\ AttrClaims(path, base, as)[i] = Claim(path, base, as[i])
  BY DEF AttrClaims
<1>2. PICK j \in DOMAIN bs : bs[j] = as[i]
  BY <1>1 DEF AsSet
<1>3. j \in DOMAIN AttrClaims(path, base, bs) /\ AttrClaims(path, base, bs)[j] = Claim(path, base, bs[j])
  BY <1>2 DEF AttrClaims
<1> QED BY <1>1, <1>2, <1>3 DEF AsSet

\* What is held of the calls has their groups, and says what they say or less.
HeldOfCalls(ops) ==
    /\ GroupsOf(ValidOps(ops)) = GroupsOf(ops)
    /\ AsSet(OpsSaid(ValidOps(ops))) \subseteq AsSet(OpsSaid(ops))

\* The groups that are open, and what one call more says.
SaysMore(ops, op, K, S) ==
    LET g == GroupsOf(ops)
        more == Append(ops, op)
    IN /\ g \in Seq(K) /\ Len(g) \in Nat /\ Named(g, Len(g)) /\ OpsSaid(ops) \in Seq(S)
       /\ op.isGroup =>
             /\ GroupsOf(more) = Append(g, op.group)
             /\ OpsSaid(more) = OpsSaid(ops) \o <<OpenClaim(Append(g, op.group))>>
       /\ ~op.isGroup =>
             /\ GroupsOf(more) = g
             /\ OpsSaid(more) = OpsSaid(ops) \o AttrClaims(g, Len(g), op.attrs)

LEMMA OneMore ==
    ASSUME NEW K, NEW V, NEW A, AttrSet(A, K, V), NoVal \in V, NEW ops \in Seq(OpSet(A, K)),
           NEW op \in OpSet(A, K)
    PROVE  SaysMore(ops, op, K, ClaimSet(K, V, A))
<1> DEFINE g == GroupsOf(ops)
           more == Append(ops, op)
<1>1. g \in Seq(K) /\ Len(g) \in Nat /\ Named(g, Len(g))
  BY GroupsNamed, LenProperties DEF AllNamed, Named
<1>2. /\ op.isGroup => GroupsOf(more) = Append(g, op.group)
      /\ ~op.isGroup => GroupsOf(more) = g
  BY GroupsAppend
<1>3. /\ op.isGroup => OpsSaid(more) = OpsSaid(ops) \o <<OpenClaim(GroupsOf(more))>>
      /\ ~op.isGroup => OpsSaid(more) = OpsSaid(ops) \o AttrClaims(g, Len(g), op.attrs)
  BY OpsSaidAppend
<1>4. OpsSaid(ops) \in Seq(ClaimSet(K, V, A))
  BY OpsSaidWell
<1> HIDE DEF g, more
<1>5. op.isGroup => OpsSaid(more) = OpsSaid(ops) \o <<OpenClaim(Append(g, op.group))>>
  BY <1>2, <1>3
<1> QED BY <1>1, <1>2, <1>3, <1>4, <1>5 DEF SaysMore, g, more

\* It does so with one call more.
LEMMA HeldOfOneMore ==
    ASSUME NEW K, NEW V, NEW A, AttrSet(A, K, V), NoVal \in V, NoKey \in K,
           NEW ops \in Seq(OpSet(A, K)), NEW op \in OpSet(A, K), HeldOfCalls(ops)
    PROVE  HeldOfCalls(Append(ops, op))
<1>1. PICK v \in Seq(OpSet(A, K)) : v = ValidOps(ops) /\ ValidOps(Append(ops, op)) = v \o ValidOp(op)
  BY ValidOpsSteps
<1>2. /\ GroupsOf(v) = GroupsOf(ops) /\ AsSet(OpsSaid(v)) \subseteq AsSet(OpsSaid(ops))
  BY <1>1 DEF HeldOfCalls
<1>3. PICK S : S = ClaimSet(K, V, A)
  OBVIOUS
<1>0. SaysMore(ops, op, K, S) /\ SaysMore(v, op, K, S)
  BY <1>3, OneMore
<1>4. PICK g \in Seq(K) : /\ g = GroupsOf(ops) /\ Len(g) \in Nat /\ Named(g, Len(g))
                          /\ OpsSaid(ops) \in Seq(S) /\ OpsSaid(v) \in Seq(S)
  BY <1>0 DEF SaysMore
<1>5. PICK more : more = Append(ops, op)
  OBVIOUS
<1>6. CASE op.isGroup
  <2>1. ValidOps(more) = Append(v, op)
    <3>1. ValidOp(op) = <<op>>
      BY <1>6 DEF ValidOp
    <3>2. PICK O : O = OpSet(A, K)
      OBVIOUS
    <3>3. v \in Seq(O) /\ v \o <<op>> = Append(v, op)
      BY <3>2, AppendIsConcat
    <3> QED BY <1>1, <1>5, <3>1, <3>3
  <2>2. GroupsOf(more) = Append(g, op.group) /\ GroupsOf(Append(v, op)) = Append(g, op.group)
    BY <1>0, <1>2, <1>4, <1>5, <1>6 DEF SaysMore
  <2>3. PICK o : o = OpenClaim(Append(g, op.group))
    OBVIOUS
  <2>4. /\ OpsSaid(more) = OpsSaid(ops) \o <<o>> /\ OpsSaid(Append(v, op)) = OpsSaid(v) \o <<o>>
        /\ OpsSaid(ops) \in Seq(S) /\ OpsSaid(v) \in Seq(S)
    BY <1>0, <1>2, <1>4, <1>5, <1>6, <2>3 DEF SaysMore
  <2>5. OpsSaid(ops) \in Seq(S \cup {o}) /\ OpsSaid(v) \in Seq(S \cup {o}) /\ <<o>> \in Seq(S \cup {o})
    BY <2>4, SeqMonotonic, EmptySeq
  <2>6. /\ AsSet(OpsSaid(more)) = AsSet(OpsSaid(ops)) \cup AsSet(<<o>>)
        /\ AsSet(OpsSaid(Append(v, op))) = AsSet(OpsSaid(v)) \cup AsSet(<<o>>)
    <3>1. \A s, t \in Seq(S \cup {o}) : AsSet(s \o t) = AsSet(s) \cup AsSet(t)
      BY JoinedElements
    <3> QED BY <2>4, <2>5, <3>1
  <2> QED BY <1>2, <1>5, <2>1, <2>2, <2>6 DEF HeldOfCalls
<1>7. CASE ~op.isGroup
  <2>1. PICK x \in Seq(S) : x = AttrClaims(g, Len(g), op.attrs)
    <3>1. op.attrs \in Seq(A)
      BY DEF OpSet
    <3> QED BY <1>3, <1>4, <3>1, AttrClaimsSteps
  <2>2. /\ GroupsOf(more) = g /\ OpsSaid(more) = OpsSaid(ops) \o x
        /\ OpsSaid(ops) \in Seq(S) /\ OpsSaid(v) \in Seq(S)
    BY <1>0, <1>4, <1>5, <1>7, <2>1 DEF SaysMore
  <2>3. AsSet(OpsSaid(more)) = AsSet(OpsSaid(ops)) \cup AsSet(x)
    BY <2>1, <2>2, JoinedElements
  <2>4. CASE ValidOp(op) = <<>>
    <3>1. ValidOps(more) = v
      <4>1. PICK O : O = OpSet(A, K)
        OBVIOUS
      <4>2. v \in Seq(O) /\ v \o <<>> = v
        BY <4>1, ConcatEmptySeq
      <4> QED BY <1>1, <1>5, <2>4, <4>2
    <3> QED BY <1>2, <1>4, <1>5, <2>2, <2>3, <3>1 DEF HeldOfCalls
  <2>5. CASE ValidOp(op) # <<>>
    <3>1. PICK bs \in Seq(A) : bs = FilterValidAttrs(op.attrs) /\ AsSet(bs) \subseteq AsSet(op.attrs)
      BY ValidAmong DEF OpSet
    <3>2. PICK h : h = AttrsOp(bs)
      OBVIOUS
    <3>3. h \in OpSet(A, K) /\ ~h.isGroup /\ h.attrs = bs
      BY <3>1, <3>2 DEF AttrsOp, OpSet
    <3>4. ValidOps(more) = Append(v, h)
      <4>1. ValidOp(op) = <<h>>
        BY <1>7, <2>5, <3>1, <3>2 DEF ValidOp
      <4>2. PICK O : O = OpSet(A, K)
        OBVIOUS
      <4>3. v \in Seq(O) /\ v \o <<h>> = Append(v, h)
        BY <3>3, <4>2, AppendIsConcat
      <4> QED BY <1>1, <1>5, <4>1, <4>3
    <3>5. PICK y : y = AttrClaims(g, Len(g), bs)
      OBVIOUS
    <3>6. GroupsOf(Append(v, h)) = g /\ OpsSaid(Append(v, h)) = OpsSaid(v) \o y
      <4>1. SaysMore(v, h, K, S)
        BY <1>3, <3>3, OneMore
      <4> QED BY <1>2, <1>4, <3>3, <3>5, <4>1 DEF SaysMore
    <3>7. y \in Seq(S) /\ AsSet(y) \subseteq AsSet(x)
      <4>1. y \in Seq(S)
        BY <1>3, <1>4, <3>1, <3>5, AttrClaimsSteps
      <4> QED BY <2>1, <3>1, <3>5, <4>1, LessSaid
    <3>8. AsSet(OpsSaid(v) \o y) = AsSet(OpsSaid(v)) \cup AsSet(y)
      BY <2>2, <3>7, JoinedElements
    <3> QED BY <1>2, <1>4, <1>5, <2>2, <2>3, <3>4, <3>6, <3>7, <3>8 DEF HeldOfCalls
  <2> QED BY <2>4, <2>5
<1> QED BY <1>6, <1>7

\* So whatever the calls and the record.
LEMMA ValidSaid ==
    ASSUME NEW K, NEW V, NEW A, AttrSet(A, K, V), NoVal \in V, NoKey \in K,
           NEW ops \in Seq(OpSet(A, K)), NEW as \in Seq(A)
    PROVE  AsSet(Claims(ValidOps(ops), as)) \subseteq AsSet(Claims(ops, as))
<1>1. PICK O : O = OpSet(A, K)
  OBVIOUS
<1> DEFINE C == {os \in Seq(O) : HeldOfCalls(os)}
<1>2. <<>> \in C
  <2>1. ValidOps(<<>>) = <<>>
    BY ValidOpsSteps
  <2> QED BY <2>1, EmptySeq DEF HeldOfCalls
<1>3. ASSUME NEW os \in Seq(O), NEW op \in O, os \in C PROVE Append(os, op) \in C
  <2>1. HeldOfCalls(Append(os, op))
    BY <1>1, <1>3, HeldOfOneMore DEF C
  <2> QED BY <2>1, AppendProperties
<1> HIDE DEF C
<1>4. Seq(O) \subseteq C
  BY <1>2, <1>3, AppendInduction
<1>5. HeldOfCalls(ops)
  BY <1>1, <1>4 DEF C
<1>6. PICK v \in Seq(OpSet(A, K)) : v = ValidOps(ops)
  BY ValidOpsSteps
<1>7. PICK g \in Seq(K) : g = GroupsOf(ops) /\ g = GroupsOf(v) /\ Named(g, Len(g)) /\ Len(g) \in Nat
  <2>1. PICK g : g = GroupsOf(ops) /\ g = GroupsOf(v)
    BY <1>5, <1>6 DEF HeldOfCalls
  <2> QED BY <2>1, GroupsNamed, LenProperties DEF AllNamed, Named
<1>8. PICK x \in Seq(ClaimSet(K, V, A)) : x = AttrClaims(g, Len(g), as)
  BY <1>7, AttrClaimsSteps
<1>9. Claims(v, as) = OpsSaid(v) \o x /\ Claims(ops, as) = OpsSaid(ops) \o x
  BY <1>7, <1>8 DEF Claims, OpsSaid
<1>10. OpsSaid(v) \in Seq(ClaimSet(K, V, A)) /\ OpsSaid(ops) \in Seq(ClaimSet(K, V, A))
  BY OpsSaidWell
<1>11. /\ AsSet(Claims(v, as)) = AsSet(OpsSaid(v)) \cup AsSet(x)
       /\ AsSet(Claims(ops, as)) = AsSet(OpsSaid(ops)) \cup AsSet(x)
  <2>1. \A s, t \in Seq(ClaimSet(K, V, A)) : AsSet(s \o t) = AsSet(s) \cup AsSet(t)
    BY JoinedElements
  <2> QED BY <1>8, <1>9, <1>10, <2>1
<1> QED BY <1>5, <1>6, <1>11 DEF HeldOfCalls

-----------------------------------------------------------------------------
(* The lines of a filtered chain.                                           *)

\* Seq(Calls) are calls of all attributes.
LEMMA CallsTyped == Seq(Calls) \subseteq Seq(OpSet(AllAttrs, Keys))
<1>1. Seq(Attributes) \subseteq Seq(AllAttrs)
  BY SeqMonotonic DEF AllAttrs
<1>2. Calls \subseteq OpSet(AllAttrs, Keys)
  BY <1>1 DEF Calls, OpSet
<1> QED BY <1>2, SeqMonotonic

\* What a chain is told, taken apart for its rules.
LEMMA SeenTyped ==
    ASSUME NEW made \in Seq(Calls), NEW as \in Seq(AllAttrs)
    PROVE  LET S == ClaimSet(Keys, AllVals, AllAttrs)
               told == Walked(Claims(made, as))
               seen == Walked(Claims(ValidOps(made), as))
           IN /\ told \in Seq(S) /\ seen \in Seq(S) /\ Rooted(seen, Keys)
              /\ AsSet(seen) \subseteq AsSet(told)
<1>1. PICK K, V, A : K = Keys /\ V = AllVals /\ A = AllAttrs
  OBVIOUS
<1>2. AttrSet(A, K, V) /\ NoVal \in V /\ NoKey \in K /\ made \in Seq(OpSet(A, K)) /\ as \in Seq(A)
  BY <1>1, AllAttrsSet, CallsTyped DEF AllVals, Keys
<1>3. PICK ops \in Seq(OpSet(A, K)) : ops = ValidOps(made)
  BY <1>2, ValidOpsSteps
<1>4. PICK c \in Seq(ClaimSet(K, V, A)) : c = Claims(made, as)
  BY <1>2, ClaimsRooted
<1>5. PICK d \in Seq(ClaimSet(K, V, A)) : d = Claims(ops, as) /\ Rooted(d, K)
  BY <1>2, ClaimsRooted
<1>6. AsSet(d) \subseteq AsSet(c)
  BY <1>2, <1>3, <1>4, <1>5, ValidSaid
<1>7. Walked(c) \in Seq(ClaimSet(K, V, A)) /\ AsSet(Walked(c)) = WalkedSet(AsSet(c))
  BY <1>2, SettledElements
<1>8. Walked(d) \in Seq(ClaimSet(K, V, A)) /\ AsSet(Walked(d)) = WalkedSet(AsSet(d))
  BY <1>2, SettledElements
<1>9. Rooted(Walked(d), K)
  BY <1>2, <1>5, WalkedRooted
<1>10. PICK C, D : C = AsSet(c) /\ D = AsSet(d)
  OBVIOUS
<1>11. WalkedSet(D) \subseteq WalkedSet(C)
  BY <1>6, <1>10, SetsGrow
<1> QED BY <1>1, <1>3, <1>4, <1>5, <1>7, <1>8, <1>9, <1>10, <1>11

\* A value that the rules look at more is more looked at.
LEMMA HitGrows ==
    ASSUME NEW rules, NEW cs, NEW ds, AsSet(cs) \subseteq AsSet(ds), Hit(rules, cs)
    PROVE  Hit(rules, ds)
<1>1. PICK i \in DOMAIN cs : Matches(rules, cs[i])
  BY DEF Hit
<1>2. PICK j \in DOMAIN ds : ds[j] = cs[i]
  BY <1>1 DEF AsSet
<1> QED BY <1>1, <1>2 DEF Hit

\* A rule that matches a claim names it.
LEMMA HitNames ==
    ASSUME NEW rules, NEW cs, Hit(rules, cs)
    PROVE  \E s \in AsSet(cs) : IsLeaf(s) /\ \E r \in AsSet(rules) : NamedBy(r, s)
<1>1. PICK i \in DOMAIN cs : IsLeaf(cs[i]) /\ \E k \in DOMAIN rules : MatchRule(rules[k], cs[i])
  BY DEF Hit, Matches
<1>2. PICK k \in DOMAIN rules : MatchRule(rules[k], cs[i])
  BY <1>1
<1>3. NamedBy(rules[k], cs[i])
  BY <1>2 DEF MatchRule, NamedBy
<1> QED BY <1>1, <1>3 DEF AsSet

\* How a value is shown.
ShownAs(v, u, reserved) == v = [u EXCEPT !.path[1] = Renamed(reserved, @)]

\* What is on the line reads as a value that counts.
LEMMA LeafOfLine ==
    ASSUME NEW S, NEW p \in Seq(S), NEW q \in Seq(S), NEW out, NEW reserved,
           Reads(out, p \o q, reserved), NEW v \in AsSet(out.leaves)
    PROVE  \E d \in AsSet(p) \cup AsSet(q) :
              IsLeaf(d) /\ ShownAs(v, [path |-> d.path, val |-> d.val], reserved)
<1>1. PICK all \in Seq(S) : all = p \o q /\ AsSet(all) = AsSet(p) \cup AsSet(q)
  BY JoinedElements, ZenonT(30)
<1>2. v \in {[u EXCEPT !.path[1] = Renamed(reserved, @)] : u \in Resolution(all)}
  BY <1>1 DEF Reads
<1>3. PICK u \in Resolution(all) : ShownAs(v, u, reserved)
  BY <1>2 DEF ShownAs
<1>4. PICK i \in DOMAIN all : IsLeaf(all[i]) /\ u = [path |-> all[i].path, val |-> all[i].val]
  BY DEF Resolution, Counts
<1>5. all[i] \in AsSet(p) \cup AsSet(q)
  BY <1>1 DEF AsSet
<1> QED BY <1>3, <1>4, <1>5

\* A rule of a chain that writes hit what it was told only if it redacts.
LEMMA DropsOnly ==
    ASSUME NEW child, child.kind = "decorated", child.rules # <<>>, NEW made, NEW term, NEW rec,
           NEW as, as = IF child.source THEN AddAttrs(rec, CallSite("source")) ELSE rec.attrs
    PROVE  /\ Written(child, made, term, rec) # <<>> =>
                 child.mode # "drop" \/ ~Hit(child.rules, Walked(Claims(made, as)))
           /\ Written(child, made, term, rec) = <<>> =>
                 child.mode = "drop" /\ Hit(child.rules, Walked(Claims(made, as)))
<1> DEFINE passed == FilterHandle(child.rules, child.mode, made, as)
           Out(p) == [i \in DOMAIN p |-> DedupHandle(Pinned(child), BuiltInKeys, ValidOps(made), p[i])]
<1>1. Written(child, made, term, rec) = Out(passed)
  BY Zenon DEF Written
<1>2. \A p, x : p = <<>> => Out(p) = <<>>
  OBVIOUS
<1>3. \A p, x : p = <<x>> => Out(p) # <<>>
  <2>1. \A p, x : p = <<x>> => 1 \in DOMAIN Out(p)
    OBVIOUS
  <2>2. 1 \notin DOMAIN <<>>
    OBVIOUS
  <2> QED BY <2>1, <2>2
<1>4. passed = IF child.mode = "drop" /\ Hit(child.rules, Walked(Claims(made, as))) THEN <<>>
               ELSE <<Redact(child.rules, Walked(Claims(ValidOps(made), as)))>>
  BY DEF FilterHandle
<1> HIDE DEF Out, passed
<1> QED BY <1>1, <1>2, <1>3, <1>4

\* What SourceHandler hands on.
LEMMA SourceHandled ==
    ASSUME HeldInv, LineInv, NEW c \in Served
    PROVE  SourceAdded(Author.children[c])
             = IF Author.children[c].source THEN AddAttrs(line.rec, CallSite("source"))
               ELSE line.rec.attrs
<1>1. ~line.rec.shared /\ line.rec.attrs \in Seq(Attributes)
  BY ServedLine
<1>2. line.rec.attrs \o <<>> = line.rec.attrs
  BY <1>1, ConcatEmptySeq
<1> QED BY <1>1, <1>2 DEF SourceAdded, AddAttrs

\* What a filtered chain was told, and what of it comes to the line.
Told(c) == Walked(Claims(Author.made, SourceAdded(Author.children[c])))
Seen(c) == Walked(Claims(ValidOps(Author.made), SourceAdded(Author.children[c])))

\* They are claims.
LEMMA ToldTyped ==
    ASSUME HeldInv, SaidInv, LineInv, NEW c \in Served
    PROVE  /\ Told(c) \in Seq(ClaimSet(Keys, AllVals, AllAttrs))
           /\ Seen(c) \in Seq(ClaimSet(Keys, AllVals, AllAttrs)) /\ Rooted(Seen(c), Keys)
           /\ AsSet(Seen(c)) \subseteq AsSet(Told(c))
<1>1. Author.made \in Seq(Calls)
  BY ServedLine DEF SaidInv, ToldIn, Author
<1>2. SourceAdded(Author.children[c]) \in Seq(AllAttrs)
  BY SourceAddedTyped
<1> QED BY <1>1, <1>2, SeenTyped DEF Told, Seen

\* A chain drops what its rules match, and in that mode only.
LEMMA FilteredDrops ==
    ASSUME HeldInv, SaidInv, LineInv, NEW c \in Served,
           Author.children[c].kind = "decorated", Author.children[c].rules # <<>>
    PROVE  /\ Wrote(c) => \/ Author.children[c].mode # "drop"
                          \/ ~Hit(Author.children[c].rules, Told(c))
           /\ ~Wrote(c) => /\ Author.children[c].mode = "drop"
                           /\ Hit(Author.children[c].rules, Told(c))
<1> DEFINE child == Author.children[c]
<1>1. PICK rec, term, as, made :
          /\ rec = line.rec /\ term = Author.term[c] /\ made = Author.made
          /\ as = SourceAdded(child)
  OBVIOUS
<1>2. as = IF child.source THEN AddAttrs(rec, CallSite("source")) ELSE rec.attrs
  BY <1>1, SourceHandled
<1>3. /\ line.by \in DOMAIN loggers /\ c \in DOMAIN Author.children
      /\ line.out[c] = Written(child, Author.kept[c], Author.term[c], line.rec)
  BY ServedLine
<1>4. Author.kept[c] = made
  BY <1>1, <1>3 DEF SaidInv, ToldIn, KeptOf, Author
<1>5. line.out[c] = Written(child, made, term, rec)
  BY <1>1, <1>3, <1>4
<1>6. Wrote(c) <=> Written(child, made, term, rec) # <<>>
  BY <1>5 DEF Wrote, Served
<1>7. Told(c) = Walked(Claims(made, as))
  BY <1>1 DEF Told
<1>8. child.kind = "decorated" /\ child.rules # <<>>
  OBVIOUS
<1> HIDE DEF child
<1>9. /\ Written(child, made, term, rec) # <<>> =>
            child.mode # "drop" \/ ~Hit(child.rules, Walked(Claims(made, as)))
      /\ Written(child, made, term, rec) = <<>> =>
            child.mode = "drop" /\ Hit(child.rules, Walked(Claims(made, as)))
  BY <1>2, <1>8, DropsOnly
<1> QED BY <1>6, <1>7, <1>9 DEF child

\* What its line shows.
Shown(v, u) == ShownAs(v, u, BuiltInKeys)

LEMMA FilteredShows ==
    ASSUME HeldInv, SaidInv, LineInv, NEW c \in Served,
           Author.children[c].kind = "decorated", Author.children[c].rules # <<>>, Wrote(c),
           NEW v \in AsSet(Output(c).leaves)
    PROVE  \/ v.val = Redacted /\ Author.children[c].mode # "drop"
           \/ \E u \in Values(Settled(Claims(<<>>, Pinned(Author.children[c])))) : Shown(v, u)
           \/ \E u \in Values(Settled(Seen(c))) : Shown(v, u) /\
                 \A r \in AsSet(Author.children[c].rules) :
                     NamedBy(r, u) => u \in Values(Settled(Disguised(r, Seen(c))))
<1> DEFINE child == Author.children[c]
<1>1. PICK K, V, A : K = Keys /\ V = AllVals /\ A = AllAttrs
  OBVIOUS
<1>2. AttrSet(A, K, V) /\ NoVal \in V /\ Redacted \in V
  BY <1>1, AllAttrsSet DEF AllVals
<1>3. PICK seen \in Seq(ClaimSet(K, V, A)) : seen = Seen(c) /\ Rooted(seen, K)
  BY <1>1, ToldTyped
<1>4. PICK p \in Seq(ClaimSet(K, V, A)) : p = Redact(child.rules, seen) /\ Rooted(p, K)
  BY <1>2, <1>3, RedactRooted
<1>5. LineSaid(c) = p
  BY <1>3, <1>4 DEF LineSaid, PassedOn, Seen
<1>6. PICK s \in Seq(ClaimSet(K, V, A)) : s = Settled(Claims(<<>>, Pinned(child)))
  <2>1. child.fields \in Seq(AllAttrs)
    BY ServedLine, SeqMonotonic DEF AllAttrs
  <2>2. Pinned(child) \in Seq(A)
    BY <1>1, <2>1, PinnedTyped
  <2>3. <<>> \in Seq(OpSet(A, K))
    BY EmptySeq
  <2>4. PICK d \in Seq(ClaimSet(K, V, A)) : d = Claims(<<>>, Pinned(child))
    BY <1>2, <2>2, <2>3, ClaimsRooted
  <2> QED BY <1>2, <2>4, SettledElements
<1>7. PICK t \in Seq(ClaimSet(K, V, A)) : t = Settled(p)
  BY <1>2, SettledElements
<1>8. PICK pins \in Seq(ClaimSet(K, V, A)) : pins = Pins(s) /\ AsSet(pins) \subseteq AsSet(s)
  BY AmongClaims
<1>9. PICK heard \in Seq(ClaimSet(K, V, A)) : heard = Heard(pins, t) /\ AsSet(heard) \subseteq AsSet(t)
  BY AmongClaims
<1>10. Reads(Output(c), pins \o heard, BuiltInKeys)
  BY <1>5, <1>6, <1>7, <1>8, <1>9, LineReads
<1>11. PICK d \in AsSet(pins) \cup AsSet(heard) :
          IsLeaf(d) /\ Shown(v, [path |-> d.path, val |-> d.val])
  BY <1>10, LeafOfLine DEF Shown
<1>12. PICK u : u = [path |-> d.path, val |-> d.val]
  OBVIOUS
<1>13. Shown(v, u)
  BY <1>11, <1>12
<1>14. CASE d \in AsSet(pins)
  <2>1. u \in Values(s)
    BY <1>8, <1>11, <1>12, <1>14 DEF Values
  <2> QED BY <1>6, <1>13, <2>1
<1>15. CASE d \in AsSet(heard)
  <2>1. d \in AsSet(Settled(Redact(child.rules, seen)))
    BY <1>4, <1>7, <1>9, <1>15
  <2>2. PICK rules : rules = child.rules
    OBVIOUS
  <2>3. \/ u.val = Redacted /\ Hit(rules, seen)
        \/ u \in Values(Settled(seen)) /\ \A r \in AsSet(rules) :
              NamedBy(r, u) => u \in Values(Settled(Disguised(r, seen)))
    BY <1>2, <1>3, <1>11, <1>12, <2>1, <2>2, RedactHides
  <2>4. v.val = u.val
    BY <1>12, <1>13 DEF Shown, ShownAs
  <2>5. Hit(rules, seen) => child.mode # "drop"
    <3>1. AsSet(seen) \subseteq AsSet(Told(c))
      BY <1>3, ToldTyped
    <3>2. Hit(rules, seen) => Hit(rules, Told(c))
      BY <3>1, HitGrows
    <3> QED BY <2>2, <3>2, FilteredDrops
  <2> QED BY <1>3, <1>13, <2>2, <2>3, <2>4, <2>5
<1> QED BY <1>11, <1>14, <1>15

\* Whatever the rules, the calls, the groups they open and the records: a value that
\* a rule names is on the line of a filtered chain only where the rule met it in
\* disguise or it is pinned; ModeDrop replaces nothing, and drops a line only for a
\* value that a rule names (FilterHandler.Handle).
THEOREM NamedValuesHidden == Spec => []MatchedIsHidden
<1>1. Init => LineInv
  BY DEF Init, LineInv, NoLine
<1>2. ASSUME HeldInv, SaidInv, LineInv PROVE MatchedIsHidden
  <2> SUFFICES ASSUME NEW c \in Served, Author.children[c].kind = "decorated",
                      Author.children[c].rules # <<>>
               PROVE  IF Wrote(c)
                      THEN \A v \in AsSet(Output(c).leaves) :
                           \/ v.val = Redacted /\ Author.children[c].mode # "drop"
                           \/ \E u \in Values(Settled(Claims(<<>>, Pinned(Author.children[c])))) :
                                 Shown(v, u)
                           \/ \E u \in Values(Settled(Seen(c))) : Shown(v, u) /\
                                 \A r \in AsSet(Author.children[c].rules) :
                                     NamedBy(r, u) => u \in Values(Settled(Disguised(r, Seen(c))))
                      ELSE /\ Author.children[c].mode = "drop"
                           /\ \E s \in AsSet(Told(c)) :
                                 IsLeaf(s) /\ \E r \in AsSet(Author.children[c].rules) : NamedBy(r, s)
    BY <1>2, Zenon DEF MatchedIsHidden, Shown, ShownAs, Seen, Told
  <2>1. CASE Wrote(c)
    BY <1>2, <2>1, FilteredShows
  <2>2. CASE ~Wrote(c)
    <3>1. Author.children[c].mode = "drop" /\ Hit(Author.children[c].rules, Told(c))
      BY <1>2, <2>2, FilteredDrops
    <3> QED BY <2>2, <3>1, HitNames
  <2> QED BY <2>1, <2>2
<1> QED BY <1>1, <1>2, SaidInit, SaidNext, LineNext, HeldInvCorrect, PTL DEF Spec
=============================================================================
