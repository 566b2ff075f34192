--------------------------- MODULE DerivedLoggers ---------------------------
(* Loggers derived with With and WithGroup from the process-wide logger or   *)
(* from one another, and the lines they write. The handlers below a logger   *)
(* hold the calls that derived it in slices; a slice that is appended to     *)
(* while another logger uses its array is what the code clips them for.      *)
EXTENDS FiniteSets, GlobalLogger, DedupHandler, FilterHandler, GlobalFieldsHandler

CONSTANTS
    Attributes, \* what a program logs and configures, with the members of groups
    Scenarios,  \* what is built, the calls that are made, the records logged
    Spare       \* the cells append leaves free behind a slice: Go leaves that open

ASSUME SpareAssumption == Spare \in Nat

\* A group and a LogValuer that resolves to one have members that are attributes.
ASSUME AttributesAssumption ==
    \A a \in Attributes :
        /\ a.key \in STRING /\ a.kind \in {"scalar", "group", "valuer"}
        /\ a.members \in Seq(Attributes)

\* Loggers are numbered in the order in which they are made: 2 and 3 are those that
\* L and EnsureLoggerOnce build. slog.Logger's WithGroup with an empty name calls no
\* handler. A call that is held is not what a free cell holds.
ASSUME LoggersAssumption ==
    /\ None \notin Nat /\ {LazyDefault, Ensured} \subseteq 2..3
    /\ \A s \in Scenarios :
          /\ 1 \in DOMAIN s.children
          /\ \A c \in DOMAIN s.children :
                /\ s.children[c].kind \in {"decorated", "globals", "component"}
                /\ s.children[c].fields \in Seq(Attributes)
          /\ \A op \in s.ops :
                /\ op \in [isGroup : BOOLEAN, group : STRING, attrs : Seq(Attributes)]
                /\ op.isGroup => op.group # NoKey
                /\ \A held \in {<<op>>, ValidOps(<<op>>)} : held # <<>> => held[1] # None
          /\ \A r \in s.records :
                /\ r = [attrs |-> r.attrs, pc |-> r.pc, level |-> r.level, shared |-> FALSE]
                /\ r.attrs \in Seq(Attributes)

VARIABLES
    scenario,   \* one of Scenarios, fixed at the start
    arrays,     \* the backing arrays: the cells in use, or None
    loggers,    \* every logger there is
    line        \* the last log call and what each handler below wrote

vars == <<globalVars, scenario, arrays, loggers, line>>

-----------------------------------------------------------------------------
(* A logger's handler hands records to one or more children: the chain that  *)
(* decorate builds (source, filter, dedup), a GlobalFieldsHandler or a       *)
(* ComponentHandler, each above a handler of slog's own.                     *)

\* dedupOptions and NewDedupHandler: GlobalFields, sorted, are pinned, but for an
\* empty key and for "source" with AddSource.
Pinned(child) ==
    FlattenSeq([i \in DOMAIN child.fields |->
        IF child.fields[i].key \in {NoKey} \cup (IF child.source THEN {"source"} ELSE {})
        THEN <<>> ELSE <<child.fields[i]>>])

\* Which call a child holds, given whether it holds any, and which it hands on to
\* slog's handler. FilterHandler holds all of them when it has rules, else
\* DedupHandler does; GlobalFieldsHandler from the first group on.
Holds(child, any, op) ==
    CASE child.kind = "decorated" /\ child.rules # <<>> -> <<op>>
      [] child.kind = "decorated" /\ child.rules = <<>> -> ValidOps(<<op>>)
      [] child.kind = "globals" /\ child.fields # <<>> /\ (any \/ op.isGroup) ->
            ValidOps(<<op>>)
      [] OTHER -> <<>>

HandsOn(child, any, op) ==
    CASE child.kind = "globals" /\ (child.fields = <<>> \/ ~(any \/ op.isGroup)) ->
            ValidOps(<<op>>)
      [] child.kind = "component" -> <<op>>
      [] OTHER -> <<>>

\* Mutant: the slice keeps the room behind it.
KeepRoom(s) == s

\* Mutant: made with the length that was meant as its capacity.
SliceFull(n, c, len, cap) == [arr |-> <<n, c>>, len |-> cap, cap |-> cap]

\* A slice of the array of logger n and child c, and slices.Clip.
Slice(n, c, len, cap) == [arr |-> <<n, c>>, len |-> len, cap |-> cap]
Clip(s) == [s EXCEPT !.cap = s.len]

Content(s) == SubSeq(arrays[s.arr], 1, s.len)

Built(n, children) ==
    [children |-> children,
     held |-> [c \in DOMAIN children |-> Slice(n, c, 0, 0)],
     kept |-> [c \in DOMAIN children |-> <<>>],
     term |-> [c \in DOMAIN children |-> <<>>],
     made |-> <<>>]

\* New(Config{}): decorated, with nothing configured.
DefaultChildren ==
    <<[kind |-> "decorated", fields |-> <<>>, override |-> FALSE, rules |-> <<>>,
       mode |-> "drop", source |-> FALSE, level |-> 0]>>

NoLine == [by |-> 0, rec |-> [attrs |-> <<>>], out |-> <<>>]

\* Logger 1 is the program's own. The others a call of L or EnsureLoggerOnce builds.
Init ==
    /\ GlobalInit
    /\ scenario \in Scenarios
    /\ loggers = <<Built(1, scenario.children), Built(2, DefaultChildren),
                   Built(3, scenario.children)>>
    /\ arrays = [a \in {<<n, c>> : n \in 1..3, c \in DOMAIN scenario.children} |-> <<>>]
    /\ line = NoLine

Reachable(n) ==
    n \in DOMAIN loggers /\ (n = 1 \/ n > 3 \/ \E g \in Goroutines : got[g] = n)

-----------------------------------------------------------------------------
(* With and WithGroup: for each child its own slice, appended to.            *)
Op(n, c, op) == Holds(loggers[n].children[c], loggers[n].held[c].len > 0, op)

Prior(n, c) == Clip(loggers[n].held[c])

\* append: into the free cells of the array, if there are any, or to a copy of it.
InPlace(n, c) == Prior(n, c).len < Prior(n, c).cap

Copied(n, c, x) ==
    LET len == Prior(n, c).len
    IN [i \in 1..len + 1 + Spare |->
            IF i <= len THEN arrays[Prior(n, c).arr][i] ELSE IF i = len + 1 THEN x ELSE None]

Grown(n, c, new) ==
    LET len == Prior(n, c).len + 1
    IN IF InPlace(n, c) THEN [Prior(n, c) EXCEPT !.len = len]
       ELSE Slice(new, c, len, len + Spare)

Derive(n, op) ==
    LET lg == loggers[n]
        new == Len(loggers) + 1
        Grows(c) == Op(n, c, op) # <<>>
        x(c) == Op(n, c, op)[1]
    IN /\ arrays' = [a \in DOMAIN arrays \cup {<<new, c>> : c \in DOMAIN lg.children} |->
              LET c == a[2] IN
              IF a[1] = new
              THEN IF Grows(c) /\ ~InPlace(n, c) THEN Copied(n, c, x(c)) ELSE <<>>
              ELSE IF c \in DOMAIN lg.children /\ Grows(c) /\ InPlace(n, c)
                        /\ a = Prior(n, c).arr
              THEN [arrays[a] EXCEPT ![Prior(n, c).len + 1] = x(c)]
              ELSE arrays[a]]
       /\ loggers' = Append(loggers,
            [children |-> lg.children,
             held |-> [c \in DOMAIN lg.children |->
                 IF Grows(c) THEN Grown(n, c, new) ELSE lg.held[c]],
             kept |-> [c \in DOMAIN lg.children |->
                 IF Grows(c) THEN Append(lg.kept[c], x(c)) ELSE lg.kept[c]],
             term |-> [c \in DOMAIN lg.children |->
                 lg.term[c] \o HandsOn(lg.children[c], lg.held[c].len > 0, op)],
             made |-> Append(lg.made, op)])
       /\ line' = NoLine
       /\ UNCHANGED <<globalVars, scenario>>

With(n) ==
    /\ Reachable(n)
    /\ Len(loggers) < 3 + scenario.derive
    /\ \E op \in scenario.ops : Derive(n, op)

-----------------------------------------------------------------------------
(* A log call.                                                               *)

\* Record.AddAttrs, by SourceHandler and ComponentHandler, when the record has a
\* pc: if another copy has written past the end of the storage they share, the
\* record says so.
Bug == Scalar("!BUG", "AddAttrs unsafely called")
AddAttrs(rec, a) ==
    IF ~rec.pc THEN rec.attrs
    ELSE rec.attrs \o (IF rec.shared THEN <<Bug>> ELSE <<>>) \o <<a>>

CallSite(key) == GroupAttr(key, <<Scalar("line", "42")>>)

Adds(child) == child.kind = "component" \/ (child.kind = "decorated" /\ child.source)

\* Mutant: every child is given the record itself.
HandedShared(children, c, rec) ==
    [rec EXCEPT !.shared = \E d \in 1..c - 1 :
                              Adds(children[d]) /\ rec.level >= children[d].level]

\* MultiHandler.Handle gives every child a Clone: nobody else has its storage.
Handed(children, c, rec) == [rec EXCEPT !.shared = FALSE]

\* What a child hands to the handler below it, as it is written: no line or one.
Written(child, held, term, rec) ==
    CASE child.kind = "decorated" ->
            LET as == IF child.source THEN AddAttrs(rec, CallSite("source")) ELSE rec.attrs
                passed == FilterHandle(child.rules, child.mode, held, as)
            IN [i \in DOMAIN passed |->
                    DedupHandle(Pinned(child), BuiltInKeys, ValidOps(held), passed[i])]
      [] child.kind = "globals" ->
            <<Render(Claims(term, GlobalFieldsHandle(child.fields, child.override, held,
                                                      rec.attrs)))>>
      [] child.kind = "component" ->
            <<Render(Claims(term, AddAttrs(rec, CallSite("component"))))>>

Enabled(child, rec) == rec.level >= child.level

\* In order, each child whose own level lets the record through. What one child
\* answers is kept from no other: errors are joined when all have been served.
Log(n) ==
    /\ Reachable(n)
    /\ \E rec \in scenario.records :
        LET lg == loggers[n] IN
        /\ \E c \in DOMAIN lg.children : Enabled(lg.children[c], rec)
        /\ line' = [by |-> n, rec |-> rec, out |->
              [c \in DOMAIN lg.children |->
                  IF ~Enabled(lg.children[c], rec) THEN <<>>
                  ELSE Written(lg.children[c], Content(lg.held[c]), lg.term[c],
                               Handed(lg.children, c, rec))]]
    /\ UNCHANGED <<globalVars, scenario, arrays, loggers>>

-----------------------------------------------------------------------------
CallGlobal(g) ==
    /\ g \in scenario.callers
    /\ GlobalStep(g) \/ \E n \in DOMAIN loggers : Reachable(n) /\ n # LazyDefault /\ SetGlobal(g, n)
    /\ line' = NoLine
    /\ UNCHANGED <<scenario, arrays, loggers>>

Next ==
    \/ \E n \in DOMAIN loggers : With(n) \/ Log(n)
    \/ \E g \in Goroutines : CallGlobal(g)

Spec == Init /\ [][Next]_vars

-----------------------------------------------------------------------------
(* Properties.                                                               *)

TypeOK ==
    /\ global \in {None} \cup DOMAIN loggers /\ installed \in BOOLEAN
    /\ lazyOnce \in OnceStates /\ ensureOnce \in OnceStates
    /\ \A g \in Goroutines : place[g] \in Places /\ got[g] \in {None} \cup DOMAIN loggers
    /\ \A n \in DOMAIN loggers : \A c \in DOMAIN loggers[n].children :
          LET s == loggers[n].held[c] IN
          /\ s.arr \in DOMAIN arrays
          /\ s.len <= s.cap /\ s.cap = Len(arrays[s.arr])
          /\ \A i \in 1..s.len : arrays[s.arr][i] # None
    /\ line.by \in {0} \cup DOMAIN loggers

\* Whoever derives what from a logger, each logger holds the calls that derived
\* it and no others ("siblings derived from the same parent never share a backing
\* array", derive, WithAttrs and WithGroup of the three holding handlers).
SiblingsIsolated ==
    \A n \in DOMAIN loggers : \A c \in DOMAIN loggers[n].children :
        Content(loggers[n].held[c]) = loggers[n].kept[c]

\* An explicit logger is never replaced by the lazy default, nor given up for it by
\* an L that began after it was installed, and what L loads last is there (SetGlobal,
\* L: "must not be clobbered by the lazy default").
ExplicitWins ==
    /\ installed => global # LazyDefault
    /\ \A g \in Goroutines :
          /\ late[g] => got[g] # LazyDefault \/ place[g] # "idle"
          /\ place[g] = "reload" => global # None

\* The children that wrote the line, with what they were given.
Wrote(c) == line.by # 0 /\ line.out[c] # <<>>
Author == loggers[line.by]
Output(c) == line.out[c][1]
Served == IF line.by = 0 THEN {} ELSE
          {c \in DOMAIN Author.children : Enabled(Author.children[c], line.rec)}

SourceAdded(child) ==
    line.rec.attrs \o IF child.source /\ line.rec.pc THEN <<CallSite("source")>> ELSE <<>>

AsSet(s) == {s[i] : i \in DOMAIN s}

\* Every line of a decorated chain has the value of the last occurrence for each
\* path, with pinned attributes before all, each path once, the top-level keys in
\* the order of their first occurrence, and no name twice but where a reserved key
\* is renamed to a name that another attribute has (DedupHandler.Handle).
LastValueFirstPlace ==
    \A c \in Served : (Author.children[c].kind = "decorated" /\ Wrote(c)) =>
        LET child == Author.children[c]
            said == Claims(ValidOps(Author.made), SourceAdded(child))
            pins == Pins(Settled(Claims(<<>>, Pinned(child))))
            all == pins \o Heard(pins, Settled(
                      IF child.rules = <<>> THEN said ELSE Redact(child.rules, Walked(said))))
            keys == FirstSeen(all)
            top == Output(c).top
        IN /\ AsSet(Output(c).leaves) =
                 {[v EXCEPT !.path[1] = Renamed(BuiltInKeys, @)] : v \in Resolution(all)}
           /\ Len(Output(c).leaves) = Cardinality(Resolution(all))
           /\ top = [i \in DOMAIN keys |-> Renamed(BuiltInKeys, keys[i])]
           /\ \A i, j \in DOMAIN top :
                 top[i] = top[j] => i = j \/ {keys[i], keys[j]} \cap BuiltInKeys # {}

Values(cs) == {[path |-> s.path, val |-> s.val] : s \in {s \in AsSet(cs) : IsLeaf(s)}}

NamedBy(rule, v) ==
    /\ rule.key \in {<<Folded(Last(v.path))>>, FoldedPath(v.path)}
    /\ rule.val \in {AnyVal, v.val}

\* What no rule can recognise, or not this one: a group below the levels that are
\* looked at, what an inlined group has, a LogValuer that resolves to a group or to
\* the value that the rule asks for.
Disguised(rule, cs) ==
    FlattenSeq([i \in DOMAIN cs |->
        IF \/ cs[i].kind = "group" \/ NoKey \in AsSet(Front(cs[i].path))
           \/ cs[i].kind = "valuer" /\ (cs[i].val = NoVal \/ rule.val # AnyVal)
        THEN <<cs[i]>> ELSE <<>>])

\* A value on the line of a filtered chain is pinned below the filter, or a rule had
\* it replaced, or it is what was said and each rule that names it met it disguised;
\* and ModeDrop replaces nothing and drops only what a rule names
\* (FilterHandler.Handle).
MatchedIsHidden ==
    \A c \in Served :
        LET child == Author.children[c]
            said == SourceAdded(child)
            seen == Walked(Claims(ValidOps(Author.made), said))
            Shows(v, u) == v = [u EXCEPT !.path[1] = Renamed(BuiltInKeys, @)]
        IN child.kind = "decorated" /\ child.rules # <<>> =>
           IF Wrote(c)
           THEN \A v \in AsSet(Output(c).leaves) :
                   \/ v.val = Redacted /\ child.mode # "drop"
                   \/ \E u \in Values(Settled(Claims(<<>>, Pinned(child)))) : Shows(v, u)
                   \/ \E u \in Values(Settled(seen)) : Shows(v, u) /\
                         \A r \in AsSet(child.rules) :
                             NamedBy(r, u) => u \in Values(Settled(Disguised(r, seen)))
           ELSE /\ child.mode = "drop"
                /\ \E s \in AsSet(Walked(Claims(Author.made, said))) :
                      IsLeaf(s) /\ \E r \in AsSet(child.rules) : NamedBy(r, s)

\* A ComponentHandler's line has what the calls and the record say and its own
\* group, whatever its siblings add to the same record; and every child that lets
\* the record through, and does not drop it by rule, writes it (MultiHandler.Handle).
ChildrenIndependent ==
    \A c \in Served :
        /\ Wrote(c) \/ Author.children[c].mode = "drop"
        /\ Author.children[c].kind = "component" =>
              Output(c) = Render(Claims(Author.made,
                  line.rec.attrs \o IF line.rec.pc THEN <<CallSite("component")>> ELSE <<>>))

\* A global field is on every line of a GlobalFieldsHandler once, with its value:
\* unless With or WithGroup used its key at the top level, or the record has it and
\* there is no override, in which case the record's stay. What is not such a field
\* is as slog would write it (GlobalFieldsHandler.Handle).
GlobalFieldsKept ==
    \A c \in Served : Author.children[c].kind = "globals" =>
        LET child == Author.children[c]
            given == Claims(ValidOps(Author.made), line.rec.attrs)
            plain == Render(given)
            Of(out, k) == SelectSeq(out.leaves, LAMBDA v : v.path[1] = k)
            ByWith(k) == \E i \in DOMAIN Claims(Author.made, <<>>) :
                            Claims(Author.made, <<>>)[i].path[1] = k
            ByRecord(k) == GroupsOf(Author.made) = <<>> /\ HasKey(line.rec.attrs, k)
        IN /\ \A f \in AsSet(child.fields) : ByWith(f.key) \/
                 IF ByRecord(f.key) /\ ~child.override
                 THEN Of(Output(c), f.key) = Of(plain, f.key)
                 ELSE Of(Output(c), f.key) = <<[path |-> <<f.key>>, val |-> f.val]>>
           /\ \A k \in AsSet(plain.top) : ~HasKey(child.fields, k) =>
                 Of(Output(c), k) = Of(plain, k)
=============================================================================
