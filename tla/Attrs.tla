------------------------------- MODULE Attrs -------------------------------
(* Attributes as the handlers of this library take them apart, and the       *)
(* With and WithGroup calls that a derived handler holds until Handle.       *)
EXTENDS Integers, Sequences, SequencesExt

NoKey == ""
NoVal == "nil"

\* slog.Attr with a plain value, a group, or a LogValuer: one that resolves to the
\* value v or, when v is NoVal, to a group.
Scalar(k, v) == [key |-> k, kind |-> "scalar", val |-> v, members |-> <<>>]
GroupAttr(k, ms) == [key |-> k, kind |-> "group", val |-> NoVal, members |-> ms]
Valuer(k, v, ms) == [key |-> k, kind |-> "valuer", val |-> v, members |-> ms]

FilterValidAttrs(as) ==
    FlattenSeq([i \in DOMAIN as |-> IF as[i].key = NoKey THEN <<>> ELSE <<as[i]>>])

\* A held WithAttrs or WithGroup call.
AttrsOp(as) == [isGroup |-> FALSE, group |-> NoKey, attrs |-> as]
GroupOp(g) == [isGroup |-> TRUE, group |-> g, attrs |-> <<>>]

\* What is held of a call: attributes with an empty key are dropped.
ValidOp(op) ==
    IF op.isGroup THEN <<op>>
    ELSE IF FilterValidAttrs(op.attrs) = <<>> THEN <<>>
    ELSE <<AttrsOp(FilterValidAttrs(op.attrs))>>

ValidOps(ops) == FlattenSeq([i \in DOMAIN ops |-> ValidOp(ops[i])])

\* The groups that ops leave open, outermost first.
GroupsOf(ops) ==
    FlattenSeq([i \in DOMAIN ops |-> IF ops[i].isGroup THEN <<ops[i].group>> ELSE <<>>])

(* A claim is one attribute with the path of keys that leads to it. base is  *)
(* the length of the part of the path that WithGroup opened. Kind "open"     *)
(* claims a group: opened by WithGroup, or a group attribute taken apart.    *)
Claim(path, base, a) ==
    [path |-> Append(path, a.key), base |-> base,
     kind |-> a.kind, val |-> a.val, members |-> a.members]

AttrClaims(path, base, as) == [i \in DOMAIN as |-> Claim(path, base, as[i])]

OpClaims(ops, i) ==
    LET path == GroupsOf(SubSeq(ops, 1, i))
    IN IF ops[i].isGroup
       THEN <<[path |-> path, base |-> Len(path), kind |-> "open", val |-> NoVal,
               members |-> <<>>]>>
       ELSE AttrClaims(path, Len(path), ops[i].attrs)

\* What ops and then a record with attributes as say, in order.
Claims(ops, as) ==
    FlattenSeq([i \in DOMAIN ops |-> OpClaims(ops, i)])
        \o AttrClaims(GroupsOf(ops), Len(GroupsOf(ops)), as)

\* An empty group is elided, another one stands for its members.
TakenApart(c) ==
    IF c.kind # "group" THEN <<c>>
    ELSE IF c.members = <<>> THEN <<>>
    ELSE <<[c EXCEPT !.kind = "open", !.members = <<>>]>>
            \o AttrClaims(c.path, c.base, c.members)

Resolved(c) ==
    IF c.kind # "valuer" THEN c
    ELSE [c EXCEPT !.kind = IF c.val = NoVal THEN "group" ELSE "scalar"]

\* Level by level. Groups and LogValuers nest no deeper than three. For the filter,
\* only values of kind group are taken apart: a LogValuer stays what it is.
OneLevel(cs) == FlattenSeq([i \in DOMAIN cs |-> TakenApart(cs[i])])
Walked(cs) == OneLevel(OneLevel(OneLevel(cs)))

OneResolved(cs) == FlattenSeq([i \in DOMAIN cs |-> TakenApart(Resolved(cs[i]))])

\* A group with an empty key is inlined; the zero Attr is ignored.
WithoutEmpty(path) ==
    FlattenSeq([i \in DOMAIN path |-> IF path[i] = NoKey THEN <<>> ELSE <<path[i]>>])

Inlined(c) ==
    IF Last(c.path) = NoKey /\ (c.kind = "open" \/ c.val = NoVal) THEN <<>>
    ELSE <<[c EXCEPT !.path = Append(WithoutEmpty(Front(c.path)), Last(c.path))]>>

Settled(cs) ==
    LET all == OneResolved(OneResolved(OneResolved(cs)))
    IN FlattenSeq([i \in DOMAIN all |-> Inlined(all[i])])

IsLeaf(c) == c.kind # "open"

(* A line: the names of its top-level members, in order, and every value     *)
(* with its path.                                                            *)
\* How slog's own handlers render claims (external): in order, nothing merged.
Render(cs) ==
    LET all == Settled(cs)
        Shown(i) == \/ IsLeaf(all[i])
                    \/ \E j \in i + 1..Len(all) :
                          IsLeaf(all[j]) /\ IsStrictPrefix(all[i].path, all[j].path)
    IN [top |-> FlattenSeq([i \in DOMAIN all |->
            IF Len(all[i].path) = 1 /\ Shown(i) THEN all[i].path ELSE <<>>]),
        leaves |-> FlattenSeq([i \in DOMAIN all |->
            IF IsLeaf(all[i]) THEN <<[path |-> all[i].path, val |-> all[i].val]>> ELSE <<>>])]
=============================================================================
