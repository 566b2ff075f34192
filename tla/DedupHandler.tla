---------------------------- MODULE DedupHandler ----------------------------
(* handler/dedup_handler.go: the tree in which the attributes of a record,   *)
(* those held from With and those pinned are merged, and the reference that  *)
(* says which of them reach the line.                                        *)
EXTENDS Attrs

BuiltInKeys == {"time", "level", "msg"}

(* The tree of dedupNodes: an entry for every path, which is a value (leaf)  *)
(* or a node, and the order in which the paths got their places.             *)
EmptyTree == [order |-> <<>>, at |-> [p \in {} |-> NoVal]]

Has(tree, p) == p \in DOMAIN tree.at

\* A pinned value hides what is below its path; a pinned entry that the path of
\* an attribute (rather than WithGroup) meets wins over it.
Yields(tree, c, pinned) ==
    \E n \in 1..Len(c.path) :
        LET p == SubSeq(c.path, 1, n) IN
        /\ Has(tree, p) /\ tree.at[p].pinned
        /\ \/ tree.at[p].leaf /\ (n < Len(c.path) \/ ~IsLeaf(c))
           \/ ~pinned /\ n > c.base

Place(tree, p, entry) ==
    [order |-> IF Has(tree, p) THEN tree.order ELSE Append(tree.order, p),
     at |-> [q \in DOMAIN tree.at \cup {p} |-> IF q = p THEN entry ELSE tree.at[q]]]

\* A value in the place of a node takes the members of the node with it.
Prune(tree, p) ==
    [order |-> FlattenSeq([i \in DOMAIN tree.order |->
                   IF IsStrictPrefix(p, tree.order[i]) THEN <<>> ELSE <<tree.order[i]>>]),
     at |-> [q \in {q \in DOMAIN tree.at : ~IsStrictPrefix(p, q)} |-> tree.at[q]]]

\* Mutant: a value is put beside the members of a node that had its key.
InsertBeside(tree, c, pinned) ==
    LET old == Has(tree, c.path)
        entry == [leaf |-> IsLeaf(c), val |-> c.val,
                  pinned |-> pinned \/ (old /\ tree.at[c.path].pinned)]
    IN IF Yields(tree, c, pinned) THEN tree ELSE Place(tree, c.path, entry)

\* insert and child: the later value or group wins, in the place of the first.
Insert(tree, c, pinned) ==
    LET old == Has(tree, c.path)
        entry == [leaf |-> IsLeaf(c), val |-> c.val,
                  pinned |-> pinned \/ (old /\ tree.at[c.path].pinned)]
    IN IF Yields(tree, c, pinned) THEN tree
       ELSE IF ~IsLeaf(c) /\ old /\ ~tree.at[c.path].leaf
       THEN Place(tree, c.path, [entry EXCEPT !.val = NoVal])
       ELSE Place(Prune(tree, c.path), c.path, entry)

InsertAll(tree, cs, pinned) ==
    LET grown[n \in 0..Len(cs)] ==
            IF n = 0 THEN tree
            ELSE LET prior == grown[n - 1] IN Insert(prior, cs[n], pinned)
    IN grown[Len(cs)]

Renamed(reserved, k) == IF k \in reserved THEN "attr." \o k ELSE k

\* In order, empty groups elided, reserved keys renamed at the top level.
Materialize(tree, reserved) ==
    LET Shown(p) == \E q \in DOMAIN tree.at : tree.at[q].leaf /\ IsPrefix(p, q)
        Line(p) == [path |-> [p EXCEPT ![1] = Renamed(reserved, @)], val |-> tree.at[p].val]
    IN [top |-> FlattenSeq([i \in DOMAIN tree.order |->
            LET p == tree.order[i] IN
            IF Len(p) = 1 /\ Shown(p) THEN <<Renamed(reserved, p[1])>> ELSE <<>>]),
        leaves |-> FlattenSeq([i \in DOMAIN tree.order |->
            LET p == tree.order[i] IN IF tree.at[p].leaf THEN <<Line(p)>> ELSE <<>>])]

\* Forwarded untouched: no group, no LogValuer, no reserved and no repeated key.
IsClean(cs, reserved) ==
    \A i \in DOMAIN cs :
        /\ cs[i].kind = "scalar" /\ Last(cs[i].path) \notin reserved
        /\ \A j \in 1..i - 1 : cs[j].path # cs[i].path

\* Handle: what is pinned, then cs, which is what ops and the record say.
DedupHandle(pinned, reserved, ops, cs) ==
    IF ops = <<>> /\ pinned = <<>> /\ IsClean(cs, reserved) THEN Render(cs)
    ELSE LET root == InsertAll(EmptyTree, Settled(Claims(<<>>, pinned)), TRUE)
         IN Materialize(InsertAll(root, Settled(cs), FALSE), reserved)

-----------------------------------------------------------------------------
(* The reference: which claim of a line counts, without a tree.              *)

\* A pinned value stays when a group is pinned at its path or below it: they are the
\* pinned claims that have an effect.
Pins(cs) ==
    FlattenSeq([i \in DOMAIN cs |->
        IF \E j \in 1..i - 1 : /\ IsLeaf(cs[j]) /\ IsPrefix(cs[j].path, cs[i].path)
                               /\ cs[j].path # cs[i].path \/ ~IsLeaf(cs[i])
        THEN <<>> ELSE <<cs[i]>>])

\* A pinned claim shuts out the claim c.
ShutOut(ps, c) ==
    \E i \in DOMAIN ps :
        IsPrefix(ps[i].path, c.path) /\ (IsLeaf(ps[i]) \/ Len(ps[i].path) > c.base)

Heard(ps, cs) ==
    FlattenSeq([i \in DOMAIN cs |-> IF ShutOut(ps, cs[i]) THEN <<>> ELSE <<cs[i]>>])

\* b, made later, takes the place of the value claimed by a: it is the same or a
\* shorter path that has a value now, or a's own path that is a group now.
Overrules(b, a) ==
    IF IsLeaf(b) THEN IsPrefix(b.path, a.path) ELSE IsPrefix(a.path, b.path)

Counts(all, i) ==
    IsLeaf(all[i]) /\ \A j \in i + 1..Len(all) : ~Overrules(all[j], all[i])

\* The value of the last occurrence, for every path.
Resolution(all) ==
    {[path |-> all[i].path, val |-> all[i].val] : i \in {i \in DOMAIN all : Counts(all, i)}}

\* The top-level keys that show anything, each where it first occurred.
FirstSeen(all) ==
    LET shown == {v.path[1] : v \in Resolution(all)}
        First(i) == \A j \in 1..i - 1 : all[j].path[1] # all[i].path[1]
    IN FlattenSeq([i \in DOMAIN all |->
           IF First(i) /\ all[i].path[1] \in shown THEN <<all[i].path[1]>> ELSE <<>>])
=============================================================================
