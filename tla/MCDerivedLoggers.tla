------------------------- MODULE MCDerivedLoggers -------------------------
(* Chains, calls and records for DerivedLoggers.                             *)
EXTENDS DerivedLoggers

Rule(key, val) == [key |-> key, val |-> val]
Service == Scalar("svc", "api")

Decorated(fields, rules, mode, source) ==
    [kind |-> "decorated", fields |-> fields, override |-> FALSE, rules |-> rules,
     mode |-> mode, source |-> source, level |-> 0]
Globals(fields, override) ==
    [Decorated(fields, <<>>, "keep", FALSE) EXCEPT !.kind = "globals", !.override = override]
Component(level) ==
    [Decorated(<<>>, <<>>, "keep", FALSE) EXCEPT !.kind = "component", !.level = level]

Rec(as, pc, level) == [attrs |-> as, pc |-> pc, level |-> level, shared |-> FALSE]
Plain(as) == Rec(as, FALSE, 1)

\* Keys that meet in every way: value and value, value and group, group and group,
\* a reserved key and the name it is changed to, and all three kinds of attributes.
MergeOps == {
    AttrsOp(<<Scalar("a", "1"), Scalar("svc", "mine")>>),
    AttrsOp(<<GroupAttr("g", <<Scalar("a", "2"), Scalar("b", "2")>>)>>),
    AttrsOp(<<Scalar("g", "3"), Scalar("time", "3")>>),
    AttrsOp(<<GroupAttr(NoKey, <<Scalar("a", "4")>>), Valuer("g", NoVal, <<Scalar("b", "4")>>)>>),
    GroupOp("g"), GroupOp("svc")}
MergeRecords == {
    Plain(<<>>), Plain(<<Scalar("a", "7"), Scalar("attr.time", "7")>>),
    Plain(<<Scalar("a", "8"), Scalar("a", "9"), Scalar(NoKey, NoVal), Scalar("time", "8")>>),
    Plain(<<GroupAttr("g", <<GroupAttr("a", <<Scalar("b", "8")>>)>>), Scalar("svc", "8")>>),
    Plain(<<GroupAttr(NoKey, <<Scalar("g", "5"), GroupAttr("g", <<Scalar(NoKey, NoVal)>>)>>)>>),
    Rec(<<Valuer("a", "5", <<>>), Scalar("source", "5")>>, TRUE, 1)}

\* A secret under its bare key, under a path, in another case, in all three kinds.
SecretOps == {
    AttrsOp(<<Scalar("pw", "x"), Scalar("a", "1")>>),
    AttrsOp(<<GroupAttr("g", <<Scalar("id", "x"), Scalar("a", "2")>>)>>),
    AttrsOp(<<Scalar("id", "x"), Scalar("level", "x")>>),
    GroupOp("g")}
SecretRecords == {
    Plain(<<Scalar("a", "7")>>), Plain(<<Scalar("PW", "y"), Scalar("id", "x")>>),
    Plain(<<GroupAttr("g", <<GroupAttr("h", <<Scalar("pw", "y")>>), Scalar("id", "y")>>)>>),
    Plain(<<GroupAttr(NoKey, <<Scalar("id", "x")>>), Valuer("pw", "y", <<>>)>>),
    Rec(<<Valuer("h", NoVal, <<Scalar("pw", "y")>>), Scalar("level", "x")>>, TRUE, 1)}

FieldOps == {
    AttrsOp(<<Scalar("a", "1")>>), AttrsOp(<<Scalar("svc", "mine")>>), GroupOp("g"),
    GroupOp("svc")}
FieldRecords == {
    Rec(<<>>, TRUE, 1), Rec(<<Scalar("a", "7"), Scalar("b", "7")>>, TRUE, 1),
    Plain(<<Scalar("svc", "8"), Scalar("zone", "8")>>),
    Rec(<<Scalar("svc", "8"), Scalar("a", "8"), Scalar("svc", "9")>>, TRUE, 0)}

Case(children, ops, records, derive, callers) ==
    [children |-> children, ops |-> ops, records |-> records, derive |-> derive,
     callers |-> callers]

MCScenarios ==
    {Case(<<Decorated(fields, <<>>, "drop", source)>>, MergeOps, MergeRecords, 2, {}) :
        fields \in {<<>>, <<Scalar("source", "me"), Service>>,
                    <<GroupAttr("g", <<Scalar("a", "0")>>), Service>>},
        source \in BOOLEAN}
    \cup
    {Case(<<Decorated(<<Service>>, rules, mode, TRUE)>>, SecretOps, SecretRecords, 2, {}) :
        rules \in {<<Rule(<<"pw">>, AnyVal), Rule(<<"g", "id">>, AnyVal)>>,
                   <<Rule(<<"id">>, "x")>>},
        mode \in {"drop", "redact"}}
    \cup
    {Case(<<Component(1), Globals(<<Service, Scalar("zone", "eu")>>, override), Component(0)>>,
          FieldOps, FieldRecords, 2, {}) : override \in BOOLEAN}
    \cup
    {Case(<<Decorated(<<>>, rules, "redact", FALSE)>>,
          {GroupOp("g"), AttrsOp(<<Scalar("a", "1")>>)}, {Plain(<<Scalar("b", "7")>>)},
          derive, IF derive = 1 THEN Goroutines ELSE {}) :
        rules \in {<<>>, <<Rule(<<"pw">>, AnyVal)>>}, derive \in {1, 4}}

\* Every attribute that occurs, with its members and theirs.
Logged == UNION UNION {
    {AsSet(op.attrs) : op \in s.ops} \cup {AsSet(r.attrs) : r \in s.records}
        \cup {AsSet(s.children[c].fields) : c \in DOMAIN s.children} : s \in MCScenarios}
MembersOf(S) == UNION {AsSet(a.members) : a \in S}
MCAttributes == Logged \cup MembersOf(Logged) \cup MembersOf(MembersOf(Logged))
=============================================================================
