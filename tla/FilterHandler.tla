--------------------------- MODULE FilterHandler ---------------------------
(* handler/filter_handler.go: which values a rule matches, and what becomes  *)
(* of them or of the record.                                                 *)
EXTENDS Attrs

AnyVal == ""
Redacted == "[REDACTED]"

\* Keys are compared without case.
Folded(k) == IF k = "PW" THEN "pw" ELSE k
FoldedPath(p) == [i \in DOMAIN p |-> Folded(p[i])]

\* Mutant: only the full path is compared.
MatchPathOnly(rule, c) ==
    /\ rule.key = FoldedPath(c.path)
    /\ rule.val = AnyVal \/ (c.kind = "scalar" /\ c.val = rule.val)

\* A rule's key is a bare key or a dotted path, here a sequence of keys; a value
\* that is still a LogValuer equals no value that a rule can name.
MatchRule(rule, c) ==
    /\ rule.key \in {<<Folded(Last(c.path))>>, FoldedPath(c.path)}
    /\ rule.val = AnyVal \/ (c.kind = "scalar" /\ c.val = rule.val)

Matches(rules, c) == IsLeaf(c) /\ \E i \in DOMAIN rules : MatchRule(rules[i], c)

Hit(rules, cs) == \E i \in DOMAIN cs : Matches(rules, cs[i])

\* ModeRedact: the value is replaced, a LogValuer becomes a plain value.
Redact(rules, cs) ==
    [i \in DOMAIN cs |->
        IF Matches(rules, cs[i])
        THEN [cs[i] EXCEPT !.kind = "scalar", !.val = Redacted, !.members = <<>>]
        ELSE cs[i]]

\* Handle: what goes on to the next handler, as a sequence of at most one
\* record. What With and WithGroup added is looked at like the record's own
\* attributes, below the groups that were open; the next handler is given it by
\* WithAttrs, which drops empty keys.
FilterHandle(rules, mode, ops, as) ==
    IF rules = <<>> THEN <<Claims(ops, as)>>
    ELSE IF mode = "drop" /\ Hit(rules, Walked(Claims(ops, as))) THEN <<>>
    ELSE <<Redact(rules, Walked(Claims(ValidOps(ops), as)))>>
=============================================================================
