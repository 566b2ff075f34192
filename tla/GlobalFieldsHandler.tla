------------------------ MODULE GlobalFieldsHandler ------------------------
(* handler/global_fields_handler.go: fixed fields beside the attributes of a *)
(* record, at the top level even when groups are open.                       *)
EXTENDS Attrs

HasKey(as, k) == \E i \in DOMAIN as : as[i].key = k

FieldFor(fields, k) == fields[CHOOSE i \in DOMAIN fields : fields[i].key = k]

\* Fields that no attribute collides with.
Rest(fields, as) ==
    FlattenSeq([i \in DOMAIN fields |-> IF HasKey(as, fields[i].key) THEN <<>> ELSE <<fields[i]>>])

\* Mutant: the repeats of an overridden key are overridden one by one.
MergeEach(fields, override, as) ==
    FlattenSeq([i \in DOMAIN as |->
        IF ~HasKey(fields, as[i].key) \/ ~override THEN <<as[i]>>
        ELSE <<FieldFor(fields, as[i].key)>>])
      \o Rest(fields, as)

\* With override a field stands where the first attribute with its key stood;
\* without, the attributes stay. Fields nothing collides with follow.
Merge(fields, override, as) ==
    LET Kept(i) ==
            IF ~HasKey(fields, as[i].key) \/ ~override THEN <<as[i]>>
            ELSE IF \E j \in 1..i - 1 : as[j].key = as[i].key THEN <<>>
            ELSE <<FieldFor(fields, as[i].key)>>
    IN FlattenSeq([i \in DOMAIN as |-> Kept(i)])
          \o Rest(fields, as)

\* The held calls, innermost first, around the record's own attributes.
Nest(ops, as) ==
    LET wrapped[n \in 0..Len(ops)] ==
            IF n = 0 THEN as
            ELSE LET op == ops[Len(ops) + 1 - n] IN
                 IF ~op.isGroup THEN op.attrs \o wrapped[n - 1]
                 ELSE IF wrapped[n - 1] = <<>> THEN <<>>
                 ELSE <<GroupAttr(op.group, wrapped[n - 1])>>
    IN wrapped[Len(ops)]

\* Handle: the attributes of the record that goes on.
GlobalFieldsHandle(fields, override, ops, as) ==
    IF fields = <<>> THEN as
    ELSE IF ops # <<>> THEN fields \o Nest(ops, as)
    ELSE IF \A i \in DOMAIN as : ~HasKey(fields, as[i].key) THEN as \o fields
    ELSE Merge(fields, override, as)
=============================================================================
