---------------------------- MODULE HandlerGraph ----------------------------
(***************************************************************************)
(* The handlers that a logger hands its records to: what NewWithError and  *)
(* decorate of config.go build, what collectFlushers of lifecycle.go finds *)
(* in it, and where a record goes in it.                                   *)
(*                                                                         *)
(* A graph is a sequence of handlers in the order they are built: each     *)
(* comes after the ones it hands records to, and the last is the outermost *)
(* one. So there is no cycle in it, and every chain ends.                  *)
(***************************************************************************)
EXTENDS Totals, SequencesExt

Kinds == {"sink", "buffer", "decorator", "multi", "opaque", "level"}
Uses == {"override", "sink", "writer"}

MaxUnwrapDepth == 32

Handler(kind, next) == [kind |-> kind, next |-> next]

\* A decorator of any kind wraps one handler, and a fan-out that has none would
\* enable nothing.
WellFormed(g) ==
    /\ g \in Seq([kind : Kinds, next : Seq(Nat)])
    /\ \A h \in DOMAIN g :
          /\ g[h].next \in Seq(1 .. h - 1)
          /\ g[h].kind = "sink" <=> g[h].next = << >>
          /\ g[h].kind \notin {"sink", "multi"} => Len(g[h].next) = 1

\* What New puts above a Sink or a Writer: the gate on the level that a Sink does
\* not have of its own, and its buffer, if any, above the decorators.
Graph(s) ==
    LET top == Len(s.given)
        base == Handler(IF s.use = "sink" THEN "level" ELSE "decorator", <<top>>)
        decorated == Append(s.given, base)
    IN IF s.use = "override" THEN s.given
       ELSE IF s.own THEN Append(decorated, Handler("buffer", <<top + 1>>))
       ELSE decorated

Entry(s) == Len(Graph(s))

\* Mutant: a handler is collected after what it wraps.
CollectFlushersInnermostFirst(g, h) ==
    LET walk[left \in 0 .. MaxUnwrapDepth + 1] ==
            [n \in DOMAIN g |->
                IF left = 0 THEN << >>
                ELSE (IF g[n].kind = "opaque" THEN << >>
                      ELSE FlattenSeq([i \in DOMAIN g[n].next |-> walk[left - 1][g[n].next[i]]]))
                     \o IF g[n].kind = "buffer" THEN <<n>> ELSE << >>]
    IN walk[MaxUnwrapDepth + 1][h]

\* The buffers in the order of the walk, outermost first, with so many levels left
\* to go. It ends at a handler that does not unwrap, and takes a buffer that is
\* reached by two routes twice.
CollectFlushers(g, h) ==
    LET walk[left \in 0 .. MaxUnwrapDepth + 1] ==
            [n \in DOMAIN g |->
                IF left = 0 THEN << >>
                ELSE (IF g[n].kind = "buffer" THEN <<n>> ELSE << >>)
                     \o IF g[n].kind = "opaque" THEN << >>
                        ELSE FlattenSeq([i \in DOMAIN g[n].next |-> walk[left - 1][g[n].next[i]]])]
    IN walk[MaxUnwrapDepth + 1][h]

\* The order in which NewWithError collects: a Sink's own buffers come before the
\* one that New adds above them.
Collected(s) ==
    CollectFlushers(Graph(s), Len(s.given))
        \o IF s.use # "override" /\ s.own THEN <<Entry(s)>> ELSE << >>

\* The buffers and sinks that a record handed to a handler is offered to, in order.
EndsOf(g) ==
    LET ends[h \in DOMAIN g] ==
            IF g[h].kind \in {"buffer", "sink"} THEN <<h>>
            ELSE FlattenSeq([i \in DOMAIN g[h].next |-> ends[g[h].next[i]]])
    IN ends

\* By how many routes a record comes from a handler to another.
RoutesOf(g) ==
    LET routes[h \in DOMAIN g] ==
            [t \in DOMAIN g |->
                IF t = h THEN 1
                ELSE Along([i \in DOMAIN g[h].next |-> routes[g[h].next[i]][t]])]
    IN routes
=============================================================================
