--------------------------- MODULE LoggerLifecycle ---------------------------
(***************************************************************************)
(* lifecycle.go and the parts of slog_logger.go, config.go and level.go it *)
(* serves: a logger hands its records to a graph of handlers, some of them *)
(* buffers, some of them fanning out, behind a gate that its Shutdown      *)
(* closes; Flush and Shutdown visit the buffers one after the other, in    *)
(* the order in which the constructor collected them.                      *)
(*                                                                         *)
(* A buffer is BufferedHandler at the level of its promise: a bounded FIFO *)
(* with one worker, admission that closes once, barriers, and a first      *)
(* error that is handed out once. Its Handle is one step.                  *)
(***************************************************************************)
EXTENDS HandlerGraph, FiniteSets

CONSTANTS Records,      \* calls of a log method, named by their record
          Flushes,      \* calls of Logger.Flush
          Shutdowns,    \* calls of Logger.Shutdown
          Setups,       \* what is built and which calls are made, see below
          Size,         \* the capacity of every buffer
          Drainer,      \* the goroutine that runs the shutdown
          None

\* What a buffer, Flush or Shutdown answers.
Errors == {"nil", "full", "shutdown", "ctx"}

(***************************************************************************)
(* A setup has the caller's handlers, given, in the order they are built;  *)
(* whether they are Config's PipelineOverride, its Sink or stand for its   *)
(* Writer; whether New adds a buffer (BufferSize > 0); the calls that are  *)
(* made, and those whose context may end; the records below the level that *)
(* SetLevel raises the logger to; and how often it is set. Records are not *)
(* numbers, as handlers are, and not pairs, as barriers are.               *)
(***************************************************************************)
ASSUME ConstantsAssumption ==
    /\ Size \in Nat \ {0}
    /\ \A s \in Setups :
         /\ s.use \in Uses /\ s.own \in BOOLEAN /\ s.flips \in Nat
         /\ s.expiring \subseteq Flushes \cup Shutdowns
         /\ Len(s.given) > 0 /\ WellFormed(s.given)
         /\ \A h \in DOMAIN s.given : s.given[h].kind # "level"
         /\ s.use = "writer" => Len(s.given) = 1
    /\ IsFiniteSet(Records)
    /\ Records \cap (Flushes \cup Shutdowns) = {} /\ Flushes \cap Shutdowns = {}
    /\ {Drainer, None} \cap (Records \cup Flushes \cup Shutdowns) = {} /\ Drainer # None
    /\ None \notin Errors
    /\ \A x \in Records \cup {None} : x \notin Nat /\ x \notin Flushes \X Nat

Plans == [s \in Setups |->
    [graph |-> Graph(s), entry |-> Entry(s), flushers |-> Collected(s),
     ends |-> EndsOf(Graph(s)), routes |-> RoutesOf(Graph(s))]]

VARIABLES
    setup,                              \* one of Setups, fixed at the start
    raised, flips,                      \* the level, and how often it was set
    pc,                                 \* calls and the drainer: place
    idx, first,                         \* visitors: buffer visited, first error
    result, expired,                    \* Flush and Shutdown calls
    stopping, groupDone, groupErr,      \* lifecycleGroup
    rejected,                           \* lifecycleGroup.rejected
    open, queue, stopped, closed, firstErr,     \* per buffer
    dropped, refused,                   \* per buffer: its two counters
    hand,                               \* log calls and workers: item, ends to go, error
    delivered,                          \* how often each sink received each record
    accepted, before, overflowed, silenced      \* history, see below

(***************************************************************************)
(* accepted counts for each buffer and record how often it took it from    *)
(* the log call; before[f] is what accepted was when Flush f was called;   *)
(* overflowed counts how often the buffer, when full, turned the record    *)
(* away from a worker; silenced how often a raised level stopped a record  *)
(* on its way. No guard reads them.                                        *)
(***************************************************************************)
levelVars == <<setup, raised, flips>>
callVars == <<pc, idx, first, result>>
groupVars == <<stopping, groupDone, groupErr>>
bufferVars == <<open, queue, stopped, closed, firstErr, dropped, refused>>
recordVars == <<delivered, accepted, overflowed, silenced>>
vars == <<levelVars, callVars, expired, groupVars, rejected, bufferVars, hand, recordVars,
          before>>

AllHandlers == UNION {DOMAIN Plans[s].graph : s \in Setups}

Plan == Plans[setup]
Flushers == Plan.flushers
Of(kind) == {h \in DOMAIN Plan.graph : Plan.graph[h].kind = kind}
Buffers == Of("buffer")
Sinks == Of("sink")
Ends(h) == Plan.ends[h]
Routes(h, t) == Plan.routes[h][t]
Below(b) == Plan.graph[b].next[1]

Waiters == Flushes \cup Shutdowns
Visitors == Flushes \cup {Drainer}
Barriers == Flushes \X (1..Len(Flushers))

Nothing == [item |-> None, todo |-> << >>, err |-> "nil"]
Never == [b \in Buffers |-> [r \in Records |-> 0]]

TypeOK ==
    /\ setup \in Setups
    /\ pc \in [Records \cup Waiters \cup {Drainer} ->
                  {"idle", "off", "emit", "enqueue", "close", "await", "wait", "done"}]
    /\ idx \in [Visitors -> 1 .. Len(Flushers) + 1]
    /\ first \in [Visitors -> Errors]
    /\ result \in [Waiters -> Errors \cup {None}]
    /\ expired \subseteq setup.expiring
    /\ stopping \in BOOLEAN /\ groupDone \in BOOLEAN /\ groupErr \in Errors
    /\ raised \in BOOLEAN /\ flips \in 0..setup.flips /\ rejected \in Nat
    /\ open \in [Buffers -> BOOLEAN] /\ stopped \in [Buffers -> BOOLEAN]
    /\ queue \in [Buffers -> Seq(Records \cup Barriers)]
    /\ \A b \in Buffers : Len(queue[b]) <= Size
    /\ hand \in [Records \cup Buffers -> [item : Records \cup Barriers \cup {None},
                                          todo : Seq(Buffers \cup Sinks), err : Errors]]
    /\ closed \in [Buffers -> SUBSET Barriers]
    /\ firstErr \in [Buffers -> Errors]
    /\ dropped \in [Buffers -> Nat] /\ refused \in [Buffers -> Nat]
    /\ delivered \in [Sinks -> [Records -> Nat]]
    /\ accepted \in [Buffers -> [Records -> Nat]] /\ overflowed \in [Buffers -> [Records -> Nat]]
    /\ silenced \in [Records -> Nat] /\ before \in [Flushes -> [Buffers -> [Records -> Nat]]]

Init ==
    /\ setup \in Setups /\ raised = FALSE /\ flips = 0
    /\ pc = [c \in Records \cup Waiters \cup {Drainer} |-> "idle"]
    /\ idx = [v \in Visitors |-> 1] /\ first = [v \in Visitors |-> "nil"]
    /\ result = [c \in Waiters |-> None] /\ expired = {}
    /\ stopping = FALSE /\ groupDone = FALSE /\ groupErr = "nil" /\ rejected = 0
    /\ open = [b \in Buffers |-> TRUE] /\ queue = [b \in Buffers |-> << >>]
    /\ stopped = [b \in Buffers |-> FALSE]
    /\ closed = [b \in Buffers |-> {}] /\ firstErr = [b \in Buffers |-> "nil"]
    /\ dropped = [b \in Buffers |-> 0] /\ refused = [b \in Buffers |-> 0]
    /\ hand = [x \in Records \cup Buffers |-> Nothing]
    /\ delivered = [s \in Sinks |-> [r \in Records |-> 0]]
    /\ accepted = Never /\ overflowed = Never /\ silenced = [r \in Records |-> 0]
    /\ before = [f \in Flushes |-> Never]

-----------------------------------------------------------------------------
(* SetLevel raises the logger's level or puts it back.                     *)

SetLevel ==
    /\ flips < setup.flips
    /\ raised' = ~raised /\ flips' = flips + 1
    /\ UNCHANGED <<setup, callVars, expired, groupVars, rejected, bufferVars, hand, recordVars,
                   before>>

Muted(r) == raised /\ r \in setup.quiet

-----------------------------------------------------------------------------
(* Handing a record on: by the goroutine of its log call, or by a worker.  *)

\* What the buffer or sink e answers to a record.
Answer(e) ==
    IF e \in Sinks THEN "nil"
    ELSE IF ~open[e] THEN "shutdown"
    ELSE IF Len(queue[e]) >= Size THEN "full" ELSE "nil"

\* Mutant: a record that finds the buffer shut down is not counted.
OfferUncounted(r, e) ==
    LET one(answer) == IF e \in Buffers /\ Answer(e) = answer THEN 1 ELSE 0
    IN  /\ queue' = IF one("nil") = 1 THEN [queue EXCEPT ![e] = Append(@, r)] ELSE queue
        /\ dropped' = [b \in Buffers |-> dropped[b] + IF b = e THEN one("full") ELSE 0]
        /\ delivered' = IF e \in Sinks THEN [delivered EXCEPT ![e][r] = @ + 1] ELSE delivered
        /\ UNCHANGED refused

\* The buffer e queues or counts record r, or the sink e receives it.
Offer(r, e) ==
    LET one(answer) == IF e \in Buffers /\ Answer(e) = answer THEN 1 ELSE 0
    IN  /\ queue' = IF one("nil") = 1 THEN [queue EXCEPT ![e] = Append(@, r)] ELSE queue
        /\ dropped' = [b \in Buffers |-> dropped[b] + IF b = e THEN one("full") ELSE 0]
        /\ refused' = [b \in Buffers |-> refused[b] + IF b = e THEN one("shutdown") ELSE 0]
        /\ delivered' = IF e \in Sinks THEN [delivered EXCEPT ![e][r] = @ + 1] ELSE delivered

\* MultiHandler joins the errors of its children. The logger asks what it gets
\* whether ErrShutdown is in it, and else passes it on.
Join(err, answer) == IF err = "nil" \/ answer = "shutdown" THEN answer ELSE err

InHand(item, start) ==
    [item |-> item, todo |-> IF item \in Records THEN Ends(start) ELSE << >>, err |-> "nil"]

\* Before any of them is offered it, a Sink's gate stops a record that is below the
\* level by now; that is not an error.
Stops(x, start) ==
    /\ Plan.graph[start].kind = "level"
    /\ hand[x].todo = Ends(start) /\ Muted(hand[x].item)

Silence(x, start) ==
    /\ hand[x].item \in Records /\ Stops(x, start)
    /\ hand' = [hand EXCEPT ![x] = Nothing]
    /\ silenced' = [silenced EXCEPT ![hand[x].item] = @ + 1]
    /\ UNCHANGED <<queue, dropped, refused, delivered>>

\* The next buffer or sink in turn is offered the record.
HandOn(x, start) ==
    LET h == hand[x]
        e == Head(h.todo)
    IN  /\ h.item \in Records /\ ~Stops(x, start)
        /\ Offer(h.item, e)
        /\ hand' = [hand EXCEPT ![x] =
               IF Len(h.todo) = 1 THEN Nothing
               ELSE [h EXCEPT !.todo = Tail(@), !.err = Join(@, Answer(e))]]
        /\ UNCHANGED silenced

-----------------------------------------------------------------------------
(* A log call: the logger's Enabled, which a PipelineOverride answers by its  *)
(* own level, then logRateAware's gate, then emit, which discards the error.  *)

\* The two reads are one step: only log calls read the level, so a change of it
\* between them is as good as one after them.
LogGate(r) ==
    /\ r \in setup.calls /\ pc[r] = "idle"
    /\ IF setup.use # "override" /\ Muted(r)
       THEN pc' = [pc EXCEPT ![r] = "off"] /\ UNCHANGED <<rejected, hand>>
       ELSE IF stopping
       THEN pc' = [pc EXCEPT ![r] = "done"] /\ rejected' = rejected + 1 /\ UNCHANGED hand
       ELSE /\ pc' = [pc EXCEPT ![r] = "emit"]
            /\ hand' = [hand EXCEPT ![r] = InHand(r, Plan.entry)]
            /\ UNCHANGED rejected
    /\ UNCHANGED <<levelVars, idx, first, result, expired, groupVars, bufferVars, recordVars,
                   before>>

LogEmit(r) ==
    /\ pc[r] = "emit"
    /\ \/ Silence(r, Plan.entry) /\ UNCHANGED accepted
       \/ /\ HandOn(r, Plan.entry)
          /\ LET e == Head(hand[r].todo) IN
             accepted' = IF e \in Buffers /\ Answer(e) = "nil"
                         THEN [accepted EXCEPT ![e][r] = @ + 1] ELSE accepted
    /\ pc' = IF hand'[r] = Nothing THEN [pc EXCEPT ![r] = "done"] ELSE pc
    /\ UNCHANGED <<levelVars, idx, first, result, expired, groupVars, rejected, open, stopped,
                   closed, firstErr, overflowed, before>>

-----------------------------------------------------------------------------
(* The worker of buffer b.                                                 *)

WorkerReceive(b) ==
    /\ hand[b] = Nothing /\ queue[b] # << >>
    /\ hand' = [hand EXCEPT ![b] = InHand(Head(queue[b]), Below(b))]
    /\ queue' = [queue EXCEPT ![b] = Tail(@)]
    /\ UNCHANGED <<levelVars, callVars, expired, groupVars, rejected, open, stopped, closed,
                   firstErr, dropped, refused, recordVars, before>>

\* A record goes on; the worker keeps the first error it meets.
WorkerDeliver(b) ==
    /\ \/ Silence(b, Below(b)) /\ UNCHANGED <<firstErr, overflowed>>
       \/ /\ HandOn(b, Below(b))
          /\ LET e == Head(hand[b].todo) IN
             /\ overflowed' = IF Answer(e) = "full"
                              THEN [overflowed EXCEPT ![e][hand[b].item] = @ + 1] ELSE overflowed
             /\ firstErr' = IF firstErr[b] = "nil" /\ hand'[b] = Nothing
                            THEN [firstErr EXCEPT ![b] = Join(hand[b].err, Answer(e))]
                            ELSE firstErr
    /\ UNCHANGED <<levelVars, callVars, expired, groupVars, rejected, open, stopped, closed,
                   accepted, before>>

WorkerBarrier(b) ==
    /\ hand[b].item \in Barriers
    /\ hand' = [hand EXCEPT ![b] = Nothing]
    /\ closed' = [closed EXCEPT ![b] = @ \cup {hand[b].item}]
    /\ UNCHANGED <<levelVars, callVars, expired, groupVars, rejected, open, queue, stopped,
                   firstErr, dropped, refused, recordVars, before>>

\* Told to shut down, the worker exits when it has drained the queue.
WorkerExit(b) ==
    /\ ~open[b] /\ ~stopped[b] /\ hand[b] = Nothing /\ queue[b] = << >>
    /\ stopped' = [stopped EXCEPT ![b] = TRUE]
    /\ UNCHANGED <<levelVars, callVars, expired, groupVars, rejected, open, queue, hand, closed,
                   firstErr, dropped, refused, recordVars, before>>

-----------------------------------------------------------------------------
(* lifecycleGroup.flush and Logger.Flush.                                  *)

\* The visitor has its answer from the buffer it visits: it goes to the next one
\* whatever the answer, keeping the first error.
Advance(v, answer) ==
    /\ first' = [first EXCEPT ![v] = IF @ = "nil" THEN answer ELSE @]
    /\ idx' = [idx EXCEPT ![v] = @ + 1]

AtLast(v) == idx[v] = Len(Flushers)

\* Every visit has a barrier of its own.
Barrier(f) == <<f, idx[f]>>

FlushVisited(f, answer) ==
    /\ Advance(f, answer)
    /\ IF AtLast(f)
       THEN /\ pc' = [pc EXCEPT ![f] = "done"]
            /\ result' = [result EXCEPT ![f] = first'[f]]
       ELSE pc' = [pc EXCEPT ![f] = "enqueue"] /\ UNCHANGED result

FlushGate(f) ==
    /\ f \in setup.calls /\ pc[f] = "idle"
    /\ before' = [before EXCEPT ![f] = accepted]
    /\ IF stopping \/ Flushers = << >>
       THEN /\ pc' = [pc EXCEPT ![f] = "done"]
            /\ result' = [result EXCEPT ![f] = IF stopping THEN "shutdown" ELSE "nil"]
       ELSE pc' = [pc EXCEPT ![f] = "enqueue"] /\ UNCHANGED result
    /\ UNCHANGED <<levelVars, idx, first, expired, groupVars, rejected, bufferVars, hand, recordVars>>

\* Mutant: the channel's capacity is not respected.
FlushEnqueueOverfull(f) ==
    LET b == Flushers[idx[f]] IN
    /\ pc[f] = "enqueue"
    /\ open[b]
    /\ queue' = [queue EXCEPT ![b] = Append(@, Barrier(f))]
    /\ pc' = [pc EXCEPT ![f] = "await"]
    /\ UNCHANGED <<levelVars, idx, first, result, expired, groupVars, rejected, open, hand, stopped,
                   closed, firstErr, dropped, refused, recordVars, before>>

FlushEnqueue(f) ==
    LET b == Flushers[idx[f]] IN
    /\ pc[f] = "enqueue"
    /\ open[b] /\ Len(queue[b]) < Size
    /\ queue' = [queue EXCEPT ![b] = Append(@, Barrier(f))]
    /\ pc' = [pc EXCEPT ![f] = "await"]
    /\ UNCHANGED <<levelVars, idx, first, result, expired, groupVars, rejected, open, hand, stopped,
                   closed, firstErr, dropped, refused, recordVars, before>>

FlushRefused(f) ==
    /\ pc[f] = "enqueue" /\ ~open[Flushers[idx[f]]]
    /\ FlushVisited(f, "shutdown")
    /\ UNCHANGED <<levelVars, expired, groupVars, rejected, bufferVars, hand, recordVars, before>>

FlushReached(f) ==
    LET b == Flushers[idx[f]] IN
    /\ pc[f] = "await" /\ Barrier(f) \in closed[b]
    /\ FlushVisited(f, firstErr[b])
    /\ firstErr' = [firstErr EXCEPT ![b] = "nil"]
    /\ UNCHANGED <<levelVars, expired, groupVars, rejected, open, queue, hand, stopped, closed,
                   dropped, refused, recordVars, before>>

FlushExpired(f) ==
    /\ pc[f] \in {"enqueue", "await"} /\ f \in expired
    /\ FlushVisited(f, "ctx")
    /\ UNCHANGED <<levelVars, expired, groupVars, rejected, bufferVars, hand, recordVars, before>>

-----------------------------------------------------------------------------
(* lifecycleGroup.shutdown and shutdownAllToCompletion.                    *)

\* The first call closes the gate and starts the drainer.
ShutdownStart(s) ==
    /\ s \in setup.calls /\ pc[s] = "idle"
    /\ stopping' = TRUE
    /\ pc' = [pc EXCEPT ![s] = "wait", ![Drainer] = IF stopping THEN @ ELSE "close"]
    /\ UNCHANGED <<levelVars, idx, first, result, expired, groupDone, groupErr, rejected, bufferVars,
                   hand, recordVars, before>>

\* The drainer closes the admission of a buffer...
DrainClose ==
    LET b == Flushers[idx[Drainer]] IN
    /\ pc[Drainer] = "close" /\ idx[Drainer] <= Len(Flushers)
    /\ open' = [open EXCEPT ![b] = FALSE]
    /\ pc' = [pc EXCEPT ![Drainer] = "await"]
    /\ UNCHANGED <<levelVars, idx, first, result, expired, groupVars, rejected, queue, hand, stopped,
                   closed, firstErr, dropped, refused, recordVars, before>>

\* Mutant: the drainer does not wait for the worker.
DrainVisitedEarly ==
    LET b == Flushers[idx[Drainer]] IN
    /\ pc[Drainer] = "await"
    /\ Advance(Drainer, firstErr[b])
    /\ firstErr' = [firstErr EXCEPT ![b] = "nil"]
    /\ pc' = [pc EXCEPT ![Drainer] = "close"]
    /\ UNCHANGED <<levelVars, result, expired, groupVars, rejected, open, queue, hand, stopped, closed,
                   dropped, refused, recordVars, before>>

\* ...and waits, with no deadline, for its worker.
DrainVisited ==
    LET b == Flushers[idx[Drainer]] IN
    /\ pc[Drainer] = "await" /\ stopped[b]
    /\ Advance(Drainer, firstErr[b])
    /\ firstErr' = [firstErr EXCEPT ![b] = "nil"]
    /\ pc' = [pc EXCEPT ![Drainer] = "close"]
    /\ UNCHANGED <<levelVars, result, expired, groupVars, rejected, open, queue, hand, stopped, closed,
                   dropped, refused, recordVars, before>>

\* Mutant: the drain stops when a caller gives up on it.
DrainDoneUnlessExpired ==
    /\ pc[Drainer] = "close" /\ idx[Drainer] > Len(Flushers)
    /\ Shutdowns \cap expired = {}
    /\ groupErr' = first[Drainer] /\ groupDone' = TRUE
    /\ pc' = [pc EXCEPT ![Drainer] = "done"]
    /\ UNCHANGED <<levelVars, idx, first, result, expired, stopping, rejected, bufferVars, hand, recordVars,
                   before>>

DrainDone ==
    /\ pc[Drainer] = "close" /\ idx[Drainer] > Len(Flushers)
    /\ groupErr' = first[Drainer] /\ groupDone' = TRUE
    /\ pc' = [pc EXCEPT ![Drainer] = "done"]
    /\ UNCHANGED <<levelVars, idx, first, result, expired, stopping, rejected, bufferVars, hand, recordVars,
                   before>>

ShutdownReturn(s) ==
    /\ pc[s] = "wait"
    /\ \/ groupDone /\ result' = [result EXCEPT ![s] = groupErr]
       \/ s \in expired /\ result' = [result EXCEPT ![s] = "ctx"]
    /\ pc' = [pc EXCEPT ![s] = "done"]
    /\ UNCHANGED <<levelVars, idx, first, expired, groupVars, rejected, bufferVars, hand, recordVars, before>>

Expire(c) ==
    /\ c \in setup.expiring /\ pc[c] \notin {"idle", "done"} /\ c \notin expired
    /\ expired' = expired \cup {c}
    /\ UNCHANGED <<levelVars, callVars, groupVars, rejected, bufferVars, hand, recordVars, before>>

-----------------------------------------------------------------------------
LogCall(r) == LogGate(r) \/ LogEmit(r)
Worker(b) == WorkerReceive(b) \/ WorkerDeliver(b) \/ WorkerBarrier(b) \/ WorkerExit(b)
Flush(f) ==
    FlushGate(f) \/ FlushEnqueue(f) \/ FlushRefused(f) \/ FlushReached(f) \/ FlushExpired(f)
Shutdown(s) == ShutdownStart(s) \/ ShutdownReturn(s)
Drain == DrainClose \/ DrainVisited \/ DrainDone

\* Every call has returned and no worker has anything to do.
Quiescent ==
    /\ \A c \in setup.calls : pc[c] \in {"off", "done"}
    /\ pc[Drainer] \in {"idle", "done"}
    /\ \A b \in Buffers : hand[b] = Nothing /\ queue[b] = << >> /\ (open[b] \/ stopped[b])
    /\ UNCHANGED vars

Next ==
    \/ \E r \in Records : LogCall(r)
    \/ SetLevel
    \/ \E b \in Buffers : Worker(b)
    \/ \E f \in Flushes : Flush(f)
    \/ \E s \in Shutdowns : Shutdown(s)
    \/ Drain
    \/ \E c \in Waiters : Expire(c)
    \/ Quiescent

Spec == Init /\ [][Next]_vars

-----------------------------------------------------------------------------
(* Safety.                                                                 *)

Within(h) == {t \in DOMAIN Plan.graph : Routes(h, t) > 0}
Feeds(b) == Range(Ends(Below(b))) \cap Buffers
Visits(b) == {i \in DOMAIN Flushers : Flushers[i] = b}

\* The logger knows the buffers from b on.
Known(b) == Within(b) \cap Buffers \subseteq Range(Flushers)

\* A buffer that b feeds, itself or through others, is visited ahead of the one that
\* feeds it there, for the first time or for the last.
Overtaken(b) ==
    \E c \in Within(b) \cap Buffers : \E d \in Feeds(c) :
        \E i \in Visits(d) : \A j \in Visits(c) : i < j
LeftBehind(b) ==
    \E c \in Within(b) \cap Buffers : \E d \in Feeds(c) :
        \E j \in Visits(c) : \A i \in Visits(d) : i < j

(***************************************************************************)
(* Why that may be: New's buffer, above one of the Sink's, is collected    *)
(* last; a handler hides what it wraps, or is beyond the depth of the      *)
(* walk; there is a route to a buffer around one that feeds it.            *)
(***************************************************************************)
UnwalkedFrom(b) ==
    \/ setup.use # "override" /\ setup.own /\ b = Plan.entry
    \/ \E h \in Within(b) : Plan.graph[h].kind = "opaque"
    \/ Len(Plan.graph) > MaxUnwrapDepth + 1
Shortcut(b) ==
    \E c \in Within(b) \cap Buffers : \E d \in Feeds(c) :
        RoutesOf([Plan.graph EXCEPT ![c].next = << >>])[Plan.entry][d] > 0

\* Of each record every sink has had the copies that the buffers of B took for it,
\* but for those that a full buffer on the way counted or that the level was raised
\* past in time.
Arrived(taken, B) ==
    \A r \in Records, s \in Sinks :
        Total([b \in B |-> taken[b][r] * Routes(b, s)], B)
          <= delivered[s][r] + Total([b \in Buffers |-> overflowed[b][r] * Routes(b, s)], Buffers)
               + silenced[r] * Routes(Plan.entry, s)

\* Shutdown "delivers those already accepted" (ManagedLogger): when the drainer is
\* done, whatever a buffer that the logger knows has accepted is at every sink below.
ShutdownDelivers == groupDone => Arrived(accepted, {b \in Buffers : Known(b)})

\* So it is but for a buffer that is shut down ahead of one that feeds it, which
\* happens for these reasons only (shutdownAllToCompletion, NewWithError,
\* collectFlushers).
ShutdownDeliversUnlessOvertaken ==
    groupDone => Arrived(accepted,
        {b \in Buffers : Known(b) /\ ~(Overtaken(b) /\ (UnwalkedFrom(b) \/ Shortcut(b)))})

\* Flush returns nil only "once every record accepted before the call has been
\* delivered downstream" (ManagedLogger), past every buffer it knows and to all
\* sinks, also by a shortcut, whose buffer is visited again (collectFlushers).
FlushDelivers ==
    \A f \in Flushes : result[f] = "nil" =>
        Arrived(before[f],
            {b \in Buffers : Known(b) /\ ~(LeftBehind(b) /\ UnwalkedFrom(b))})

\* "Together the three counters account for every record a consumer submitted"
\* (Rejected), to each sink it should reach and by each route: it is there, on its
\* way, stopped by a raised level, or in the logger's or a buffer's counter, and in
\* one of them only.
EveryRecordAccounted ==
    LET submitted == Cardinality({r \in Records : pc[r] \in {"emit", "done"}})
        Held(b) == Occurrences(Records, queue[b]) + dropped[b] + refused[b]
        InTransit(x, s) == Along([i \in DOMAIN hand[x].todo |-> Routes(hand[x].todo[i], s)])
    IN  \A s \in Sinks :
          submitted * Routes(Plan.entry, s)
            = Total(delivered[s], Records)
                + (rejected + Total(silenced, Records)) * Routes(Plan.entry, s)
                + Total([b \in Buffers |-> Held(b) * Routes(b, s)], Buffers)
                + Total([x \in DOMAIN hand |-> InTransit(x, s)], DOMAIN hand)

\* The end of the shutdown is final: nothing is accepted or delivered after it,
\* not even for a log call that passed the gate before, if all that a record can
\* reach is a buffer the logger knows.
DoneIsFinal ==
    [][groupDone /\ (\A e \in Range(Ends(Plan.entry)) : e \in Buffers /\ Known(e))
          => UNCHANGED <<delivered, accepted, groupErr>>]_vars

-----------------------------------------------------------------------------
(* Liveness: goroutines that can move do, and the sink returns; contexts and  *)
(* new calls are free. Strong fairness as in BufferedHandler.                 *)

Fairness ==
    /\ \A r \in Records : WF_vars(LogEmit(r))
    /\ \A b \in AllHandlers : WF_vars(b \in Buffers /\ Worker(b))
    /\ \A f \in Flushes :
         /\ WF_vars(FlushRefused(f) \/ FlushReached(f) \/ FlushExpired(f))
         /\ SF_vars(FlushEnqueue(f))
    /\ \A s \in Shutdowns : WF_vars(ShutdownReturn(s))
    /\ WF_vars(Drain)

FairSpec == Spec /\ Fairness

\* A Flush in progress returns, whatever is shut down or fills up around it. The
\* shutdown, once started, ends, and with it every call that waits for it, even if
\* the caller that started it gave up on its context (flush, shutdown).
CallsEnd ==
    /\ \A f \in Flushes : pc[f] # "idle" ~> pc[f] = "done"
    /\ stopping ~> groupDone /\ \A s \in Shutdowns : pc[s] # "wait"
=============================================================================
