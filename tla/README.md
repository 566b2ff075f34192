# kit-logger: a TLA+ verification project

TLA+ models of the parts of `pkg/logger` in which order, concurrency, sharing,
limits and failure decide whether a record is delivered, counted, silenced, altered
or lost; TLC runs that check them on small instances; and TLAPS proofs that hold for
every number of calls, keys and messages and every size. Paths are below
`src/pkg/logger/`.

## 1. Inventory

kit-logger wraps `log/slog`. A call of a log method passes a gate and a rate
limiter, becomes a `slog.Record`, and goes down a chain of handlers to a sink. The
chain is built once by `New`; loggers derived with `With` and `WithGroup` share all
of it but the calls that derived them. There is one long-lived goroutine, the worker
of a `BufferedHandler`, and one short-lived one, which runs a logger's shutdown.
Nothing is persisted.

| Component | State | Operations | What is hard | What makes it correct |
|---|---|---|---|---|
| Buffered handler (`handler/buffered_handler.go`) | an RWMutex, a running / shutting-down / stopped state, a bounded channel, two closed-once channels, counters, first error | Handle, Flush, Shutdown, the worker's run and drain | three kinds of callers and the worker race on lock, state and channels; barriers through a full queue; contexts that end at any point | accepted records are delivered once, in order; Flush and Shutdown mean what they say; nobody hangs |
| Logger lifecycle (`lifecycle.go`, `config.go`, `level.go`) | the list of buffers, a stopping flag, one shared shutdown and its result | discovery, flush, shutdown | several buffers visited in some order while records move between them, fan out, or reach one of them by two routes; callers that give up | shutdown delivers, ends, and ends once; every record is accounted for at every sink |
| Sampling (`handler/sampling_handler.go`) | last emission per key, bounded, under a mutex; two counters | Handle | eviction at the bound, ties of stamps, a clock that is injected | the bound; exact counters; no key silenced for longer than an interval |
| Rate limiter (`rate.go`) | limiter, debt and last use per key, bounded, under a mutex; three counters | shouldLog | the count is taken under the lock and emitted after it; conflicting intervals; eviction | once per key and interval; every suppressed record reported once |
| Front end (`slog_logger.go`) | shared pointers, a level | log methods, With, Flush, Shutdown | check of the gate before the emission | see lifecycle and rate limiter |
| Dedup, filter, global fields (`handler/`) | slices of the With and WithGroup calls that derived them, with room behind them in arrays that siblings share | WithAttrs, WithGroup, Handle | an append through one sibling seen by another; merging and renaming of keys across groups; values that hide in groups and LogValuers | siblings are isolated; each path once, with its last value; what a rule names is hidden |
| Fan-out (`handler/multi_handler.go`), source and component handlers | none; the storage of a record's attributes is shared by its copies | Handle | a child that adds attributes to a record another child holds | children see what they would see alone |
| HTTP middleware (`httpmw/`) | a response recorder per request | WriteHeader, Write, Flush, ReadFrom, Hijack, panic recovery | order of the calls, 1xx statuses, copies of nothing, panics | nothing is altered; what is logged is what was sent |
| gRPC interceptors (`grpc/`) | a wrapped client stream with a once, a counting server stream | SendMsg, RecvMsg, CloseSend, context watcher; the server's deferred tail | which of several goroutines sees the end first; panics | exactly one final log on each side, with the right code and counts that agree |
| Globals (`config.go`, `loggerext.go`) | an atomic pointer and two onces | SetGlobal, L, EnsureLoggerOnce | racing initialisations | an explicit logger is never replaced |
| Formatting and adapters (console, Prometheus, OpenTelemetry) | none to speak of | Handle | - | out of scope: wording and external counters |

The components interact by plain calls down the chain (a decorator calls `next`),
by the buffer's channel (the only hand-over between goroutines), by the flag and
the `done` channel of the lifecycle group, by the backing arrays that derived
handlers share, by the process-wide pointer, and by the mutexes of the sampler and
the limiter, which are never held while the next handler is called.

`PROJECT.json` lists the hazards of this code, each at its line, with the
properties that would catch it going wrong.

## 2. Modules

| Module | What it is |
|---|---|
| `AsyncDelivery` | abstract: a log of accepted items, handed on one at a time; what a flush and a shutdown promise |
| `BufferedHandler` | `handler/buffered_handler.go`, lock by lock and channel by channel; implements `AsyncDelivery` |
| `BufferedHandlerProofs` | its theorems: the promises, errors and the refinement |
| `HandlerGraph` | the graphs `New` builds: their handlers, the walk of `collectFlushers`, the routes of a record |
| `LoggerLifecycle`, `LoggerLifecycleProofs` | `lifecycle.go` with the gates of `slog_logger.go` and `level.go` and the order of `config.go`, over any such graph, with buffers at the level of their promise; and its theorems |
| `KeyEviction` | the cut by recency that both eviction passes share |
| `Totals` | sums over a finite set and along a sequence |
| `DataLemmas` | lemmas about sums, sequences, recursion over graphs, and the cut, for the proofs above and below |
| `SamplingHandler`, `SamplingHandlerProofs` | `handler/sampling_handler.go` and its theorems |
| `RateState`, `RateStateProofs` | `rate.go` with the rate decision of `logRateAware`, and its theorems |
| `HTTPRecorder`, `HTTPRecorderProofs` | one request through `httpmw/middleware.go`, beside the response that the same calls make without it |
| `ClientStream` | the wrapped client stream of `grpc/interceptor.go`: sender, receiver, watcher |
| `GrpcStream`, `GrpcStreamProofs` | a whole call: `ClientStream` against the handler inside `StreamServerInterceptor` |
| `Attrs` | attributes, held calls, and the flat claims (path, value) they make |
| `DedupHandler`, `FilterHandler`, `GlobalFieldsHandler` | what each of these does to a record, as operators; for the merge, a reference without a tree |
| `GlobalLogger` | SetGlobal, L and EnsureLoggerOnce as racing goroutines |
| `DerivedLoggers`, `DerivedLoggersProofs` | loggers derived from one another or from the process-wide one, and the lines they write: composes the five modules above |
| `MC*` | constants for TLC |

### BufferedHandler

A record stands for the `Handle` call that carries it, and each `Flush` and
`Shutdown` call is a process with a place `pc`. A step is the code between two
points at which another goroutine can be noticed, so that the windows the code's
comments argue about (check and send, drain and transition) are between steps.

* `readers` and `writer` are the RWMutex: a pending writer holds off new readers,
  and is granted when the last reader leaves. `lock` is the place before
  `RLock`/`Lock`; `send` and `slice` are the places where the read lock is held.
* `HandleAdmit` is the RLock and the state check, `HandleSend` and `HandleFull`
  the two cases of the select. `FlushAdmit`, `FlushEnqueue`, `FlushTimer` and
  `FlushRetry` are `tryEnqueueBarrier` and the loop around it, `FlushReturn` is
  `awaitBarrier`; `FlushExpired` is the `ctx.Done` case of all three selects.
* `ShutdownLock` and `ShutdownTransition` are the two halves of `mu.Lock`,
  `ShutdownClose` the `closeOnce`.
* The worker's place `wpc` follows `run`: select, drain, then the deferred
  function (lock, stop, close). `item` and `err` are what it has in hand in
  `process` and `recordErr`.
* `sent`, `done` and `mark` are history: no guard reads them.

The abstraction maps `sent` to the log, `done` to what was delivered, the running
state to `open`, and a returned nil or downstream error to success.

### LoggerLifecycle

A setup is a graph of handlers: buffers, decorators, fan-outs, sinks, and handlers
that do not unwrap. `Graph` adds what `New` puts above a `Sink` or a `Writer`: the
level gate of a `Sink`, its own buffer. `CollectFlushers` is the walk of `collectFlushers`,
bounded by `MaxUnwrapDepth` as in the code and by every route, so a buffer reached
twice is collected twice; `Collected` is the order of `NewWithError`. Handlers are
numbered in the order they are built, so what a handler wraps has a lower number, and
walks, ends and routes are functions defined from the lower numbers up. A buffer is a
queue, a hand, an admission flag and a first error, and its `Handle` is one step:
`BufferedHandler` shows that it may be seen so. A record in `hand` is offered to the
buffers and sinks below one by one (`HandOn`), as `MultiHandler` does, and errors are
joined. A log call is two steps, the gate and the emission, because `logRateAware`
holds nothing between them; the level may be set between any two steps. The drainer
is the goroutine that the first `Shutdown` starts.

### SamplingHandler and RateState

All that a decision reads and writes, the clock included, is in one critical
section, so a decision is one step; for the rate limiter the emission that carries
`suppressed_count` is another. `Clock` lets the injected clock take any reading, also
an earlier one. `Survivors` is `evictLocked`: nothing below the bound, else the
first pass, else the cut by recency, with every choice that Go's map order leaves
open among stamps that tie. `rate.Limiter` with a burst of one is external and
modelled by what `AllowN` answers: the token is back one interval after it was
taken. History variables say when a key was last emitted, whether that was too
early, whether a record was silenced with no such emission (`late`), and whether the
clock was set back or a live key dropped (`faithful`).

### HTTPRecorder

The handler's calls are actions: `WriteHeader`, `Write`, `ReadFrom`, `Flush`,
`Hijack`, then a return or a panic. `rr` is the `responseRecorder`; `wire` is the
server's writer below it and `bare` a second one that gets the same calls directly.
`Net...` say what net/http does with them (external): the first final status counts,
1xx statuses are sent at once and do not count, an invalid status panics, nothing is
accepted after a hijack, a copy of nothing sends nothing. `LogAndRaise` is the
deferred function. History says when the recorder took a status for sent that was
not (`slipped`) and when a header or the connection went out past it (`behind`);
`Streamed` says that what the handler did after a `Flush` agrees with the 200 it sent.

### ClientStream and GrpcStream

`Enter`, `Pass`, `LogEnd` and `CloseDone` are `finalize` with its `sync.Once`: the
first goroutine runs the function, the others wait for it. `SendOk`/`SendCount` and
`RecvOk`/`RecvCount` are two steps each, because the stream answers before the
counter is added to. The stream below is external: `SendMsg` answers io.EOF for
every stream that is over, `RecvMsg` the status.

`GrpcStream` puts the server's side in the place of that free stream: a handler that
sends, receives and ends in any way (well, with a status, with a bare context error,
with a panic), the deferred tail of `StreamServerInterceptor` that writes the line,
and grpc's answer. grpc between the two is external: a message or a status is lost
when the context ends, the client aborts or the connection breaks first.
`ClientStream` alone still serves the run behind finding 4.

### DerivedLoggers

A child is one handler of the logger's: the chain `decorate` builds (source, filter,
dedup), a `GlobalFieldsHandler`, or a `ComponentHandler`; more than one stands for a
`MultiHandler`. `held` is the child's slice of derived calls, as Go has it: an array,
a length and a capacity; `arrays` are the arrays themselves. `Derive` is
`slices.Clip` and `append`: into the free cells of the array if there are any, else
to a copy with `Spare` cells of room. `kept` is what a logger was given, in history
only. `term` are the calls a child handed on to slog's handler below it.
`Attributes` is what a program logs and configures, with the members of its groups: the
data of the scenarios, over which the proofs quantify.

`Log` computes the whole line. `Claims` turns held calls and record attributes into
paths and values; `FilterHandle`, `DedupHandle` and `GlobalFieldsHandle` follow the
three `Handle` methods. `Insert` is the tree of `dedupNode`s, whereas `Resolution` and
`FirstSeen`, the reference, say without a tree which claim counts and where it
stands. `Render` is slog's own handler (external). `shared` on a record says that
another child already wrote behind the attributes it holds, which `AddAttrs` answers
with the `!BUG` attribute.

`GlobalLogger` has the loads and stores of the process-wide pointer as single steps
of several goroutines, with the two onces; `installed` and `late` are history.

## 3. Runs

| Run | Bounds | Shows |
|---|---|---|
| `buffered_safety` | 2 records, 2 flushes, 1 shutdown, contexts for all three waiters, size 0 (clamped to 1) | the safety properties below and the refinement |
| `buffered_liveness` | 3 records in a fixed order, 1 flush, 1 shutdown, both with contexts, size 1 | the liveness properties, under fairness |
| `lifecycle_graphs` | nine graphs, 2 records, up to 2 shutdowns, 1 flush, buffers of size 1, a level set up to twice | safety, finality and liveness of the group |
| `lifecycle_sink` | a `Sink` with a buffer below the buffer of `New` | violation: finding 1 |
| `sampling_safety` | 4 keys, 7 configurations with memories of 1 to 3, times 0..3, 6 calls | bound, memory, invisible forgetting |
| `sampling_capacity` | 3 keys, a memory of 2 | violation: finding 2 |
| `rate_safety` | 3 keys, 2 entries, intervals 0 and 2, 2 goroutines, 6 calls, times 0..2 | bound, debt, spacing |
| `http_safety` | up to 4 calls, statuses 99, 103, 200, 404, 503, bodies of 0 and 1 | what the client gets and what the line says |
| `http_copy` | up to 2 calls, final statuses | violation: finding 3 |
| `stream_race` | 2 messages from the server, 1 from the client, streaming and single responses, every end of handler, context and connection | one line on each side, with a cause and counts that agree, and no leak |
| `stream_send` | 1 message each way | violation: finding 4 |
| `derived_lines` | 16 scenarios, up to 2 derivations (4 where isolation alone is looked at), `Spare` 1, 2 goroutines on the process-wide logger | isolation, merging, hiding, fan-out, global fields, `SetGlobal` against `L` |

Why these bounds are enough. A queue of one is full after one send, so every full,
empty, retry and overflow case occurs with two records and two barriers. Two
flushes are needed for a barrier behind a barrier and for two takers of one error;
one shutdown suffices in `buffered_safety` because a second finds the state changed
and only waits, which `lifecycle_graphs` has with two shutdowns of the group. The
stall of `Handle` needs a third record, which `buffered_liveness` has: one in the
worker's hand, one in the queue, one that arrives behind the `Shutdown` that waits
for the reader of a full queue; `MCBufferedOrder` lets the three calls begin in one
order, which loses nothing as no definition tells records apart. The graphs hold a
buffer above, beside and below another, a buffer reached by two routes, a sink
reached past an opaque handler, and every place `New` may put its own. Memories of
1, 2 and 3 keys with one more key than that reach both eviction passes, ties, the
target of zero and the floor of one; the proofs take over from there. Six calls are
one more than the longest scenario wanted: fill the memory, suppress, evict, and
come back.

Four calls to a response writer hold every pair of calls between a first and a last
one, and its state does not change after the first status but for the body. Two
messages of the server let a line be written between two counts. Two
siblings and a free cell are what it takes for one append to be seen through
another slice; the four derivations allow it to happen at two depths. The attributes of
`MCDerivedLoggers` are chosen so that value meets value, value meets group, group
meets group and a reserved key meets the name it is changed to, at the top level and
below open groups, in all three kinds (value, group, LogValuer); groups and
LogValuers nest three deep and no key but one has a second case.

Symmetry is used for records, flushes, shutdowns, keys and goroutines, whose
elements no definition tells apart, and in runs without liveness only.
`derived_lines` does not check for deadlock: its scenarios come to an end when all
derivations are made and no record passes.

### Properties

* `NothingLostOrReordered`, `DrainIsFinal`: one FIFO, complete when the drain begins.
* `FlushPromise`, `BarrierNeverAbandoned`, `ShutdownPromise`: what a return means.
* `FirstErrorTold`: one failure, one caller, no failure forgotten.
* `HandleReturns`, `ContextHonoured`: with a handler below that may hang for good;
  `AcceptedDelivered`, `WaitersReturn`: with one that returns (`DownstreamReturns`).
* `ShutdownDeliversUnlessOvertaken`, `FlushDelivers`, `EveryRecordAccounted`,
  `DoneIsFinal`, `CallsEnd`: the same, across the buffers of a graph. *Overtaken*
  names the two ways in which a buffer is shut down ahead of one that feeds it
  (finding 1, and a shortcut, below); outside them a shutdown delivers.
* `Bounded`: the two bounded maps. `SilencedForAnInterval`, `ForgetsInvisibly`,
  `OncePerFirstInterval`: who is silenced and for how long. The first is about silence:
  behind each record that was discarded for its key is an emission of the key, less
  than an interval ago by the clock, also when the clock was set back. The other two
  are about emission, for a clock that was not. `SuppressedReported`: the debt of a key
  is on its entry or with one record in flight.
* `NeverAltersUnlessSlipped`, `OneTrueLine`: the client gets what it would get without
  the middleware, and the line, written once, says what it got, for every order of
  calls, streamed responses (`Flush`, then writes) included. Left out are a recorder
  that slipped, and calls that go on otherwise after a header or the connection went
  out past the recorder: the code does not cover them (section 4).
* `LoggedBeforeTold`, `LinesAgree`, `StreamEnds`: on each side one line for a stream,
  whoever sees its end first, before anybody is told; its code has a cause, and an OK
  that both sides logged comes with the same count of messages.
* `SiblingsIsolated`: no logger sees a call made on a sibling. `ExplicitWins`: the lazy
  default never takes the place of an installed logger.
* `LastValueFirstPlace`: the merge against its reference. `MatchedIsHidden`: a value on
  the line of a filtered chain is pinned below the filter, or was replaced, or is what
  was said and every rule that names it met it in disguise (in an inlined group, or in a
  LogValuer that `filterAttrs` does not resolve); `ModeDrop` replaces nothing, and only a
  value that a rule names drops a record. `ChildrenIndependent`, `GlobalFieldsKept`:
  fan-out and global fields. Exceptions are spelled out in the properties' comments.

Every property of a passing run has a mutant: a variant of an action or operator,
beside it in the module and marked as such, that a plausible slip in the code would
give and that the property rejects.

### Fairness

`FairSpec` of `BufferedHandler` and of `LoggerLifecycle` say that a goroutine that
can take a step takes one (weak fairness of each call's steps, of the worker and of
the drainer). Nothing is assumed of callers (no call need be made) or contexts. Strong
fairness is asked in three places where an operation is enabled again and again but
not always: a barrier that competes with records for the room in the queue (Go
serves a blocked sender at the receive that makes room, and a select picks among
ready cases at random), a done context in a select, and `RLock` against a passing
writer (the RWMutex is fair). `next.Handle` is under no fairness in `FairSpec` of
`BufferedHandler`; where it has to return, the property says `DownstreamReturns =>`.
In `LoggerLifecycle` the sink returns. `ClientStream` and `GrpcStream` ask weak fairness
of client goroutines inside a wrapper method and of the watcher, and nothing of callers,
server, connection or context.

## 4. Findings

1. **A Sink's buffer is shut down before the buffer above it.** `config.go:453`
   appends the buffer that `New` adds after those found in `Config.Sink`. At
   shutdown the inner one closes admission first; the outer worker then drains into
   a handler that answers `ErrShutdown`, and accepted records do not reach the sink,
   against `lifecycle.go:47`. A flush visits them in the same order. Run
   `lifecycle_sink`.
2. **MaxKeys changes which records are emitted.** `sampling_handler.go:136` and
   `:163` say otherwise; a live key dropped at capacity is emitted again at once.
   Run `sampling_capacity`.
3. **A copy of nothing swallows the handler's status.** `middleware.go:391` sends a 200
   before `ReadFrom` has read anything, so `io.Copy` from a source that is empty or fails
   at once, followed by an error status, reaches the client as 200; net/http alone
   would send the error status. The package doc says that no status is changed. Run
   `http_copy`. The latch of `WriteHeader` (`:347`) does the same for a status that
   follows a 1xx one.
4. **A failed call is logged as OK.** `SendMsg` finalizes with grpc's io.EOF, which
   `interceptor.go:545` takes for a clean end. Run `stream_send`.

Also seen, without a run:

* A log call that passed the gate of `slog_logger.go:195` before a `Shutdown` started
  can still be refused by the buffer, against `:192-194` (it is counted there, so the
  accounting holds).
* A buffer reached by two routes, first by the shorter one, is shut down at that first
  visit, ahead of the buffer that feeds it on the other route; `lifecycle.go:95-98`
  calls a second visit harmless. `lifecycle_sink` with the graph `SharedBuffer` and
  buffers of one shows it.
* The level gate of a `Sink` (`level.go`) drops a record that the logger has already
  taken when `SetLevel` is raised before it is delivered, and no counter says so
  (`silenced` in `EveryRecordAccounted`).
* A `Flush` before the first write sends a 200 that the recorder does not see: a later
  `WriteHeader` is logged as if it had been sent, and a panic as a 500, against
  `middleware.go:329`. A connection that is hijacked before any status is logged with
  one all the same.
* A stream whose `RecvMsg` has met io.EOF can be logged as cancelled when the context
  ends before `finalize` is reached. On the server, a handler that returns a bare
  context error is logged as Unknown (`status.Convert`), while grpc answers Canceled or
  DeadlineExceeded.
* The clamp of `allow` (`sampling_handler.go:283`) has no effect, since a negative
  elapsed time and zero are both below a positive interval, so a clock set back does
  silence keys, against `:257-260`.
* `Handle` waits behind the pending write lock of a `Shutdown` that waits for the 500
  microsecond slice of a `Flush` (`buffered_handler.go:132` says it never blocks; it
  does return, see `HandleReturns`).
* A reserved key that dedup renames may meet an attribute that already has the new
  name; both are written. A group with an empty key is inlined in a record but dropped
  by the `WithAttrs` of dedup and global fields, against `dedup_handler.go:36-37`. A
  value replaced by a group that turns out empty vanishes.
* A group that is opened under a global field's key, or a record that repeats such a
  key where there is no override, gives duplicate keys at the top level, against
  `global_fields_handler.go:136-140`.
* A rule on a path does not see a value that a LogValuer hides in a group, nor one in a
  group with an empty key below an open one.
* `httpmw/middleware.go:42-44` and the doc of the gRPC options say that the process-wide
  logger is resolved once, at construction; the code asks for it on every line.

## 5. Proofs

`tlapm` checks everything below for all values of the constants that satisfy the
modules' named assumptions (`ConstantsAssumption` of each module, and
`AttributesAssumption`, `LoggersAssumption`, `SpareAssumption` and `GlobalAssumption` for
derived loggers): any calls, keys and graphs, any size. The assumptions say what
constants stand for: that the names of calls, records and places are apart, that a size
is positive, that graphs are well-formed, that records are records and the members of a
group attributes. `LoggerLifecycle` needs finitely many records,
since its properties count them; the records themselves, the calls and the graphs are
arbitrary, and a graph may have any size and depth.

**BufferedHandlerProofs.** `TypeOK` is inductive. The heart is `LockInv`: a caller is
a reader exactly while it is between its state check and its send; readers exist
only in the running state; whoever has left the transition of `Shutdown` finds the
state changed; the worker leaves its select only after `shutdownCh` is closed, and
past the drain it has nothing in hand and an empty queue. It is needed because
`DrainIsFinal` alone says nothing of the steps before the drain. `DrainFinal` and
`AdmissionClosed` follow. `Flow` (`NothingLostOrReordered`) is inductive given types;
with it an index into `sent` can be compared with `done`. `FinishInv` then relates
barriers to indices: a closed barrier is finished, a waiting flush's barrier was sent
after its mark, and a return that keeps a promise has seen its prefix finished. It
gives `FlushKeepsPromise`, `BarriersKept` and `ShutdownKeepsPromise`.

`SentOnce` says that nothing occurs twice in `sent` and
that a call not yet past its send does not occur at all; `ErrorInv` says where a
failure can be: with the worker, in `firstErr`, or with one caller. `FirstErrorTold`
follows. With those and the invariants above, `StepsMap` sends each step of
`BufferedHandler` to a step of `AsyncDelivery` or to a stutter, and `Implements` is the
refinement that `buffered_safety` checks as a property.

**SamplingHandlerProofs.** `MemoryOK` (finite and bounded) and the data part of
`TypeOK` are inductive together, since the count of evicted keys is a natural number
only because the memory is finite. The lemma `SurvivorsFit` covers the three paths of
`evictLocked`; it rests on `CutKeeps` (in `DataLemmas`) and `TargetLeavesRoom`,
which hold for bounds far beyond TLC's. `EvictionsCounted` and `EmissionsRemembered` are
inductive on top, and `NoneSilencedLate` follows from the second: the memory holds the
time of a key's last emission, so what is discarded for its key is discarded for it.
`ForgettingInvisible` needs the strengthening `Forgetting`: while nothing live was
dropped and the clock only advanced, whatever is not tracked was last emitted at least
an interval ago.

**RateStateProofs.** `MapOK` (the map is finite and bounded) gives `MapBounded` by the
same lemma on the cut. `Admissions` gives `NeverEarly`: while the clock only advanced
and no live key was dropped, an entry tells when its key was last admitted, and a key
without one was admitted at least an interval ago. `ReportedOnce` (`SuppressedReported`)
is inductive with `CountsOK`, which types entries and carried counts but leaves the sign of
a debt open: a decision moves a count from an entry to the goroutine that will emit it,
an eviction writes it off, and an emission reports it. Each step changes the sum over
goroutines by what it changes at one of them (`TotalChange`). That no debt is negative,
in `TypesCorrect`, then follows from the equation.

**LoggerLifecycleProofs.** `TypeInv` gives `TypesCorrect`. A record in a hand has a list
of handlers still to be offered, never empty and all of them ends of the handler it
was given to (`TodoInv`), so that it goes only where the graph goes; `PlaceInv` ties each caller's place to its
visit; `EmitInv` says that a record in a caller's hand is the caller's.
  * `DoneStaysFinal` needs `DrainInv` (the drainer has come so far, and every buffer it
    is done with is closed, has an empty queue and an empty hand, and stays so) and
    `KnownFlow` (if all ends of the entry are known buffers, records are in known buffers
    only: everything below a known buffer is known, unless an opaque handler hides it).
  * `NoRecordUncounted` needs `AccountInv`, which is `EveryRecordAccounted` for each sink
    in the form in which a step can be seen to move a count: every action takes as many
    copies out of one term as it adds to another. That a handler's routes to a sink
    are those of its ends, added up, is the lemma behind `HandOn` and `LogEmit`.
  * `ShutdownDelivered`: `Balanced(SafeIn, accepted)`. `SafeIn` are the known buffers below
    which none is closed before one that feeds it. The `Stock` of a record at a sink is
    what is delivered, counted as lost on the way, or still with a buffer of the set;
    no step makes it less than what the set's buffers accepted, since a buffer of
    the set is not closed while one that feeds it holds anything (`SafePasses`). At the
    end `DrainInv` leaves nothing in a queue or a hand. `OvertakenByShortcut` is about
    graphs only: where no handler hides anything and New's own buffer is not on top, a
    buffer is visited before one that feeds it only if there is a route around that one.
  * `FlushDelivered`: the same sum, over `FlushIn`, with a mark in each queue, which is the
    last barrier this flush has put there. What counts is in front of the mark: a
    record behind it came after the visit. `VisitInv` says how far a flush is and which of
    its barriers have been closed, `Reached` that what was accepted before the call is
    delivered, lost or still in front of a mark, or in a buffer that is to be
    visited. `LeftBehindUnwalked` says of graphs that each visit of a buffer is followed
    by one of every buffer it feeds, wherever the walk sees all that is below. `Reached`
    is asked of a flush only while it is `Going`: it has had no error, and every buffer
    it has yet to come to is open. A shutdown that closes one of those ends that, and
    then the flush does not return nil.

Sums, walks and routes are data that proofs need induction over. The induction rules
that take a predicate cannot be used here, but a predicate is as good as the set of what
satisfies it: `DataLemmas` has the rules for sets (`NatSetInduction`, `FiniteInduction`,
`AppendInduction`, `FlattenInduction`) and one that gives a function defined from lower
numbers up its defining equation (`UpwardRecursion`). All else about `Total`, `Along`,
`Occurrences`, `FlattenSeq` and the functions of `HandlerGraph` follows from these.

**HTTPRecorderProofs.** `RecorderInv` relates the recorder, the writer below it and the
bare one: the same response unless something slipped, the status the recorder holds
is the one on the wire unless something went out behind it, the line is there exactly
once the deferred function has run, and bytes are counted. `FlushSent` says what may
have gone out past the recorder; it needs only that a status, once sent, stays
(`DecidedStays`). `OnlySlipsAlter` is a consequence of the first, `LineTrue` of both.

**GrpcStreamProofs.** `CallInv` has a part for each actor: `OnceInv` (who is in the
once, and when the line is there), `CauseInv` (what a goroutine has to finalize with
did happen), `FlowInv` (counts on both sides against what is between them, equal while
both hear each other), `ServerInv` and `LineInv`. `LineBeforeTold` and `BothLinesAgree`
need all of them: that the client's OK comes with the server's count is a fact about
the receiver's last message, the connection and the server's deferred function.

**DerivedLoggersProofs.** `HeldInv`: a slice covers exactly what its logger was given,
ends where its array ends, and since `Clip` takes the room from a slice (`ClipFull`) no
append writes to an array that another logger holds; for any `Spare`. `GlobalInv` adds to
`ExplicitWins` what each goroutine has loaded and how far the once is. `TypesCorrect` takes
both and `RefsInv`: what is installed, returned or named by a line is a logger there is.
`ChildrenServedAlone` (`ChildrenIndependent`) takes `HeldInv`, which also says that a
ComponentHandler has handed on every call, and `LineInv`, that the last line is what its
author's children write of its record; a child that shares no storage with a sibling
(`HandedIsRecord`) then writes what it would write alone.

`LinesMergedCorrectly` (`LastValueFirstPlace`) compares a tree that grows claim by claim
with a reference that has none. `SaidInv` says what a decorated chain holds: the calls
themselves if it has rules, else the part of them that is valid, so that either way
what it hears of a record is `Claims` of what made the logger. Claims are *rooted*:
whatever goes through a group comes after a claim that opens it, with nothing from
elsewhere between. The claims of calls and a record are rooted, and stay so when they
are taken apart, resolved, inlined or redacted. Over rooted claims the tree mirrors what
was claimed so far: its leaves are the claims that nothing later overrules, in the order
in which their paths were first claimed, and `Insert` keeps that for a value, a group, a
value in a group's place (`Prune`) and a claim that yields to a pinned one. So
`Materialize` reads `Resolution` and `FirstSeen` off the tree. A clean record, which is
forwarded untouched, agrees with both, as nothing in it repeats.

`NamedValuesHidden` (`MatchedIsHidden`): each value that is settled comes from one claim
that the filter looked at. If that claim is not disguised, the rule that names the value
has matched it and `Redact` has replaced it. The decision to drop looks at all that
was held, the record that goes on has the valid part of it: `ValidSaid` says that this part
says no more than the whole, so that a chain that drops and yet writes has nothing to
replace.

Both hold for attributes nested to any depth in the form in which the model takes
groups apart, which is three levels (`Walked`, `Settled`): of a group further down the
model says nothing about the code.

Only model-checked:
  * liveness (`CallsEnd`, `HandleReturns`, `ContextHonoured`, `AcceptedDelivered`,
    `WaitersReturn`, `StreamEnds`): fairness and `ENABLED` are outside the prover's reach.
  * `GlobalFieldsKept`. A `GlobalFieldsHandler` puts one level of nesting around a record for
    every group that is open, while `Settled` takes groups apart three deep, so the
    statement holds only while calls and attributes nest no deeper than that: a bound
    on the data that the modules leave to the scenarios. It would also need attributes
    with keys, since the member of an inlined group may have a global field's key.

## 6. Not modelled

* Lifecycle: a graph with a cycle. The walk is bounded in depth, not in breadth: a
  fan-out that reaches itself twice is walked up to 2^32 times, far beyond TLC, and the
  walk of a plain cycle only repeats its buffers.
* Rate limiter: the stderr warnings and the flag that makes them once per entry, the
  counter hook, `extractLogOptions`.
* Derived loggers: `SetGlobalAndSlogDefault`, which is two stores; `SetGlobal` of the
  lazy default itself; keys that contain dots; the hook handler, which calls one
  function of the caller's; the text of errors that `MultiHandler` joins.
* HTTP: request IDs, which are resolved before the handler runs, and `Push`.
* gRPC: the unary interceptors, which are sequential; request IDs in the metadata,
  skipped methods, the choice of a level; a stream that fails to be established.
* `Validate` and the legacy strings: comparisons that keep no state.
* The console, Prometheus and OpenTelemetry handlers: formatting under a mutex, and
  external counters; no state of their own that decides anything. Test doubles.
* Panics of the handlers below a logger, which it does not recover. A nil context is a
  context that never ends.

## 7. Plan

1. The unary interceptors and the resolution of request IDs for both transports.
2. `LoggerLifecycle`: cyclic graphs, with the depth bound as a parameter.
3. The warnings of the rate limiter, once per entry and conflict.
4. The nesting of attributes as a parameter, so that `GlobalFieldsKept` can be proved for
   every depth.
5. `Validate` against the constructor: what it accepts is what `NewWithError` builds.
