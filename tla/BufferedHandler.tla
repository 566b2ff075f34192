--------------------------- MODULE BufferedHandler ---------------------------
(***************************************************************************)
(* handler/buffered_handler.go: records are queued by Handle and delivered *)
(* by one worker goroutine; Flush waits for a barrier sent through the     *)
(* queue, Shutdown closes admission and waits for the worker to drain.     *)
(*                                                                         *)
(* Every call is a process of its own: a record stands for the Handle call *)
(* that carries it, and the elements of Flushes and Shutdowns for calls of *)
(* Flush and Shutdown. A goroutine that makes several calls is an order in *)
(* which these processes run. A step is the code between two points where  *)
(* another goroutine can be noticed: a lock, a channel, an atomic.         *)
(***************************************************************************)
EXTENDS Integers, Sequences, FiniteSets

CONSTANTS Records,      \* Handle calls, named by the record they carry
          Flushes,      \* Flush calls; the barrier is named by its call
          Shutdowns,    \* Shutdown calls
          Deadlines,    \* the Flush and Shutdown calls whose context may end
          Size,         \* the size given to NewBufferedHandler
          Worker,       \* the worker goroutine, as an owner of the lock
          None          \* no value

Calls == Records \cup Flushes \cup Shutdowns
Items == Records \cup Flushes
Waiters == Flushes \cup Shutdowns

ASSUME ConstantsAssumption ==
    /\ Size \in Int
    /\ Records \cap Waiters = {} /\ Flushes \cap Shutdowns = {}
    /\ Deadlines \subseteq Waiters
    /\ None \notin Calls /\ Worker \notin Calls /\ Worker # None

VARIABLES
    pc, result, took,                       \* calls: place, outcome, error got
    expired,                                \* calls whose context is done
    readers, writer,                        \* the RWMutex mu
    state, queue, shutdownCh, workerDone,   \* bufferedCore
    closed,                                 \* barriers that are closed
    dropped, rejected, handlerErrors, firstErr,
    wpc, item, err,                         \* worker: place, item, error in hand
    sent, done, mark                        \* history, see below

(***************************************************************************)
(* sent and done are the items put into the queue and the items the worker *)
(* has finished, in order; mark[f] is Len(sent) when Flush f was called.   *)
(* No guard reads them.                                                    *)
(***************************************************************************)
calls == <<pc, result, took>>
lock == <<readers, writer>>
core == <<state, shutdownCh, workerDone>>
counters == <<dropped, rejected>>
worker == <<wpc, item, err, closed, handlerErrors, done>>
vars == <<calls, expired, lock, core, queue, counters, firstErr, worker, sent, mark>>

\* NewBufferedHandler clamps the size.
Capacity == IF Size < 1 THEN 1 ELSE Size

TypeOK ==
    /\ pc \in [Calls -> {"idle", "lock", "send", "slice", "retry",
                         "close", "await", "done"}]
    /\ result \in [Calls -> {"none", "ok", "error", "full", "shutdown", "ctx"}]
    /\ took \in [Calls -> Records \cup {None}]
    /\ expired \subseteq Deadlines
    /\ readers \subseteq Items /\ writer \in Shutdowns \cup {Worker, None}
    /\ state \in {"running", "shuttingDown", "stopped"}
    /\ queue \in Seq(Items) /\ Len(queue) <= Capacity
    /\ shutdownCh \in BOOLEAN /\ workerDone \in BOOLEAN
    /\ closed \subseteq Flushes
    /\ dropped \in Nat /\ rejected \in Nat /\ handlerErrors \in Nat
    /\ firstErr \in Records \cup {None}
    /\ wpc \in {"select", "drain", "lock", "stop", "close", "exited"}
    /\ item \in Items \cup {None} /\ err \in Records \cup {None}
    /\ sent \in Seq(Items) /\ done \in Seq(Items)
    /\ mark \in [Flushes -> Nat]

\* NewBufferedHandler: an empty queue, the worker started, no call made yet.
Init ==
    /\ pc = [c \in Calls |-> "idle"]
    /\ result = [c \in Calls |-> "none"]
    /\ took = [c \in Calls |-> None]
    /\ expired = {} /\ readers = {} /\ writer = None
    /\ state = "running" /\ queue = << >>
    /\ shutdownCh = FALSE /\ workerDone = FALSE /\ closed = {}
    /\ dropped = 0 /\ rejected = 0 /\ handlerErrors = 0 /\ firstErr = None
    /\ wpc = "select" /\ item = None /\ err = None
    /\ sent = << >> /\ done = << >> /\ mark = [f \in Flushes |-> 0]

-----------------------------------------------------------------------------
(* Steps that several methods share.                                       *)

Goto(c, place) == pc' = [pc EXCEPT ![c] = place]

\* A call returns; only takeErr hands out an error.
Return(c, outcome) ==
    /\ Goto(c, "done")
    /\ result' = [result EXCEPT ![c] = outcome]
    /\ UNCHANGED took

\* Mutant: the error is returned but not cleared.
TakeErrKeeps(c) ==
    /\ Goto(c, "done")
    /\ result' = [result EXCEPT ![c] = IF firstErr = None THEN "ok" ELSE "error"]
    /\ took' = [took EXCEPT ![c] = firstErr]
    /\ UNCHANGED firstErr

\* The call returns takeErr(): the first error, or nil, which is then cleared.
TakeErr(c) ==
    /\ Goto(c, "done")
    /\ result' = [result EXCEPT ![c] = IF firstErr = None THEN "ok" ELSE "error"]
    /\ took' = [took EXCEPT ![c] = firstErr]
    /\ firstErr' = None

\* A call is made: it arrives at its lock operation.
Call(c) ==
    /\ pc[c] = "idle"
    /\ Goto(c, "lock")
    /\ mark' = IF c \in Flushes THEN [mark EXCEPT ![c] = Len(sent)] ELSE mark
    /\ UNCHANGED <<result, took, expired, lock, core, queue, counters, firstErr,
                   worker, sent>>

\* The context of a call in progress is cancelled or times out.
Expire(c) ==
    /\ pc[c] \notin {"idle", "done"}
    /\ c \notin expired
    /\ expired' = expired \cup {c}
    /\ UNCHANGED <<calls, lock, core, queue, counters, firstErr, worker, sent, mark>>

\* Mutant: the send goes ahead when the buffer is full.
SendOverfull(i) ==
    /\ queue' = Append(queue, i)
    /\ sent' = Append(sent, i)
    /\ readers' = readers \ {i}

\* queue <- i, made while holding the read lock, which is then released.
Send(i) ==
    /\ Len(queue) < Capacity
    /\ queue' = Append(queue, i)
    /\ sent' = Append(sent, i)
    /\ readers' = readers \ {i}

-----------------------------------------------------------------------------
(* Handle.                                                                 *)

\* Mutant: the lock is released after the state check.
HandleAdmitUnlocked(r) ==
    /\ pc[r] = "lock" /\ writer = None
    /\ IF state = "running"
       THEN Goto(r, "send") /\ UNCHANGED <<result, took, rejected>>
       ELSE Return(r, "shutdown") /\ rejected' = rejected + 1
    /\ UNCHANGED <<expired, lock, core, queue, dropped, firstErr, worker, sent, mark>>

\* RLock, which waits for a pending writer, and the state check: the lock is
\* kept only on the way to the send.
HandleAdmit(r) ==
    /\ pc[r] = "lock" /\ writer = None
    /\ IF state = "running"
       THEN /\ Goto(r, "send") /\ readers' = readers \cup {r}
            /\ UNCHANGED <<result, took, rejected>>
       ELSE Return(r, "shutdown") /\ rejected' = rejected + 1 /\ UNCHANGED readers
    /\ UNCHANGED <<expired, writer, core, queue, dropped, firstErr, worker, sent, mark>>

HandleSend(r) ==
    /\ pc[r] = "send"
    /\ Send(r)
    /\ Return(r, "ok")
    /\ UNCHANGED <<expired, writer, core, counters, firstErr, worker, mark>>

\* The default case of the select. Only Dropped() could see that the counter is
\* added to after the lock is released, so that is one step.
HandleFull(r) ==
    /\ pc[r] = "send" /\ Len(queue) >= Capacity
    /\ readers' = readers \ {r}
    /\ dropped' = dropped + 1
    /\ Return(r, "full")
    /\ UNCHANGED <<expired, writer, core, queue, rejected, firstErr, worker, sent, mark>>

-----------------------------------------------------------------------------
(* Flush, tryEnqueueBarrier and awaitBarrier.                              *)

\* Mutant: the lock is released between the state check and the send.
FlushAdmitUnlocked(f) ==
    /\ pc[f] = "lock" /\ writer = None
    /\ IF state = "running"
       THEN Goto(f, "slice") /\ UNCHANGED <<result, took>>
       ELSE Return(f, "shutdown")
    /\ UNCHANGED <<expired, lock, core, queue, counters, firstErr, worker, sent, mark>>

FlushAdmit(f) ==
    /\ pc[f] = "lock" /\ writer = None
    /\ IF state = "running"
       THEN /\ Goto(f, "slice") /\ readers' = readers \cup {f}
            /\ UNCHANGED <<result, took>>
       ELSE Return(f, "shutdown") /\ UNCHANGED readers
    /\ UNCHANGED <<expired, writer, core, queue, counters, firstErr, worker, sent, mark>>

\* The select of tryEnqueueBarrier, under the read lock: the barrier is sent,
\* or the timer fires. Its workerDone case cannot be ready while the lock is
\* held in the running state (DrainIsFinal); its ctx case is FlushExpired.
FlushEnqueue(f) ==
    /\ pc[f] = "slice"
    /\ Send(f)
    /\ Goto(f, "await")
    /\ UNCHANGED <<result, took, expired, writer, core, counters, firstErr, worker, mark>>

\* Mutant: the select has no timer case.
FlushTimerNever(f) == FALSE

FlushTimer(f) ==
    /\ pc[f] = "slice"
    /\ readers' = readers \ {f}
    /\ Goto(f, "retry")
    /\ UNCHANGED <<result, took, expired, writer, core, queue, counters, firstErr,
                   worker, sent, mark>>

\* The select of Flush between two attempts: its default case, taken only when
\* neither channel is ready, tries again.
FlushRetry(f) ==
    /\ pc[f] = "retry" /\ f \notin expired
    /\ IF workerDone
       THEN Return(f, "shutdown")
       ELSE Goto(f, "lock") /\ UNCHANGED <<result, took>>
    /\ UNCHANGED <<expired, lock, core, queue, counters, firstErr, worker, sent, mark>>

\* Mutant: a flush waiting for its barrier ignores its context.
FlushExpiredNotAwaiting(f) ==
    /\ pc[f] \in {"slice", "retry"} /\ f \in expired
    /\ readers' = readers \ {f}
    /\ Return(f, "ctx")
    /\ UNCHANGED <<expired, writer, core, queue, counters, firstErr, worker, sent, mark>>

\* The ctx.Done case of each of the three selects.
FlushExpired(f) ==
    /\ pc[f] \in {"slice", "retry", "await"} /\ f \in expired
    /\ readers' = readers \ {f}
    /\ Return(f, "ctx")
    /\ UNCHANGED <<expired, writer, core, queue, counters, firstErr, worker, sent, mark>>

\* Mutant: a barrier that is accepted is not waited for.
FlushReturnAccepted(f) ==
    /\ pc[f] = "await"
    /\ TakeErr(f)
    /\ UNCHANGED <<expired, lock, core, queue, counters, worker, sent, mark>>

\* The barrier and workerDone cases of awaitBarrier; a closed barrier is
\* preferred.
FlushReturn(f) ==
    /\ pc[f] = "await" /\ (f \in closed \/ workerDone)
    /\ IF f \in closed THEN TakeErr(f) ELSE Return(f, "shutdown") /\ UNCHANGED firstErr
    /\ UNCHANGED <<expired, lock, core, queue, counters, worker, sent, mark>>

-----------------------------------------------------------------------------
(* Shutdown.                                                               *)

\* mu.Lock announces the writer, which holds off new readers...
ShutdownLock(s) ==
    /\ pc[s] = "lock" /\ writer = None
    /\ writer' = s
    /\ UNCHANGED <<calls, expired, readers, core, queue, counters, firstErr, worker,
                   sent, mark>>

\* ...and is granted when the last reader has left.
ShutdownTransition(s) ==
    /\ writer = s /\ readers = {}
    /\ state' = IF state = "running" THEN "shuttingDown" ELSE state
    /\ writer' = None
    /\ Goto(s, "close")
    /\ UNCHANGED <<result, took, expired, readers, shutdownCh, workerDone, queue,
                   counters, firstErr, worker, sent, mark>>

ShutdownClose(s) ==
    /\ pc[s] = "close"
    /\ shutdownCh' = TRUE
    /\ Goto(s, "await")
    /\ UNCHANGED <<result, took, expired, lock, state, workerDone, queue, counters,
                   firstErr, worker, sent, mark>>

\* Mutant: Shutdown waits for the queue to be empty, not for the worker.
ShutdownReturnWhenEmpty(s) ==
    /\ pc[s] = "await" /\ queue = << >>
    /\ TakeErr(s)
    /\ UNCHANGED <<expired, lock, core, queue, counters, worker, sent, mark>>

ShutdownReturn(s) ==
    /\ pc[s] = "await" /\ workerDone
    /\ TakeErr(s)
    /\ UNCHANGED <<expired, lock, core, queue, counters, worker, sent, mark>>

ShutdownExpired(s) ==
    /\ pc[s] = "await" /\ s \in expired
    /\ Return(s, "ctx")
    /\ UNCHANGED <<expired, lock, core, queue, counters, firstErr, worker, sent, mark>>

-----------------------------------------------------------------------------
(* The worker: run, drain, process and recordErr.                          *)

AtReceive == item = None /\ err = None

\* Mutant: the next item is received while one is being delivered.
WorkerReceiveEager ==
    /\ wpc \in {"select", "drain"} /\ queue # << >>
    /\ item' = Head(queue)
    /\ queue' = Tail(queue)
    /\ UNCHANGED <<calls, expired, lock, core, counters, firstErr, wpc, err, closed,
                   handlerErrors, done, sent, mark>>

\* Both selects receive; the one in run may do so after shutdownCh is closed.
WorkerReceive ==
    /\ wpc \in {"select", "drain"} /\ AtReceive /\ queue # << >>
    /\ item' = Head(queue)
    /\ queue' = Tail(queue)
    /\ UNCHANGED <<calls, expired, lock, core, counters, firstErr, wpc, err, closed,
                   handlerErrors, done, sent, mark>>

WorkerShutdown ==
    /\ wpc = "select" /\ AtReceive /\ shutdownCh
    /\ wpc' = "drain"
    /\ UNCHANGED <<calls, expired, lock, core, queue, counters, firstErr, item, err,
                   closed, handlerErrors, done, sent, mark>>

\* Mutant: the worker returns without draining.
WorkerDrainedAtOnce ==
    /\ wpc = "drain" /\ AtReceive
    /\ wpc' = "lock"
    /\ UNCHANGED <<calls, expired, lock, core, queue, counters, firstErr, item, err,
                   closed, handlerErrors, done, sent, mark>>

WorkerDrained ==
    /\ wpc = "drain" /\ AtReceive /\ queue = << >>
    /\ wpc' = "lock"
    /\ UNCHANGED <<calls, expired, lock, core, queue, counters, firstErr, item, err,
                   closed, handlerErrors, done, sent, mark>>

WorkerBarrier ==
    /\ item \in Flushes
    /\ closed' = closed \cup {item}
    /\ done' = Append(done, item)
    /\ item' = None
    /\ UNCHANGED <<calls, expired, lock, core, queue, counters, firstErr, wpc, err,
                   handlerErrors, sent, mark>>

\* next.Handle returns, with nil or with an error, which is counted.
WorkerDeliver ==
    /\ item \in Records
    /\ done' = Append(done, item)
    /\ item' = None
    /\ \/ UNCHANGED <<err, handlerErrors>>
       \/ err' = item /\ handlerErrors' = handlerErrors + 1
    /\ UNCHANGED <<calls, expired, lock, core, queue, counters, firstErr, wpc, closed,
                   sent, mark>>

WorkerRecordErr ==
    /\ err # None
    /\ firstErr' = IF firstErr = None THEN err ELSE firstErr
    /\ err' = None
    /\ UNCHANGED <<calls, expired, lock, core, queue, counters, wpc, item, closed,
                   handlerErrors, done, sent, mark>>

WorkerLock ==
    /\ wpc = "lock" /\ writer = None
    /\ writer' = Worker
    /\ wpc' = "stop"
    /\ UNCHANGED <<calls, expired, readers, core, queue, counters, firstErr, item, err,
                   closed, handlerErrors, done, sent, mark>>

\* Mutant: the lock is not released.
WorkerStopHoldsLock ==
    /\ wpc = "stop" /\ readers = {}
    /\ state' = "stopped"
    /\ wpc' = "close"
    /\ UNCHANGED <<calls, expired, lock, shutdownCh, workerDone, queue, counters,
                   firstErr, item, err, closed, handlerErrors, done, sent, mark>>

WorkerStop ==
    /\ wpc = "stop" /\ readers = {}
    /\ state' = "stopped"
    /\ writer' = None
    /\ wpc' = "close"
    /\ UNCHANGED <<calls, expired, readers, shutdownCh, workerDone, queue, counters,
                   firstErr, item, err, closed, handlerErrors, done, sent, mark>>

WorkerExit ==
    /\ wpc = "close"
    /\ workerDone' = TRUE
    /\ wpc' = "exited"
    /\ UNCHANGED <<calls, expired, lock, state, shutdownCh, queue, counters, firstErr,
                   item, err, closed, handlerErrors, done, sent, mark>>

-----------------------------------------------------------------------------
Handle(r) ==
    HandleAdmit(r) \/ HandleSend(r) \/ HandleFull(r)

Flush(f) ==
    \/ FlushAdmit(f) \/ FlushEnqueue(f) \/ FlushTimer(f) \/ FlushRetry(f)
    \/ FlushExpired(f) \/ FlushReturn(f)

Shutdown(s) ==
    \/ ShutdownLock(s) \/ ShutdownTransition(s) \/ ShutdownClose(s)
    \/ ShutdownReturn(s) \/ ShutdownExpired(s)

Run ==
    \/ WorkerReceive \/ WorkerShutdown \/ WorkerDrained \/ WorkerBarrier
    \/ WorkerRecordErr \/ WorkerLock \/ WorkerStop \/ WorkerExit

\* Every call has returned and the worker waits for a record or has exited.
Quiescent ==
    /\ \A c \in Calls : pc[c] = "done"
    /\ queue = << >> /\ AtReceive
    /\ wpc = "exited" \/ (wpc = "select" /\ ~shutdownCh)
    /\ UNCHANGED vars

Next ==
    \/ \E c \in Calls : Call(c)
    \/ \E c \in Deadlines : Expire(c)
    \/ \E r \in Records : Handle(r)
    \/ \E f \in Flushes : Flush(f)
    \/ \E s \in Shutdowns : Shutdown(s)
    \/ Run
    \/ WorkerDeliver
    \/ Quiescent

Spec == Init /\ [][Next]_vars

-----------------------------------------------------------------------------
(* Safety.                                                                 *)

InHand == IF item = None THEN << >> ELSE <<item>>

Succeeded == {c \in Waiters : result[c] \in {"ok", "error"}}

\* Everything put into the queue is finished, in the worker's hand or still
\* queued, once and in the order of the sends: "the queue is FIFO and there is
\* exactly one worker" (awaitBarrier).
NothingLostOrReordered == sent = done \o InHand \o queue

\* Once drain has found the queue empty, nothing can be added: no call is left
\* between its state check and its send. drain's "an empty queue is final" and
\* Queued's "it is always zero" after Shutdown rest on this.
DrainIsFinal ==
    wpc \in {"lock", "stop", "close", "exited"} =>
        /\ queue = << >>
        /\ \A i \in Items : pc[i] \notin {"send", "slice"}

\* A Flush that returns nil or a downstream error returns only when every item
\* accepted before it was called is finished (doc of Flush).
FlushPromise ==
    \A f \in Flushes \cap Succeeded :
        \A k \in 1 .. mark[f] : k \in DOMAIN done /\ done[k] = sent[k]

\* A Shutdown that did not give up on its context returns with the handler
\* empty, every accepted record delivered and every accepted barrier closed.
ShutdownPromise ==
    Shutdowns \cap Succeeded # {} =>
        /\ queue = << >> /\ item = None /\ err = None
        /\ \A r \in Records : result[r] = "ok" => \E k \in DOMAIN done : done[k] = r
        /\ \A f \in Flushes : pc[f] = "await" => f \in closed

\* A Flush whose barrier was accepted is never told ErrShutdown: the barrier is
\* closed before workerDone, so awaitBarrier's last default is never taken.
BarrierNeverAbandoned ==
    \A f \in Flushes :
        /\ pc[f] = "await" /\ workerDone => f \in closed
        /\ result[f] = "shutdown" => \A k \in DOMAIN sent : sent[k] # f

\* A downstream failure is handed to at most one caller (doc of Flush), and is not
\* forgotten: once there has been one, it is kept for the next caller or a caller
\* was told (recordErr, takeErr).
FirstErrorTold ==
    /\ \A c, d \in Waiters :
          took[c] # None =>
              /\ took[c] # firstErr
              /\ took[c] = took[d] => c = d
    /\ handlerErrors > 0 /\ err = None =>
          firstErr # None \/ \E c \in Waiters : took[c] # None

\* "Records are accepted only in running", and running is never entered again:
\* what is in the queue when Shutdown gets the lock is complete.
AdmissionCloses ==
    [][state # "running" => sent' = sent /\ state' # "running"]_vars

\* The handler keeps the promises of AsyncDelivery.
AD == INSTANCE AsyncDelivery WITH
        log <- sent,
        delivered <- done,
        open <- state = "running",
        begun <- {c \in Calls : pc[c] # "idle"},
        succeeded <- Succeeded

ImplementsAsyncDelivery == AD!Spec

-----------------------------------------------------------------------------
(* Liveness. A goroutine that can take a step takes one; a call need not be *)
(* made, a context need not end, and next.Handle need not return. A Flush   *)
(* that finds room in the queue again and again sends its barrier at last:  *)
(* a blocked sender is served by the receive that makes the room, and a     *)
(* select whose cases are ready picks one at random. The same holds for a   *)
(* Flush whose context is done, and for an operation on mu that finds the   *)
(* lock free again and again, since the RWMutex is fair.                    *)

Fairness ==
    /\ \A r \in Records : WF_vars(Handle(r))
    /\ \A f \in Flushes :
         /\ WF_vars(FlushTimer(f) \/ FlushRetry(f) \/ FlushReturn(f))
         /\ SF_vars(FlushAdmit(f)) /\ SF_vars(FlushEnqueue(f)) /\ SF_vars(FlushExpired(f))
    /\ \A s \in Shutdowns : WF_vars(Shutdown(s))
    /\ WF_vars(Run)

FairSpec == Spec /\ Fairness

\* next.Handle always returns.
DownstreamReturns == WF_vars(WorkerDeliver)

InProgress(c) == pc[c] \notin {"idle", "done"}

\* Handle returns even when the handler below never does ("It never blocks").
HandleReturns == \A r \in Records : InProgress(r) ~> pc[r] = "done"

\* Flush and Shutdown return once their context is done, even when the handler
\* below never does: flushEnqueueSlice is there for this.
ContextHonoured ==
    \A c \in Waiters : InProgress(c) /\ c \in expired ~> pc[c] = "done"

\* With a handler below that returns, an accepted record is delivered, whatever
\* the callers do, and with no deadline Flush and Shutdown return.
AcceptedDelivered ==
    DownstreamReturns =>
        \A r \in Records : result[r] = "ok" ~> \E k \in DOMAIN done : done[k] = r

WaitersReturn ==
    DownstreamReturns => \A c \in Waiters : InProgress(c) ~> pc[c] = "done"
=============================================================================
