------------------------ MODULE BufferedHandlerProofs ------------------------
(***************************************************************************)
(* Theorems about BufferedHandler, for every value of its constants: the   *)
(* ring and its counters, what the calls return, what it keeps of          *)
(* AsyncDelivery's promises, and whom it tells of a downstream failure.    *)
(***************************************************************************)
EXTENDS BufferedHandler, SequenceTheorems, TLAPS

\* Appending to the last of three sequences appends to their concatenation.
LEMMA AppendLast ==
  ASSUME NEW a \in Seq(Items), NEW b \in Seq(Items), NEW c \in Seq(Items),
         NEW e \in Items
  PROVE  Append(a \o b \o c, e) = a \o b \o Append(c, e)
<1> DEFINE ab == a \o b
<1>1. ab \in Seq(Items) /\ ab \o c \in Seq(Items) /\ <<e>> \in Seq(Items)
  BY ConcatProperties
<1>2. Append(ab \o c, e) = (ab \o c) \o <<e>> /\ Append(c, e) = c \o <<e>>
  BY <1>1, AppendIsConcat
<1>3. (ab \o c) \o <<e>> = ab \o (c \o <<e>>)
  BY <1>1, ConcatAssociative
<1> QED BY <1>2, <1>3

\* A send keeps the queue the last part of what was sent.
LEMMA SendFlow ==
  ASSUME NEW i \in Items, Send(i), UNCHANGED <<item, done>>, NothingLostOrReordered,
         queue \in Seq(Items), done \in Seq(Items), InHand \in Seq(Items)
  PROVE  NothingLostOrReordered'
<1>1. Append(done \o InHand \o queue, i) = done \o InHand \o Append(queue, i)
  BY AppendLast
<1>2. queue' = Append(queue, i) /\ sent' = Append(sent, i)
  BY DEF Send
<1>3. InHand' = InHand
  BY DEF InHand
<1> QED BY <1>1, <1>2, <1>3 DEF NothingLostOrReordered

USE DEF calls, lock, core, counters, worker, vars, Items, Waiters, Calls

\* Even an unbuffered queue has room for a record.
LEMMA CapacityPositive == Capacity \in Nat /\ Capacity >= 1
  BY ConstantsAssumption DEF Capacity

\* Every variable of the handler keeps its type and the queue its capacity.
THEOREM TypeCorrect == Spec => []TypeOK
<1>1. Init => TypeOK
  <2> SUFFICES ASSUME Init PROVE TypeOK
    OBVIOUS
  <2> USE CapacityPositive DEF Init
  <2>1. /\ pc \in [Calls -> {"idle"}] /\ result \in [Calls -> {"none"}]
        /\ took \in [Calls -> {None}] /\ mark \in [Flushes -> {0}]
    OBVIOUS
  <2>2. /\ pc \in [Calls -> {"idle", "lock", "send", "slice", "retry", "close",
                            "await", "done"}]
        /\ result \in [Calls -> {"none", "ok", "error", "full", "shutdown", "ctx"}]
        /\ took \in [Calls -> Records \cup {None}]
        /\ mark \in [Flushes -> Nat]
    BY <2>1
  <2>3. /\ queue \in Seq(Items) /\ Len(queue) <= Capacity
        /\ sent \in Seq(Items) /\ done \in Seq(Items)
    OBVIOUS
  <2>4. /\ dropped \in Nat /\ rejected \in Nat /\ handlerErrors \in Nat
    OBVIOUS
  <2>5. /\ state \in {"running", "shuttingDown", "stopped"}
        /\ shutdownCh \in BOOLEAN /\ workerDone \in BOOLEAN
        /\ wpc \in {"select", "drain", "lock", "stop", "close", "exited"}
        /\ item \in Items \cup {None} /\ err \in Records \cup {None}
        /\ firstErr \in Records \cup {None}
        /\ writer \in Shutdowns \cup {Worker, None}
        /\ closed \subseteq Flushes /\ readers \subseteq Items /\ expired \subseteq Deadlines
    OBVIOUS
  <2> QED BY <2>2, <2>3, <2>4, <2>5, Zenon DEF TypeOK
<1>2. TypeOK /\ [Next]_vars => TypeOK'
  <2> SUFFICES ASSUME TypeOK, [Next]_vars PROVE TypeOK'
    OBVIOUS
  <2> USE CapacityPositive, ConstantsAssumption DEF TypeOK, Goto, Return, TakeErr
  <2>1. ASSUME NEW c \in Calls, Call(c) PROVE TypeOK'
    BY <2>1 DEF Call
  <2>2. ASSUME NEW c \in Deadlines, Expire(c) PROVE TypeOK'
    BY <2>2 DEF Expire
  <2>3. ASSUME NEW r \in Records, Handle(r) PROVE TypeOK'
    <3>1. CASE HandleAdmit(r)
      <4>1. CASE state = "running"
        BY <3>1, <4>1 DEF HandleAdmit
      <4>2. CASE state # "running"
        <5>1. /\ Return(r, "shutdown") /\ rejected' = rejected + 1
              /\ UNCHANGED <<readers, expired, writer, core, queue, dropped, firstErr,
                             worker, sent, mark>>
          BY <3>1, <4>2 DEF HandleAdmit
        <5> QED BY <5>1
      <4> QED BY <4>1, <4>2
    <3>2. CASE HandleSend(r)
      BY <3>2 DEF HandleSend, Send
    <3>3. CASE HandleFull(r)
      BY <3>3 DEF HandleFull
    <3> QED BY <2>3, <3>1, <3>2, <3>3 DEF Handle
  <2>4. ASSUME NEW f \in Flushes, Flush(f) PROVE TypeOK'
    <3>r. ASSUME pc' = [pc EXCEPT ![f] = "done"],
                 NEW o \in {"ok", "error", "shutdown"}, result' = [result EXCEPT ![f] = o],
                 took' = took \/ took' = [took EXCEPT ![f] = firstErr],
                 firstErr' \in {firstErr, None},
                 UNCHANGED <<expired, lock, core, queue, counters, worker, sent, mark>>
          PROVE  TypeOK'
      BY <3>r
    <3>1. CASE FlushAdmit(f)
      <4>1. CASE state = "running"
        <5>1. /\ pc' = [pc EXCEPT ![f] = "slice"] /\ readers' = readers \cup {f}
              /\ UNCHANGED <<result, took, expired, writer, core, queue, counters, firstErr,
                             worker, sent, mark>>
          BY <3>1, <4>1 DEF FlushAdmit
        <5> QED BY <5>1
      <4>2. CASE state # "running"
        <5>1. /\ pc' = [pc EXCEPT ![f] = "done"] /\ result' = [result EXCEPT ![f] = "shutdown"]
              /\ UNCHANGED <<took, firstErr, expired, lock, core, queue, counters, worker,
                             sent, mark>>
          BY <3>1, <4>2 DEF FlushAdmit
        <5> QED BY <5>1, <3>r
      <4> QED BY <4>1, <4>2
    <3>2. CASE FlushEnqueue(f)
      BY <3>2 DEF FlushEnqueue, Send
    <3>3. CASE FlushTimer(f)
      BY <3>3 DEF FlushTimer
    <3>4. CASE FlushRetry(f)
      <4>1. CASE workerDone
        <5>1. /\ pc' = [pc EXCEPT ![f] = "done"] /\ result' = [result EXCEPT ![f] = "shutdown"]
              /\ UNCHANGED <<took, firstErr, expired, lock, core, queue, counters, worker,
                             sent, mark>>
          BY <3>4, <4>1 DEF FlushRetry
        <5> QED BY <5>1, <3>r
      <4>2. CASE ~workerDone
        BY <3>4, <4>2 DEF FlushRetry
      <4> QED BY <4>1, <4>2
    <3>5. CASE FlushExpired(f)
      BY <3>5 DEF FlushExpired
    <3>6. CASE FlushReturn(f)
      <4>1. CASE f \in closed
        <5>1. TakeErr(f) /\ UNCHANGED <<expired, lock, core, queue, counters, worker, sent, mark>>
          BY <3>6, <4>1 DEF FlushReturn
        <5> QED BY <5>1, <3>r
      <4>2. CASE f \notin closed
        <5>1. /\ pc' = [pc EXCEPT ![f] = "done"] /\ result' = [result EXCEPT ![f] = "shutdown"]
              /\ UNCHANGED <<took, firstErr, expired, lock, core, queue, counters, worker,
                             sent, mark>>
          BY <3>6, <4>2 DEF FlushReturn
        <5> QED BY <5>1, <3>r
      <4> QED BY <4>1, <4>2
    <3> QED BY <2>4, <3>1, <3>2, <3>3, <3>4, <3>5, <3>6 DEF Flush
  <2>5. ASSUME NEW s \in Shutdowns, Shutdown(s) PROVE TypeOK'
    <3>1. CASE ShutdownLock(s)
      BY <3>1 DEF ShutdownLock
    <3>2. CASE ShutdownTransition(s)
      BY <3>2 DEF ShutdownTransition
    <3>3. CASE ShutdownClose(s)
      BY <3>3 DEF ShutdownClose
    <3>4. CASE ShutdownReturn(s)
      BY <3>4 DEF ShutdownReturn
    <3>5. CASE ShutdownExpired(s)
      BY <3>5 DEF ShutdownExpired
    <3> QED BY <2>5, <3>1, <3>2, <3>3, <3>4, <3>5 DEF Shutdown
  <2>6. CASE WorkerReceive
    BY <2>6 DEF WorkerReceive, AtReceive
  <2>7. CASE WorkerBarrier
    BY <2>7 DEF WorkerBarrier
  <2>8. CASE WorkerRecordErr
    BY <2>8 DEF WorkerRecordErr
  <2>9. CASE WorkerShutdown \/ WorkerDrained \/ WorkerLock \/ WorkerStop \/ WorkerExit
    BY <2>9 DEF WorkerShutdown, WorkerDrained, WorkerLock, WorkerStop, WorkerExit
  <2>10. CASE WorkerDeliver
    BY <2>10 DEF WorkerDeliver
  <2>11. CASE UNCHANGED vars
    BY <2>11
  <2> QED
    BY <2>1, <2>2, <2>3, <2>4, <2>5, <2>6, <2>7, <2>8, <2>9, <2>10, <2>11
    DEF Next, Run, Quiescent
<1> QED BY <1>1, <1>2, PTL DEF Spec

-----------------------------------------------------------------------------
(* A call between its state check and its send holds the read lock, so the   *)
(* state cannot leave running under it, and the worker only drains after     *)
(* that: this is why drain's empty queue is final.                           *)

AdmissionInv ==
    /\ \A i \in Items : i \in readers <=> pc[i] \in {"send", "slice"}
    /\ readers # {} => state = "running"
    /\ \A s \in Shutdowns : pc[s] \in {"close", "await"} => state # "running"
    /\ shutdownCh => state # "running"
    /\ \A s \in Shutdowns : writer = s => pc[s] = "lock"

WorkerInv ==
    /\ wpc # "select" => shutdownCh
    /\ wpc \in {"lock", "stop", "close", "exited"} =>
          queue = << >> /\ item = None /\ err = None
    /\ item # None => err = None
    /\ workerDone => wpc = "exited"

LockInv == AdmissionInv /\ WorkerInv

\* NewBufferedHandler establishes what the lock and the worker rely on...
LEMMA LockInvInit == Init => LockInv
  BY ConstantsAssumption DEF Init, LockInv, AdmissionInv, WorkerInv

\* ...and every step of a call or of the worker keeps it.
LEMMA LockInvStep == TypeOK /\ LockInv /\ [Next]_vars => LockInv'
<1> SUFFICES ASSUME TypeOK, LockInv, [Next]_vars PROVE LockInv'
  OBVIOUS
<1> USE ConstantsAssumption DEF LockInv, AdmissionInv, WorkerInv, Goto, Return, TakeErr
<1>a. pc \in [Calls -> {"idle", "lock", "send", "slice", "retry", "close", "await", "done"}]
  BY DEF TypeOK
<1>1. ASSUME NEW c \in Calls, Call(c) PROVE LockInv'
  BY <1>a, <1>1 DEF Call
<1>2. ASSUME NEW c \in Deadlines, Expire(c) PROVE LockInv'
  BY <1>2 DEF Expire
<1>3. ASSUME NEW r \in Records, Handle(r) PROVE LockInv'
  <2>1. CASE HandleAdmit(r)
    <3>1. CASE state = "running"
      BY <1>a, <2>1, <3>1 DEF HandleAdmit
    <3>2. CASE state # "running"
      BY <1>a, <2>1, <3>2 DEF HandleAdmit
    <3> QED BY <3>1, <3>2
  <2>2. CASE HandleSend(r)
    BY <1>a, <2>2 DEF HandleSend, Send
  <2>3. CASE HandleFull(r)
    BY <1>a, <2>3 DEF HandleFull
  <2> QED BY <1>3, <2>1, <2>2, <2>3 DEF Handle
<1>4. ASSUME NEW f \in Flushes, Flush(f) PROVE LockInv'
  <2>1. CASE FlushAdmit(f)
    <3>1. CASE state = "running"
      BY <1>a, <2>1, <3>1 DEF FlushAdmit
    <3>2. CASE state # "running"
      BY <1>a, <2>1, <3>2 DEF FlushAdmit
    <3> QED BY <3>1, <3>2
  <2>2. CASE FlushEnqueue(f)
    BY <1>a, <2>2 DEF FlushEnqueue, Send
  <2>3. CASE FlushTimer(f)
    BY <1>a, <2>3 DEF FlushTimer
  <2>4. CASE FlushRetry(f)
    <3>1. CASE workerDone
      BY <1>a, <2>4, <3>1 DEF FlushRetry
    <3>2. CASE ~workerDone
      BY <1>a, <2>4, <3>2 DEF FlushRetry
    <3> QED BY <3>1, <3>2
  <2>5. CASE FlushExpired(f)
    BY <1>a, <2>5 DEF FlushExpired
  <2>6. CASE FlushReturn(f)
    <3>1. CASE f \in closed
      BY <1>a, <2>6, <3>1 DEF FlushReturn
    <3>2. CASE f \notin closed
      BY <1>a, <2>6, <3>2 DEF FlushReturn
    <3> QED BY <3>1, <3>2
  <2> QED BY <1>4, <2>1, <2>2, <2>3, <2>4, <2>5, <2>6 DEF Flush
<1>5. ASSUME NEW s \in Shutdowns, Shutdown(s) PROVE LockInv'
  <2>1. CASE ShutdownLock(s)
    BY <1>a, <2>1 DEF ShutdownLock
  <2>2. CASE ShutdownTransition(s)
    BY <1>a, <2>2 DEF ShutdownTransition
  <2>3. CASE ShutdownClose(s)
    BY <1>a, <2>3 DEF ShutdownClose
  <2>4. CASE ShutdownReturn(s)
    BY <1>a, <2>4 DEF ShutdownReturn
  <2>5. CASE ShutdownExpired(s)
    BY <1>a, <2>5 DEF ShutdownExpired
  <2> QED BY <1>5, <2>1, <2>2, <2>3, <2>4, <2>5 DEF Shutdown
<1>6. CASE WorkerReceive
  BY <1>6 DEF WorkerReceive, AtReceive
<1>7. CASE WorkerBarrier \/ WorkerDeliver \/ WorkerRecordErr
  BY <1>7 DEF WorkerBarrier, WorkerDeliver, WorkerRecordErr, TypeOK
<1>8. CASE WorkerShutdown \/ WorkerDrained \/ WorkerLock \/ WorkerStop \/ WorkerExit
  BY <1>8 DEF WorkerShutdown, WorkerDrained, WorkerLock, WorkerStop, WorkerExit, AtReceive
<1>9. CASE UNCHANGED vars
  BY <1>9
<1> QED
  BY <1>1, <1>2, <1>3, <1>4, <1>5, <1>6, <1>7, <1>8, <1>9 DEF Next, Run, Quiescent

\* No caller is between the check of the state and its send once the state has
\* left running, and the worker drains only after that.
THEOREM LockInvCorrect == Spec => []LockInv
<1>1. Init => LockInv
  BY LockInvInit
<1>2. TypeOK /\ LockInv /\ [Next]_vars => LockInv'
  BY LockInvStep
<1> QED BY <1>1, <1>2, TypeCorrect, PTL DEF Spec

\* drain's empty queue is final.
THEOREM DrainFinal == Spec => []DrainIsFinal
<1>1. LockInv => DrainIsFinal
  BY DEF LockInv, AdmissionInv, WorkerInv, DrainIsFinal
<1> QED BY <1>1, LockInvCorrect, PTL

\* Nothing is accepted once the state has left running, which it does for good.
THEOREM AdmissionClosed == Spec => AdmissionCloses
<1>1. TypeOK /\ LockInv /\ [Next]_vars =>
        (state # "running" => sent' = sent /\ state' # "running")
  <2> SUFFICES ASSUME LockInv, [Next]_vars, state # "running"
               PROVE sent' = sent /\ state' # "running"
    OBVIOUS
  <2>1. readers = {} /\ \A i \in Items : pc[i] \notin {"send", "slice"}
    BY DEF LockInv, AdmissionInv
  <2>2. ASSUME NEW r \in Records, Handle(r) PROVE sent' = sent /\ state' # "running"
    BY <2>1, <2>2 DEF Handle, HandleAdmit, HandleSend, HandleFull
  <2>3. ASSUME NEW f \in Flushes, Flush(f) PROVE sent' = sent /\ state' # "running"
    BY <2>1, <2>3 DEF Flush, FlushAdmit, FlushEnqueue, FlushTimer, FlushRetry,
                      FlushExpired, FlushReturn
  <2>4. ASSUME NEW s \in Shutdowns, Shutdown(s) PROVE sent' = sent /\ state' # "running"
    BY <2>4 DEF Shutdown, ShutdownLock, ShutdownTransition, ShutdownClose,
                ShutdownReturn, ShutdownExpired
  <2>5. CASE Run \/ WorkerDeliver
    BY <2>5 DEF Run, WorkerReceive, WorkerShutdown, WorkerDrained, WorkerBarrier,
                WorkerRecordErr, WorkerLock, WorkerStop, WorkerExit, WorkerDeliver
  <2>6. CASE (\E c \in Calls : Call(c)) \/ (\E c \in Deadlines : Expire(c))
    BY <2>6 DEF Call, Expire
  <2> QED
    BY <2>2, <2>3, <2>4, <2>5, <2>6 DEF Next, Quiescent
<1>2. TypeOK /\ LockInv /\ [Next]_vars =>
        [state # "running" => sent' = sent /\ state' # "running"]_vars
  BY <1>1
<1> QED BY <1>2, TypeCorrect, LockInvCorrect, PTL DEF Spec, AdmissionCloses
-----------------------------------------------------------------------------
(* Nothing is lost or reordered: each step moves one item from the front of  *)
(* one part of sent to the end of the part before it.                        *)

\* The worker's receive moves the first queued item into its hand.
LEMMA TakeFirst ==
  ASSUME NEW S, NEW a \in Seq(S), NEW q \in Seq(S), q # << >>
  PROVE  a \o << >> \o q = a \o <<Head(q)>> \o Tail(q)
  OBVIOUS

\* The end of a delivery or barrier moves the item in hand to the finished ones.
LEMMA FinishItem ==
  ASSUME NEW S, NEW a \in Seq(S), NEW q \in Seq(S), NEW e \in S
  PROVE  a \o <<e>> \o q = Append(a, e) \o << >> \o q
  OBVIOUS

\* No step loses, repeats or reorders an item.
LEMMA FlowStep ==
  TypeOK /\ LockInv /\ NothingLostOrReordered /\ [Next]_vars => NothingLostOrReordered'
<1> SUFFICES ASSUME TypeOK, LockInv, NothingLostOrReordered, [Next]_vars
             PROVE  NothingLostOrReordered'
  OBVIOUS
<1> USE ConstantsAssumption
<1>t. /\ queue \in Seq(Items) /\ sent \in Seq(Items) /\ done \in Seq(Items)
      /\ item \in Items \cup {None} /\ None \notin Items
  BY DEF TypeOK
<1>h. InHand \in Seq(Items)
  <2>1. CASE item = None
    BY <2>1 DEF InHand
  <2>2. CASE item # None
    <3>1. item \in Items
      BY <2>2, <1>t
    <3> QED BY <3>1, <2>2 DEF InHand
  <2> QED BY <2>1, <2>2
<1>1. ASSUME NEW i \in Items, Send(i), UNCHANGED <<item, done>>
      PROVE  NothingLostOrReordered'
  BY <1>1, <1>t, <1>h, SendFlow
<1>2. CASE WorkerReceive
  <2>1. sent = done \o <<Head(queue)>> \o Tail(queue)
    BY <1>2, <1>t, TakeFirst DEF WorkerReceive, AtReceive, NothingLostOrReordered, InHand
  <2>2. Head(queue) \in Items
    BY <1>2, <1>t DEF WorkerReceive
  <2> QED BY <2>1, <2>2, <1>2, <1>t DEF WorkerReceive, NothingLostOrReordered, InHand
<1>3. CASE WorkerBarrier \/ WorkerDeliver
  <2>1. /\ item \in Items /\ item' = None /\ done' = Append(done, item)
        /\ UNCHANGED <<queue, sent>>
    BY <1>3 DEF WorkerBarrier, WorkerDeliver
  <2>2. sent = done \o <<item>> \o queue
    BY <2>1, <1>t DEF NothingLostOrReordered, InHand
  <2>3. sent = Append(done, item) \o << >> \o queue
    BY <2>1, <2>2, <1>t, FinishItem
  <2> QED BY <2>1, <2>3 DEF NothingLostOrReordered, InHand
<1>4. CASE UNCHANGED <<queue, sent, item, done>>
  BY <1>4 DEF NothingLostOrReordered, InHand
<1>5. ASSUME NEW r \in Records, Handle(r) PROVE NothingLostOrReordered'
  BY <1>1, <1>4, <1>5 DEF Handle, HandleAdmit, HandleSend, HandleFull
<1>6. ASSUME NEW f \in Flushes, Flush(f) PROVE NothingLostOrReordered'
  BY <1>1, <1>4, <1>6 DEF Flush, FlushAdmit, FlushEnqueue, FlushTimer, FlushRetry,
                          FlushExpired, FlushReturn
<1>7. ASSUME NEW s \in Shutdowns, Shutdown(s) PROVE NothingLostOrReordered'
  BY <1>4, <1>7 DEF Shutdown, ShutdownLock, ShutdownTransition, ShutdownClose,
                    ShutdownReturn, ShutdownExpired
<1>8. CASE WorkerShutdown \/ WorkerDrained \/ WorkerRecordErr \/ WorkerLock
           \/ WorkerStop \/ WorkerExit
  BY <1>4, <1>8 DEF WorkerShutdown, WorkerDrained, WorkerRecordErr, WorkerLock,
                    WorkerStop, WorkerExit
<1>9. CASE (\E c \in Calls : Call(c)) \/ (\E c \in Deadlines : Expire(c))
  BY <1>4, <1>9 DEF Call, Expire
<1> QED
  BY <1>2, <1>3, <1>4, <1>5, <1>6, <1>7, <1>8, <1>9 DEF Next, Run, Quiescent

\* One worker takes from a FIFO queue: everything sent is finished, in hand or
\* queued, once and in order.
THEOREM Flow == Spec => []NothingLostOrReordered
<1>1. Init => NothingLostOrReordered
  BY DEF Init, NothingLostOrReordered, InHand
<1> QED BY <1>1, FlowStep, TypeCorrect, LockInvCorrect, PTL DEF Spec
-----------------------------------------------------------------------------
(* Flush and Shutdown. A barrier is sent after its call was made, so when it *)
(* is closed everything sent before the call is finished; a barrier in sent  *)
(* is closed when it is finished, and all of sent is when the worker exits.  *)

\* Where the barriers in sent stand: after the mark of their call, which waits.
SentBarriers ==
    \A k \in DOMAIN sent : sent[k] \in Flushes =>
        /\ k > mark[sent[k]]
        /\ pc[sent[k]] \in {"await", "done"}
        /\ result[sent[k]] # "shutdown"

AwaitedSent == \A f \in Flushes : pc[f] = "await" => \E k \in DOMAIN sent : sent[k] = f

BarrierInv ==
    /\ \A f \in Flushes : mark[f] <= Len(sent)
    /\ \A k \in DOMAIN done : done[k] \in Flushes => done[k] \in closed
    /\ \A f \in closed : pc[f] \in {"await", "done"} /\ Len(done) >= mark[f]
    /\ SentBarriers
    /\ AwaitedSent

ReturnInv ==
    /\ \A c \in Calls : result[c] # "none" => pc[c] = "done"
    /\ \A f \in Flushes : result[f] \in {"ok", "error"} => f \in closed
    /\ \A s \in Shutdowns : result[s] \in {"ok", "error"} => workerDone
    /\ \A r \in Records : result[r] = "ok" => \E k \in DOMAIN sent : sent[k] = r

\* What a send adds to sent.
LEMMA SendIndex ==
  ASSUME NEW i \in Items, Send(i), sent \in Seq(Items)
  PROVE  /\ Len(sent') = Len(sent) + 1
         /\ \A k \in DOMAIN sent : k \in DOMAIN sent' /\ sent'[k] = sent[k]
         /\ Len(sent) + 1 \in DOMAIN sent' /\ sent'[Len(sent) + 1] = i
         /\ \A k \in DOMAIN sent' : k \in DOMAIN sent \/ k = Len(sent) + 1
  BY DEF Send

\* The parts of sent that are finished and in hand, by index.
LEMMA FlowIndex ==
  ASSUME TypeOK, NothingLostOrReordered
  PROVE  /\ Len(done) <= Len(sent)
         /\ \A k \in 1 .. Len(done) : sent[k] = done[k]
         /\ item # None => Len(done) + 1 \in DOMAIN sent /\ sent[Len(done) + 1] = item
         /\ item = None /\ queue = << >> => sent = done
<1>1. /\ queue \in Seq(Items) /\ sent \in Seq(Items) /\ done \in Seq(Items)
      /\ item # None => item \in Items
  BY DEF TypeOK
<1>2. CASE item = None
  <2>1. sent = done \o << >> \o queue
    BY <1>2 DEF NothingLostOrReordered, InHand
  <2> QED BY <1>1, <1>2, <2>1
<1>3. CASE item # None
  <2>1. sent = done \o <<item>> \o queue
    BY <1>3 DEF NothingLostOrReordered, InHand
  <2> QED BY <1>1, <1>3, <2>1
<1> QED BY <1>2, <1>3
FinishInv == BarrierInv /\ ReturnInv

\* When the worker has exited, the barrier of every waiting Flush is closed.
LEMMA ExitClosesBarriers ==
  ASSUME TypeOK, LockInv, NothingLostOrReordered, BarrierInv, workerDone,
         NEW f \in Flushes, pc[f] = "await"
  PROVE  f \in closed
<1>1. queue = << >> /\ item = None
  BY DEF LockInv, WorkerInv
<1>2. sent = done
  BY <1>1, FlowIndex
<1> QED BY <1>2 DEF BarrierInv, AwaitedSent

\* What a barrier and a return stand for is kept by every step.
LEMMA FinishInvStep ==
  TypeOK /\ LockInv /\ NothingLostOrReordered /\ FinishInv /\ [Next]_vars => FinishInv'
<1> SUFFICES ASSUME TypeOK, LockInv, NothingLostOrReordered, FinishInv, [Next]_vars
             PROVE  FinishInv'
  OBVIOUS
<1> USE ConstantsAssumption DEF FinishInv, BarrierInv, SentBarriers, AwaitedSent, ReturnInv,
                               Goto, Return, TakeErr
<1>t. /\ pc \in [Calls -> {"idle", "lock", "send", "slice", "retry", "close", "await", "done"}]
      /\ result \in [Calls -> {"none", "ok", "error", "full", "shutdown", "ctx"}]
      /\ sent \in Seq(Items) /\ done \in Seq(Items) /\ mark \in [Flushes -> Nat]
      /\ closed \subseteq Flushes
  BY DEF TypeOK
<1>m. ASSUME NEW c \in Calls, NEW p \in {"send", "slice", "retry", "lock"},
             pc[c] \notin {"await", "done"}, pc' = [pc EXCEPT ![c] = p],
             UNCHANGED <<result, mark, done, closed, workerDone, sent>>
      PROVE  FinishInv'
  <2>1. SentBarriers'
    BY <1>t, <1>m
  <2>2. AwaitedSent'
    BY <1>t, <1>m
  <2> HIDE DEF SentBarriers, AwaitedSent
  <2> QED BY <1>t, <1>m, <2>1, <2>2
<1>1. ASSUME NEW c \in Calls, Call(c) PROVE FinishInv'
  BY <1>t, <1>1 DEF Call
<1>2. ASSUME NEW c \in Deadlines, Expire(c) PROVE FinishInv'
  BY <1>2 DEF Expire
<1>3. ASSUME NEW r \in Records, Handle(r) PROVE FinishInv'
  <2>1. CASE HandleAdmit(r)
    <3>1. CASE state = "running"
      <4>1. /\ pc[r] = "lock" /\ pc' = [pc EXCEPT ![r] = "send"]
            /\ UNCHANGED <<result, mark, done, closed, workerDone, sent>>
        BY <2>1, <3>1 DEF HandleAdmit
      <4> QED BY <4>1, <1>m
    <3>2. CASE state # "running"
      <4>1. /\ r \notin Flushes /\ r \notin Shutdowns /\ Return(r, "shutdown")
            /\ UNCHANGED <<mark, done, closed, workerDone, sent>>
        BY <2>1, <3>2 DEF HandleAdmit
      <4>2. SentBarriers' /\ AwaitedSent'
        BY <1>t, <4>1
      <4> HIDE DEF SentBarriers, AwaitedSent
      <4> QED BY <1>t, <4>1, <4>2
    <3> QED BY <3>1, <3>2
  <2>2. CASE HandleSend(r)
    <3>1. /\ Send(r) /\ pc' = [pc EXCEPT ![r] = "done"]
          /\ result' = [result EXCEPT ![r] = "ok"] /\ r \notin Flushes /\ r \notin Shutdowns
          /\ UNCHANGED <<mark, done, closed, workerDone>>
      BY <2>2 DEF HandleSend
    <3>2. SentBarriers'
      <4> SUFFICES ASSUME NEW k \in DOMAIN sent', sent'[k] \in Flushes
                   PROVE  /\ k > mark'[sent'[k]] /\ pc'[sent'[k]] \in {"await", "done"}
                          /\ result'[sent'[k]] # "shutdown"
        OBVIOUS
      <4>1. k \in DOMAIN sent /\ sent'[k] = sent[k]
        <5> HIDE DEF SentBarriers, AwaitedSent
        <5> QED BY <1>t, <3>1, SendIndex, SMTT(20)
      <4> QED BY <1>t, <3>1, <4>1
    <3>3. AwaitedSent'
      BY <1>t, <3>1, SendIndex
    <3>4. \A q \in Records : result'[q] = "ok" => \E k \in DOMAIN sent' : sent'[k] = q
      BY <1>t, <3>1, SendIndex
    <3>5. \A f \in Flushes : mark'[f] <= Len(sent')
      BY <1>t, <3>1, SendIndex
    <3> HIDE DEF SentBarriers, AwaitedSent
    <3> QED BY <1>t, <3>1, <3>2, <3>3, <3>4, <3>5
  <2>3. CASE HandleFull(r)
    BY <1>t, <2>3 DEF HandleFull
  <2> QED BY <1>3, <2>1, <2>2, <2>3 DEF Handle
<1>4. ASSUME NEW f \in Flushes, Flush(f) PROVE FinishInv'
  <2>r. ASSUME pc[f] \in {"lock", "retry"}, Return(f, "shutdown"),
               UNCHANGED <<mark, done, closed, workerDone, sent>>
        PROVE  FinishInv'
    <3>1. SentBarriers'
      BY <1>t, <2>r
    <3>2. AwaitedSent'
      BY <1>t, <2>r
    <3> HIDE DEF SentBarriers, AwaitedSent
    <3> QED BY <1>t, <2>r, <3>1, <3>2
  <2>1. CASE FlushAdmit(f)
    <3>1. CASE state = "running"
      <4>1. /\ pc[f] = "lock" /\ pc' = [pc EXCEPT ![f] = "slice"]
            /\ UNCHANGED <<result, mark, done, closed, workerDone, sent>>
        BY <2>1, <3>1 DEF FlushAdmit
      <4> QED BY <4>1, <1>m
    <3>2. CASE state # "running"
      BY <1>t, <2>1, <3>2, <2>r DEF FlushAdmit
    <3> QED BY <3>1, <3>2
  <2>2. CASE FlushEnqueue(f)
    <3>1. /\ Send(f) /\ pc[f] = "slice" /\ pc' = [pc EXCEPT ![f] = "await"]
          /\ UNCHANGED <<result, mark, done, closed, workerDone>>
      BY <2>2 DEF FlushEnqueue
    <3>2. SentBarriers'
      BY <1>t, <3>1, SendIndex
    <3>3. AwaitedSent'
      <4> SUFFICES ASSUME NEW g \in Flushes, pc'[g] = "await"
                   PROVE  \E k \in DOMAIN sent' : sent'[k] = g
        OBVIOUS
      <4>1. CASE g = f
        BY <1>t, <3>1, <4>1, SendIndex
      <4>2. CASE g # f
        <5>1. PICK k \in DOMAIN sent : sent[k] = g
          BY <1>t, <3>1, <4>2
        <5> QED BY <1>t, <3>1, <5>1, SendIndex
      <4> QED BY <4>1, <4>2
    <3>4. \A q \in Records : result'[q] = "ok" => \E k \in DOMAIN sent' : sent'[k] = q
      BY <1>t, <3>1, SendIndex
    <3>5. \A g \in Flushes : mark'[g] <= Len(sent')
      BY <1>t, <3>1, SendIndex
    <3> HIDE DEF SentBarriers, AwaitedSent
    <3> QED BY <1>t, <3>1, <3>2, <3>3, <3>4, <3>5
  <2>3. CASE FlushTimer(f)
    <3>1. /\ pc[f] = "slice" /\ pc' = [pc EXCEPT ![f] = "retry"]
          /\ UNCHANGED <<result, mark, done, closed, workerDone, sent>>
      BY <2>3 DEF FlushTimer
    <3> QED BY <3>1, <1>m
  <2>4. CASE FlushRetry(f)
    <3>1. CASE workerDone
      BY <1>t, <2>4, <3>1, <2>r DEF FlushRetry
    <3>2. CASE ~workerDone
      <4>1. /\ pc[f] = "retry" /\ pc' = [pc EXCEPT ![f] = "lock"]
            /\ UNCHANGED <<result, mark, done, closed, workerDone, sent>>
        BY <2>4, <3>2 DEF FlushRetry
      <4> QED BY <4>1, <1>m
    <3> QED BY <3>1, <3>2
  <2>5. CASE FlushExpired(f)
    BY <1>t, <2>5 DEF FlushExpired
  <2>6. CASE FlushReturn(f)
    <3>1. f \in closed
      BY <2>6, ExitClosesBarriers DEF FlushReturn
    <3>2. /\ pc[f] = "await" /\ pc' = [pc EXCEPT ![f] = "done"]
          /\ \E o \in {"ok", "error"} : result' = [result EXCEPT ![f] = o]
          /\ UNCHANGED <<mark, done, closed, workerDone, sent>>
      BY <2>6, <3>1 DEF FlushReturn
    <3>3. SentBarriers' /\ AwaitedSent'
      BY <1>t, <3>2
    <3> HIDE DEF SentBarriers, AwaitedSent
    <3> QED BY <1>t, <3>1, <3>2, <3>3
  <2> QED BY <1>4, <2>1, <2>2, <2>3, <2>4, <2>5, <2>6 DEF Flush
<1>5. ASSUME NEW s \in Shutdowns, Shutdown(s) PROVE FinishInv'
  <2>1. CASE ShutdownLock(s)
    BY <1>t, <2>1 DEF ShutdownLock
  <2>2. CASE ShutdownTransition(s)
    BY <1>t, <2>2 DEF ShutdownTransition, LockInv, AdmissionInv
  <2>3. CASE ShutdownClose(s)
    BY <1>t, <2>3 DEF ShutdownClose
  <2>4. CASE ShutdownReturn(s)
    BY <1>t, <2>4 DEF ShutdownReturn
  <2>5. CASE ShutdownExpired(s)
    BY <1>t, <2>5 DEF ShutdownExpired
  <2> QED BY <1>5, <2>1, <2>2, <2>3, <2>4, <2>5 DEF Shutdown
<1>6. CASE WorkerBarrier
  <2>1. /\ item # None /\ item \in Flushes
        /\ done' = Append(done, item) /\ closed' = closed \cup {item}
        /\ UNCHANGED <<pc, result, mark, sent, workerDone>>
    BY <1>6 DEF WorkerBarrier
  <2>2. Len(done) + 1 \in DOMAIN sent /\ sent[Len(done) + 1] = item
    BY <2>1, FlowIndex
  <2>3. pc[item] \in {"await", "done"} /\ Len(done) >= mark[item]
    BY <1>t, <2>1, <2>2
  <2> QED BY <1>t, <2>1, <2>3
<1>7. CASE WorkerDeliver
  BY <1>t, <1>7 DEF WorkerDeliver
<1>8. CASE WorkerReceive \/ WorkerShutdown \/ WorkerDrained \/ WorkerRecordErr \/ WorkerLock
           \/ WorkerStop
  BY <1>8 DEF WorkerReceive, WorkerShutdown, WorkerDrained, WorkerRecordErr, WorkerLock,
              WorkerStop
<1>9. CASE WorkerExit
  BY <1>9 DEF WorkerExit
<1>10. CASE UNCHANGED vars
  BY <1>10
<1> QED
  BY <1>1, <1>2, <1>3, <1>4, <1>5, <1>6, <1>7, <1>8, <1>9, <1>10 DEF Next, Run, Quiescent

\* A closed barrier or a returned Shutdown finds everything before it finished.
THEOREM FinishInvCorrect == Spec => []FinishInv
<1>1. Init => FinishInv
  BY DEF Init, FinishInv, BarrierInv, SentBarriers, AwaitedSent, ReturnInv
<1> QED BY <1>1, FinishInvStep, TypeCorrect, LockInvCorrect, Flow, PTL DEF Spec

\* A Flush that returns nil or a downstream error has seen everything accepted
\* before it was called delivered.
THEOREM FlushKeepsPromise == Spec => []FlushPromise
<1>1. TypeOK /\ NothingLostOrReordered /\ FinishInv => FlushPromise
  <2> SUFFICES ASSUME TypeOK, NothingLostOrReordered, FinishInv,
                      NEW f \in Flushes, result[f] \in {"ok", "error"},
                      NEW k \in 1 .. mark[f]
               PROVE  k \in DOMAIN done /\ done[k] = sent[k]
    BY DEF FlushPromise, Succeeded
  <2>1. Len(done) >= mark[f] /\ mark[f] \in Nat /\ done \in Seq(Items)
    BY DEF FinishInv, BarrierInv, ReturnInv, TypeOK
  <2>2. k \in 1 .. Len(done)
    BY <2>1
  <2> QED BY <2>1, <2>2, FlowIndex
<1> QED BY <1>1, TypeCorrect, Flow, FinishInvCorrect, PTL

\* A Flush whose barrier was accepted is not told ErrShutdown.
THEOREM BarriersKept == Spec => []BarrierNeverAbandoned
<1>1. TypeOK /\ LockInv /\ NothingLostOrReordered /\ FinishInv => BarrierNeverAbandoned
  BY ExitClosesBarriers DEF FinishInv, BarrierInv, SentBarriers, BarrierNeverAbandoned
<1> QED BY <1>1, TypeCorrect, LockInvCorrect, Flow, FinishInvCorrect, PTL

\* A Shutdown that did not give up finds every accepted record delivered and
\* every accepted barrier closed.
THEOREM ShutdownKeepsPromise == Spec => []ShutdownPromise
<1>1. TypeOK /\ LockInv /\ NothingLostOrReordered /\ FinishInv => ShutdownPromise
  <2> SUFFICES ASSUME TypeOK, LockInv, NothingLostOrReordered, FinishInv,
                      NEW s \in Shutdowns, result[s] \in {"ok", "error"}
               PROVE  /\ queue = << >> /\ item = None /\ err = None
                      /\ \A r \in Records :
                            result[r] = "ok" => \E k \in DOMAIN done : done[k] = r
                      /\ \A f \in Flushes : pc[f] = "await" => f \in closed
    BY DEF ShutdownPromise, Succeeded
  <2>1. workerDone
    BY DEF FinishInv, ReturnInv
  <2>2. queue = << >> /\ item = None /\ err = None
    BY <2>1 DEF LockInv, WorkerInv
  <2>3. sent = done
    BY <2>2, FlowIndex
  <2> QED BY <2>1, <2>2, <2>3, ExitClosesBarriers DEF FinishInv, ReturnInv
<1> QED BY <1>1, TypeCorrect, LockInvCorrect, Flow, FinishInvCorrect, PTL
-----------------------------------------------------------------------------
(* A call sends once.                                                      *)

SentOnce ==
    /\ \A k \in DOMAIN sent : sent[k] \in Records => pc[sent[k]] = "done"
    /\ \A k, l \in DOMAIN sent : sent[k] = sent[l] => k = l

Occurs(r, q) == \E k \in DOMAIN q : q[k] = r

\* The failures that wait, and those that were handed out, are of different records
\* that are finished: recordErr and takeErr move one error, and copy none.
ErrorsApart ==
    /\ \A r \in Records : r \in {err, firstErr} => Occurs(r, done)
    /\ firstErr # None => firstErr # err
    /\ \A c \in Waiters : took[c] # None =>
          /\ pc[c] = "done" /\ Occurs(took[c], done)
          /\ took[c] # firstErr /\ took[c] # err
          /\ \A d \in Waiters : took[c] = took[d] => c = d

ErrorKept ==
    handlerErrors > 0 /\ err = None =>
        firstErr # None \/ \E c \in Waiters : took[c] # None

ErrorInv == ErrorsApart /\ ErrorKept
-----------------------------------------------------------------------------
USE DEF calls, lock, core, counters, worker, vars, Items, Waiters, Calls

\* A call that has returned is over, and only the two sends add to sent.
LEMMA CallsStep ==
  ASSUME TypeOK, LockInv, [Next]_vars
  PROVE  /\ \A c \in Calls : pc[c] = "done" => pc'[c] = "done"
         /\ \/ UNCHANGED sent
            \/ \E r \in Records : HandleSend(r)
            \/ \E f \in Flushes : FlushEnqueue(f)
<1> USE ConstantsAssumption DEF Goto, Return, TakeErr
<1> DEFINE Kept == \A c \in Calls : pc[c] = "done" => pc'[c] = "done"
<1>t. pc \in [Calls -> {"idle", "lock", "send", "slice", "retry", "close", "await", "done"}]
  BY DEF TypeOK
<1>1. ASSUME NEW c \in Calls, Call(c) PROVE Kept /\ UNCHANGED sent
  BY <1>t, <1>1 DEF Call
<1>2. ASSUME NEW c \in Deadlines, Expire(c) PROVE Kept /\ UNCHANGED sent
  BY <1>2 DEF Expire
<1>3. ASSUME NEW r \in Records, Handle(r) PROVE Kept /\ (UNCHANGED sent \/ HandleSend(r))
  <2>1. CASE HandleAdmit(r)
    BY <1>t, <2>1 DEF HandleAdmit
  <2>2. CASE HandleSend(r) \/ HandleFull(r)
    BY <1>t, <2>2 DEF HandleSend, HandleFull
  <2> QED BY <1>3, <2>1, <2>2 DEF Handle
<1>4. ASSUME NEW f \in Flushes, Flush(f) PROVE Kept /\ (UNCHANGED sent \/ FlushEnqueue(f))
  <2>1. CASE FlushAdmit(f)
    BY <1>t, <2>1 DEF FlushAdmit
  <2>2. CASE FlushEnqueue(f) \/ FlushTimer(f)
    BY <1>t, <2>2 DEF FlushEnqueue, FlushTimer
  <2>3. CASE FlushRetry(f)
    BY <1>t, <2>3 DEF FlushRetry
  <2>4. CASE FlushExpired(f) \/ FlushReturn(f)
    BY <1>t, <2>4 DEF FlushExpired, FlushReturn
  <2> QED BY <1>4, <2>1, <2>2, <2>3, <2>4 DEF Flush
<1>5. ASSUME NEW s \in Shutdowns, Shutdown(s) PROVE Kept /\ UNCHANGED sent
  <2>1. CASE ShutdownLock(s) \/ ShutdownClose(s) \/ ShutdownReturn(s) \/ ShutdownExpired(s)
    BY <1>t, <2>1 DEF ShutdownLock, ShutdownClose, ShutdownReturn, ShutdownExpired
  <2>2. CASE ShutdownTransition(s)
    <3>1. pc[s] = "lock" /\ pc' = [pc EXCEPT ![s] = "close"]
      BY <2>2 DEF ShutdownTransition, LockInv, AdmissionInv
    <3> QED BY <1>t, <2>2, <3>1 DEF ShutdownTransition
  <2> QED BY <1>5, <2>1, <2>2 DEF Shutdown
<1>6. CASE Run \/ WorkerDeliver \/ UNCHANGED vars
  BY <1>6 DEF Run, WorkerReceive, WorkerShutdown, WorkerDrained, WorkerBarrier,
              WorkerRecordErr, WorkerLock, WorkerStop, WorkerExit, WorkerDeliver
<1> HIDE DEF Kept
<1> QED BY <1>1, <1>2, <1>3, <1>4, <1>5, <1>6 DEF Next, Quiescent, Kept

\* No call sends twice: Handle returns from its send, and the barrier of a Flush is
\* sent on the way to await.
LEMMA SentOnceStep ==
  TypeOK /\ LockInv /\ FinishInv /\ SentOnce /\ [Next]_vars => SentOnce'
<1> SUFFICES ASSUME TypeOK, LockInv, FinishInv, SentOnce, [Next]_vars PROVE SentOnce'
  OBVIOUS
<1>t. /\ sent \in Seq(Items)
      /\ \A k \in DOMAIN sent : sent[k] \in Items
  BY DEF TypeOK
<1>1. \A c \in Calls : pc[c] = "done" => pc'[c] = "done"
  BY CallsStep
<1>2. ASSUME UNCHANGED sent PROVE SentOnce'
  BY <1>1, <1>2 DEF SentOnce
<1>3. ASSUME NEW i \in Items, Send(i), i \in Records => pc'[i] = "done",
             \A k \in DOMAIN sent : sent[k] # i
      PROVE  SentOnce'
  <2>1. /\ Len(sent') = Len(sent) + 1
        /\ \A k \in DOMAIN sent : k \in DOMAIN sent' /\ sent'[k] = sent[k]
        /\ Len(sent) + 1 \in DOMAIN sent' /\ sent'[Len(sent) + 1] = i
        /\ \A k \in DOMAIN sent' : k \in DOMAIN sent \/ k = Len(sent) + 1
    BY <1>t, <1>3, SendIndex
  <2>2. \A k \in DOMAIN sent' : sent'[k] \in Records => pc'[sent'[k]] = "done"
    BY <1>1, <1>3, <2>1 DEF SentOnce
  <2>3. ASSUME NEW k \in DOMAIN sent', NEW l \in DOMAIN sent', sent'[k] = sent'[l]
        PROVE  k = l
    BY <1>3, <2>1, <2>3 DEF SentOnce
  <2> QED BY <2>2, <2>3 DEF SentOnce
<1>4. ASSUME NEW r \in Records, HandleSend(r) PROVE SentOnce'
  <2>1. Send(r) /\ pc[r] = "send" /\ pc'[r] = "done"
    BY <1>4 DEF HandleSend, Return, Goto, TypeOK
  <2>2. \A k \in DOMAIN sent : sent[k] # r
    BY <2>1 DEF SentOnce
  <2> QED BY <2>1, <2>2, <1>3
<1>5. ASSUME NEW f \in Flushes, FlushEnqueue(f) PROVE SentOnce'
  <2>1. Send(f) /\ pc[f] = "slice" /\ f \notin Records
    BY <1>5, ConstantsAssumption DEF FlushEnqueue
  <2>2. \A k \in DOMAIN sent : sent[k] # f
    BY <2>1 DEF FinishInv, BarrierInv, SentBarriers
  <2> QED BY <2>1, <2>2, <1>3
<1> QED BY <1>2, <1>4, <1>5, CallsStep

\* Every record and every barrier is in the queue once.
THEOREM SentOnceHolds == Spec => []SentOnce
<1>1. Init => SentOnce
  BY DEF Init, SentOnce
<1> QED BY <1>1, SentOnceStep, TypeCorrect, LockInvCorrect, FinishInvCorrect, PTL DEF Spec

-----------------------------------------------------------------------------
(* The first error.                                                        *)

\* An item that the worker finishes was not finished before.
LEMMA HandFresh ==
  ASSUME TypeOK, NothingLostOrReordered, SentOnce, item # None
  PROVE  ~Occurs(item, done)
<1>1. /\ Len(done) <= Len(sent) /\ \A k \in 1 .. Len(done) : sent[k] = done[k]
      /\ Len(done) + 1 \in DOMAIN sent /\ sent[Len(done) + 1] = item
  BY FlowIndex
<1>2. done \in Seq(Items) /\ sent \in Seq(Items)
  BY DEF TypeOK
<1>3. ASSUME NEW k \in DOMAIN done, done[k] = item PROVE FALSE
  <2>1. k \in 1 .. Len(done) /\ k \in DOMAIN sent /\ sent[k] = item
    BY <1>1, <1>2, <1>3
  <2>2. k = Len(done) + 1
    BY <1>1, <2>1 DEF SentOnce
  <2> QED BY <1>2, <2>1, <2>2
<1> QED BY <1>3 DEF Occurs

\* What was finished stays finished.
LEMMA DoneGrows ==
  ASSUME TypeOK, NEW i \in Items, done' = Append(done, i)
  PROVE  Occurs(i, done') /\ \A r : Occurs(r, done) => Occurs(r, done')
<1>1. /\ done \in Seq(Items) /\ Len(done') = Len(done) + 1 /\ done'[Len(done) + 1] = i
      /\ \A k \in DOMAIN done : k \in DOMAIN done' /\ done'[k] = done[k]
      /\ Len(done) + 1 \in DOMAIN done'
  BY DEF TypeOK
<1> QED BY <1>1 DEF Occurs

\* takeErr moves the first error to its caller.
LEMMA TakeErrKept ==
  ASSUME TypeOK, ErrorInv, NEW c \in Waiters, pc[c] = "await", TakeErr(c),
         UNCHANGED <<done, err, handlerErrors>>
  PROVE  ErrorInv'
<1>t. /\ pc \in [Calls -> {"idle", "lock", "send", "slice", "retry", "close", "await", "done"}]
      /\ took \in [Calls -> Records \cup {None}] /\ c \in Calls
      /\ firstErr \in Records \cup {None} /\ None \notin Records
  BY ConstantsAssumption DEF TypeOK
<1>1. /\ firstErr' = None
      /\ pc'[c] = "done" /\ \A d \in Waiters \ {c} : pc'[d] = pc[d]
      /\ took'[c] = firstErr /\ \A d \in Waiters \ {c} : took'[d] = took[d]
  BY <1>t DEF TakeErr, Goto
<1>2. took[c] = None
  BY DEF ErrorInv, ErrorsApart
<1>3. ErrorsApart'
  <2>1. \A r \in Records : r \in {err', firstErr'} => Occurs(r, done')
    BY <1>t, <1>1 DEF ErrorInv, ErrorsApart, Occurs
  <2>2. ASSUME NEW d \in Waiters, took'[d] # None
        PROVE  /\ pc'[d] = "done" /\ Occurs(took'[d], done')
               /\ took'[d] # firstErr' /\ took'[d] # err'
    <3>1. CASE d = c
      BY <1>t, <1>1, <2>2, <3>1 DEF ErrorInv, ErrorsApart, Occurs
    <3>2. CASE d # c
      BY <1>1, <2>2, <3>2 DEF ErrorInv, ErrorsApart, Occurs
    <3> QED BY <3>1, <3>2
  <2>3. ASSUME NEW d \in Waiters, took'[d] # None, NEW e \in Waiters, took'[d] = took'[e]
        PROVE  d = e
    BY <1>1, <2>3 DEF ErrorInv, ErrorsApart
  <2>4. firstErr' # None => firstErr' # err'
    BY <1>1
  <2> QED BY <2>1, <2>2, <2>3, <2>4 DEF ErrorsApart, Occurs
<1>4. ErrorKept'
  <2> SUFFICES ASSUME handlerErrors > 0, err = None
               PROVE  \E d \in Waiters : took'[d] # None
    BY DEF ErrorKept
  <2>1. CASE firstErr # None
    BY <1>1, <2>1
  <2>2. CASE firstErr = None
    <3>1. PICK d \in Waiters : took[d] # None
      BY <2>2 DEF ErrorInv, ErrorKept
    <3> QED BY <1>1, <1>2, <3>1
  <2> QED BY <2>1, <2>2
<1> QED BY <1>3, <1>4 DEF ErrorInv

\* process and recordErr: a failure is of a record that was not finished before.
LEMMA WorkerErrorKept ==
  ASSUME TypeOK, LockInv, NothingLostOrReordered, SentOnce, ErrorInv,
         WorkerBarrier \/ WorkerDeliver \/ WorkerRecordErr
  PROVE  ErrorInv'
<1>t. /\ err \in Records \cup {None} /\ firstErr \in Records \cup {None}
      /\ None \notin Records /\ handlerErrors \in Nat
      /\ item # None => item \in Items /\ err = None
      /\ \A c \in Waiters : took[c] \in Records \cup {None}
  BY ConstantsAssumption DEF TypeOK, LockInv, WorkerInv
<1>1. ASSUME item # None, done' = Append(done, item), UNCHANGED <<pc, took, firstErr>>,
             \/ UNCHANGED <<err, handlerErrors>>
             \/ item \in Records /\ err' = item /\ handlerErrors' = handlerErrors + 1
      PROVE  ErrorInv'
  <2>1. Occurs(item, done') /\ \A r : Occurs(r, done) => Occurs(r, done')
    BY <1>t, <1>1, DoneGrows
  <2>2. ~Occurs(item, done)
    BY <1>1, HandFresh
  <2> HIDE DEF Occurs
  <2>3. /\ \A r \in Records : r = firstErr \/ r = err => r # item
        /\ \A c \in Waiters : took[c] # None => took[c] # item
    BY <2>2 DEF ErrorInv, ErrorsApart
  <2>4. err' = err \/ err' = item
    BY <1>1
  <2>5. ErrorsApart'
    <3>1. ASSUME NEW r \in Records, r \in {err', firstErr'} PROVE Occurs(r, done')
      BY <1>1, <2>1, <2>4, <3>1 DEF ErrorInv, ErrorsApart
    <3>2. firstErr' # None => firstErr' # err'
      BY <1>t, <1>1, <2>3, <2>4 DEF ErrorInv, ErrorsApart
    <3>3. ASSUME NEW c \in Waiters, took'[c] # None
          PROVE  /\ pc'[c] = "done" /\ Occurs(took'[c], done')
                 /\ took'[c] # firstErr' /\ took'[c] # err'
                 /\ \A d \in Waiters : took'[c] = took'[d] => c = d
      <4>1. /\ pc[c] = "done" /\ Occurs(took[c], done)
            /\ took[c] # firstErr /\ took[c] # err /\ took[c] # item
            /\ \A d \in Waiters : took[c] = took[d] => c = d
        BY <1>1, <2>3, <3>3 DEF ErrorInv, ErrorsApart
      <4>2. Occurs(took[c], done')
        BY <2>1, <4>1 
      <4> QED BY <1>1, <2>4, <4>1, <4>2
    <3> QED BY <3>1, <3>2, <3>3 DEF ErrorsApart
  <2>6. ErrorKept'
    BY <1>t, <1>1 DEF ErrorInv, ErrorKept
  <2> QED BY <2>5, <2>6 DEF ErrorInv
<1>2. CASE WorkerBarrier
  <2>1. item # None /\ done' = Append(done, item)
        /\ UNCHANGED <<pc, took, firstErr, err, handlerErrors>>
    BY <1>2, ConstantsAssumption DEF WorkerBarrier
  <2> QED BY <2>1, <1>1
<1>3. CASE WorkerDeliver
  <2>1. /\ item # None /\ done' = Append(done, item) /\ UNCHANGED <<pc, took, firstErr>>
        /\ \/ UNCHANGED <<err, handlerErrors>>
           \/ item \in Records /\ err' = item /\ handlerErrors' = handlerErrors + 1
    BY <1>t, <1>3 DEF WorkerDeliver
  <2> QED BY <2>1, <1>1
<1>4. CASE WorkerRecordErr
  <2>1. /\ err # None /\ err' = None
        /\ firstErr' = IF firstErr = None THEN err ELSE firstErr
        /\ UNCHANGED <<pc, took, done, handlerErrors>>
    BY <1>4 DEF WorkerRecordErr
  <2>2. ErrorsApart'
    BY <1>t, <2>1 DEF ErrorInv, ErrorsApart, Occurs
  <2>3. ErrorKept'
    BY <1>t, <2>1 DEF ErrorKept
  <2> QED BY <2>2, <2>3 DEF ErrorInv
<1> QED BY <1>2, <1>3, <1>4

\* No other step touches an error.
LEMMA ErrorInvStep ==
  TypeOK /\ LockInv /\ NothingLostOrReordered /\ SentOnce /\ ErrorInv /\ [Next]_vars
    => ErrorInv'
<1> SUFFICES ASSUME TypeOK, LockInv, NothingLostOrReordered, SentOnce, ErrorInv, [Next]_vars
             PROVE  ErrorInv'
  OBVIOUS
<1>1. ASSUME UNCHANGED <<took, done, err, firstErr, handlerErrors>> PROVE ErrorInv'
  <2>1. \A c \in Calls : pc[c] = "done" => pc'[c] = "done"
    BY CallsStep
  <2> QED BY <1>1, <2>1 DEF ErrorInv, ErrorsApart, ErrorKept, Occurs
<1>2. ASSUME NEW c \in Calls, Call(c) PROVE ErrorInv'
  BY <1>1, <1>2 DEF Call
<1>3. ASSUME NEW c \in Deadlines, Expire(c) PROVE ErrorInv'
  BY <1>1, <1>3 DEF Expire
<1>4. ASSUME NEW r \in Records, Handle(r) PROVE ErrorInv'
  BY <1>1, <1>4 DEF Handle, HandleAdmit, HandleSend, HandleFull, Return
<1>5. ASSUME NEW f \in Flushes, Flush(f) PROVE ErrorInv'
  <2>1. CASE FlushAdmit(f) \/ FlushEnqueue(f) \/ FlushTimer(f) \/ FlushRetry(f) \/ FlushExpired(f)
    BY <1>1, <2>1 DEF FlushAdmit, FlushEnqueue, FlushTimer, FlushRetry, FlushExpired, Return
  <2>2. CASE FlushReturn(f) /\ f \in closed
    BY <2>2, TakeErrKept DEF FlushReturn
  <2>3. CASE FlushReturn(f) /\ f \notin closed
    BY <1>1, <2>3 DEF FlushReturn, Return
  <2> QED BY <1>5, <2>1, <2>2, <2>3 DEF Flush
<1>6. ASSUME NEW s \in Shutdowns, Shutdown(s) PROVE ErrorInv'
  <2>1. CASE ShutdownLock(s) \/ ShutdownTransition(s) \/ ShutdownClose(s) \/ ShutdownExpired(s)
    BY <1>1, <2>1 DEF ShutdownLock, ShutdownTransition, ShutdownClose, ShutdownExpired, Return
  <2>2. CASE ShutdownReturn(s)
    BY <2>2, TakeErrKept DEF ShutdownReturn
  <2> QED BY <1>6, <2>1, <2>2 DEF Shutdown
<1>7. CASE WorkerReceive \/ WorkerShutdown \/ WorkerDrained \/ WorkerLock \/ WorkerStop
             \/ WorkerExit
  BY <1>1, <1>7 DEF WorkerReceive, WorkerShutdown, WorkerDrained, WorkerLock, WorkerStop,
                    WorkerExit
<1>8. CASE WorkerBarrier \/ WorkerDeliver \/ WorkerRecordErr
  BY <1>8, WorkerErrorKept
<1>9. CASE UNCHANGED vars
  BY <1>1, <1>9
<1> QED
  BY <1>2, <1>3, <1>4, <1>5, <1>6, <1>7, <1>8, <1>9 DEF Next, Run, Quiescent

\* recordErr and takeErr: a failure is told to one caller at most, and the first one
\* is not forgotten.
THEOREM OneFailureOneCaller == Spec => []FirstErrorTold
<1>1. Init => ErrorInv
  BY ConstantsAssumption DEF Init, ErrorInv, ErrorsApart, ErrorKept
<1>2. ErrorInv => FirstErrorTold
  BY DEF ErrorInv, ErrorsApart, ErrorKept, FirstErrorTold
<1> QED BY <1>1, <1>2, ErrorInvStep, TypeCorrect, LockInvCorrect, Flow, SentOnceHolds,
           PTL DEF Spec

-----------------------------------------------------------------------------
(* The refinement. The invariants above say why each step of the code is a *)
(* step of AsyncDelivery, or none.                                         *)

Begun == {c \in Calls : pc[c] # "idle"}

\* What AsyncDelivery sees of a state.
LEMMA Abstraction ==
  ASSUME UNCHANGED <<sent, done, mark>>, (state = "running") = (state = "running")',
         \A c \in Calls : (pc[c] # "idle") = (pc'[c] # "idle"),
         \A c \in Waiters : (result[c] \in {"ok", "error"}) = (result'[c] \in {"ok", "error"})
  PROVE  UNCHANGED AD!absVars
<1>1. Begun' = Begun
  BY DEF Begun
<1>2. Succeeded' = Succeeded
  BY DEF Succeeded
<1> QED BY <1>1, <1>2 DEF AD!absVars, Begun

\* The steps of a call that has begun and not returned, and that keep no promise.
LEMMA CallStutters ==
  ASSUME TypeOK, NEW c \in Calls, pc[c] # "idle", NEW p \in {"lock", "send", "slice", "retry",
           "close", "await", "done"},
         pc' = [pc EXCEPT ![c] = p],
         \/ UNCHANGED result
         \/ /\ result[c] = "none"
            /\ \E o \in {"full", "shutdown", "ctx"} : result' = [result EXCEPT ![c] = o],
         UNCHANGED <<sent, done, mark, state>>
  PROVE  UNCHANGED AD!absVars
<1>1. /\ pc \in [Calls -> {"idle", "lock", "send", "slice", "retry", "close", "await", "done"}]
      /\ result \in [Calls -> {"none", "ok", "error", "full", "shutdown", "ctx"}]
  BY DEF TypeOK
<1>2. \A d \in Calls : (pc[d] # "idle") = (pc'[d] # "idle")
  BY <1>1
<1>3. \A d \in Waiters : (result[d] \in {"ok", "error"}) = (result'[d] \in {"ok", "error"})
  BY <1>1
<1> QED BY <1>2, <1>3, Abstraction

\* A send is an Accept.
LEMMA SendAccepts ==
  ASSUME TypeOK, NEW i \in Items, Send(i), state = "running", UNCHANGED <<done, mark, state>>,
         \A k \in DOMAIN sent : sent[k] # i, pc[i] # "idle",
         NEW p \in {"await", "done"}, pc' = [pc EXCEPT ![i] = p],
         \/ UNCHANGED result
         \/ i \in Records /\ result' = [result EXCEPT ![i] = "ok"]
  PROVE  AD!Accept(i)
<1>1. /\ pc \in [Calls -> {"idle", "lock", "send", "slice", "retry", "close", "await", "done"}]
      /\ result \in [Calls -> {"none", "ok", "error", "full", "shutdown", "ctx"}]
  BY DEF TypeOK
<1>2. Begun' = Begun /\ i \in Begun
  BY <1>1 DEF Begun
<1>3. Succeeded' = Succeeded
  BY <1>1, ConstantsAssumption DEF Succeeded
<1>4. sent' = Append(sent, i)
  BY DEF Send
<1> QED BY <1>2, <1>3, <1>4 DEF AD!Accept, Begun

\* What the worker finishes is the next item of the log.
LEMMA WorkerDelivers ==
  ASSUME TypeOK, NothingLostOrReordered, item # None, done' = Append(done, item),
         UNCHANGED <<pc, result, sent, mark, state>>
  PROVE  AD!Deliver
<1>1. /\ Len(done) + 1 \in DOMAIN sent /\ sent[Len(done) + 1] = item
      /\ sent \in Seq(Items) /\ done \in Seq(Items)
  BY FlowIndex DEF TypeOK
<1>2. Len(done) < Len(sent)
  BY <1>1
<1>3. Begun' = Begun /\ Succeeded' = Succeeded
  BY DEF Begun, Succeeded
<1> QED BY <1>1, <1>2, <1>3 DEF AD!Deliver, Begun

\* A call that returns what takeErr gives it succeeds.
LEMMA WaiterSucceeds ==
  ASSUME TypeOK, ReturnInv, NEW c \in Waiters, pc[c] = "await", TakeErr(c),
         UNCHANGED <<sent, done, mark, state>>
  PROVE  /\ c \in Begun \ Succeeded /\ Begun' = Begun
         /\ Succeeded' = Succeeded \cup {c}
<1>1. /\ pc \in [Calls -> {"idle", "lock", "send", "slice", "retry", "close", "await", "done"}]
      /\ result \in [Calls -> {"none", "ok", "error", "full", "shutdown", "ctx"}]
  BY DEF TypeOK
<1>2. result[c] = "none"
  BY DEF ReturnInv
<1>3. pc' = [pc EXCEPT ![c] = "done"]
  BY DEF TakeErr, Goto
<1>4. PICK o \in {"ok", "error"} : result' = [result EXCEPT ![c] = o]
  BY DEF TakeErr
<1> QED BY <1>1, <1>2, <1>3, <1>4 DEF Begun, Succeeded

\* Every step maps to a step of AsyncDelivery or to none.
LEMMA StepsMap ==
  TypeOK /\ LockInv /\ NothingLostOrReordered /\ FinishInv /\ SentOnce /\ [Next]_vars
    => [AD!Next]_(AD!absVars)
<1> SUFFICES ASSUME TypeOK, LockInv, NothingLostOrReordered, FinishInv, SentOnce, [Next]_vars
             PROVE  AD!Next \/ UNCHANGED AD!absVars
  OBVIOUS
<1>t. /\ pc \in [Calls -> {"idle", "lock", "send", "slice", "retry", "close", "await", "done"}]
      /\ result \in [Calls -> {"none", "ok", "error", "full", "shutdown", "ctx"}]
  BY DEF TypeOK
<1>f. ReturnInv
  BY DEF FinishInv
<1>1. ASSUME NEW c \in Calls, Call(c) PROVE AD!Next
  <2>1. /\ pc[c] = "idle" /\ pc' = [pc EXCEPT ![c] = "lock"]
        /\ mark' = (IF c \in Flushes THEN [mark EXCEPT ![c] = Len(sent)] ELSE mark)
        /\ UNCHANGED <<result, sent, done, state>>
    BY <1>1 DEF Call, Goto
  <2>2. c \notin Begun /\ Begun' = Begun \cup {c} /\ Succeeded' = Succeeded
    BY <1>t, <2>1 DEF Begun, Succeeded
  <2>3. AD!Begin(c)
    BY <2>1, <2>2, Zenon DEF AD!Begin, Begun
  <2> QED BY <2>3 DEF AD!Next
<1>2. ASSUME NEW c \in Deadlines, Expire(c) PROVE UNCHANGED AD!absVars
  BY <1>2, Abstraction DEF Expire
<1>3. ASSUME NEW r \in Records, Handle(r) PROVE AD!Next \/ UNCHANGED AD!absVars
  <2>1. CASE HandleAdmit(r)
    <3>1. /\ pc[r] = "lock" /\ result[r] = "none" /\ UNCHANGED <<sent, done, mark, state>>
      BY <1>t, <1>f, <2>1 DEF HandleAdmit, ReturnInv
    <3>2. CASE state = "running"
      BY <2>1, <3>1, <3>2, CallStutters DEF HandleAdmit, Goto
    <3>3. CASE state # "running"
      BY <2>1, <3>1, <3>3, CallStutters DEF HandleAdmit, Return, Goto
    <3> QED BY <3>2, <3>3
  <2>2. CASE HandleSend(r)
    <3>1. /\ Send(r) /\ pc[r] = "send" /\ pc' = [pc EXCEPT ![r] = "done"]
          /\ result' = [result EXCEPT ![r] = "ok"] /\ UNCHANGED <<done, mark, state>>
      BY <2>2 DEF HandleSend, Return, Goto
    <3>2. state = "running"
      BY <3>1 DEF LockInv, AdmissionInv
    <3>3. \A k \in DOMAIN sent : sent[k] # r
      BY <3>1 DEF SentOnce
    <3>4. AD!Accept(r)
      BY <3>1, <3>2, <3>3, SendAccepts
    <3> QED BY <3>4 DEF AD!Next
  <2>3. CASE HandleFull(r)
    <3>1. result[r] = "none"
      BY <1>t, <1>f, <2>3 DEF HandleFull, ReturnInv
    <3> QED BY <2>3, <3>1, CallStutters DEF HandleFull, Return, Goto
  <2> QED BY <1>3, <2>1, <2>2, <2>3 DEF Handle
<1>4. ASSUME NEW f \in Flushes, Flush(f) PROVE AD!Next \/ UNCHANGED AD!absVars
  <2>n. pc[f] # "done" => result[f] = "none"
    BY <1>t, <1>f DEF ReturnInv
  <2>1. CASE FlushAdmit(f)
    <3>1. CASE state = "running"
      BY <2>1, <3>1, CallStutters DEF FlushAdmit, Goto
    <3>2. CASE state # "running"
      BY <2>1, <2>n, <3>2, CallStutters DEF FlushAdmit, Return, Goto
    <3> QED BY <3>1, <3>2
  <2>2. CASE FlushEnqueue(f)
    <3>1. /\ Send(f) /\ pc[f] = "slice" /\ pc' = [pc EXCEPT ![f] = "await"]
          /\ UNCHANGED <<result, done, mark, state>>
      BY <2>2 DEF FlushEnqueue, Goto
    <3>2. state = "running"
      BY <3>1 DEF LockInv, AdmissionInv
    <3>3. \A k \in DOMAIN sent : sent[k] # f
      BY <3>1 DEF FinishInv, BarrierInv, SentBarriers
    <3>4. AD!Accept(f)
      BY <3>1, <3>2, <3>3, SendAccepts
    <3> QED BY <3>4 DEF AD!Next
  <2>3. CASE FlushTimer(f)
    BY <2>3, CallStutters DEF FlushTimer, Goto
  <2>4. CASE FlushRetry(f)
    <3>1. CASE workerDone
      BY <2>4, <2>n, <3>1, CallStutters DEF FlushRetry, Return, Goto
    <3>2. CASE ~workerDone
      BY <2>4, <3>2, CallStutters DEF FlushRetry, Goto
    <3> QED BY <3>1, <3>2
  <2>5. CASE FlushExpired(f)
    BY <2>5, <2>n, CallStutters DEF FlushExpired, Return, Goto
  <2>6. CASE FlushReturn(f)
    <3>1. f \in closed
      BY <2>6, ExitClosesBarriers DEF FlushReturn, FinishInv
    <3>2. pc[f] = "await" /\ TakeErr(f) /\ UNCHANGED <<sent, done, mark, state>>
      BY <2>6, <3>1 DEF FlushReturn
    <3>3. /\ f \in Begun \ Succeeded /\ Begun' = Begun /\ Succeeded' = Succeeded \cup {f}
      BY <1>f, <3>2, WaiterSucceeds
    <3>4. Len(done) >= mark[f]
      BY <3>1 DEF FinishInv, BarrierInv
    <3>5. AD!FlushSucceeds(f)
      BY <3>2, <3>3, <3>4 DEF AD!FlushSucceeds, Begun
    <3> QED BY <3>5 DEF AD!Next
  <2> QED BY <1>4, <2>1, <2>2, <2>3, <2>4, <2>5, <2>6 DEF Flush
<1>5. ASSUME NEW s \in Shutdowns, Shutdown(s) PROVE AD!Next \/ UNCHANGED AD!absVars
  <2>1. CASE ShutdownLock(s)
    BY <2>1, Abstraction DEF ShutdownLock
  <2>2. CASE ShutdownTransition(s)
    <3>1. /\ pc[s] = "lock" /\ pc' = [pc EXCEPT ![s] = "close"]
          /\ UNCHANGED <<result, sent, done, mark>>
      BY <2>2 DEF ShutdownTransition, Goto, LockInv, AdmissionInv
    <3>2. CASE state = "running"
      <4>1. state' # "running"
        BY <2>2, <3>2 DEF ShutdownTransition
      <4>2. Begun' = Begun /\ Succeeded' = Succeeded
        BY <1>t, <3>1 DEF Begun, Succeeded
      <4>3. AD!Close
        BY <3>1, <3>2, <4>1, <4>2 DEF AD!Close, Begun
      <4> QED BY <4>3 DEF AD!Next
    <3>3. CASE state # "running"
      BY <2>2, <3>1, <3>3, CallStutters DEF ShutdownTransition
    <3> QED BY <3>2, <3>3
  <2>3. CASE ShutdownClose(s)
    BY <2>3, CallStutters DEF ShutdownClose, Goto
  <2>4. CASE ShutdownReturn(s)
    <3>1. /\ pc[s] = "await" /\ workerDone /\ TakeErr(s)
          /\ UNCHANGED <<sent, done, mark, state>>
      BY <2>4 DEF ShutdownReturn
    <3>2. /\ s \in Begun \ Succeeded /\ Begun' = Begun /\ Succeeded' = Succeeded \cup {s}
      BY <1>f, <3>1, WaiterSucceeds
    <3>3. queue = << >> /\ item = None /\ state # "running"
      BY <3>1 DEF LockInv, AdmissionInv, WorkerInv
    <3>4. sent = done
      BY <3>3, FlowIndex
    <3>5. AD!ShutdownSucceeds(s)
      BY <3>1, <3>2, <3>3, <3>4 DEF AD!ShutdownSucceeds, Begun
    <3> QED BY <3>5 DEF AD!Next
  <2>5. CASE ShutdownExpired(s)
    <3>1. result[s] = "none"
      BY <1>t, <1>f, <2>5 DEF ShutdownExpired, ReturnInv
    <3> QED BY <2>5, <3>1, CallStutters DEF ShutdownExpired, Return, Goto
  <2> QED BY <1>5, <2>1, <2>2, <2>3, <2>4, <2>5 DEF Shutdown
<1>6. CASE WorkerBarrier \/ WorkerDeliver
  <2>1. item # None /\ done' = Append(done, item) /\ UNCHANGED <<pc, result, sent, mark, state>>
    BY <1>6, ConstantsAssumption DEF WorkerBarrier, WorkerDeliver
  <2>2. AD!Deliver
    BY <2>1, WorkerDelivers
  <2> QED BY <2>2 DEF AD!Next
<1>7. CASE WorkerReceive \/ WorkerShutdown \/ WorkerDrained \/ WorkerRecordErr \/ WorkerLock
             \/ WorkerExit
  <2>1. UNCHANGED <<pc, result, sent, done, mark, state>>
    BY <1>7 DEF WorkerReceive, WorkerShutdown, WorkerDrained, WorkerRecordErr, WorkerLock,
                WorkerExit
  <2> QED BY <2>1, Abstraction
<1>8. CASE WorkerStop
  <2>1. state # "running" /\ state' # "running" /\ UNCHANGED <<pc, result, sent, done, mark>>
    BY <1>8 DEF WorkerStop, LockInv, AdmissionInv, WorkerInv
  <2> QED BY <2>1, Abstraction
<1>9. CASE UNCHANGED vars
  BY <1>9, Abstraction
<1> QED
  BY <1>1, <1>2, <1>3, <1>4, <1>5, <1>6, <1>7, <1>8, <1>9 DEF Next, Run, Quiescent

\* BufferedHandler keeps the promises of AsyncDelivery, for any number of calls and
\* any size: every behaviour of the code is one that the abstract handler allows.
THEOREM Implements == Spec => ImplementsAsyncDelivery
<1>1. Init => AD!Init
  <2> SUFFICES ASSUME Init PROVE AD!Init
    OBVIOUS
  <2>1. Begun = {} /\ Succeeded = {}
    BY DEF Init, Begun, Succeeded
  <2> QED BY <2>1 DEF Init, AD!Init, Begun
<1> QED BY <1>1, StepsMap, TypeCorrect, LockInvCorrect, Flow, FinishInvCorrect, SentOnceHolds,
           PTL DEF Spec, ImplementsAsyncDelivery, AD!Spec
=============================================================================
