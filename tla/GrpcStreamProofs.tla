-------------------------- MODULE GrpcStreamProofs --------------------------
(* Theorems about GrpcStream, for every bound on the messages.              *)
EXTENDS GrpcStream, TLAPS

-----------------------------------------------------------------------------
(* The inductive invariant.                                                 *)

\* once.Do: the line is there when its function is past the logging, and only
\* one goroutine runs it.
OnceInv ==
    /\ once = "unused" =>
          lines = << >> /\ \A p \in Goroutines : place[p] \notin {"logging", "closing"}
    /\ once = "running" =>
          \E p \in Goroutines :
             /\ \/ place[p] = "logging" /\ lines = << >>
                \/ place[p] = "closing" /\ Len(lines) = 1
             /\ \A q \in Goroutines \ {p} : place[q] \notin {"logging", "closing"}
    /\ once = "done" =>
          Len(lines) = 1 /\ \A p \in Goroutines : place[p] \notin {"logging", "closing"}
    /\ \A p \in Goroutines : place[p] = "over" /\ got[p] # "none" => once = "done"
    /\ ~serverStreams /\ returned > 0 => once = "done"

\* What a goroutine has to finalize with happened.
CauseInv ==
    /\ \A p \in Goroutines :
          /\ got[p] = "status" => server = "failed"
          /\ got[p] \in {"canceled", "ctx"} => ctx = "done"
          /\ place[p] \in {"ready", "count"} => got[p] = "none"
          /\ place[p] \in {"finalize", "logging", "closing"} /\ got[p] = "none" =>
                p = "receiver" /\ ~serverStreams /\ server = "ok" /\ recvMsgs = produced
    /\ got["receiver"] = "EOF" => server = "ok" /\ recvMsgs = produced
    /\ got["sender"] = "EOF" => server # "open" \/ ctx = "done"
    /\ got["receiver"] # "ctx" /\ got["sender"] \in {"none", "EOF", "status"}
    /\ got["watcher"] \in {"none", "ctx"}
    /\ place["receiver"] = "count" /\ ~serverStreams => server = "ok"

\* Messages are neither made up nor, while both sides hear each other, lost.
AtCount(p) == IF place[p] = "count" THEN 1 ELSE 0

HandlerAt(where) == IF handler = where THEN 1 ELSE 0

Pending == place["receiver"] \in {"finalize", "logging", "closing"} /\ got["receiver"] = "none"

ReceiveFlow ==
    /\ produced = buffered + recvMsgs + AtCount("receiver")
    /\ ~serverStreams => produced <= 1
    /\ returned + (IF Pending THEN 1 ELSE 0) <= recvMsgs

SendFlow ==
    /\ sentMsgs + AtCount("sender") <= MaxSends
    /\ srvRecvMsgs + inflight + HandlerAt("countReceived") <= sentMsgs + AtCount("sender")

ServerFlow ==
    /\ srvSentMsgs + HandlerAt("countSent") <= MaxMessages
    /\ Connected \/ server = "ok" => produced = srvSentMsgs + HandlerAt("countSent")

FlowInv == ReceiveFlow /\ SendFlow /\ ServerFlow

\* The server's line and its answer.
ServerInv ==
    /\ handler \in {"running", "countSent", "countReceived"} => outcome = "none"
    /\ handler \in {"unwinding", "answering", "over", "crashed"} => outcome \in Outcomes
    /\ server = "ok" => handler = "over" /\ outcome = "ok"
    /\ handler \in {"answering", "over", "crashed"} =>
          srvLines = <<[code |-> ServerCode(outcome), received |-> srvRecvMsgs,
                        sent |-> srvSentMsgs]>>
    /\ handler \notin {"answering", "over", "crashed"} => srvLines = << >>

\* The client's line, once it is written.
LineInv ==
    Len(lines) = 1 =>
        LET line == lines[1] IN
        /\ line.code = "Canceled" => ctx = "done"
        /\ line.code = "Failed" => server = "failed"
        /\ line.by = "watcher" => line.code = "Canceled"
        /\ line.by = "sender" =>
              /\ line.code = "OK" => server # "open" \/ ctx = "done"
              /\ line.sent = sentMsgs
              /\ got["sender"] # "none" /\ place["sender"] \in {"closing", "over"}
        /\ line.by = "receiver" =>
              /\ line.received = recvMsgs
              /\ IF line.code = "OK"
                 THEN server = "ok" /\ recvMsgs = produced
                 ELSE got["receiver"] # "none" /\ place["receiver"] \in {"closing", "over"}
        /\ line.received <= recvMsgs /\ line.sent <= sentMsgs

CallInv == CallTypeOK /\ OnceInv /\ CauseInv /\ FlowInv /\ ServerInv /\ LineInv
-----------------------------------------------------------------------------
USE DEF Goroutines, Callers

\* The steps of the server and of the environment leave the client's side alone.
LEMMA ServerStepsKeepClient ==
  ASSUME \/ HandlerSend \/ HandlerReceive \/ HandlerCount
         \/ \E o \in Outcomes : HandlerEnds(o)
         \/ ServerLog \/ Answer \/ ConnectionBreaks \/ CallIdle
         \/ ContextEnds
  PROVE  UNCHANGED wrapper
BY DEF HandlerSend, HandlerReceive, HandlerCount, HandlerEnds, ServerLog, Answer,
       ConnectionBreaks, CallIdle, Idle, ContextEnds, ServerSend, ServerEnd, wrapper, vars,
       external

\* Neither the client nor the environment ends a call well.
LEMMA ClientStepsKeepServer ==
  ASSUME ClientSteps \/ ClientSends \/ CallIdle
  PROVE  /\ UNCHANGED <<recovers, handler, outcome, srvCounts, srvLines>>
         /\ UNCHANGED produced
         /\ server' = server \/ server' = "failed"
         /\ ctx' = ctx \/ ctx' = "done"
<1>1. UNCHANGED <<recovers, handler, outcome, srvCounts, srvLines>>
  BY DEF ClientSteps, ClientSends, CallIdle, serverVars
<1>2. /\ UNCHANGED produced
      /\ server' = server \/ server' = "failed"
      /\ ctx' = ctx \/ ctx' = "done"
  BY DEF ClientSteps, CallIdle, ClientSends, SendOk, Idle, vars, external, ContextEnds,
         SendCount, SendEOF, SendFails, CloseSendOk, RecvOk, RecvCount, RecvEnd, Watcher,
         WatcherContext, WatcherDone, Finalize, Enter, Pass, LogEnd, CloseDone
<1> QED BY <1>1, <1>2

\* The line is written once and before anybody is told.
LEMMA OnceKept ==
  ASSUME CallInv, CallNext
  PROVE  OnceInv'
<1> USE DEF CallInv, CallTypeOK, TypeOK, CauseInv
<1>1. CASE UNCHANGED wrapper
  BY <1>1 DEF OnceInv, wrapper
<1>2. CASE ClientSends
  BY <1>2 DEF ClientSends, SendOk, Goto, OnceInv
<1>3. CASE SendCount
  BY <1>3 DEF SendCount, Goto, OnceInv
<1>4. CASE SendEOF
  BY <1>4 DEF SendEOF, Ends, Goto, OnceInv
<1>5. CASE SendFails
  BY <1>5 DEF SendFails, Ends, Goto, OnceInv
<1>6. CASE CloseSendOk
  BY <1>6 DEF CloseSendOk, Goto, OnceInv
<1>7. CASE RecvOk
  BY <1>7 DEF RecvOk, Goto, OnceInv
<1>8. CASE RecvCount
  BY <1>8, SMTT(20) DEF RecvCount, Ends, Goto, OnceInv
<1>9. CASE RecvEnd
  BY <1>9 DEF RecvEnd, Ends, Goto, OnceInv
<1>10. CASE WatcherContext
  BY <1>10 DEF WatcherContext, Ends, Goto, OnceInv
<1>11. CASE WatcherDone
  BY <1>11 DEF WatcherDone, Goto, OnceInv
<1>12. ASSUME NEW p \in Goroutines, Enter(p) PROVE OnceInv'
  BY <1>12 DEF Enter, Goto, OnceInv
<1>13. ASSUME NEW p \in Goroutines, Pass(p) PROVE OnceInv'
  BY <1>13 DEF Pass, Leaves, Goto, OnceInv
<1>14. ASSUME NEW p \in Goroutines, LogEnd(p) PROVE OnceInv'
  BY <1>14 DEF LogEnd, Goto, OnceInv
<1>15. ASSUME NEW p \in Goroutines, CloseDone(p) PROVE OnceInv'
  BY <1>15 DEF CloseDone, Leaves, Goto, OnceInv
<1> QED
  BY <1>1, <1>2, <1>3, <1>4, <1>5, <1>6, <1>7, <1>8, <1>9, <1>10, <1>11, <1>12, <1>13,
     <1>14, <1>15, ServerStepsKeepClient DEF CallNext, ClientSteps, Finalize, Watcher

\* What a goroutine has seen stays true: statuses and contexts do not come back.
LEMMA CauseKept ==
  ASSUME CallInv, CallNext
  PROVE  CauseInv'
<1> USE DEF CallInv, CallTypeOK, TypeOK, CauseInv
<1>1. CASE HandlerSend
  BY <1>1 DEF HandlerSend, ServerSend, wrapper, vars, external, Connected, ServerInv
<1>2. CASE Answer
  BY <1>2 DEF Answer, ServerEnd, wrapper, vars, external, counts, Connected
<1>3. CASE ConnectionBreaks
  BY <1>3 DEF ConnectionBreaks, ServerEnd, wrapper, counts, Connected
<1>4. CASE ContextEnds
  BY <1>4 DEF ContextEnds, wrapper, counts
<1>5. CASE UNCHANGED vars
  BY <1>5 DEF vars, external, counts
<1>6. CASE ClientSends
  BY <1>6 DEF ClientSends, SendOk, Goto, external, counts
<1>7. CASE SendCount
  BY <1>7 DEF SendCount, Goto, external
<1>8. CASE SendEOF
  BY <1>8 DEF SendEOF, Ends, Goto, external, counts
<1>9. CASE SendFails
  BY <1>9 DEF SendFails, Ends, Goto, counts
<1>10. CASE CloseSendOk
  BY <1>10 DEF CloseSendOk, Goto, external, counts
<1>11. CASE RecvOk
  BY <1>11 DEF RecvOk, Goto, counts
<1>12. CASE RecvCount
  BY <1>12 DEF RecvCount, Ends, Goto, external, FlowInv, ReceiveFlow, AtCount
<1>13. CASE RecvEnd
  BY <1>13 DEF RecvEnd, Ends, Goto, external, counts, FlowInv, ReceiveFlow, AtCount
<1>14. CASE WatcherContext
  BY <1>14 DEF WatcherContext, Ends, Goto, external, counts
<1>15. CASE WatcherDone
  BY <1>15 DEF WatcherDone, Goto, external, counts
<1>16. ASSUME NEW p \in Goroutines, Enter(p) PROVE CauseInv'
  BY <1>16 DEF Enter, Goto, external, counts
<1>17. ASSUME NEW p \in Goroutines, Pass(p) PROVE CauseInv'
  BY <1>17 DEF Pass, Leaves, Goto, external, counts
<1>18. ASSUME NEW p \in Goroutines, LogEnd(p) PROVE CauseInv'
  BY <1>18 DEF LogEnd, Goto, external, counts
<1>19. ASSUME NEW p \in Goroutines, CloseDone(p) PROVE CauseInv'
  BY <1>19 DEF CloseDone, Leaves, Goto, external, counts
<1>20. CASE HandlerReceive \/ HandlerCount \/ (\E o \in Outcomes : HandlerEnds(o)) \/ ServerLog
            \/ CallIdle
  BY <1>5, <1>20 DEF HandlerReceive, HandlerCount, HandlerEnds, ServerLog, CallIdle, Idle
<1> QED
  BY <1>1, <1>2, <1>3, <1>4, <1>6, <1>7, <1>8, <1>9, <1>10, <1>11, <1>12, <1>13, <1>14,
     <1>15, <1>16, <1>17, <1>18, <1>19, <1>20 DEF CallNext, ClientSteps, Finalize, Watcher

\* The client has received what was delivered to it and is not waiting for it.
LEMMA ReceiveFlowKept ==
  ASSUME CallInv, CallNext
  PROVE  ReceiveFlow'
<1> USE DEF CallInv, CallTypeOK, TypeOK, FlowInv, ReceiveFlow, AtCount, Pending
<1>1. CASE UNCHANGED <<serverStreams, produced, buffered, place, got, recvMsgs, returned>>
  BY <1>1
<1>2. CASE ServerSend
  BY <1>2 DEF ServerSend, wrapper, counts
<1>3. CASE SendCount \/ SendEOF \/ SendFails \/ CloseSendOk \/ WatcherContext \/ WatcherDone \/ SendOk
  <2>1. /\ place'["receiver"] = place["receiver"] /\ got'["receiver"] = got["receiver"]
        /\ UNCHANGED <<serverStreams, produced, buffered, recvMsgs, returned>>
    BY <1>3 DEF SendCount, SendEOF, SendFails, CloseSendOk, SendOk, WatcherContext, WatcherDone,
                Ends, Goto, external, counts
  <2> QED BY <2>1
<1>4. CASE RecvOk
  BY <1>4 DEF RecvOk, Goto, counts
<1>5. CASE RecvCount
  <2>1. CASE serverStreams
    <3>1. /\ place["receiver"] = "count" /\ place'["receiver"] = "ready"
          /\ recvMsgs' = recvMsgs + 1 /\ returned' = returned + 1
          /\ UNCHANGED <<serverStreams, produced, buffered>>
      BY <1>5, <2>1 DEF RecvCount, Goto, external
    <3> QED BY <2>1, <3>1
  <2>2. CASE ~serverStreams
    BY <1>5, <2>2 DEF RecvCount, Ends, Goto, external
  <2> QED BY <2>1, <2>2
<1>6. CASE RecvEnd
  BY <1>6 DEF RecvEnd, Ends, Goto, external, counts
<1>7. ASSUME NEW p \in Goroutines, Enter(p) \/ LogEnd(p) PROVE ReceiveFlow'
  BY <1>7 DEF Enter, LogEnd, Goto, external, counts
<1>8. ASSUME NEW p \in Goroutines, Pass(p) \/ CloseDone(p) PROVE ReceiveFlow'
  <2>1. /\ place[p] \in {"finalize", "closing"} /\ Leaves(p)
        /\ UNCHANGED <<serverStreams, produced, buffered, recvMsgs, got>>
    BY <1>8 DEF Pass, CloseDone, external, counts
  <2>2. CASE got[p] = "none"
    <3>1. /\ p = "receiver" /\ Pending /\ place'["receiver"] = "ready"
          /\ returned' = returned + 1
      BY <2>1, <2>2 DEF Leaves, Goto, CauseInv
    <3> QED BY <2>1, <3>1
  <2>3. CASE got[p] # "none"
    <3>1. returned' = returned
      BY <2>1, <2>3 DEF Leaves
    <3>2. place' = [place EXCEPT ![p] = "over"]
      BY <2>1, <2>3 DEF Leaves, Goto
    <3>3. AtCount("receiver")' = AtCount("receiver") /\ (Pending' <=> Pending)
      BY <2>1, <2>3, <3>2
    <3> QED BY <2>1, <3>1, <3>3
  <2> QED BY <2>2, <2>3
<1> QED
  <2>1. CASE ConnectionBreaks \/ ContextEnds
    BY <1>1, <2>1 DEF ConnectionBreaks, ServerEnd, ContextEnds, wrapper, counts
  <2>2. CASE HandlerSend
    BY <1>1, <1>2, <2>2 DEF HandlerSend, vars, external, counts
  <2>3. CASE HandlerReceive \/ HandlerCount \/ (\E o \in Outcomes : HandlerEnds(o)) \/ ServerLog
             \/ CallIdle
    BY <1>1, <2>3 DEF HandlerReceive, HandlerCount, HandlerEnds, ServerLog, CallIdle, Idle, vars,
                      external, counts
  <2>4. CASE Answer
    BY <1>1, <2>4 DEF Answer, ServerEnd, wrapper, vars, external, counts
  <2> QED
    BY <1>3, <1>4, <1>5, <1>6, <1>7, <1>8, <2>1, <2>2, <2>3, <2>4
    DEF CallNext, ClientSends, ClientSteps, Finalize, Watcher

\* The handler receives no message that the client has not sent.
LEMMA SendFlowKept ==
  ASSUME CallInv, CallNext
  PROVE  SendFlow'
<1> USE ConstantsAssumption DEF CallInv, CallTypeOK, TypeOK, FlowInv, SendFlow, AtCount, HandlerAt
<1>1. ASSUME UNCHANGED <<srvRecvMsgs, inflight, handler, sentMsgs>>,
             AtCount("sender")' = AtCount("sender")
      PROVE  SendFlow'
  BY <1>1
<1>2. CASE HandlerReceive
  BY <1>2 DEF HandlerReceive, vars, counts, srvCounts
<1>3. CASE HandlerCount
  BY <1>3 DEF HandlerCount, vars, counts
<1>4. CASE ClientSends
  <2>1. /\ place["sender"] = "ready" /\ place'["sender"] = "count" /\ sentMsgs < MaxSends
        /\ UNCHANGED <<srvRecvMsgs, handler, sentMsgs>>
    BY <1>4 DEF ClientSends, SendOk, Goto, counts, srvCounts
  <2>2. inflight' = inflight \/ inflight' = inflight + 1
    <3>1. CASE Connected
      BY <1>4, <3>1 DEF ClientSends
    <3>2. CASE ~Connected
      BY <1>4, <3>2 DEF ClientSends
    <3> QED BY <3>1, <3>2
  <2> QED BY <2>1, <2>2
<1>5. CASE SendCount /\ UNCHANGED serverVars
  <2>1. /\ place["sender"] = "count" /\ place'["sender"] = "ready" /\ sentMsgs' = sentMsgs + 1
        /\ UNCHANGED <<srvRecvMsgs, inflight, handler>>
    BY <1>5 DEF SendCount, Goto, serverVars, srvCounts
  <2> QED BY <2>1
<1>6. CASE ClientSteps /\ ~SendCount
  <2>1. UNCHANGED <<srvRecvMsgs, inflight, handler>>
    BY <1>6 DEF ClientSteps, serverVars, srvCounts
  <2>2. sentMsgs' = sentMsgs /\ AtCount("sender")' = AtCount("sender")
    <3>1. CASE SendEOF \/ SendFails \/ CloseSendOk \/ WatcherContext \/ WatcherDone \/ RecvOk
                \/ RecvEnd \/ RecvCount
      BY <3>1 DEF SendEOF, SendFails, CloseSendOk, WatcherContext, WatcherDone, RecvOk, RecvEnd,
                  RecvCount, Ends, Goto, counts
    <3>2. CASE ContextEnds
      BY <3>2 DEF ContextEnds, wrapper, counts
    <3>3. ASSUME NEW p \in Goroutines, Enter(p) \/ LogEnd(p) \/ Pass(p) \/ CloseDone(p)
          PROVE  sentMsgs' = sentMsgs /\ AtCount("sender")' = AtCount("sender")
      BY <3>3 DEF Enter, LogEnd, Pass, CloseDone, Leaves, Goto, counts
    <3> QED BY <1>6, <3>1, <3>2, <3>3 DEF ClientSteps, Finalize, Watcher
  <2> QED BY <1>1, <2>1, <2>2
<1>7. ASSUME UNCHANGED <<srvRecvMsgs, inflight, wrapper>>,
             handler # "countReceived", handler' # "countReceived"
      PROVE  SendFlow'
  BY <1>7 DEF wrapper, counts
<1>8. CASE HandlerSend \/ (\E o \in Outcomes : HandlerEnds(o)) \/ ServerLog \/ Answer
  <2>1. UNCHANGED wrapper
    BY <1>8, ServerStepsKeepClient
  <2>2. /\ UNCHANGED <<srvRecvMsgs, inflight>>
        /\ handler # "countReceived" /\ handler' # "countReceived"
    BY <1>8 DEF HandlerSend, HandlerEnds, ServerLog, Answer, srvCounts
  <2> QED BY <1>7, <2>1, <2>2
<1>9. CASE ConnectionBreaks \/ CallIdle
  <2>1. UNCHANGED wrapper /\ UNCHANGED serverVars
    BY <1>9, ServerStepsKeepClient DEF ConnectionBreaks, CallIdle
  <2> QED BY <1>1, <2>1 DEF wrapper, counts, serverVars, srvCounts
<1> QED
  BY <1>2, <1>3, <1>4, <1>5, <1>6, <1>8, <1>9 DEF CallNext, ClientSteps

\* While both sides hear each other, what the handler sent is delivered.
LEMMA ServerFlowKept ==
  ASSUME CallInv, CallNext
  PROVE  ServerFlow'
<1> USE ConstantsAssumption DEF CallInv, CallTypeOK, TypeOK, FlowInv, ServerFlow, HandlerAt, Connected
<1>1. CASE HandlerSend
  <2>1. /\ srvSentMsgs < MaxMessages /\ srvSentMsgs' = srvSentMsgs
        /\ handler = "running" /\ handler' = "countSent"
        /\ UNCHANGED <<server, ctx>>
    BY <1>1 DEF HandlerSend, ServerSend, vars, external, srvCounts
  <2>2. CASE Connected
    BY <1>1, <2>1, <2>2 DEF HandlerSend, ServerSend
  <2>3. CASE ~Connected
    BY <2>1, <2>3 DEF ServerInv
  <2> QED BY <2>2, <2>3
<1>2. CASE HandlerReceive
  BY <1>2 DEF HandlerReceive, vars, external, srvCounts
<1>3. CASE HandlerCount
  BY <1>3 DEF HandlerCount, vars, external
<1>4. CASE \E o \in Outcomes : HandlerEnds(o)
  BY <1>4 DEF HandlerEnds, vars, external, srvCounts
<1>5. CASE ServerLog
  BY <1>5 DEF ServerLog, vars, external, srvCounts
<1>6. CASE Answer
  <2>1. handler = "answering" /\ handler' \in {"over", "crashed"} /\ srvSentMsgs' = srvSentMsgs
    BY <1>6 DEF Answer, srvCounts
  <2>2. CASE Connected
    BY <1>6, <2>1, <2>2 DEF Answer, ServerEnd
  <2>3. CASE ~Connected
    BY <1>6, <2>1, <2>3 DEF Answer, vars, external
  <2> QED BY <2>2, <2>3
<1>7. CASE ConnectionBreaks
  BY <1>7 DEF ConnectionBreaks, ServerEnd, serverVars, srvCounts
<1>8. CASE ClientSends
  BY <1>8 DEF ClientSends, SendOk, external, srvCounts
<1>9. CASE ClientSteps \/ CallIdle
  BY <1>9, ClientStepsKeepServer DEF srvCounts
<1> QED
  BY <1>1, <1>2, <1>3, <1>4, <1>5, <1>6, <1>7, <1>8, <1>9 DEF CallNext

\* The server's line is what it counted, and only a well-ended handler answers well.
LEMMA ServerKept ==
  ASSUME CallInv, CallNext
  PROVE  ServerInv'
<1> USE DEF CallInv, CallTypeOK, TypeOK, ServerInv
<1>1. CASE HandlerSend
  BY <1>1 DEF HandlerSend, ServerSend, vars, external, srvCounts
<1>2. CASE HandlerReceive
  BY <1>2 DEF HandlerReceive, vars, external, srvCounts
<1>3. CASE HandlerCount
  BY <1>3 DEF HandlerCount, vars, external
<1>4. CASE \E o \in Outcomes : HandlerEnds(o)
  BY <1>4 DEF HandlerEnds, vars, external, srvCounts
<1>5. CASE ServerLog
  <2>1. srvLines' = <<[code |-> ServerCode(outcome), received |-> srvRecvMsgs,
                       sent |-> srvSentMsgs]>>
    BY <1>5 DEF ServerLog
  <2> QED BY <1>5, <2>1 DEF ServerLog, ServerCode, vars, external, srvCounts
<1>6. CASE Answer
  <2>1. /\ handler = "answering" /\ handler' \in {"over", "crashed"}
        /\ outcome = "ok" => handler' = "over"
        /\ UNCHANGED <<outcome, srvRecvMsgs, srvSentMsgs, srvLines>>
        /\ server' = "ok" => server = "ok" \/ outcome = "ok"
    BY <1>6 DEF Answer, ServerEnd, vars, external, srvCounts
  <2> QED BY <2>1 DEF ServerCode
<1>7. CASE ConnectionBreaks
  BY <1>7 DEF ConnectionBreaks, ServerEnd, serverVars, srvCounts, ServerCode
<1>8. CASE ClientSends \/ ClientSteps \/ CallIdle
  BY <1>8, ClientStepsKeepServer DEF srvCounts, ServerCode
<1> QED
  BY <1>1, <1>2, <1>3, <1>4, <1>5, <1>6, <1>7, <1>8 DEF CallNext

ClientLines == [code : Codes, received : Nat, sent : Nat, by : Goroutines]

\* The line is a line.
LEMMA FirstLine ==
  ASSUME NEW l \in Seq(ClientLines), Len(l) = 1
  PROVE  l[1] \in ClientLines
OBVIOUS

\* A step that does not log adds to the counters and ends what was open, at most.
LEMMA LineStays ==
  ASSUME CallInv, UNCHANGED lines,
         ctx = "done" => ctx' = "done",
         server # "open" => server' = server,
         server = "ok" => produced' = produced,
         recvMsgs' \in Nat, sentMsgs' \in Nat, produced' \in Nat,
         recvMsgs' >= recvMsgs, sentMsgs' >= sentMsgs, recvMsgs' <= produced',
         place["receiver"] \in {"closing", "over"} /\ got["receiver"] # "none" =>
            /\ place'["receiver"] \in {"closing", "over"} /\ got'["receiver"] # "none"
            /\ recvMsgs' = recvMsgs,
         place["sender"] \in {"closing", "over"} /\ got["sender"] # "none" =>
            /\ place'["sender"] \in {"closing", "over"} /\ got'["sender"] # "none"
            /\ sentMsgs' = sentMsgs
  PROVE  LineInv'
<1> USE DEF CallInv, CallTypeOK, TypeOK, LineInv, CauseInv
<1>1. CASE Len(lines) # 1
  BY <1>1
<1>2. CASE Len(lines) = 1
  <2> DEFINE line == lines[1]
  <2>1. line \in ClientLines
    BY <1>2, FirstLine DEF ClientLines
  <2>2. /\ line.received \in Nat /\ line.sent \in Nat /\ line.by \in Goroutines
        /\ lines'[1] = line
    BY <2>1 DEF ClientLines
  <2>3. /\ line.code = "Canceled" => ctx' = "done"
        /\ line.code = "Failed" => server' = "failed"
        /\ line.by = "watcher" => line.code = "Canceled"
        /\ line.received <= recvMsgs' /\ line.sent <= sentMsgs'
    BY <1>2, <2>2, SMTT(20)
  <2>4. CASE line.by = "sender"
    BY <1>2, <2>2, <2>3, <2>4
  <2>5. CASE line.by = "receiver" /\ line.code = "OK"
    BY <1>2, <2>2, <2>3, <2>5
  <2>6. CASE line.by = "receiver" /\ line.code # "OK"
    BY <1>2, <2>2, <2>3, <2>6
  <2>7. CASE line.by = "watcher"
    BY <1>2, <2>2, <2>3, <2>7
  <2> QED BY <2>2, <2>4, <2>5, <2>6, <2>7
<1> QED BY <1>1, <1>2

\* Every variable keeps its type and every counter its bound.
LEMMA ClientTypeKept ==
  ASSUME CallInv, CallNext
  PROVE  TypeOK'
<1> USE ConstantsAssumption
    DEF CallInv, CallTypeOK, TypeOK, FlowInv, ReceiveFlow, SendFlow, AtCount, HandlerAt, Pending,
        Errors
<1>1. CASE UNCHANGED vars
  BY <1>1 DEF vars, external, counts
<1>2. CASE ServerSend
  <2>1. produced' \in 0 .. MaxMessages /\ buffered' \in 0 .. MaxMessages
    <3>1. produced < MaxMessages
      BY <1>2 DEF ServerSend
    <3> QED BY <1>2, <3>1 DEF ServerSend
  <2> QED BY <1>2, <2>1 DEF ServerSend, wrapper, counts
<1>3. CASE ContextEnds \/ ServerEnd("ok") \/ ServerEnd("failed")
  BY <1>3 DEF ContextEnds, ServerEnd, wrapper, counts
<1>4. CASE SendOk
  BY <1>4 DEF SendOk, Goto, external, counts
<1>5. CASE SendCount
  BY <1>5 DEF SendCount, Goto, external
<1>6. CASE SendEOF
  BY <1>6 DEF SendEOF, Ends, Goto, external, counts
<1>7. CASE SendFails
  BY <1>7 DEF SendFails, Ends, Goto, counts
<1>8. CASE CloseSendOk
  BY <1>8 DEF CloseSendOk, Goto, external, counts
<1>9. CASE RecvOk
  BY <1>9 DEF RecvOk, Goto, counts
<1>10. CASE RecvCount
  <2>1. recvMsgs' \in 0 .. MaxMessages
    BY <1>10 DEF RecvCount
  <2>2. returned' \in 0 .. recvMsgs'
    BY <1>10, <2>1 DEF RecvCount
  <2> QED BY <1>10, <2>1, <2>2 DEF RecvCount, Ends, Goto, external
<1>11. CASE RecvEnd
  BY <1>11 DEF RecvEnd, Ends, Goto, external, counts
<1>12. CASE WatcherContext
  BY <1>12 DEF WatcherContext, Ends, Goto, external, counts
<1>13. CASE WatcherDone
  BY <1>13 DEF WatcherDone, Goto, external, counts
<1>14. ASSUME NEW p \in Goroutines, Enter(p) PROVE TypeOK'
  BY <1>14 DEF Enter, Goto, external, counts
<1>15. ASSUME NEW p \in Goroutines, LogEnd(p) PROVE TypeOK'
  <2>1. Code(got[p]) \in Codes
    BY DEF Code, Codes
  <2>2. [code |-> Code(got[p]), received |-> recvMsgs, sent |-> sentMsgs, by |-> p]
            \in [code : Codes, received : Nat, sent : Nat, by : Goroutines]
    BY <2>1
  <2>3. lines' \in Seq([code : Codes, received : Nat, sent : Nat, by : Goroutines])
    BY <1>15, <2>2 DEF LogEnd
  <2> QED BY <1>15, <2>3 DEF LogEnd, Goto, external, counts
<1>16. ASSUME NEW p \in Goroutines, Pass(p) \/ CloseDone(p) PROVE TypeOK'
  <2>1. returned' \in 0 .. recvMsgs
    BY <1>16 DEF Pass, CloseDone, Leaves, CauseInv
  <2>2. place' \in [Goroutines -> {"ready", "count", "finalize", "logging", "closing", "over"}]
    BY <1>16 DEF Pass, CloseDone, Leaves, Goto
  <2> QED BY <1>16, <2>1, <2>2 DEF Pass, CloseDone, external, counts
<1> QED
  BY <1>1, <1>2, <1>3, <1>4, <1>5, <1>6, <1>7, <1>8, <1>9, <1>10, <1>11, <1>12, <1>13, <1>14,
     <1>15, <1>16
  DEF CallNext, HandlerSend, HandlerReceive, HandlerCount, HandlerEnds, ServerLog, Answer,
      ConnectionBreaks, ClientSends, ClientSteps, CallIdle, Idle, Finalize, Watcher

\* The same of the server's side.
LEMMA ServerTypeKept ==
  ASSUME CallInv, CallNext
  PROVE  CallTypeOK'
<1> USE ConstantsAssumption
    DEF CallInv, CallTypeOK, TypeOK, FlowInv, SendFlow, ServerFlow, AtCount, HandlerAt, Outcomes
<1>1. TypeOK'
  BY ClientTypeKept
<1>2. CASE ServerLog
  <2>1. [code |-> ServerCode(outcome), received |-> srvRecvMsgs, sent |-> srvSentMsgs]
            \in [code : ServerCodes, received : Nat, sent : Nat]
    BY <1>2 DEF ServerLog, ServerInv, ServerCode, ServerCodes
  <2>2. srvLines' \in Seq([code : ServerCodes, received : Nat, sent : Nat])
    BY <1>2, <2>1 DEF ServerLog
  <2> QED BY <1>1, <1>2, <2>2 DEF ServerLog, srvCounts
<1>3. CASE HandlerSend \/ HandlerReceive \/ (\E o \in Outcomes : HandlerEnds(o)) \/ Answer
  BY <1>1, <1>3, SMTT(20) DEF HandlerSend, HandlerReceive, HandlerEnds, Answer, srvCounts
<1>4. CASE HandlerCount
  BY <1>1, <1>4 DEF HandlerCount
<1>5. CASE ClientSends
  <2>1. sentMsgs < MaxSends /\ place["sender"] = "ready"
    BY <1>5 DEF ClientSends, SendOk
  <2>2. inflight' = inflight \/ inflight' = inflight + 1
    <3>1. CASE Connected
      BY <1>5, <3>1 DEF ClientSends
    <3>2. CASE ~Connected
      BY <1>5, <3>2 DEF ClientSends
    <3> QED BY <3>1, <3>2
  <2> QED BY <1>1, <1>5, <2>1, <2>2 DEF ClientSends, srvCounts
<1>6. CASE ConnectionBreaks \/ ClientSteps \/ CallIdle
  BY <1>1, <1>6 DEF ConnectionBreaks, ClientSteps, CallIdle, serverVars, srvCounts
<1> QED
  BY <1>2, <1>3, <1>4, <1>5, <1>6 DEF CallNext

\* Part of a sum is not more than the sum.
LEMMA PartBound ==
  ASSUME NEW a \in Nat, NEW b \in Nat, NEW c \in Nat, NEW k \in {0, 1}, a = b + c + k
  PROVE  c <= a
OBVIOUS

\* The line stays true.
LEMMA LineKept ==
  ASSUME CallInv, CallNext
  PROVE  LineInv'
<1>1. CallTypeOK' /\ FlowInv'
  BY ServerTypeKept, ReceiveFlowKept, SendFlowKept, ServerFlowKept DEF FlowInv
<1>2. /\ recvMsgs' \in Nat /\ sentMsgs' \in Nat /\ produced' \in Nat
      /\ recvMsgs' <= produced'
  <2>1. recvMsgs' \in Nat /\ sentMsgs' \in Nat /\ produced' \in Nat /\ buffered' \in Nat
    BY <1>1, ConstantsAssumption DEF CallTypeOK, TypeOK
  <2>2. PICK k \in {0, 1} : produced' = buffered' + recvMsgs' + k
    BY <1>1 DEF FlowInv, ReceiveFlow, AtCount, Pending
  <2> QED BY <2>1, <2>2, PartBound
<1> USE DEF CallInv, CallTypeOK, TypeOK, CauseInv
<1>3. \/ UNCHANGED vars \/ ServerSend \/ ServerEnd("ok") \/ ServerEnd("failed") \/ ContextEnds
      \/ SendOk \/ SendCount \/ SendEOF \/ SendFails \/ CloseSendOk
      \/ RecvOk \/ RecvCount \/ RecvEnd \/ WatcherContext \/ WatcherDone
      \/ \E p \in Goroutines : Enter(p) \/ Pass(p) \/ LogEnd(p) \/ CloseDone(p)
  BY DEF CallNext, HandlerSend, HandlerReceive, HandlerCount, HandlerEnds, ServerLog, Answer,
         ConnectionBreaks, ClientSends, ClientSteps, CallIdle, Idle, Finalize, Watcher
<1>4. CASE UNCHANGED wrapper
  BY <1>2, <1>3, <1>4, LineStays
  DEF wrapper, vars, external, counts, ServerSend, ServerEnd, ContextEnds, SendOk, SendCount,
      SendEOF, SendFails, CloseSendOk, RecvOk, RecvCount, RecvEnd, WatcherContext, WatcherDone,
      Enter, Pass, LogEnd, CloseDone, Goto, Ends, Leaves
<1>5. CASE SendOk \/ SendCount \/ SendEOF \/ SendFails \/ CloseSendOk
  BY <1>2, <1>5, LineStays
  DEF SendOk, SendCount, SendEOF, SendFails, CloseSendOk, Goto, Ends, external, counts
<1>6. CASE RecvOk \/ RecvCount \/ RecvEnd
  BY <1>2, <1>6, LineStays DEF RecvOk, RecvCount, RecvEnd, Goto, Ends, external, counts
<1>7. CASE WatcherContext \/ WatcherDone
  BY <1>2, <1>7, LineStays DEF WatcherContext, WatcherDone, Goto, Ends, external, counts
<1>8. ASSUME NEW p \in Goroutines, Enter(p) PROVE LineInv'
  BY <1>2, <1>8, LineStays DEF Enter, Goto, external, counts
<1>9. ASSUME NEW p \in Goroutines, Pass(p) \/ CloseDone(p) PROVE LineInv'
  BY <1>2, <1>9, LineStays DEF Pass, CloseDone, Leaves, Goto, external, counts
<1>10. ASSUME NEW p \in Goroutines, LogEnd(p) PROVE LineInv'
  <2> DEFINE line == [code |-> Code(got[p]), received |-> recvMsgs, sent |-> sentMsgs, by |-> p]
  <2>1. lines = << >>
    BY <1>10 DEF LogEnd, OnceInv
  <2>2. lines' = <<line>>
    BY <1>10, <2>1 DEF LogEnd
  <2>3. /\ place[p] = "logging" /\ place'[p] = "closing"
        /\ UNCHANGED <<got, recvMsgs, sentMsgs, server, ctx, produced, serverStreams>>
    BY <1>10 DEF LogEnd, Goto, external, counts
  <2>4. /\ line.code = Code(got[p]) /\ line.received = recvMsgs /\ line.sent = sentMsgs
        /\ line.by = p
    OBVIOUS
  <2>5. lines'[1] = line
    BY <2>2
  <2> HIDE DEF line
  <2>6. got[p] \in Errors
    OBVIOUS
  <2>7. /\ line.code = "Canceled" => got[p] \in {"ctx", "canceled"}
        /\ line.code = "Failed" => got[p] = "status"
        /\ line.code = "OK" => got[p] \in {"none", "EOF"}
        /\ line.code # "OK" => got[p] # "none"
    BY <2>4, <2>6 DEF Code, Errors
  <2>8. CASE p = "watcher"
    BY <2>3, <2>4, <2>5, <2>7, <2>8 DEF LineInv, Code
  <2>9. CASE p = "sender"
    BY <2>3, <2>4, <2>5, <2>7, <2>9 DEF LineInv
  <2>10. CASE p = "receiver"
    BY <2>3, <2>4, <2>5, <2>7, <2>10 DEF LineInv
  <2> QED BY <2>8, <2>9, <2>10
<1> QED
  <2>1. CASE UNCHANGED vars \/ ServerSend \/ ServerEnd("ok") \/ ServerEnd("failed") \/ ContextEnds
    BY <1>4, <2>1 DEF ServerSend, ServerEnd, ContextEnds, wrapper, vars
  <2> QED BY <1>3, <1>5, <1>6, <1>7, <1>8, <1>9, <1>10, <2>1

-----------------------------------------------------------------------------
\* StreamClientInterceptor and StreamServerInterceptor: a call that has just begun.
LEMMA CallInvInit == CallInit => CallInv
<1> SUFFICES ASSUME CallInit PROVE CallInv
  OBVIOUS
<1> USE ConstantsAssumption DEF CallInit, Init
<1>1. lines \in Seq([code : Codes, received : Nat, sent : Nat, by : Goroutines])
  OBVIOUS
<1>2. srvLines \in Seq([code : ServerCodes, received : Nat, sent : Nat])
  OBVIOUS
<1>3. /\ place \in [Goroutines -> {"ready", "count", "finalize", "logging", "closing", "over"}]
      /\ got \in [Goroutines -> Errors]
  BY DEF Errors
<1>4. 0 \in 0 .. MaxMessages /\ 0 \in 0 .. MaxSends
  OBVIOUS
<1>5. TypeOK
  <2>1. serverStreams \in BOOLEAN /\ doneClosed \in BOOLEAN
    OBVIOUS
  <2>2. returned \in 0 .. recvMsgs
    OBVIOUS
  <2> QED BY <1>1, <1>3, <1>4, <2>1, <2>2 DEF TypeOK
<1>6. CallTypeOK
  BY <1>2, <1>4, <1>5 DEF CallTypeOK
<1>7. OnceInv /\ CauseInv /\ ServerInv /\ LineInv
  BY DEF OnceInv, CauseInv, ServerInv, LineInv
<1>8. FlowInv
  BY DEF FlowInv, ReceiveFlow, SendFlow, ServerFlow, AtCount, HandlerAt, Pending
<1> QED BY <1>6, <1>7, <1>8 DEF CallInv

\* finalize, logEnd and StreamServerInterceptor: the once, the causes of an end, the
\* flow of messages and both lines stay in step, whoever moves.
THEOREM CallInvHolds == CallSpec => []CallInv
<1>1. CallInit => CallInv
  BY CallInvInit
<1>2. ASSUME CallInv, [CallNext]_callVars PROVE CallInv'
  <2>1. CASE CallNext
    <3>1. CallTypeOK' /\ OnceInv' /\ CauseInv' /\ ServerInv' /\ LineInv'
      BY <1>2, <2>1, ServerTypeKept, OnceKept, CauseKept, ServerKept, LineKept
    <3>2. FlowInv'
      BY <1>2, <2>1, ReceiveFlowKept, SendFlowKept, ServerFlowKept DEF FlowInv
    <3> QED BY <3>1, <3>2 DEF CallInv
  <2>2. CASE UNCHANGED callVars
    <3> USE <1>2, <2>2 DEF callVars, vars, serverVars, external, counts, srvCounts, CallInv
    <3>1. CallTypeOK'
      BY DEF CallTypeOK, TypeOK
    <3>2. OnceInv'
      BY DEF OnceInv
    <3>3. CauseInv'
      BY DEF CauseInv
    <3>4. FlowInv'
      BY DEF FlowInv, ReceiveFlow, SendFlow, ServerFlow, AtCount, HandlerAt, Pending, Connected
    <3>5. ServerInv'
      BY DEF ServerInv, ServerCode
    <3>6. LineInv'
      BY DEF LineInv
    <3> QED BY <3>1, <3>2, <3>3, <3>4, <3>5, <3>6
  <2> QED BY <1>2, <2>1, <2>2
<1> QED BY <1>1, <1>2, PTL DEF CallSpec

\* Every variable of both sides keeps its type and every counter its bound.
THEOREM CallTypeCorrect == CallSpec => []CallTypeOK
<1>1. CallInv => CallTypeOK
  BY DEF CallInv
<1> QED BY <1>1, CallInvHolds, PTL

\* finalize: nobody is told of the end of a stream before its line is written.
THEOREM LineBeforeTold == CallSpec => []LoggedBeforeTold
<1>1. ASSUME CallInv PROVE LoggedBeforeTold
  <2>1. OnceInv /\ once \in {"unused", "running", "done"}
    BY <1>1 DEF CallInv, CallTypeOK, TypeOK
  <2>2. once = "done" => Len(lines) = 1
    BY <2>1 DEF OnceInv
  <2>3. Len(lines) = 0 \/ Len(lines) = 1
    <3>1. CASE once = "running"
      BY <2>1, <3>1 DEF OnceInv
    <3>2. CASE once = "unused"
      BY <2>1, <3>2 DEF OnceInv
    <3> QED BY <2>1, <2>2, <3>1, <3>2
  <2>4. Len(lines) <= 1
    <3>1. 0 <= 1 /\ 1 <= 1
      OBVIOUS
    <3> QED BY <2>3, <3>1
  <2>5. \A p \in Goroutines : place[p] = "over" /\ got[p] # "none" => Len(lines) = 1
    BY <2>1, <2>2 DEF OnceInv
  <2>6. ~serverStreams /\ returned > 0 => Len(lines) = 1
    BY <2>1, <2>2 DEF OnceInv
  <2> QED BY <2>4, <2>5, <2>6 DEF LoggedBeforeTold
<1> QED BY <1>1, CallInvHolds, PTL

\* logEnd and the deferred tail of StreamServerInterceptor: both lines tell what
\* happened, and those of a clean end tell the same.
THEOREM BothLinesAgree == CallSpec => []LinesAgree
<1>1. ASSUME CallInv PROVE LinesAgree
  <2> USE <1>1 DEF CallInv, CallTypeOK, TypeOK
  <2>1. ASSUME NEW i \in 1 .. Len(lines)
        PROVE  i = 1 /\ Len(lines) = 1 /\ lines[i] \in ClientLines
    <3>1. Len(lines) = 1
      BY DEF OnceInv
    <3>2. i = 1
      BY <3>1
    <3>3. lines \in Seq(ClientLines)
      BY DEF ClientLines
    <3> QED BY <3>1, <3>2, <3>3, FirstLine
  <2>6. LineHasCause
    <3> SUFFICES ASSUME NEW i \in 1 .. Len(lines)
                 PROVE  /\ lines[i].code = "Canceled" => ctx = "done"
                        /\ lines[i].code = "Failed" => server = "failed"
                        /\ lines[i].code = "OK" =>
                              \/ server = "ok"
                              \/ lines[i].by = "sender" /\ (server # "open" \/ ctx = "done")
                        /\ lines[i].by = "watcher" => lines[i].code = "Canceled"
                        /\ lines[i].by = "receiver" => lines[i].received = recvMsgs
                        /\ lines[i].by = "sender" => lines[i].sent = sentMsgs
                        /\ lines[i].received <= recvMsgs /\ lines[i].sent <= sentMsgs
      BY DEF LineHasCause
    <3> DEFINE line == lines[i]
    <3>1. i = 1 /\ Len(lines) = 1 /\ line \in ClientLines
      BY <2>1
    <3>2. line.by \in Goroutines
      BY <3>1 DEF ClientLines
    <3>3. line = lines[1]
      BY <3>1
    <3> HIDE DEF line
    <3> QED BY <3>1, <3>2, <3>3 DEF LineInv, line
  <2>2. Len(srvLines) = IF handler \in {"answering", "over", "crashed"} THEN 1 ELSE 0
    BY DEF ServerInv
  <2>3. ASSUME NEW i \in 1 .. Len(srvLines)
        PROVE  /\ srvLines[i].received = srvRecvMsgs /\ srvLines[i].sent = srvSentMsgs
               /\ srvLines[i].received <= sentMsgs + IF place["sender"] = "count" THEN 1 ELSE 0
    BY <2>2 DEF ServerInv, FlowInv, SendFlow, AtCount, HandlerAt
  <2>4. ASSUME server = "ok"
        PROVE  srvLines # << >> /\ srvLines[1].code = "OK" /\ srvLines[1].sent = produced
    <3>1. handler = "over" /\ outcome = "ok"
      BY <2>4 DEF ServerInv
    <3>2. produced = srvSentMsgs
      BY <2>4, <3>1 DEF FlowInv, ServerFlow, HandlerAt
    <3>3. srvLines = <<[code |-> "OK", received |-> srvRecvMsgs, sent |-> srvSentMsgs]>>
      BY <3>1 DEF ServerInv, ServerCode
    <3> QED BY <3>2, <3>3
  <2>5. ASSUME NEW i \in 1 .. Len(lines), lines[i].by = "receiver", lines[i].code = "OK"
        PROVE  server = "ok" /\ lines[i].received = produced
    <3>1. i = 1 /\ Len(lines) = 1
      BY <2>1
    <3> QED BY <2>5, <3>1 DEF LineInv
  <2> QED BY <2>2, <2>3, <2>4, <2>5, <2>6 DEF LinesAgree
<1> QED BY <1>1, CallInvHolds, PTL
=============================================================================
