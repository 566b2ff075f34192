----------------------------- MODULE GrpcStream -----------------------------
(***************************************************************************)
(* One streaming call with both interceptors of grpc/interceptor.go: the   *)
(* wrapped client stream of ClientStream against the handler that          *)
(* StreamServerInterceptor runs with a wrappedServerStream. Each side      *)
(* counts its own messages and writes its own line.                        *)
(*                                                                         *)
(* grpc between them is external: a message or the status may be on its    *)
(* way when the context ends, the client aborts or the connection breaks,  *)
(* and is then lost.                                                       *)
(***************************************************************************)
EXTENDS ClientStream

VARIABLES
    recovers,               \* ~opts.DisablePanicRecovery
    handler, outcome,       \* where the server is, and how the handler ended
    inflight,               \* external: messages the client sent, not yet received
    srvRecvMsgs, srvSentMsgs, srvLines

srvCounts == <<srvRecvMsgs, srvSentMsgs>>
serverVars == <<recovers, handler, outcome, inflight, srvCounts, srvLines>>
callVars == <<vars, serverVars>>

Outcomes == {"ok", "status", "ctx", "panic"}
ServerCodes == {"OK", "Failed", "Unknown", "Internal"}

CallTypeOK ==
    /\ TypeOK
    /\ recovers \in BOOLEAN
    /\ handler \in {"running", "countSent", "countReceived", "unwinding", "answering",
                    "over", "crashed"}
    /\ outcome \in Outcomes \cup {"none"}
    /\ inflight \in 0 .. MaxSends
    /\ srvRecvMsgs \in 0 .. MaxSends /\ srvSentMsgs \in 0 .. MaxMessages
    /\ srvLines \in Seq([code : ServerCodes, received : Nat, sent : Nat])

CallInit ==
    /\ Init
    /\ recovers \in BOOLEAN
    /\ handler = "running" /\ outcome = "none" /\ inflight = 0
    /\ srvRecvMsgs = 0 /\ srvSentMsgs = 0 /\ srvLines = << >>

-----------------------------------------------------------------------------
(* The handler, which may call the stream in any order and end in any way.  *)

\* What either side sends still arrives.
Connected == server = "open" /\ ctx = "live"

HandlerSend ==
    /\ handler = "running" /\ srvSentMsgs < MaxMessages
    /\ IF Connected THEN ServerSend ELSE UNCHANGED vars
    /\ handler' = "countSent"
    /\ UNCHANGED <<recovers, outcome, inflight, srvCounts, srvLines>>

HandlerReceive ==
    /\ handler = "running" /\ inflight > 0
    /\ inflight' = inflight - 1
    /\ handler' = "countReceived"
    /\ UNCHANGED <<vars, recovers, outcome, srvCounts, srvLines>>

\* Mutant: SendMsg counts in the counter of the messages received.
HandlerCountAsReceived ==
    /\ handler \in {"countSent", "countReceived"}
    /\ handler' = "running" /\ srvRecvMsgs' = srvRecvMsgs + 1
    /\ UNCHANGED <<vars, recovers, outcome, inflight, srvSentMsgs, srvLines>>

\* SendMsg and RecvMsg of wrappedServerStream count what succeeded.
HandlerCount ==
    /\ \/ /\ handler = "countSent"
          /\ srvSentMsgs' = srvSentMsgs + 1 /\ UNCHANGED srvRecvMsgs
       \/ /\ handler = "countReceived"
          /\ srvRecvMsgs' = srvRecvMsgs + 1 /\ UNCHANGED srvSentMsgs
    /\ handler' = "running"
    /\ UNCHANGED <<vars, recovers, outcome, inflight, srvLines>>

\* A handler that does not stream has sent its response when it ends well. It
\* may return a bare context error at any time, of its own context for one.
HandlerEnds(o) ==
    /\ handler = "running"
    /\ o = "ok" => serverStreams \/ srvSentMsgs = 1
    /\ handler' = "unwinding" /\ outcome' = o
    /\ UNCHANGED <<vars, recovers, inflight, srvCounts, srvLines>>

-----------------------------------------------------------------------------
(* The deferred tail of the interceptor, and grpc's answer.                 *)

\* The code of the server's line. status.Convert takes a bare context error for
\* Unknown, where grpc answers Canceled or DeadlineExceeded.
ServerCode(o) ==
    CASE o = "ok" -> "OK"
      [] o = "status" -> "Failed"
      [] o = "ctx" -> "Unknown"
      [] o = "panic" -> "Internal"

ServerLog ==
    /\ handler = "unwinding"
    /\ srvLines' = Append(srvLines, [code |-> ServerCode(outcome), received |-> srvRecvMsgs,
                                     sent |-> srvSentMsgs])
    /\ handler' = "answering"
    /\ UNCHANGED <<vars, recovers, outcome, inflight, srvCounts>>

\* A panic that is raised again ends the process and so the connection.
Answer ==
    /\ handler = "answering"
    /\ handler' = IF outcome = "panic" /\ ~recovers THEN "crashed" ELSE "over"
    /\ IF Connected THEN ServerEnd(IF outcome = "ok" THEN "ok" ELSE "failed")
                    ELSE UNCHANGED vars
    /\ UNCHANGED <<recovers, outcome, inflight, srvCounts, srvLines>>

ConnectionBreaks ==
    /\ Connected
    /\ ServerEnd("failed")
    /\ UNCHANGED serverVars

-----------------------------------------------------------------------------
ClientSends ==
    /\ SendOk
    /\ inflight' = inflight + IF Connected THEN 1 ELSE 0
    /\ UNCHANGED <<recovers, handler, outcome, srvCounts, srvLines>>

ClientSteps ==
    /\ \/ SendCount \/ SendEOF \/ SendFails \/ CloseSendOk
       \/ RecvOk \/ RecvCount \/ RecvEnd
       \/ Watcher \/ ContextEnds
       \/ \E p \in Goroutines : Finalize(p)
    /\ UNCHANGED serverVars

CallIdle ==
    /\ Idle /\ handler \in {"running", "over", "crashed"}
    /\ UNCHANGED serverVars

CallNext ==
    \/ HandlerSend \/ HandlerReceive \/ HandlerCount
    \/ \E o \in Outcomes : HandlerEnds(o)
    \/ ServerLog \/ Answer \/ ConnectionBreaks
    \/ ClientSends \/ ClientSteps
    \/ CallIdle

CallSpec == CallInit /\ [][CallNext]_callVars

\* As in ClientStream; the server's side needs none.
CallFairness ==
    /\ WF_callVars(SendCount /\ UNCHANGED serverVars)
    /\ WF_callVars(RecvCount /\ UNCHANGED serverVars)
    /\ WF_callVars(Watcher /\ UNCHANGED serverVars)
    /\ \A p \in Goroutines : WF_callVars(Finalize(p) /\ UNCHANGED serverVars)

FairCallSpec == CallSpec /\ CallFairness

-----------------------------------------------------------------------------
\* Both lines of a call tell what happened to it (LineHasCause for the client's).
\* The server's is written once, after the handler and before the answer, also
\* when the handler panics ("exactly once", StreamServerInterceptor): its counts
\* are final, and never tell of more messages than the client sent. A client that
\* logs the OK it received does so after the server logged the same, with as many
\* messages received as the server says it sent.
LinesAgree ==
    LET sentByClient == sentMsgs + IF place["sender"] = "count" THEN 1 ELSE 0 IN
    /\ LineHasCause
    /\ Len(srvLines) = IF handler \in {"answering", "over", "crashed"} THEN 1 ELSE 0
    /\ \A i \in 1 .. Len(srvLines) :
          /\ srvLines[i].received = srvRecvMsgs /\ srvLines[i].sent = srvSentMsgs
          /\ srvLines[i].received <= sentByClient
    /\ \A i \in 1 .. Len(lines) :
          lines[i].by = "receiver" /\ lines[i].code = "OK" =>
              /\ srvLines # << >> /\ srvLines[1].code = "OK"
              /\ srvLines[1].sent = lines[i].received
    /\ server = "ok" => srvLines # << >> /\ srvLines[1].code = "OK"
=============================================================================
