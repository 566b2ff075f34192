---------------------------- MODULE ClientStream ----------------------------
(***************************************************************************)
(* grpc/interceptor.go: wrappedClientStream, the client stream that        *)
(* StreamClientInterceptor hands out. One goroutine of the caller sends,   *)
(* another receives (grpc allows one of each), and the watcher waits for   *)
(* the call's context; the first of them to see the end logs it.           *)
(*                                                                         *)
(* The grpc.ClientStream below is external: the server's messages and      *)
(* status, and what SendMsg, RecvMsg and CloseSend answer in each state.   *)
(***************************************************************************)
EXTENDS Integers, Sequences

CONSTANTS MaxMessages,      \* bound: messages of the server, and
    MaxSends          \* of the client

ASSUME ConstantsAssumption == MaxMessages \in Nat \ {0} /\ MaxSends \in Nat

VARIABLES
    serverStreams,              \* desc.ServerStreams
    ctx, server, buffered,      \* external: context, server, messages to receive
    place, got,                 \* goroutines, and the error each has to finalize
    once, doneClosed,           \* w.once, w.done
    recvMsgs, sentMsgs, lines,  \* the counters and the log
    produced, returned          \* history: sent by the server; handed to the caller

Callers == {"sender", "receiver"}
Goroutines == Callers \cup {"watcher"}

external == <<ctx, server, buffered, produced>>
counts == <<recvMsgs, sentMsgs>>
vars == <<serverStreams, external, place, got, once, doneClosed, counts, lines, returned>>

Errors == {"none", "EOF", "status", "canceled", "ctx"}
Codes == {"OK", "Canceled", "Failed"}

TypeOK ==
    /\ serverStreams \in BOOLEAN
    /\ ctx \in {"live", "done"} /\ server \in {"open", "ok", "failed"}
    /\ buffered \in 0 .. MaxMessages /\ produced \in 0 .. MaxMessages
    /\ place \in [Goroutines -> {"ready", "count", "finalize", "logging", "closing", "over"}]
    /\ got \in [Goroutines -> Errors]
    /\ once \in {"unused", "running", "done"} /\ doneClosed \in BOOLEAN
    /\ recvMsgs \in 0 .. MaxMessages /\ sentMsgs \in 0 .. MaxSends
    /\ returned \in 0 .. recvMsgs
    /\ lines \in Seq([code : Codes, received : Nat, sent : Nat, by : Goroutines])

\* StreamClientInterceptor with a stream that was established: it is wrapped
\* and its watcher started.
Init ==
    /\ serverStreams \in BOOLEAN
    /\ ctx = "live" /\ server = "open" /\ buffered = 0 /\ produced = 0
    /\ place = [p \in Goroutines |-> "ready"] /\ got = [p \in Goroutines |-> "none"]
    /\ once = "unused" /\ doneClosed = FALSE
    /\ recvMsgs = 0 /\ sentMsgs = 0 /\ lines = << >> /\ returned = 0

-----------------------------------------------------------------------------
(* The server and the context.                                              *)

wrapper == <<serverStreams, place, got, once, doneClosed, counts, lines, returned>>

ServerSend ==
    /\ server = "open" /\ produced < (IF serverStreams THEN MaxMessages ELSE 1)
    /\ produced' = produced + 1 /\ buffered' = buffered + 1
    /\ UNCHANGED <<ctx, server, wrapper>>

\* Where the server does not stream, it has answered once when it ends well.
ServerEnd(status) ==
    /\ server = "open"
    /\ status = "ok" => serverStreams \/ produced = 1
    /\ server' = status
    /\ UNCHANGED <<ctx, buffered, produced, wrapper>>

ContextEnds ==
    /\ ctx = "live"
    /\ ctx' = "done"
    /\ UNCHANGED <<server, buffered, produced, wrapper>>

-----------------------------------------------------------------------------
(* Steps that the methods share.                                            *)

Goto(p, where) == place' = [place EXCEPT ![p] = where]

\* The stream below has answered p with an error.
Ends(p, e) ==
    /\ Goto(p, "finalize")
    /\ got' = [got EXCEPT ![p] = e]

\* finalize, at once.Do: the first runs the function, the others wait for it.
Enter(p) ==
    /\ place[p] = "finalize" /\ once = "unused"
    /\ once' = "running"
    /\ Goto(p, "logging")
    /\ UNCHANGED <<serverStreams, external, got, doneClosed, counts, lines, returned>>

\* A caller that finalized with an error is told it; a receiver that finalized
\* with none returns its message.
Leaves(p) ==
    IF got[p] = "none"
    THEN Goto(p, "ready") /\ returned' = returned + 1
    ELSE Goto(p, "over") /\ UNCHANGED returned

\* Mutant: a goroutine that is not the first does not wait for the line.
PassUnlessFirst(p) ==
    /\ place[p] = "finalize" /\ once # "unused"
    /\ Leaves(p)
    /\ UNCHANGED <<serverStreams, external, got, once, doneClosed, counts, lines>>

Pass(p) ==
    /\ place[p] = "finalize" /\ once = "done"
    /\ Leaves(p)
    /\ UNCHANGED <<serverStreams, external, got, once, doneClosed, counts, lines>>

\* The code of the line: io.EOF and nil are a clean end, a bare context error
\* and the status that RecvMsg makes of one are the same code.
Code(e) ==
    CASE e \in {"none", "EOF"} -> "OK"
      [] e \in {"ctx", "canceled"} -> "Canceled"
      [] e = "status" -> "Failed"

LogEnd(p) ==
    /\ place[p] = "logging"
    /\ lines' = Append(lines, [code |-> Code(got[p]), received |-> recvMsgs,
                               sent |-> sentMsgs, by |-> p])
    /\ Goto(p, "closing")
    /\ UNCHANGED <<serverStreams, external, got, once, doneClosed, counts, returned>>

\* Mutant: done is not closed.
CloseDoneNot(p) ==
    /\ place[p] = "closing"
    /\ once' = "done"
    /\ Leaves(p)
    /\ UNCHANGED <<serverStreams, external, got, doneClosed, counts, lines>>

CloseDone(p) ==
    /\ place[p] = "closing"
    /\ doneClosed' = TRUE /\ once' = "done"
    /\ Leaves(p)
    /\ UNCHANGED <<serverStreams, external, got, counts, lines>>

-----------------------------------------------------------------------------
(* SendMsg and CloseSend.                                                   *)

SendOk ==
    /\ place["sender"] = "ready" /\ sentMsgs < MaxSends
    /\ Goto("sender", "count")
    /\ UNCHANGED <<serverStreams, external, got, once, doneClosed, counts, lines, returned>>

SendCount ==
    /\ place["sender"] = "count"
    /\ sentMsgs' = sentMsgs + 1
    /\ Goto("sender", "ready")
    /\ UNCHANGED <<serverStreams, external, got, once, doneClosed, recvMsgs, lines, returned>>

\* The stream is over: SendMsg answers io.EOF, whatever the status is.
SendEOF ==
    /\ place["sender"] = "ready"
    /\ server # "open" \/ ctx = "done"
    /\ Ends("sender", "EOF")
    /\ UNCHANGED <<serverStreams, external, once, doneClosed, counts, lines, returned>>

\* SendMsg or CloseSend fails on the client's side, which aborts the stream.
SendFails ==
    /\ place["sender"] = "ready" /\ server = "open" /\ ctx = "live"
    /\ server' = "failed"
    /\ Ends("sender", "status")
    /\ UNCHANGED <<serverStreams, ctx, buffered, produced, once, doneClosed, counts, lines,
                   returned>>

\* A CloseSend that succeeds ends the sending and nothing else.
CloseSendOk ==
    /\ place["sender"] = "ready"
    /\ Goto("sender", "over")
    /\ UNCHANGED <<serverStreams, external, got, once, doneClosed, counts, lines, returned>>

-----------------------------------------------------------------------------
(* RecvMsg.                                                                 *)

\* A message; where the server does not stream, grpc waits for its status.
RecvOk ==
    /\ place["receiver"] = "ready" /\ buffered > 0
    /\ serverStreams \/ server = "ok"
    /\ buffered' = buffered - 1
    /\ Goto("receiver", "count")
    /\ UNCHANGED <<serverStreams, ctx, server, produced, got, once, doneClosed, counts,
                   lines, returned>>

\* Mutant: a message that does not end the stream is not counted.
RecvCountEndOnly ==
    /\ place["receiver"] = "count"
    /\ IF serverStreams
       THEN Goto("receiver", "ready") /\ returned' = returned + 1 /\ UNCHANGED <<got, recvMsgs>>
       ELSE Ends("receiver", "none") /\ recvMsgs' = recvMsgs + 1 /\ UNCHANGED returned
    /\ UNCHANGED <<serverStreams, external, once, doneClosed, sentMsgs, lines>>

\* The message is counted; a single response is the end of the stream.
RecvCount ==
    /\ place["receiver"] = "count"
    /\ recvMsgs' = recvMsgs + 1
    /\ IF serverStreams
       THEN Goto("receiver", "ready") /\ returned' = returned + 1 /\ UNCHANGED got
       ELSE Ends("receiver", "none") /\ UNCHANGED returned
    /\ UNCHANGED <<serverStreams, external, once, doneClosed, sentMsgs, lines>>

RecvEnd ==
    /\ place["receiver"] = "ready"
    /\ \/ server = "ok" /\ buffered = 0 /\ Ends("receiver", "EOF")
       \/ server = "failed" /\ (buffered = 0 \/ ~serverStreams) /\ Ends("receiver", "status")
       \/ ctx = "done" /\ Ends("receiver", "canceled")
    /\ UNCHANGED <<serverStreams, external, once, doneClosed, counts, lines, returned>>

-----------------------------------------------------------------------------
(* watchContext.                                                            *)

WatcherContext ==
    /\ place["watcher"] = "ready" /\ ctx = "done"
    /\ Ends("watcher", "ctx")
    /\ UNCHANGED <<serverStreams, external, once, doneClosed, counts, lines, returned>>

WatcherDone ==
    /\ place["watcher"] = "ready" /\ doneClosed
    /\ Goto("watcher", "over")
    /\ UNCHANGED <<serverStreams, external, got, once, doneClosed, counts, lines, returned>>

-----------------------------------------------------------------------------
Finalize(p) == Enter(p) \/ Pass(p) \/ LogEnd(p) \/ CloseDone(p)

Watcher == WatcherContext \/ WatcherDone

Idle ==
    /\ \A p \in Goroutines : place[p] \in {"ready", "over"}
    /\ UNCHANGED vars

Next ==
    \/ ServerSend \/ ServerEnd("ok") \/ ServerEnd("failed") \/ ContextEnds
    \/ SendOk \/ SendCount \/ SendEOF \/ SendFails \/ CloseSendOk
    \/ RecvOk \/ RecvCount \/ RecvEnd
    \/ Watcher
    \/ \E p \in Goroutines : Finalize(p)
    \/ Idle

Spec == Init /\ [][Next]_vars

\* A goroutine inside a method goes on, and so does the watcher. Nobody has to
\* call a method, no context has to end, no server has to answer.
Fairness ==
    /\ WF_vars(SendCount) /\ WF_vars(RecvCount) /\ WF_vars(Watcher)
    /\ \A p \in Goroutines : WF_vars(Finalize(p))

FairSpec == Spec /\ Fairness

-----------------------------------------------------------------------------
\* "Logs the summary line exactly once" (wrappedClientStream): a caller that has
\* been told of the end finds it logged, whichever goroutine saw it first.
LoggedBeforeTold ==
    /\ Len(lines) <= 1
    /\ \A p \in Goroutines : place[p] = "over" /\ got[p] # "none" => Len(lines) = 1
    /\ ~serverStreams /\ returned > 0 => Len(lines) = 1

\* The code of the line is something that happened to the stream: cancelled only
\* if the context ended, failed only if the call did, and OK from RecvMsg only
\* after the server ended well. Its counts are final for the side that logged it,
\* and for the other never ahead of the messages "actually exchanged" (logEnd).
LineHasCause ==
    \A i \in 1 .. Len(lines) :
        /\ lines[i].code = "Canceled" => ctx = "done"
        /\ lines[i].code = "Failed" => server = "failed"
        /\ lines[i].code = "OK" =>
              server = "ok" \/ (lines[i].by = "sender" /\ (server # "open" \/ ctx = "done"))
        /\ lines[i].by = "watcher" => lines[i].code = "Canceled"
        /\ lines[i].by = "receiver" => lines[i].received = recvMsgs
        /\ lines[i].by = "sender" => lines[i].sent = sentMsgs
        /\ lines[i].received <= recvMsgs /\ lines[i].sent <= sentMsgs

\* A context that ends, or a caller that is told of an end, leads to the line and
\* to the end of the watcher: it is never leaked.
StreamEnds ==
    (ctx = "done" \/ \E p \in Goroutines : place[p] = "finalize")
        ~> (Len(lines) = 1 /\ place["watcher"] = "over")

\* "Clean end: OK" (logEnd): a line that says OK is of a call that ended well.
OKIsCleanEnd ==
    \A i \in 1 .. Len(lines) : lines[i].code = "OK" => server = "ok"
=============================================================================
