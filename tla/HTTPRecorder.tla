---------------------------- MODULE HTTPRecorder ----------------------------
(***************************************************************************)
(* httpmw/middleware.go: one request through the middleware of New. The    *)
(* handler below calls the responseRecorder in any order, returns or       *)
(* panics; the deferred function logs one line and lets a panic go on.     *)
(*                                                                         *)
(* wire is the response of the server's own writer under the recorder.     *)
(* bare is the response that the same calls make without the middleware:   *)
(* it is what "observes, never alters" is measured against.                *)
(***************************************************************************)
EXTENDS Integers, Sequences

CONSTANTS Statuses,     \* what the handler passes to WriteHeader
          Chunks,       \* the sizes of what it writes or copies
          MaxCalls      \* bound: calls the handler makes

ASSUME ConstantsAssumption ==
    /\ Statuses \subseteq Nat \ {0} /\ Chunks \subseteq Nat /\ MaxCalls \in Nat

\* No status has been sent, or no line has been written.
None == 0

OK == 200
InternalServerError == 500

VARIABLES
    place,                      \* of the request
    supports, skipped,          \* the writer's optional interfaces; SkipPaths
    rr,                         \* the responseRecorder
    wire, bare,                 \* the responses
    raised, thrown,             \* panic of the handler, and out of the middleware
    lines,                      \* the log
    calls, slipped, behind      \* history, see below

(***************************************************************************)
(* calls counts the handler's calls. slipped says that the recorder took a *)
(* status for sent that was not final, or sent one that nothing called     *)
(* for; behind, that a status or the connection went out past it.          *)
(***************************************************************************)
responses == <<wire, bare>>
history == <<calls, slipped, behind>>
vars == <<place, supports, skipped, rr, responses, raised, thrown, lines, history>>

Panics == {"none", "panic", "abort"}
Levels == {"info", "warn", "error"}
Responses == [early : Nat, status : Nat, body : Nat, hijacked : BOOLEAN,
              end : {"open", "complete", "aborted"}]

TypeOK ==
    /\ place \in {"serving", "tail", "finish", "over"}
    /\ supports \subseteq {"flush", "hijack"} /\ skipped \in BOOLEAN
    /\ rr \in [wroteHeader : BOOLEAN, status : Nat, bytes : Nat]
    /\ rr.status # None => rr.wroteHeader
    /\ wire \in Responses /\ bare \in Responses
    /\ raised \in Panics /\ thrown \in Panics
    /\ lines \in Seq([status : Nat, level : Levels, bytes : Nat, panic : Panics, stack : BOOLEAN])
    /\ calls \in 0 .. MaxCalls /\ slipped \in BOOLEAN /\ behind \in BOOLEAN

Untouched == [early |-> 0, status |-> None, body |-> 0, hijacked |-> FALSE, end |-> "open"]

\* A request arrives; the middleware wraps the writer and calls the handler.
Init ==
    /\ place = "serving"
    /\ supports \in SUBSET {"flush", "hijack"} /\ skipped \in BOOLEAN
    /\ rr = [wroteHeader |-> FALSE, status |-> None, bytes |-> 0]
    /\ wire = Untouched /\ bare = Untouched
    /\ raised = "none" /\ thrown = "none" /\ lines = << >>
    /\ calls = 0 /\ slipped = FALSE /\ behind = FALSE

-----------------------------------------------------------------------------
(* net/http's response writer. A 1xx status other than 101 is sent at once  *)
(* and is not final; a status that is no status makes WriteHeader panic.    *)

Informational(c) == c \in 100 .. 199 /\ c # 101
Valid(c) == c \in 100 .. 999
Undecided(w) == w.status = None /\ ~w.hijacked

NetHeader(w, c) ==
    CASE Undecided(w) /\ Informational(c) -> [w EXCEPT !.early = @ + 1]
      [] Undecided(w) /\ Valid(c) /\ ~Informational(c) -> [w EXCEPT !.status = c]
      [] OTHER -> w

NetHeaderPanics(w, c) == Undecided(w) /\ ~Valid(c)

\* Nothing is accepted on a connection that was hijacked.
NetAccepts(w, n) == IF w.hijacked THEN 0 ELSE n
NetWrite(w, n) == [NetHeader(w, OK) EXCEPT !.body = @ + NetAccepts(w, n)]

\* io.Copy and ReadFrom write nothing, no header either, when there is
\* nothing to read.
NetCopy(w, n) == IF n = 0 THEN w ELSE NetWrite(w, n)

\* The handler has returned, or a panic has reached the server.
NetFinish(w, panic) ==
    IF panic = "none" THEN [NetHeader(w, OK) EXCEPT !.end = "complete"]
    ELSE [w EXCEPT !.end = "aborted"]

-----------------------------------------------------------------------------
(* The responseRecorder.                                                    *)

\* Mutant: the status is recorded and not marked as written.
LatchUnmarked(c) == IF rr.wroteHeader THEN rr ELSE [rr EXCEPT !.status = c]

\* WriteHeader: only the first call counts.
Latch(c) == IF rr.wroteHeader THEN rr ELSE [rr EXCEPT !.wroteHeader = TRUE, !.status = c]
Forwarded(c) == IF rr.wroteHeader THEN wire ELSE NetHeader(wire, c)

Calling ==
    /\ place = "serving" /\ calls < MaxCalls
    /\ calls' = calls + 1
    /\ UNCHANGED <<supports, skipped, thrown, lines>>

\* The recorder latches before it forwards. Where the writer below panics, the
\* handler recovers or unwinds.
WriteHeader(c) ==
    /\ Calling
    /\ rr' = Latch(c)
    /\ wire' = Forwarded(c)
    /\ bare' = NetHeader(bare, c)
    /\ slipped' = (slipped \/ (~rr.wroteHeader /\ Undecided(wire')))
    /\ \/ UNCHANGED <<place, raised>>
       \/ /\ ~rr.wroteHeader /\ NetHeaderPanics(wire, c)
          /\ place' = "tail" /\ raised' = "panic"
    /\ UNCHANGED behind

\* Mutant: the bytes that were offered are counted, not those taken.
CountAll(n) == [Latch(OK) EXCEPT !.bytes = @ + n]

\* What Write and ReadFrom record: the header they imply and the bytes taken.
Count(n) == [Latch(OK) EXCEPT !.bytes = @ + NetAccepts(wire, n)]

Write(n) ==
    /\ Calling
    /\ rr' = Count(n)
    /\ wire' = NetWrite(Forwarded(OK), n)
    /\ bare' = NetWrite(bare, n)
    /\ UNCHANGED <<place, raised, slipped, behind>>

\* The header is written before anything is read.
ReadFrom(n) ==
    /\ Calling
    /\ rr' = Count(n)
    /\ wire' = NetCopy(Forwarded(OK), n)
    /\ bare' = NetCopy(bare, n)
    /\ slipped' = (slipped \/ (n = 0 /\ ~rr.wroteHeader /\ Undecided(wire)))
    /\ UNCHANGED <<place, raised, behind>>

\* Flush sends the header below the recorder, which does not see it.
Flush ==
    /\ Calling
    /\ IF "flush" \in supports
       THEN /\ wire' = NetHeader(wire, OK) /\ bare' = NetHeader(bare, OK)
            /\ behind' = (behind \/ (Undecided(wire) /\ ~rr.wroteHeader))
       ELSE UNCHANGED <<responses, behind>>
    /\ UNCHANGED <<place, rr, raised, slipped>>

Hijack ==
    /\ Calling
    /\ IF "hijack" \in supports
       THEN /\ wire' = [wire EXCEPT !.hijacked = TRUE]
            /\ bare' = [bare EXCEPT !.hijacked = TRUE]
            /\ behind' = (behind \/ Undecided(wire))
       ELSE UNCHANGED <<responses, behind>>
    /\ UNCHANGED <<place, rr, raised, slipped>>

\* The handler returns, or panics on its own.
HandlerEnds(panic) ==
    /\ place = "serving"
    /\ place' = "tail" /\ raised' = panic
    /\ UNCHANGED <<supports, skipped, rr, responses, thrown, lines, history>>

-----------------------------------------------------------------------------
(* The deferred function of New.                                            *)

StatusCode == IF rr.wroteHeader THEN rr.status ELSE OK

\* A panic before anything was written is logged as the 500 it amounts to.
LoggedStatus ==
    IF raised # "none" /\ ~rr.wroteHeader THEN InternalServerError ELSE StatusCode

DefaultLevelFor(status) ==
    CASE status >= 500 -> "error"
      [] status \in 400 .. 499 -> "warn"
      [] OTHER -> "info"

Line == [status |-> LoggedStatus,
         level |-> IF raised = "none" THEN DefaultLevelFor(LoggedStatus) ELSE "error",
         bytes |-> rr.bytes,
         panic |-> raised,
         stack |-> raised = "panic"]

\* Mutant: the panic that was recovered is not raised again.
LogAndSwallow ==
    /\ place = "tail"
    /\ lines' = IF skipped THEN lines ELSE Append(lines, Line)
    /\ thrown' = IF skipped THEN raised ELSE "none"
    /\ place' = "finish"
    /\ UNCHANGED <<supports, skipped, rr, responses, raised, history>>

\* A skipped path is not recovered and not logged; any other panic is logged
\* and raised again.
LogAndRaise ==
    /\ place = "tail"
    /\ lines' = IF skipped THEN lines ELSE Append(lines, Line)
    /\ thrown' = raised
    /\ place' = "finish"
    /\ UNCHANGED <<supports, skipped, rr, responses, raised, history>>

\* The server ends the response.
Finish ==
    /\ place = "finish"
    /\ wire' = NetFinish(wire, thrown)
    /\ bare' = NetFinish(bare, raised)
    /\ place' = "over"
    /\ UNCHANGED <<supports, skipped, rr, raised, thrown, lines, history>>

Over == place = "over" /\ UNCHANGED vars

Next ==
    \/ \E c \in Statuses : WriteHeader(c)
    \/ \E n \in Chunks : Write(n) \/ ReadFrom(n)
    \/ Flush \/ Hijack
    \/ \E panic \in Panics : HandlerEnds(panic)
    \/ LogAndRaise \/ Finish \/ Over

Spec == Init /\ [][Next]_vars

-----------------------------------------------------------------------------
(* "It observes; it never alters" (package doc): the client gets what it    *)
(* would get without the middleware, panics included.                       *)
NeverAlters == wire.end = "complete" => wire = bare

\* It holds as long as the recorder latches only on a status that is final and
\* that the handler's own call sends.
NeverAltersUnlessSlipped == ~slipped => wire = bare

\* A streamed response: the header went out past the recorder, and what the
\* handler did then agrees with it.
Streamed ==
    wire.status # None /\ IF rr.wroteHeader THEN rr.status = OK ELSE raised = "none"

\* One line per request that is not skipped, whatever the handler did, with the
\* bytes that were accepted and the status "actually sent" (statusCode), or 500 for
\* a panic before anything was sent ("when a status was written, that status
\* stands"); a panic is told apart from a response by its level. A status that
\* Flush sent is logged truly too, unless the handler then names another one or
\* panics before it writes.
OneTrueLine ==
    place = "over" =>
        /\ Len(lines) = IF skipped THEN 0 ELSE 1
        /\ \A i \in 1 .. Len(lines) :
             /\ lines[i].bytes = wire.body
             /\ wire.end = "aborted" => lines[i].level = "error"
             /\ ~slipped /\ (behind => Streamed) => lines[i].status =
                    IF wire.end = "aborted" /\ wire.status = None
                    THEN InternalServerError ELSE wire.status
=============================================================================
