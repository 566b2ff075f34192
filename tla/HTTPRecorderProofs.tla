------------------------- MODULE HTTPRecorderProofs -------------------------
(***************************************************************************)
(* Theorems about HTTPRecorder, for every set of statuses and sizes and    *)
(* any number of calls.                                                    *)
(***************************************************************************)
EXTENDS HTTPRecorder, TLAPS

-----------------------------------------------------------------------------
(* The inductive invariant.                                                *)

\* While the recorder has not slipped, both responses are the same, and the
\* recorder takes no status for sent that is not decided below it.
SameResponse == ~slipped => wire = bare /\ (rr.wroteHeader => ~Undecided(wire))

\* When nothing went out past it either, the recorder knows the status.
StatusKnown ==
    ~slipped /\ ~behind =>
        IF rr.wroteHeader THEN wire.status = rr.status /\ rr.status # None
        ELSE /\ ~wire.hijacked
             /\ wire.status = IF place = "over" /\ raised = "none" THEN OK ELSE None

\* The deferred function has written its line and raised the panic again.
LineWritten ==
    /\ place \in {"serving", "tail"} => lines = << >>
    /\ place \in {"finish", "over"} =>
          lines = (IF skipped THEN << >> ELSE <<Line>>) /\ thrown = raised
    /\ wire.end = IF place # "over" THEN "open"
                  ELSE IF raised = "none" THEN "complete" ELSE "aborted"

BytesCounted == rr.bytes = wire.body

\* What goes out past the recorder is the 200 of a flush, or the connection.
FlushSent == behind => wire.status = OK \/ (wire.status = None /\ wire.hijacked)

RecorderInv == TypeOK /\ SameResponse /\ StatusKnown /\ LineWritten /\ BytesCounted

-----------------------------------------------------------------------------
(* What the calls do to a response, and to the recorder.                   *)

Recorders == [wroteHeader : BOOLEAN, status : Nat, bytes : Nat]

Lines == [status : Nat, level : Levels, bytes : Nat, panic : Panics, stack : BOOLEAN]

\* One line is a log.
LEMMA OneLine ==
    ASSUME NEW S, NEW line \in S
    PROVE  <<line>> \in Seq(S) /\ Len(<<line>>) = 1 /\ <<line>>[1] = line
OBVIOUS

\* net/http takes the first final status and no other.
LEMMA HeaderSent ==
    ASSUME NEW w \in Responses, NEW c \in Nat
    PROVE  /\ NetHeader(w, c) \in Responses
           /\ NetHeader(w, c).body = w.body
           /\ NetHeader(w, c).hijacked = w.hijacked
           /\ NetHeader(w, c).end = w.end
           /\ ~Undecided(w) => NetHeader(w, c) = w
           /\ Undecided(w) => NetHeader(w, c).status \in {None, c}
           /\ Undecided(w) /\ c = OK => NetHeader(w, c).status = OK
<1>1. CASE Undecided(w) /\ Informational(c)
  <2>1. NetHeader(w, c) = [w EXCEPT !.early = @ + 1]
    BY <1>1 DEF NetHeader
  <2> QED BY <1>1, <2>1 DEF Responses, Undecided, Informational, OK, None
<1>2. CASE Undecided(w) /\ Valid(c) /\ ~Informational(c)
  <2>1. NetHeader(w, c) = [w EXCEPT !.status = c]
    BY <1>2 DEF NetHeader
  <2> QED BY <1>2, <2>1 DEF Responses, OK
<1>3. CASE ~(Undecided(w) /\ Informational(c)) /\ ~(Undecided(w) /\ Valid(c) /\ ~Informational(c))
  <2>1. NetHeader(w, c) = w
    BY <1>3 DEF NetHeader
  <2>2. ~(Undecided(w) /\ c = OK)
    BY <1>3 DEF Valid, Informational, OK
  <2> QED BY <2>1, <2>2 DEF Undecided
<1> QED BY <1>1, <1>2, <1>3

\* A write sends the 200 that it implies and then its bytes.
LEMMA BodySent ==
    ASSUME NEW w \in Responses, NEW n \in Nat
    PROVE  /\ NetWrite(w, n) \in Responses
           /\ NetWrite(w, n).body = w.body + NetAccepts(w, n)
           /\ NetWrite(w, n).hijacked = w.hijacked /\ NetWrite(w, n).end = w.end
           /\ NetWrite(w, n).status = NetHeader(w, OK).status
           /\ NetAccepts(w, n) \in Nat
<1> DEFINE r == NetHeader(w, OK)
<1>1. r \in Responses /\ r.body = w.body /\ r.hijacked = w.hijacked /\ r.end = w.end
  BY HeaderSent DEF OK
<1>2. NetAccepts(w, n) \in Nat
  BY DEF NetAccepts
<1>3. NetWrite(w, n) = [r EXCEPT !.body = @ + NetAccepts(w, n)]
  BY DEF NetWrite
<1> HIDE DEF r
<1>4. w.body \in Nat
  BY DEF Responses
<1>5. /\ [r EXCEPT !.body = @ + NetAccepts(w, n)] \in Responses
      /\ [r EXCEPT !.body = @ + NetAccepts(w, n)].body = w.body + NetAccepts(w, n)
      /\ [r EXCEPT !.body = @ + NetAccepts(w, n)].hijacked = w.hijacked
      /\ [r EXCEPT !.body = @ + NetAccepts(w, n)].end = w.end
      /\ [r EXCEPT !.body = @ + NetAccepts(w, n)].status = r.status
  BY <1>1, <1>2, <1>4 DEF Responses
<1> QED BY <1>2, <1>3, <1>5 DEF r

\* A copy of nothing sends nothing.
LEMMA CopySent ==
    ASSUME NEW w \in Responses, NEW n \in Nat
    PROVE  /\ NetCopy(w, n) \in Responses
           /\ NetCopy(w, n).body = w.body + NetAccepts(w, n)
           /\ NetCopy(w, n).hijacked = w.hijacked /\ NetCopy(w, n).end = w.end
           /\ NetCopy(w, n).status = IF n = 0 THEN w.status ELSE NetHeader(w, OK).status
<1>1. CASE n = 0
  BY <1>1 DEF NetCopy, NetAccepts, Responses
<1>2. CASE n # 0
  BY <1>2, BodySent DEF NetCopy
<1> QED BY <1>1, <1>2

\* WriteHeader of the recorder: only the first status counts.
LEMMA Latched ==
    ASSUME rr \in Recorders, NEW c \in Nat
    PROVE  /\ Latch(c) \in Recorders
           /\ Latch(c).wroteHeader /\ Latch(c).bytes = rr.bytes
           /\ Latch(c).status = IF rr.wroteHeader THEN rr.status ELSE c
BY DEF Latch, Recorders

\* Write and ReadFrom latch the 200 they imply and count what was taken.
LEMMA CountedBytes ==
    ASSUME rr \in Recorders, wire \in Responses, NEW n \in Nat
    PROVE  /\ Count(n) \in Recorders
           /\ Count(n).wroteHeader /\ Count(n).bytes = rr.bytes + NetAccepts(wire, n)
           /\ Count(n).status = IF rr.wroteHeader THEN rr.status ELSE OK
<1>1. /\ Latch(OK) \in Recorders /\ Latch(OK).wroteHeader /\ Latch(OK).bytes = rr.bytes
      /\ Latch(OK).status = IF rr.wroteHeader THEN rr.status ELSE OK
  BY Latched DEF OK
<1>2. NetAccepts(wire, n) \in Nat
  BY BodySent
<1> QED BY <1>1, <1>2 DEF Count, Recorders

\* The header that the recorder sends before a body.
LEMMA Forwards ==
    ASSUME wire \in Responses, rr \in Recorders, NEW c \in Nat
    PROVE  /\ Forwarded(c) \in Responses
           /\ Forwarded(c).body = wire.body /\ Forwarded(c).hijacked = wire.hijacked
           /\ Forwarded(c).end = wire.end
           /\ ~Undecided(wire) \/ rr.wroteHeader => Forwarded(c) = wire
           /\ Undecided(wire) /\ ~rr.wroteHeader => Forwarded(c) = NetHeader(wire, c)
<1>1. CASE rr.wroteHeader
  BY <1>1 DEF Forwarded
<1>2. CASE ~rr.wroteHeader
  BY <1>2, HeaderSent DEF Forwarded
<1> QED BY <1>1, <1>2

-----------------------------------------------------------------------------
(* Every step keeps the invariant.                                         *)

\* What TypeOK says of the data that the calls change.
LEMMA Types ==
    ASSUME TypeOK
    PROVE  /\ rr \in Recorders /\ wire \in Responses /\ bare \in Responses
           /\ place \in {"serving", "tail", "finish", "over"}
           /\ calls \in 0 .. MaxCalls /\ MaxCalls \in Nat
BY ConstantsAssumption DEF TypeOK, Recorders

\* A call of the handler while it runs leaves the line, and the end of the
\* response, to what follows it.
LEMMA CallKept ==
    ASSUME RecorderInv, Calling,
           rr' \in Recorders, rr'.wroteHeader \/ rr' = rr,
           wire' \in Responses, bare' \in Responses, wire'.end = wire.end,
           place' \in {"serving", "tail"}, raised' \in Panics,
           slipped' \in BOOLEAN, behind' \in BOOLEAN
    PROVE  TypeOK' /\ LineWritten'
<1>1. /\ place = "serving" /\ calls < MaxCalls /\ calls' = calls + 1
      /\ UNCHANGED <<supports, skipped, thrown, lines>>
  BY DEF Calling
<1>2. TypeOK'
  <2>1. calls' \in 0 .. MaxCalls
    BY <1>1, Types DEF RecorderInv
  <2>2. rr'.status # None => rr'.wroteHeader
    BY DEF RecorderInv, TypeOK
  <2> QED BY <1>1, <2>1, <2>2 DEF RecorderInv, TypeOK, Recorders
<1>3. LineWritten'
  BY <1>1 DEF RecorderInv, LineWritten
<1> QED BY <1>2, <1>3

\* responseRecorder.WriteHeader: a status that is not final below makes the recorder
\* slip; any other one is the status of both responses.
LEMMA WriteHeaderKept ==
    ASSUME RecorderInv, NEW c \in Statuses, WriteHeader(c) PROVE RecorderInv'
<1>1. /\ Calling /\ rr' = Latch(c) /\ wire' = Forwarded(c) /\ bare' = NetHeader(bare, c)
      /\ place = "serving" /\ place' \in {"serving", "tail"} /\ behind' = behind
      /\ \/ UNCHANGED raised
         \/ raised' = "panic"
  BY DEF WriteHeader, Calling
<1>2. slipped' = (slipped \/ (~rr.wroteHeader /\ Undecided(wire')))
  BY DEF WriteHeader
<1>3. c \in Nat /\ c # None
  BY ConstantsAssumption DEF None
<1>4. /\ rr \in Recorders /\ wire \in Responses /\ bare \in Responses
  BY Types DEF RecorderInv
<1>5. /\ rr' \in Recorders /\ rr'.wroteHeader /\ rr'.bytes = rr.bytes
      /\ rr'.status = IF rr.wroteHeader THEN rr.status ELSE c
  BY <1>1, <1>3, <1>4, Latched
<1>6. /\ wire' \in Responses /\ wire'.body = wire.body
      /\ wire'.hijacked = wire.hijacked /\ wire'.end = wire.end
      /\ ~Undecided(wire) \/ rr.wroteHeader => wire' = wire
      /\ Undecided(wire) /\ ~rr.wroteHeader => wire' = NetHeader(wire, c)
  BY <1>1, <1>3, <1>4, Forwards
<1>7. /\ bare' \in Responses
      /\ ~Undecided(bare) => bare' = bare
  BY <1>1, <1>3, <1>4, HeaderSent
<1>8. slipped' \in BOOLEAN /\ behind' \in BOOLEAN /\ raised' \in Panics
  BY <1>1, <1>2, Zenon DEF RecorderInv, TypeOK, Panics
<1>9. TypeOK' /\ LineWritten'
  BY <1>1, <1>5, <1>6, <1>7, <1>8, CallKept
<1>10. ASSUME ~slipped'
       PROVE  /\ ~slipped /\ (rr.wroteHeader \/ ~Undecided(wire'))
              /\ wire = bare /\ (rr.wroteHeader => ~Undecided(wire))
  BY <1>2, <1>10, Zenon DEF RecorderInv, SameResponse
<1>11. SameResponse'
  <2> SUFFICES ASSUME ~slipped' PROVE wire' = bare' /\ ~Undecided(wire')
    BY DEF SameResponse
  <2>1. CASE Undecided(wire) /\ ~rr.wroteHeader
    BY <2>1, <1>1, <1>6, <1>10
  <2>2. CASE ~(Undecided(wire) /\ ~rr.wroteHeader)
    BY <2>2, <1>6, <1>7, <1>10
  <2> QED BY <2>1, <2>2
<1>12. StatusKnown'
  <2> SUFFICES ASSUME ~slipped', ~behind' PROVE wire'.status = rr'.status /\ rr'.status # None
    BY <1>5 DEF StatusKnown
  <2>1. CASE rr.wroteHeader
    BY <2>1, <1>1, <1>5, <1>6, <1>10 DEF RecorderInv, StatusKnown
  <2>2. CASE ~rr.wroteHeader
    <3>1. ~wire.hijacked /\ wire.status = None
      BY <2>2, <1>1, <1>10 DEF RecorderInv, StatusKnown
    <3>2. Undecided(wire) /\ wire' = NetHeader(wire, c)
      BY <2>2, <3>1, <1>6 DEF Undecided
    <3>3. wire'.status \in {None, c} /\ ~wire'.hijacked
      BY <3>1, <3>2, <1>3, <1>4, HeaderSent
    <3>4. wire'.status # None
      BY <2>2, <3>3, <1>10 DEF Undecided
    <3> QED BY <2>2, <3>3, <3>4, <1>3, <1>5
  <2> QED BY <2>1, <2>2
<1>13. BytesCounted'
  BY <1>5, <1>6 DEF RecorderInv, BytesCounted
<1> QED BY <1>9, <1>11, <1>12, <1>13 DEF RecorderInv

\* responseRecorder.Write sends the 200 that net/http would have sent itself.
LEMMA WriteKept ==
    ASSUME RecorderInv, NEW n \in Chunks, Write(n) PROVE RecorderInv'
<1> DEFINE sent == Forwarded(OK)
<1>1. /\ Calling /\ rr' = Count(n) /\ wire' = NetWrite(sent, n) /\ bare' = NetWrite(bare, n)
      /\ place = "serving" /\ UNCHANGED <<place, raised, slipped, behind>>
  BY DEF Write, Calling
<1>2. n \in Nat /\ OK \in Nat /\ OK # None
  BY ConstantsAssumption DEF OK, None
<1>3. /\ rr \in Recorders /\ wire \in Responses /\ bare \in Responses
  BY Types DEF RecorderInv
<1>4. /\ rr' \in Recorders /\ rr'.wroteHeader /\ rr'.bytes = rr.bytes + NetAccepts(wire, n)
      /\ rr'.status = IF rr.wroteHeader THEN rr.status ELSE OK
  BY <1>1, <1>2, <1>3, CountedBytes
<1>5. /\ sent \in Responses /\ sent.body = wire.body
      /\ sent.hijacked = wire.hijacked /\ sent.end = wire.end
      /\ ~Undecided(wire) \/ rr.wroteHeader => sent = wire
      /\ Undecided(wire) /\ ~rr.wroteHeader => sent = NetHeader(wire, OK)
  BY <1>2, <1>3, Forwards
<1> HIDE DEF sent
<1>6. /\ wire' \in Responses /\ wire'.body = sent.body + NetAccepts(sent, n)
      /\ wire'.hijacked = sent.hijacked /\ wire'.end = sent.end
      /\ wire'.status = NetHeader(sent, OK).status
  BY <1>1, <1>2, <1>5, BodySent
<1>7. /\ bare' \in Responses
  BY <1>1, <1>2, <1>3, BodySent
<1>8. TypeOK' /\ LineWritten'
  <2>1. raised' \in Panics /\ slipped' \in BOOLEAN /\ behind' \in BOOLEAN
    BY <1>1 DEF RecorderInv, TypeOK
  <2> QED BY <1>1, <1>4, <1>5, <1>6, <1>7, <2>1, CallKept
<1>9. ASSUME ~slipped
      PROVE  wire = bare /\ (rr.wroteHeader => ~Undecided(wire))
  BY <1>9 DEF RecorderInv, SameResponse
<1>10. ASSUME ~Undecided(wire) PROVE sent = wire /\ wire'.status = wire.status
  <2>1. sent = wire
    BY <1>10, <1>5
  <2> QED BY <1>10, <2>1, <1>2, <1>3, <1>6, HeaderSent
<1>11. ASSUME Undecided(wire), ~rr.wroteHeader
       PROVE  /\ sent = NetHeader(wire, OK) /\ ~Undecided(sent)
              /\ wire'.status = OK /\ NetHeader(sent, OK) = sent
  <2>1. sent = NetHeader(wire, OK) /\ sent.status = OK
    BY <1>11, <1>2, <1>3, <1>5, HeaderSent
  <2>2. ~Undecided(sent)
    BY <2>1, <1>2 DEF Undecided
  <2>3. NetHeader(sent, OK) = sent
    BY <2>2, <1>2, <1>5, HeaderSent
  <2> QED BY <2>1, <2>2, <2>3, <1>6
<1>12. SameResponse'
  <2> SUFFICES ASSUME ~slipped PROVE wire' = bare' /\ ~Undecided(wire')
    BY <1>1 DEF SameResponse
  <2>1. CASE ~Undecided(wire)
    <3>1. sent = wire /\ wire = bare /\ wire'.status = wire.status /\ wire'.hijacked = wire.hijacked
      BY <2>1, <1>5, <1>6, <1>9, <1>10
    <3> QED BY <2>1, <3>1, <1>1 DEF Undecided
  <2>2. CASE Undecided(wire)
    <3>1. ~rr.wroteHeader /\ wire = bare
      BY <2>2, <1>9
    <3>2. /\ sent = NetHeader(wire, OK) /\ NetHeader(sent, OK) = sent /\ wire'.status = OK
      BY <2>2, <3>1, <1>11
    <3>3. NetWrite(sent, n) = NetWrite(wire, n)
      BY <3>2, <1>5 DEF NetWrite, NetAccepts
    <3> QED BY <3>1, <3>2, <3>3, <1>1, <1>2 DEF Undecided
  <2> QED BY <2>1, <2>2
<1>13. StatusKnown'
  <2> SUFFICES ASSUME ~slipped, ~behind PROVE wire'.status = rr'.status /\ rr'.status # None
    BY <1>1, <1>4 DEF StatusKnown
  <2>1. CASE rr.wroteHeader
    BY <2>1, <1>4, <1>9, <1>10 DEF RecorderInv, StatusKnown
  <2>2. CASE ~rr.wroteHeader
    <3>1. Undecided(wire)
      BY <2>2, <1>1 DEF RecorderInv, StatusKnown, Undecided
    <3> QED BY <2>2, <3>1, <1>2, <1>4, <1>11
  <2> QED BY <2>1, <2>2
<1>14. BytesCounted'
  <2>1. NetAccepts(sent, n) = NetAccepts(wire, n)
    BY <1>5 DEF NetAccepts
  <2> QED BY <2>1, <1>4, <1>5, <1>6 DEF RecorderInv, BytesCounted
<1> QED BY <1>8, <1>12, <1>13, <1>14 DEF RecorderInv

\* A copy is a write of what it read, unless that is nothing.
LEMMA ReadFromKept ==
    ASSUME RecorderInv, NEW n \in Chunks, ReadFrom(n) PROVE RecorderInv'
<1>1. /\ Calling /\ rr' = Count(n) /\ wire' = NetCopy(Forwarded(OK), n)
      /\ bare' = NetCopy(bare, n)
      /\ place = "serving" /\ UNCHANGED <<place, raised, behind>>
      /\ slipped' = (slipped \/ (n = 0 /\ ~rr.wroteHeader /\ Undecided(wire)))
  BY DEF ReadFrom, Calling
<1>2. CASE n # 0
  <2>1. wire' = NetWrite(Forwarded(OK), n) /\ bare' = NetWrite(bare, n)
    BY <1>1, <1>2 DEF NetCopy
  <2>2. slipped' = slipped
    BY <1>1, <1>2, Zenon DEF RecorderInv, TypeOK
  <2>3. Write(n)
    BY <1>1, <2>1, <2>2 DEF Write
  <2> QED BY <2>3, WriteKept
<1>3. CASE n = 0
  <2>1. /\ rr \in Recorders /\ wire \in Responses /\ bare \in Responses
    BY Types DEF RecorderInv
  <2>2. n \in Nat /\ OK \in Nat /\ OK # None
    BY ConstantsAssumption DEF OK, None
  <2>3. /\ rr' \in Recorders /\ rr'.wroteHeader /\ rr'.bytes = rr.bytes
        /\ rr'.status = IF rr.wroteHeader THEN rr.status ELSE OK
    <3>1. /\ rr' \in Recorders /\ rr'.wroteHeader /\ rr'.bytes = rr.bytes + NetAccepts(wire, n)
          /\ rr'.status = IF rr.wroteHeader THEN rr.status ELSE OK
      BY <1>1, <2>1, <2>2, CountedBytes
    <3>2. NetAccepts(wire, n) = 0 /\ rr.bytes \in Nat
      BY <1>3, <2>1 DEF NetAccepts, Recorders
    <3> QED BY <3>1, <3>2
  <2>4. /\ wire' = Forwarded(OK) /\ bare' = bare
    BY <1>1, <1>3 DEF NetCopy
  <2>5. /\ wire' \in Responses /\ wire'.body = wire.body
        /\ wire'.hijacked = wire.hijacked /\ wire'.end = wire.end
        /\ ~Undecided(wire) \/ rr.wroteHeader => wire' = wire
    BY <2>1, <2>2, <2>4, Forwards
  <2>6. slipped' \in BOOLEAN /\ behind' \in BOOLEAN /\ raised' \in Panics
    BY <1>1, Zenon DEF RecorderInv, TypeOK
  <2>7. TypeOK' /\ LineWritten'
    BY <1>1, <2>1, <2>3, <2>4, <2>5, <2>6, CallKept
  <2>8. ASSUME ~slipped'
        PROVE  ~slipped /\ ~Undecided(wire) /\ wire = bare /\ wire' = wire
    <3>1. ~slipped /\ (rr.wroteHeader \/ ~Undecided(wire))
      BY <1>1, <1>3, <2>8, Zenon
    <3>2. wire = bare /\ (rr.wroteHeader => ~Undecided(wire))
      BY <3>1, Zenon DEF RecorderInv, SameResponse
    <3>3. ~Undecided(wire)
      BY <3>1, <3>2
    <3> QED BY <3>1, <3>2, <3>3, <2>5
  <2>9. SameResponse'
    <3> SUFFICES ASSUME ~slipped' PROVE wire' = bare' /\ ~Undecided(wire')
      BY DEF SameResponse
    <3> QED BY <2>4, <2>8
  <2>10. StatusKnown'
    <3> SUFFICES ASSUME ~slipped', ~behind' PROVE wire'.status = rr'.status /\ rr'.status # None
      BY <2>3 DEF StatusKnown
    <3>1. rr.wroteHeader
      BY <1>1, <2>8 DEF RecorderInv, StatusKnown, Undecided
    <3> QED BY <3>1, <1>1, <2>3, <2>8 DEF RecorderInv, StatusKnown
  <2>11. BytesCounted'
    BY <2>3, <2>5 DEF RecorderInv, BytesCounted
  <2> QED BY <2>7, <2>9, <2>10, <2>11 DEF RecorderInv
<1> QED BY <1>2, <1>3

\* A Flush that sends the first header goes past the recorder.
LEMMA FlushKept == ASSUME RecorderInv, Flush PROVE RecorderInv'
<1>1. /\ Calling /\ place = "serving" /\ UNCHANGED <<place, rr, raised, slipped>>
      /\ \/ /\ wire' = NetHeader(wire, OK) /\ bare' = NetHeader(bare, OK)
            /\ behind' = (behind \/ (Undecided(wire) /\ ~rr.wroteHeader))
         \/ UNCHANGED <<wire, bare, behind>>
  BY DEF Flush, Calling, responses
<1>2. /\ rr \in Recorders /\ wire \in Responses /\ bare \in Responses
  BY Types DEF RecorderInv
<1>3. /\ wire' \in Responses /\ bare' \in Responses /\ wire'.body = wire.body
      /\ wire'.hijacked = wire.hijacked /\ wire'.end = wire.end
      /\ ~Undecided(wire) => wire' = wire
      /\ wire = bare => wire' = bare'
  BY <1>1, <1>2, HeaderSent DEF OK
<1>4. slipped' \in BOOLEAN /\ behind' \in BOOLEAN /\ raised' \in Panics
  BY <1>1, Zenon DEF RecorderInv, TypeOK
<1>5. TypeOK' /\ LineWritten'
  BY <1>1, <1>2, <1>3, <1>4, CallKept
<1>6. SameResponse'
  BY <1>1, <1>3 DEF RecorderInv, SameResponse
<1>7. StatusKnown'
  <2>1. CASE UNCHANGED <<wire, bare, behind>>
    BY <1>1, <2>1 DEF RecorderInv, StatusKnown
  <2>2. CASE behind' = (behind \/ (Undecided(wire) /\ ~rr.wroteHeader))
    <3> SUFFICES ASSUME ~slipped', ~behind'
                 PROVE  IF rr.wroteHeader THEN wire'.status = rr.status /\ rr.status # None
                        ELSE ~wire'.hijacked /\ wire'.status = None
      BY <1>1 DEF StatusKnown
    <3>1. ~slipped /\ ~behind /\ (~Undecided(wire) \/ rr.wroteHeader)
      BY <1>1, <2>2, Zenon
    <3>2. ~Undecided(wire)
      BY <3>1 DEF RecorderInv, SameResponse
    <3> QED BY <3>1, <3>2, <1>1, <1>3 DEF RecorderInv, StatusKnown
  <2> QED BY <1>1, <2>1, <2>2
<1>8. BytesCounted'
  BY <1>1, <1>3 DEF RecorderInv, BytesCounted
<1> QED BY <1>5, <1>6, <1>7, <1>8 DEF RecorderInv

\* So does a Hijack of a connection that has no status yet.
LEMMA HijackKept == ASSUME RecorderInv, Hijack PROVE RecorderInv'
<1>1. /\ Calling /\ place = "serving" /\ UNCHANGED <<place, rr, raised, slipped>>
      /\ \/ /\ wire' = [wire EXCEPT !.hijacked = TRUE]
            /\ bare' = [bare EXCEPT !.hijacked = TRUE]
            /\ behind' = (behind \/ Undecided(wire))
         \/ UNCHANGED <<wire, bare, behind>>
  BY DEF Hijack, Calling, responses
<1>2. /\ rr \in Recorders /\ wire \in Responses /\ bare \in Responses
  BY Types DEF RecorderInv
<1>3. /\ wire' \in Responses /\ bare' \in Responses /\ wire'.body = wire.body
      /\ wire'.status = wire.status /\ wire'.end = wire.end
      /\ wire = bare => wire' = bare'
      /\ ~Undecided(wire) => ~Undecided(wire')
  <2>1. CASE UNCHANGED <<wire, bare, behind>>
    BY <1>2, <2>1 DEF Undecided
  <2>2. CASE wire' = [wire EXCEPT !.hijacked = TRUE] /\ bare' = [bare EXCEPT !.hijacked = TRUE]
    BY <1>2, <2>2 DEF Responses, Undecided
  <2> QED BY <1>1, <2>1, <2>2
<1>4. slipped' \in BOOLEAN /\ behind' \in BOOLEAN /\ raised' \in Panics
  BY <1>1, Zenon DEF RecorderInv, TypeOK
<1>5. TypeOK' /\ LineWritten'
  BY <1>1, <1>2, <1>3, <1>4, CallKept
<1>6. SameResponse'
  BY <1>1, <1>3 DEF RecorderInv, SameResponse
<1>7. StatusKnown'
  <2>1. CASE UNCHANGED <<wire, bare, behind>>
    BY <1>1, <2>1 DEF RecorderInv, StatusKnown
  <2>2. CASE behind' = (behind \/ Undecided(wire))
    <3> SUFFICES ASSUME ~slipped', ~behind'
                 PROVE  rr.wroteHeader /\ wire'.status = rr.status /\ rr.status # None
      BY <1>1 DEF StatusKnown
    <3>1. ~slipped /\ ~behind /\ ~Undecided(wire)
      BY <1>1, <2>2, Zenon
    <3> QED BY <3>1, <1>1, <1>3 DEF RecorderInv, StatusKnown, Undecided
  <2> QED BY <1>1, <2>1, <2>2
<1>8. BytesCounted'
  BY <1>1, <1>3 DEF RecorderInv, BytesCounted
<1> QED BY <1>5, <1>6, <1>7, <1>8 DEF RecorderInv

\* The handler returns or panics, and the deferred function runs.
LEMMA TailKept ==
    ASSUME RecorderInv, (\E panic \in Panics : HandlerEnds(panic)) \/ LogAndRaise
    PROVE  RecorderInv'
<1>1. UNCHANGED <<rr, wire, bare, slipped, behind>> /\ place # "over" /\ place' # "over"
  BY DEF HandlerEnds, LogAndRaise, responses, history
<1>2. SameResponse' /\ StatusKnown' /\ BytesCounted'
  BY <1>1 DEF RecorderInv, SameResponse, StatusKnown, BytesCounted
<1>3. ASSUME NEW panic \in Panics, HandlerEnds(panic) PROVE TypeOK' /\ LineWritten'
  BY <1>3 DEF HandlerEnds, responses, history, RecorderInv, TypeOK, LineWritten
<1>4. CASE LogAndRaise
  <2>1. /\ place = "tail" /\ lines = << >> /\ lines' = (IF skipped THEN lines ELSE Append(lines, Line))
        /\ thrown' = raised /\ place' = "finish"
        /\ UNCHANGED <<supports, skipped, rr, wire, bare, raised, calls, slipped, behind>>
    BY <1>4 DEF LogAndRaise, responses, history, RecorderInv, LineWritten
  <2>2. Line \in [status : Nat, level : Levels, bytes : Nat, panic : Panics, stack : BOOLEAN]
    <3>1. rr.status \in Nat /\ rr.bytes \in Nat /\ raised \in Panics
      BY DEF RecorderInv, TypeOK
    <3>2. LoggedStatus \in Nat
      BY <3>1 DEF LoggedStatus, StatusCode, OK, InternalServerError
    <3>3. \A s \in Nat : DefaultLevelFor(s) \in Levels
      BY DEF DefaultLevelFor, Levels
    <3>4. (IF raised = "none" THEN DefaultLevelFor(LoggedStatus) ELSE "error") \in Levels
      BY <3>2, <3>3 DEF Levels
    <3> QED BY <3>1, <3>2, <3>4 DEF Line
  <2>3. lines' = IF skipped THEN << >> ELSE <<Line>>
    BY <2>1
  <2>4. TypeOK'
    <3>1. <<Line>> \in Seq(Lines)
      BY <2>2, OneLine DEF Lines
    <3>2. lines' \in Seq(Lines)
      BY <2>1, <2>3, <3>1 DEF RecorderInv, TypeOK, Lines
    <3> QED BY <2>1, <3>2 DEF RecorderInv, TypeOK, Lines
  <2>5. Line' = Line
    BY <2>1 DEF Line, LoggedStatus, StatusCode
  <2>6. LineWritten'
    <3>1. lines' = (IF skipped' THEN << >> ELSE <<Line'>>) /\ thrown' = raised'
      <4>1. CASE skipped
        BY <2>1, <2>3, <4>1
      <4>2. CASE ~skipped
        BY <2>1, <2>3, <2>5, <4>2
      <4> QED BY <4>1, <4>2
    <3>2. wire'.end = "open" /\ place' \notin {"serving", "tail"} /\ place' # "over"
      BY <2>1 DEF RecorderInv, LineWritten
    <3>3. wire'.end = IF place' # "over" THEN "open"
                      ELSE IF raised' = "none" THEN "complete" ELSE "aborted"
      BY <3>2
    <3> HIDE DEF Line
    <3> QED BY <3>1, <3>2, <3>3 DEF LineWritten
  <2> QED BY <1>2, <2>4, <2>6 DEF RecorderInv
<1> QED BY <1>2, <1>3, <1>4 DEF RecorderInv

\* The server ends both responses the same way.
LEMMA FinishKept == ASSUME RecorderInv, Finish PROVE RecorderInv'
<1>1. /\ place = "finish" /\ place' = "over"
      /\ wire' = NetFinish(wire, thrown) /\ bare' = NetFinish(bare, raised)
      /\ UNCHANGED <<supports, skipped, rr, raised, thrown, lines, calls, slipped, behind>>
  BY DEF Finish, history
<1>2. /\ rr \in Recorders /\ wire \in Responses /\ bare \in Responses
  BY Types DEF RecorderInv
<1>3. thrown = raised
  BY <1>1 DEF RecorderInv, LineWritten
<1> DEFINE Ended(w) == NetFinish(w, raised)
<1>4. ASSUME NEW w \in Responses
      PROVE  /\ Ended(w) \in Responses /\ Ended(w).body = w.body
             /\ Ended(w).hijacked = w.hijacked
             /\ Ended(w).end = IF raised = "none" THEN "complete" ELSE "aborted"
             /\ Ended(w).status = IF raised = "none" THEN NetHeader(w, OK).status ELSE w.status
  <2>1. /\ NetHeader(w, OK) \in Responses /\ NetHeader(w, OK).body = w.body
        /\ NetHeader(w, OK).hijacked = w.hijacked
    BY <1>4, HeaderSent DEF OK
  <2>2. CASE raised = "none"
    BY <2>1, <2>2 DEF NetFinish, Responses
  <2>3. CASE raised # "none"
    BY <1>4, <2>3 DEF NetFinish, Responses
  <2> QED BY <2>2, <2>3
<1>5. wire' = Ended(wire) /\ bare' = Ended(bare)
  BY <1>1, <1>3
<1> HIDE DEF Ended
<1>6. /\ wire' \in Responses /\ bare' \in Responses /\ wire'.body = wire.body
      /\ wire'.hijacked = wire.hijacked
      /\ wire'.end = IF raised = "none" THEN "complete" ELSE "aborted"
      /\ wire'.status = IF raised = "none" THEN NetHeader(wire, OK).status ELSE wire.status
  BY <1>2, <1>4, <1>5
<1>7. TypeOK'
  BY <1>1, <1>6 DEF RecorderInv, TypeOK
<1>8. LineWritten'
  <2>1. Line' = Line
    BY <1>1 DEF Line, LoggedStatus, StatusCode
  <2> QED BY <1>1, <1>6, <2>1 DEF RecorderInv, LineWritten
<1>9. /\ ~Undecided(wire) => NetHeader(wire, OK).status = wire.status
      /\ Undecided(wire) => NetHeader(wire, OK).status = OK
  BY <1>2, HeaderSent DEF OK
<1>10. SameResponse'
  <2>1. ~Undecided(wire) => ~Undecided(wire')
    BY <1>6, <1>9 DEF Undecided
  <2> QED BY <1>1, <1>5, <2>1 DEF RecorderInv, SameResponse
<1>11. StatusKnown'
  <2> SUFFICES ASSUME ~slipped, ~behind
               PROVE  IF rr.wroteHeader THEN wire'.status = rr.status /\ rr.status # None
                      ELSE /\ ~wire'.hijacked
                           /\ wire'.status = IF raised = "none" THEN OK ELSE None
    BY <1>1 DEF StatusKnown
  <2>1. CASE rr.wroteHeader
    <3>1. ~Undecided(wire) /\ wire.status = rr.status /\ rr.status # None
      BY <2>1 DEF RecorderInv, SameResponse, StatusKnown
    <3> QED BY <2>1, <3>1, <1>6, <1>9
  <2>2. CASE ~rr.wroteHeader
    <3>1. ~wire.hijacked /\ wire.status = None /\ Undecided(wire)
      BY <2>2, <1>1 DEF RecorderInv, StatusKnown, Undecided
    <3> QED BY <2>2, <3>1, <1>6, <1>9
  <2> QED BY <2>1, <2>2
<1>12. BytesCounted'
  BY <1>1, <1>6 DEF RecorderInv, BytesCounted
<1> QED BY <1>7, <1>8, <1>10, <1>11, <1>12 DEF RecorderInv

\* New, responseRecorder and the deferred function: whatever the handler calls, and
\* however it ends, the recorder's record of the response stays true.
THEOREM RecorderInvHolds == Spec => []RecorderInv
<1>1. Init => RecorderInv
  <2> SUFFICES ASSUME Init PROVE RecorderInv
    OBVIOUS
  <2>1. TypeOK
    <3>1. lines \in Seq(Lines)
      BY DEF Init
    <3>2. wire \in Responses /\ bare \in Responses
      BY DEF Init, Untouched, Responses, None
    <3>3. /\ rr \in [wroteHeader : BOOLEAN, status : Nat, bytes : Nat]
          /\ rr.status = None
      BY DEF Init, None
    <3>4. raised \in Panics /\ thrown \in Panics
      BY DEF Init, Panics
    <3>5. calls \in 0 .. MaxCalls
      BY ConstantsAssumption DEF Init
    <3>6. supports \subseteq {"flush", "hijack"} /\ skipped \in BOOLEAN
      BY DEF Init
    <3> QED BY <3>1, <3>2, <3>3, <3>4, <3>5, <3>6 DEF Init, TypeOK, Lines
  <2> QED BY <2>1 DEF Init, RecorderInv, SameResponse, StatusKnown, LineWritten, BytesCounted,
                     Untouched, None
<1>2. RecorderInv /\ [Next]_vars => RecorderInv'
  <2> SUFFICES ASSUME RecorderInv, [Next]_vars PROVE RecorderInv'
    OBVIOUS
  <2>1. ASSUME UNCHANGED vars PROVE RecorderInv'
    BY <2>1 DEF vars, responses, history, RecorderInv, TypeOK, SameResponse, StatusKnown,
                LineWritten, BytesCounted, Undecided, Line, LoggedStatus, StatusCode
  <2>2. CASE Next
    BY <2>1, <2>2, WriteHeaderKept, WriteKept, ReadFromKept, FlushKept, HijackKept, TailKept,
       FinishKept DEF Next, Over
  <2> QED BY <2>1, <2>2
<1> QED BY <1>1, <1>2, PTL DEF Spec

\* responseRecorder keeps every variable in its type.
THEOREM TypeCorrect == Spec => []TypeOK
<1>1. RecorderInv => TypeOK
  BY DEF RecorderInv
<1> QED BY <1>1, RecorderInvHolds, PTL

\* "It observes; it never alters", for every order of calls in which the recorder
\* takes no status for sent that is not final.
THEOREM OnlySlipsAlter == Spec => []NeverAltersUnlessSlipped
<1>1. RecorderInv => NeverAltersUnlessSlipped
  BY DEF RecorderInv, SameResponse, NeverAltersUnlessSlipped
<1> QED BY <1>1, RecorderInvHolds, PTL

\* Nothing changes the status of a response, or gives a connection back, once it is
\* decided.
LEMMA DecidedStays ==
    ASSUME TypeOK, Next, ~Undecided(wire)
    PROVE  wire'.status = wire.status /\ (wire.hijacked => wire'.hijacked)
<1>1. /\ rr \in Recorders /\ wire \in Responses
      /\ OK \in Nat /\ \A c \in Statuses : c \in Nat
      /\ \A n \in Chunks : n \in Nat
  BY Types, ConstantsAssumption DEF OK
<1>2. \A c \in Nat : Forwarded(c) = wire /\ NetHeader(wire, c) = wire
  BY <1>1, Forwards, HeaderSent
<1>3. ASSUME NEW c \in Statuses, WriteHeader(c) PROVE wire' = wire
  BY <1>1, <1>2, <1>3 DEF WriteHeader
<1>4. ASSUME NEW n \in Chunks, Write(n) \/ ReadFrom(n)
      PROVE  wire'.status = wire.status /\ wire'.hijacked = wire.hijacked
  <2>1. wire' = NetWrite(wire, n) \/ wire' = NetCopy(wire, n)
    BY <1>1, <1>2, <1>4 DEF Write, ReadFrom
  <2>2. n \in Nat /\ NetHeader(wire, OK).status = wire.status
    BY <1>1, <1>2
  <2>3. /\ NetWrite(wire, n).status = wire.status
        /\ NetWrite(wire, n).hijacked = wire.hijacked
    BY <1>1, <2>2, BodySent
  <2>4. /\ NetCopy(wire, n).status = wire.status
        /\ NetCopy(wire, n).hijacked = wire.hijacked
    BY <1>1, <2>2, CopySent
  <2> QED BY <2>1, <2>3, <2>4
<1>5. ASSUME Flush PROVE wire' = wire
  BY <1>1, <1>2, <1>5 DEF Flush, responses
<1>6. ASSUME Hijack PROVE wire' = wire \/ wire' = [wire EXCEPT !.hijacked = TRUE]
  BY <1>6 DEF Hijack, responses
<1>7. ASSUME Finish PROVE wire' = [wire EXCEPT !.end = "complete"]
                           \/ wire' = [wire EXCEPT !.end = "aborted"]
  BY <1>1, <1>2, <1>7 DEF Finish, NetFinish
<1>8. ASSUME (\E panic \in Panics : HandlerEnds(panic)) \/ LogAndRaise \/ Over
      PROVE  wire' = wire
  BY <1>8 DEF HandlerEnds, LogAndRaise, Over, vars, responses
<1>9. CASE Hijack \/ Finish
  BY <1>1, <1>6, <1>7, <1>9 DEF Responses
<1> QED BY <1>3, <1>4, <1>5, <1>8, <1>9 DEF Next

\* responseRecorder.Flush and Hijack, which the recorder does not look at.
LEMMA FlushSentHolds == Spec => []FlushSent
<1>1. Init => FlushSent
  BY DEF Init, FlushSent
<1>2. RecorderInv /\ FlushSent /\ [Next]_vars => FlushSent'
  <2> SUFFICES ASSUME RecorderInv, FlushSent, [Next]_vars PROVE FlushSent'
    OBVIOUS
  <2>1. CASE UNCHANGED vars
    BY <2>1 DEF vars, responses, history, FlushSent
  <2>2. CASE Next /\ behind
    <3>1. ~Undecided(wire)
      BY <2>2 DEF FlushSent, Undecided, OK, None
    <3>2. wire'.status = wire.status /\ (wire.hijacked => wire'.hijacked)
      BY <2>2, <3>1, DecidedStays DEF RecorderInv
    <3> QED BY <2>2, <3>2 DEF FlushSent
  <2>3. CASE Flush /\ ~behind
    <3>1. wire \in Responses
      BY Types DEF RecorderInv
    <3>2. Undecided(wire) => NetHeader(wire, OK).status = OK
      BY <3>1, HeaderSent DEF OK
    <3> QED BY <2>3, <3>2, Zenon DEF Flush, FlushSent
  <2>4. CASE Hijack /\ ~behind
    <3>1. wire \in Responses
      BY Types DEF RecorderInv
    <3>2. Undecided(wire) => /\ [wire EXCEPT !.hijacked = TRUE].status = None
                             /\ [wire EXCEPT !.hijacked = TRUE].hijacked
      BY <3>1 DEF Responses, Undecided
    <3> QED BY <2>4, <3>2, Zenon DEF Hijack, FlushSent
  <2>5. CASE Next /\ ~behind /\ ~Flush /\ ~Hijack
    <3>1. behind' = behind
      BY <2>5 DEF Next, WriteHeader, Write, ReadFrom, HandlerEnds, LogAndRaise, Finish, Over, vars,
                  history
    <3> QED BY <2>5, <3>1 DEF FlushSent
  <2> QED BY <2>1, <2>2, <2>3, <2>4, <2>5
<1> QED BY <1>1, <1>2, RecorderInvHolds, PTL DEF Spec

\* The deferred function of New: one line for every request that is not skipped,
\* with the status and the bytes that went out, panics included.
THEOREM LineTrue == Spec => []OneTrueLine
<1>1. ASSUME RecorderInv, FlushSent PROVE OneTrueLine
  <2> SUFFICES ASSUME place = "over"
      PROVE  /\ Len(lines) = IF skipped THEN 0 ELSE 1
             /\ ~skipped => /\ lines[1].bytes = wire.body
                            /\ wire.end = "aborted" => lines[1].level = "error"
                            /\ ~slipped /\ (behind => Streamed) => lines[1].status =
                                 IF wire.end = "aborted" /\ wire.status = None
                                 THEN InternalServerError ELSE wire.status
    <3>1. CASE skipped
      BY <3>1 DEF OneTrueLine
    <3>2. CASE ~skipped
      <4>1. SUFFICES ASSUME place = "over", NEW i \in 1 .. Len(lines)
                     PROVE  /\ Len(lines) = 1
                            /\ lines[i].bytes = wire.body
                            /\ wire.end = "aborted" => lines[i].level = "error"
                            /\ ~slipped /\ (behind => Streamed) => lines[i].status =
                                 IF wire.end = "aborted" /\ wire.status = None
                                 THEN InternalServerError ELSE wire.status
        BY <3>2 DEF OneTrueLine
      <4>2. Len(lines) = 1
        BY <3>2, <4>1
      <4>3. i = 1
        BY <4>2
      <4> QED BY <3>2, <4>1, <4>2, <4>3, Zenon
    <3> QED BY <3>1, <3>2
  <2>1. /\ lines = IF skipped THEN << >> ELSE <<Line>>
        /\ wire.end = IF raised = "none" THEN "complete" ELSE "aborted"
    BY <1>1 DEF RecorderInv, LineWritten
  <2>2. CASE skipped
    BY <2>1, <2>2
  <2>3. CASE ~skipped
    <3>1. Len(lines) = 1 /\ lines[1] = Line
      BY <2>1, <2>3, OneLine
    <3>2. Line.bytes = wire.body /\ Line.status = LoggedStatus
      BY <1>1 DEF Line, RecorderInv, BytesCounted
    <3>3. wire.end = "aborted" => Line.level = "error"
      BY <2>1 DEF Line
    <3>4. ~slipped /\ (behind => Streamed) => LoggedStatus =
             IF wire.end = "aborted" /\ wire.status = None
             THEN InternalServerError ELSE wire.status
      <4>1. CASE behind
        BY <1>1, <2>1, <4>1 DEF FlushSent, Streamed, LoggedStatus, StatusCode, OK, None
      <4>2. CASE ~behind /\ rr.wroteHeader
        BY <1>1, <2>1, <4>2 DEF RecorderInv, StatusKnown, LoggedStatus, StatusCode
      <4>3. CASE ~behind /\ ~rr.wroteHeader
        BY <1>1, <2>1, <4>3 DEF RecorderInv, StatusKnown, LoggedStatus, StatusCode, OK, None
      <4> QED BY <4>1, <4>2, <4>3
    <3> QED BY <2>3, <3>1, <3>2, <3>3, <3>4, Zenon
  <2> QED BY <2>2, <2>3
<1> QED BY <1>1, RecorderInvHolds, FlushSentHolds, PTL
=============================================================================
