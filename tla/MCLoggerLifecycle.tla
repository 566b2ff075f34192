-------------------------- MODULE MCLoggerLifecycle --------------------------
(* Finite values for the constants of LoggerLifecycle.                       *)
EXTENDS LoggerLifecycle

CONSTANTS r1, r2, f1, s1, s2

Sink == Handler("sink", <<>>)
Over(given, calls) ==
    [use |-> "override", own |-> FALSE, given |-> given, calls |-> calls,
     expiring |-> {}, quiet |-> {}, flips |-> 0]

\* A buffer that feeds another one.
TwoBuffers ==
    [Over(<<Sink, Handler("buffer", <<1>>), Handler("decorator", <<2>>), Handler("buffer", <<3>>)>>,
          {r1, r2, f1, s1}) EXCEPT !.expiring = {f1}]

\* A fan-out to two buffers, by a buffer to a sink and a buffer, and a buffer that
\* is reached directly and through another.
Branches ==
    Over(<<Sink, Sink, Handler("buffer", <<2>>), Handler("buffer", <<1>>),
           Handler("multi", <<4, 3>>)>>, {r1, r2, f1, s1})
BufferedBranches ==
    Over(<<Sink, Sink, Handler("buffer", <<1>>), Handler("multi", <<2, 3>>),
           Handler("buffer", <<4>>)>>, {r1, r2, f1, s1})
SharedBuffer ==
    Over(<<Sink, Handler("buffer", <<1>>), Handler("buffer", <<2>>), Handler("multi", <<2, 3>>)>>,
         {r1, f1, s1})

\* A branch the logger cannot look into.
OpaqueBranch ==
    Over(<<Sink, Handler("buffer", <<1>>), Handler("opaque", <<2>>), Handler("buffer", <<1>>),
           Handler("multi", <<4, 3>>)>>, {r1, f1, s1})

\* New's own buffer above a Writer or a Sink, with the level raised meanwhile, and two
\* callers of Shutdown.
OwnAboveWriter ==
    [use |-> "writer", own |-> TRUE, given |-> <<Sink>>, calls |-> {r1, r2, s1, s2},
     expiring |-> {s1}, quiet |-> {r1}, flips |-> 2]
OwnAboveSink == [OwnAboveWriter EXCEPT !.use = "sink"]

\* A Sink that brings its own buffer, alone and below New's.
BufferedSink ==
    [use |-> "sink", own |-> FALSE, given |-> <<Sink, Handler("buffer", <<1>>)>>,
     calls |-> {r1, r2, f1, s1},
     expiring |-> {}, quiet |-> {r1}, flips |-> 1]
OwnAboveBuffer == [BufferedSink EXCEPT !.own = TRUE, !.calls = {r1, f1, s1}]

PassSetups == {TwoBuffers, Branches, BufferedBranches, SharedBuffer, OpaqueBranch,
               OwnAboveWriter, OwnAboveSink, BufferedSink, OwnAboveBuffer}
SinkSetups == {OwnAboveBuffer}
=============================================================================
