---------------------------- MODULE GlobalLogger ----------------------------
(* The process-wide logger of config.go and loggerext.go: SetGlobal, L with  *)
(* its lazy default, EnsureLoggerOnce. A step is one atomic operation; what  *)
(* New does is nobody else's state, but it takes its time.                   *)
EXTENDS Integers

CONSTANTS
    Goroutines,     \* callers; each makes one call at a time
    LazyDefault,    \* the logger that L builds
    Ensured,        \* the logger that EnsureLoggerOnce builds
    None

ASSUME GlobalAssumption == LazyDefault # None /\ Ensured \notin {LazyDefault, None}

VARIABLES
    global,         \* globalLogger
    lazyOnce,       \* globalOnce
    ensureOnce,     \* ensureLoggerOnce
    place,          \* where a goroutine is in its call
    got,            \* what L last returned to it
    installed,      \* history: SetGlobal has been called
    late            \* history: the goroutine's L began after that

globalVars == <<global, lazyOnce, ensureOnce, place, got, installed, late>>

Places == {"idle", "once", "build", "reload", "ensure"}
OnceStates == {"new", "busy", "done"}

GlobalInit ==
    /\ global = None
    /\ lazyOnce = "new" /\ ensureOnce = "new"
    /\ place = [g \in Goroutines |-> "idle"]
    /\ got = [g \in Goroutines |-> None]
    /\ installed = FALSE
    /\ late = [g \in Goroutines |-> FALSE]

At(g, from, to) == place[g] = from /\ place' = [place EXCEPT ![g] = to]

Store(l) == global' = l /\ installed' = TRUE

\* A nil logger panics and changes nothing.
SetGlobal(g, l) ==
    /\ place[g] = "idle"
    /\ Store(l)
    /\ UNCHANGED <<lazyOnce, ensureOnce, place, got, late>>

\* L: the first load.
LLoad(g) ==
    /\ IF global # None
       THEN At(g, "idle", "idle") /\ got' = [got EXCEPT ![g] = global]
       ELSE At(g, "idle", "once") /\ UNCHANGED got
    /\ late' = [late EXCEPT ![g] = installed]
    /\ UNCHANGED <<global, lazyOnce, ensureOnce, installed>>

\* once.Do: the first caller runs the function, the others wait for its end.
LOnce(g) ==
    /\ \/ lazyOnce = "new" /\ At(g, "once", "build") /\ lazyOnce' = "busy"
       \/ lazyOnce = "done" /\ At(g, "once", "reload") /\ UNCHANGED lazyOnce
    /\ UNCHANGED <<global, ensureOnce, got, installed, late>>

\* Mutant: the default is stored, not swapped in.
LBuildStore(g) ==
    /\ At(g, "build", "reload")
    /\ global' = LazyDefault
    /\ lazyOnce' = "done"
    /\ UNCHANGED <<ensureOnce, got, installed, late>>

\* New has returned; CompareAndSwap, and the end of the once.
LBuild(g) ==
    /\ At(g, "build", "reload")
    /\ global' = IF global = None THEN LazyDefault ELSE global
    /\ lazyOnce' = "done"
    /\ UNCHANGED <<ensureOnce, got, installed, late>>

LReload(g) ==
    /\ At(g, "reload", "idle")
    /\ got' = [got EXCEPT ![g] = global]
    /\ UNCHANGED <<global, lazyOnce, ensureOnce, installed, late>>

\* EnsureLoggerOnce: the call that runs the function, before New and after it.
\* The others wait and change nothing.
EnsureBegin(g) ==
    /\ ensureOnce = "new" /\ ensureOnce' = "busy"
    /\ At(g, "idle", "ensure")
    /\ UNCHANGED <<global, lazyOnce, got, installed, late>>

EnsureSet(g) ==
    /\ At(g, "ensure", "idle")
    /\ Store(Ensured)
    /\ ensureOnce' = "done"
    /\ UNCHANGED <<lazyOnce, got, late>>

GlobalStep(g) ==
    LLoad(g) \/ LOnce(g) \/ LBuild(g) \/ LReload(g) \/ EnsureBegin(g) \/ EnsureSet(g)
=============================================================================
