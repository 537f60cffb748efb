------------------------------- MODULE Values -------------------------------
(***************************************************************************)
(* The lifetime of built values (value.go), from the build that reads its  *)
(* dependencies to the cleanup that gives them back, together with what    *)
(* drops references: leases (provider.go), Invalidate, and CloseContext    *)
(* (graph.go).                                                             *)
(*                                                                         *)
(* A member of Value is one run of a Deferred builder: the attempt, its    *)
(* scope, and the gen it publishes if it succeeds.  Which provider builds  *)
(* when, and how callers wait for it, is module Node's business: here any  *)
(* build may start while the graph accepts builds, and an invalidation     *)
(* swaps out whichever current values it likes.                            *)
(*                                                                         *)
(* Every atomic operation and every critical section of the code is one    *)
(* action, so that goroutines interleave between them.  The recursion of   *)
(* gen.release through releaseAll is kept as data: caller[v] is the        *)
(* release (or the top-level operation) that waits for v's cleanup.        *)
(***************************************************************************)
EXTENDS Integers, Sequences, FiniteSets

CONSTANTS
    Value,        \* builds, and the values they publish
    Lease,        \* leases handed out by Acquire
    Invalidator,  \* goroutines calling Graph.Invalidate
    Closer,       \* the goroutine in the first Graph.CloseContext
    None,
    Reader,       \* goroutines of one builder that call From
    MaxReads,     \* bound: calls of From in one build
    MaxClosers,   \* bound: calls of OnClose in one build
    Joins,        \* do builders join their parallel reads before they end?
    HasDeadline   \* may the context of CloseContext end?

ValuesAssumption ==
    /\ IsFiniteSet(Value) /\ IsFiniteSet(Lease) /\ IsFiniteSet(Reader)
    /\ MaxReads \in Nat /\ MaxClosers \in Nat
    /\ Joins \in BOOLEAN /\ HasDeadline \in BOOLEAN
    /\ None \notin Value \cup Lease
    /\ (Lease \cup Invalidator \cup {Closer}) \cap Value = {}
    /\ Lease \cap (Invalidator \cup {Closer}) = {}
    /\ Closer \notin Invalidator
ASSUME ValuesAssumption

\* The operations that swap a provider's current value out and release it.
Dropper == Invalidator \cup {Closer}
\* Everything that can be waiting for a release to return.
Releaser == Value \cup Lease \cup Dropper

VARIABLES
    phase,     \* phase[v]: progress of the build and of its provider's reference
    reading,   \* reading[v][r]: the box reader r of v's builder has loaded
    deps,      \* deps[v]: scope.deps, then gen.deps
    left,      \* left[v]: how many of deps[v] are referenced and not yet released
    closers,   \* closers[v]: how many cleanups v's builder registered
    refs,      \* refs[v]: gen.refs
    cleanup,   \* cleanup[v]: has the reference count of v reached zero?
    next,      \* next[v]: the cleanup runAll is at, counting down
    inside,    \* inside[v]: is that cleanup function executing?
    done,      \* done[v]: the cleanups whose closer.done is set
    caller,    \* caller[v]: who waits for v's cleanup to return
    lease,     \* lease[l]: progress of lease l
    of,        \* of[l]: the value it is on
    stack,     \* stack[d]: values d has swapped out and not yet released
    live,      \* Graph.live
    inflight,  \* Graph.inflight
    closing,   \* progress of CloseContext
    drained,   \* is the channel Graph.drained closed?
    forced,    \* CloseContext's forced: the values live at the deadline
    forceLeft, \* those it has not come to yet
    forcing,   \* the one it is at
    fnext,     \* next and inside of its runAll
    finside,
    errs,      \* errs[a]: cleanup errors on the way up to a
    failed,    \* every cleanup that returned an error
    late,      \* Graph.late
    reported   \* errors returned by Invalidate or CloseContext

buildVars == <<reading, deps, left, closers>>
cleanVars == <<cleanup, next, caller>>
runVars   == <<inside, done>>
leaseVars == <<lease, of>>
graphVars == <<live, inflight, drained>>
forceVars == <<forced, forceLeft, forcing, fnext, finside>>
errVars   == <<errs, failed, late, reported>>
vars == <<phase, buildVars, refs, cleanVars, runVars, leaseVars, stack,
          graphVars, closing, forceVars, errVars>>

Phase   == {"unborn", "building", "current", "swapped", "dropped", "discarded"}
Cleanup == {"none", "running", "over"}
Closing == {"open", "shutting", "waiting", "forcing", "returned", "timedOut"}
LeaseState == {"idle", "loaded", "held", "releasing", "released"}

Built(v) == phase[v] \in {"current", "swapped", "dropped"}
Returned == closing \in {"returned", "timedOut"}

BuildTypes ==
    /\ phase \in [Value -> Phase]
    /\ reading \in [Value -> [Reader -> Value \cup {None}]]
    /\ deps \in [Value -> Seq(Value)]
    /\ left \in [Value -> 0..MaxReads]
    /\ \A v \in Value : left[v] <= Len(deps[v])
    /\ closers \in [Value -> 0..MaxClosers]
CleanTypes ==
    /\ refs \in [Value -> Int]
    /\ cleanup \in [Value -> Cleanup]
    /\ next \in [Value -> 0..MaxClosers]
    /\ inside \in [Value -> BOOLEAN]
    /\ done \in [Value -> SUBSET (1..MaxClosers)]
    /\ caller \in [Value -> Releaser \cup {None}]
LeaseTypes ==
    /\ lease \in [Lease -> LeaseState]
    /\ of \in [Lease -> Value \cup {None}]
    /\ \A l \in Lease : lease[l] # "idle" => of[l] \in Value
StackTypes == stack \in [Dropper -> Seq(Value)]
GraphTypes ==
    /\ live \subseteq Value
    /\ inflight \subseteq Value
    /\ closing \in Closing
    /\ drained \in BOOLEAN
ForceTypes ==
    /\ forced \subseteq Value
    /\ forceLeft \subseteq forced
    /\ forcing \in forced \cup {None}
    /\ fnext \in 0..MaxClosers
    /\ finside \in BOOLEAN
ErrTypes ==
    /\ errs \in [Releaser -> SUBSET (Value \X (1..MaxClosers))]
    /\ failed \subseteq Value \X (1..MaxClosers)
    /\ late \subseteq Value \X (1..MaxClosers)
    /\ reported \subseteq Value \X (1..MaxClosers)
\* The types of the variables; every count stays within its bound (value.go:11).
TypeOK ==
    /\ BuildTypes /\ CleanTypes /\ LeaseTypes /\ StackTypes
    /\ GraphTypes /\ ForceTypes /\ ErrTypes

Init ==
    /\ phase = [v \in Value |-> "unborn"]
    /\ reading = [v \in Value |-> [r \in Reader |-> None]]
    /\ deps = [v \in Value |-> <<>>]
    /\ left = [v \in Value |-> 0]
    /\ closers = [v \in Value |-> 0]
    /\ refs = [v \in Value |-> 0]
    /\ cleanup = [v \in Value |-> "none"]
    /\ next = [v \in Value |-> 0]
    /\ inside = [v \in Value |-> FALSE]
    /\ done = [v \in Value |-> {}]
    /\ caller = [v \in Value |-> None]
    /\ lease = [l \in Lease |-> "idle"]
    /\ of = [l \in Lease |-> None]
    /\ stack = [d \in Dropper |-> <<>>]
    /\ live = {} /\ inflight = {}
    /\ closing = "open" /\ drained = FALSE
    /\ forced = {} /\ forceLeft = {} /\ forcing = None
    /\ fnext = 0 /\ finside = FALSE
    /\ errs = [a \in Releaser |-> {}]
    /\ failed = {} /\ late = {} /\ reported = {}

-----------------------------------------------------------------------------
(* Operators shared by the actions.                                        *)

\* Mutant: checkDrained that forgets live.
CheckDrainedBuildsOnly(lv, inf) == drained \/ (closing # "open" /\ inf = {})
\* Graph.checkDrained, called with the new live and inflight: the channel
\* exists from the first step of CloseContext on, and is never reopened.
CheckDrained(lv, inf) == drained \/ (closing # "open" /\ lv = {} /\ inf = {})

\* a waits for a cleanup that one of its releases started.
Blocked(a) == \E v \in Value : cleanup[v] = "running" /\ caller[v] = a

\* gen.acquire succeeds unless v is already being cleaned up.
\* Mutant: acquire without the test.
AcquirableAlways(v) == TRUE
Acquirable(v) == refs[v] > 0

\* The decrement of gen.release brings the count to zero.
\* Mutant: the test reads the count before the decrement.
LastReferenceEarly(v) == refs[v] = 0
LastReference(v) == refs[v] = 1

\* Where runAll begins, counting down.
\* Mutant: a loop that begins at len(cs).
FirstCleanupPastEnd(v) == closers[v] + 1
FirstCleanup(v) == closers[v]

\* The first steps of gen.release of v, called by a: the decrement and, for
\* the one that brings the count to zero, the start of runAll.
Release(v, a) ==
    /\ refs' = [refs EXCEPT ![v] = @ - 1]
    /\ IF LastReference(v)
       THEN /\ cleanup' = [cleanup EXCEPT ![v] = "running"]
            /\ next' = [next EXCEPT ![v] = FirstCleanup(v)]
            /\ caller' = [caller EXCEPT ![v] = a]
       ELSE UNCHANGED cleanVars

-----------------------------------------------------------------------------
(* A build: the builder reads its dependencies with From and registers     *)
(* cleanups with OnClose; finish then publishes its value or gives         *)
(* everything back.                                                        *)

\* get creates an attempt.  CloseContext sets closed first and shuts the
\* providers one by one afterwards, so a build may start until it has.
StartBuild(v) ==
    /\ phase[v] = "unborn"
    /\ closing \in {"open", "shutting"}
    /\ phase' = [phase EXCEPT ![v] = "building"]
    /\ inflight' = inflight \cup {v}
    /\ UNCHANGED <<buildVars, refs, cleanVars, runVars, leaseVars, stack,
                   live, drained, closing, forceVars, errVars>>

OnClose(v) ==
    /\ phase[v] = "building"
    /\ closers[v] < MaxClosers
    /\ closers' = [closers EXCEPT ![v] = @ + 1]
    /\ UNCHANGED <<phase, reading, deps, left, refs, cleanVars, runVars,
                   leaseVars, stack, graphVars, closing, forceVars, errVars>>

\* From checks the scope and get loads the provider's box.
Load(v, r) ==
    /\ phase[v] = "building"
    /\ reading[v][r] = None
    /\ Len(deps[v]) + Cardinality({s \in Reader : reading[v][s] # None}) < MaxReads
    /\ \E u \in Value :
         /\ phase[u] = "current"
         /\ reading' = [reading EXCEPT ![v][r] = u]
    /\ UNCHANGED <<phase, deps, left, closers, refs, cleanVars, runVars,
                   leaseVars, stack, graphVars, closing, forceVars, errVars>>

\* gen.acquire succeeds and From appends the value to the scope.  After the
\* builder has returned the append is lost on finish, which took its copy.
Acquire(v, r) ==
    LET u == reading[v][r] IN
    /\ u # None
    /\ Acquirable(u)
    /\ refs' = [refs EXCEPT ![u] = @ + 1]
    /\ deps' = [deps EXCEPT ![v] = Append(@, u)]
    /\ left' = [left EXCEPT ![v] = IF phase[v] = "building" THEN @ + 1 ELSE @]
    /\ reading' = [reading EXCEPT ![v][r] = None]
    /\ UNCHANGED <<phase, closers, cleanVars, runVars, leaseVars, stack,
                   graphVars, closing, forceVars, errVars>>

\* gen.acquire fails: the value is being cleaned up, get tries again.
AcquireFails(v, r) ==
    LET u == reading[v][r] IN
    /\ u # None
    /\ ~Acquirable(u)
    /\ reading' = [reading EXCEPT ![v][r] = None]
    /\ UNCHANGED <<phase, deps, left, closers, refs, cleanVars, runVars,
                   leaseVars, stack, graphVars, closing, forceVars, errVars>>

\* The builder may return: with Joins, only once its reads have.
MayReturn(v) ==
    /\ phase[v] = "building"
    /\ Joins => \A r \in Reader : reading[v][r] = None

\* finish publishes: newGen registers the value unless the graph is closed.
Publish(v) ==
    /\ MayReturn(v)
    /\ closing = "open"
    /\ phase' = [phase EXCEPT ![v] = "current"]
    /\ refs' = [refs EXCEPT ![v] = 1]
    /\ live' = live \cup {v}
    /\ UNCHANGED <<buildVars, cleanVars, runVars, leaseVars, stack, inflight,
                   drained, closing, forceVars, errVars>>

\* finish refuses: the build failed or panicked, its epoch is over, or the
\* graph is closed.  It runs the cleanups and releases what was read.
Discard(v) ==
    /\ MayReturn(v)
    /\ phase' = [phase EXCEPT ![v] = "discarded"]
    /\ cleanup' = [cleanup EXCEPT ![v] = "running"]
    /\ next' = [next EXCEPT ![v] = FirstCleanup(v)]
    /\ UNCHANGED <<buildVars, refs, caller, runVars, leaseVars, stack,
                   graphVars, closing, forceVars, errVars>>

\* The end of finish: the attempt leaves inflight.
FinishBuild(v) ==
    /\ v \in inflight
    /\ phase[v] # "building"
    /\ phase[v] = "discarded" => cleanup[v] = "over"
    /\ inflight' = inflight \ {v}
    /\ drained' = CheckDrained(live, inflight \ {v})
    /\ UNCHANGED <<phase, buildVars, refs, cleanVars, runVars, leaseVars,
                   stack, live, closing, forceVars, errVars>>

-----------------------------------------------------------------------------
(* The cleanup of a value, or of what a refused build created: runAll,     *)
(* releaseAll, and the return to whoever called release.                   *)

\* The cleanup runAll comes to: the last registered runs first.
\* Mutant: first registered, first run.
CleanupAtForward(v) == closers[v] - next[v] + 1
CleanupAt(v) == next[v]

\* Mutant: closer.run without the compare-and-swap.
RunCloserAgain(v) ==
    /\ cleanup[v] = "running" /\ next[v] > 0 /\ ~inside[v]
    /\ done' = [done EXCEPT ![v] = @ \cup {CleanupAt(v)}]
    /\ inside' = [inside EXCEPT ![v] = TRUE]
    /\ UNCHANGED <<phase, buildVars, refs, cleanVars, leaseVars, stack,
                   graphVars, closing, forceVars, errVars>>
\* closer.run sets done and calls the function, unless it was already set.
RunCloser(v) ==
    /\ cleanup[v] = "running" /\ next[v] > 0 /\ ~inside[v]
    /\ IF CleanupAt(v) \in done[v]
       THEN /\ next' = [next EXCEPT ![v] = @ - 1]
            /\ UNCHANGED <<inside, done>>
       ELSE /\ done' = [done EXCEPT ![v] = @ \cup {CleanupAt(v)}]
            /\ inside' = [inside EXCEPT ![v] = TRUE]
            /\ UNCHANGED next
    /\ UNCHANGED <<phase, buildVars, refs, cleanup, caller, leaseVars, stack,
                   graphVars, closing, forceVars, errVars>>

\* The function returns, with an error or without.
CloserReturns(v) ==
    /\ inside[v]
    /\ inside' = [inside EXCEPT ![v] = FALSE]
    /\ next' = [next EXCEPT ![v] = @ - 1]
    /\ \/ UNCHANGED <<errs, failed>>
       \/ /\ errs' = [errs EXCEPT ![v] = @ \cup {<<v, CleanupAt(v)>>}]
          /\ failed' = failed \cup {<<v, CleanupAt(v)>>}
    /\ UNCHANGED <<phase, buildVars, refs, cleanup, caller, done, leaseVars,
                   stack, graphVars, closing, forceVars, late, reported>>

\* Mutant: release gives the dependencies back without waiting for runAll.
CleanupsRunNot(v) == cleanup[v] = "running" /\ ~inside[v] /\ ~Blocked(v)
\* All of v's cleanups were run, and no release it called is under way.
CleanupsRun(v) ==
    /\ cleanup[v] = "running" /\ next[v] = 0 /\ ~inside[v]
    /\ ~Blocked(v)

\* releaseAll releases the dependency read last of those left.
ReleaseDep(v) ==
    /\ CleanupsRun(v)
    /\ left[v] > 0
    /\ Release(deps[v][left[v]], v)
    /\ left' = [left EXCEPT ![v] = @ - 1]
    /\ UNCHANGED <<phase, reading, deps, closers, runVars, leaseVars, stack,
                   graphVars, closing, forceVars, errVars>>

\* What release returns: the errors of v's cleanups and of the releases that
\* releaseAll called.  Mutant: those of v's cleanups only.
OwnErrors(v) == {e \in errs[v] : e[1] = v}
JoinedErrors(v) == errs[v]

\* The end of release: v leaves live and its errors go to the caller.
ReleaseReturns(v) ==
    /\ CleanupsRun(v)
    /\ left[v] = 0
    /\ phase[v] # "discarded"
    /\ live' = live \ {v}
    /\ drained' = CheckDrained(live \ {v}, inflight)
    /\ cleanup' = [cleanup EXCEPT ![v] = "over"]
    /\ errs' = [errs EXCEPT ![v] = {}, ![caller[v]] = @ \cup JoinedErrors(v)]
    /\ UNCHANGED <<phase, buildVars, refs, next, caller, runVars, leaseVars,
                   stack, inflight, closing, forceVars, failed, late, reported>>

\* finish hands the errors of a refused build to addLate.
DiscardReturns(v) ==
    /\ CleanupsRun(v)
    /\ left[v] = 0
    /\ phase[v] = "discarded"
    /\ cleanup' = [cleanup EXCEPT ![v] = "over"]
    /\ errs' = [errs EXCEPT ![v] = {}]
    /\ late' = late \cup errs[v]
    /\ UNCHANGED <<phase, buildVars, refs, next, caller, runVars, leaseVars,
                   stack, graphVars, closing, forceVars, failed, reported>>

-----------------------------------------------------------------------------
(* Leases.                                                                 *)

\* Acquire loads the provider's box.
LeaseLoad(l) ==
    /\ lease[l] = "idle"
    /\ \E v \in Value :
         /\ phase[v] = "current"
         /\ of' = [of EXCEPT ![l] = v]
    /\ lease' = [lease EXCEPT ![l] = "loaded"]
    /\ UNCHANGED <<phase, buildVars, refs, cleanVars, runVars, stack,
                   graphVars, closing, forceVars, errVars>>

\* gen.acquire, which refuses a value that is being cleaned up.
LeaseAcquire(l) ==
    /\ lease[l] = "loaded"
    /\ IF Acquirable(of[l])
       THEN /\ lease' = [lease EXCEPT ![l] = "held"]
            /\ refs' = [refs EXCEPT ![of[l]] = @ + 1]
       ELSE /\ lease' = [lease EXCEPT ![l] = "idle"]
            /\ UNCHANGED refs
    /\ UNCHANGED <<phase, buildVars, cleanVars, runVars, of, stack, graphVars,
                   closing, forceVars, errVars>>

\* The compare-and-swap of Lease.released.  Mutant: Release without it.
MayReleaseAgain(l) == lease[l] \in {"held", "releasing", "released"}
MayRelease(l) == lease[l] = "held"

\* The first Release of l; the others do nothing.
LeaseRelease(l) ==
    /\ MayRelease(l)
    /\ lease' = [lease EXCEPT ![l] = "releasing"]
    /\ Release(of[l], l)
    /\ UNCHANGED <<phase, buildVars, runVars, of, stack, graphVars, closing,
                   forceVars, errVars>>

\* Its call of addLate, once release has returned.
LeaseAddLate(l) ==
    /\ lease[l] = "releasing"
    /\ ~Blocked(l)
    /\ lease' = [lease EXCEPT ![l] = "released"]
    /\ late' = late \cup errs[l]
    /\ errs' = [errs EXCEPT ![l] = {}]
    /\ UNCHANGED <<phase, buildVars, refs, cleanVars, runVars, of, stack,
                   graphVars, closing, forceVars, failed, reported>>

-----------------------------------------------------------------------------
(* Invalidate and the shut loop of CloseContext: swap a current value out  *)
(* of its provider, then drop the provider's reference.  invalidate does   *)
(* so depth first, dependents before the value itself; shut one by one.    *)

SwapOut(d, v) ==
    /\ ~Blocked(d)
    /\ d = Closer => closing = "shutting" /\ stack[d] = <<>>
    /\ phase[v] = "current"
    /\ phase' = [phase EXCEPT ![v] = "swapped"]
    /\ stack' = [stack EXCEPT ![d] = Append(@, v)]
    /\ UNCHANGED <<buildVars, refs, cleanVars, runVars, leaseVars, graphVars,
                   closing, forceVars, errVars>>

Drop(d) ==
    LET v == stack[d][Len(stack[d])] IN
    /\ ~Blocked(d)
    /\ stack[d] # <<>>
    /\ stack' = [stack EXCEPT ![d] = SubSeq(@, 1, Len(@) - 1)]
    /\ phase' = [phase EXCEPT ![v] = "dropped"]
    /\ Release(v, d)
    /\ UNCHANGED <<buildVars, runVars, leaseVars, graphVars, closing,
                   forceVars, errVars>>

\* Invalidate returns the errors of the cleanups it ran.
InvalidateReturns(d) ==
    /\ d \in Invalidator
    /\ ~Blocked(d) /\ stack[d] = <<>> /\ errs[d] # {}
    /\ reported' = reported \cup errs[d]
    /\ errs' = [errs EXCEPT ![d] = {}]
    /\ UNCHANGED <<phase, buildVars, refs, cleanVars, runVars, leaseVars,
                   stack, graphVars, closing, forceVars, failed, late>>

-----------------------------------------------------------------------------
(* The rest of CloseContext.                                               *)

CloseBegins ==
    /\ closing = "open"
    /\ closing' = "shutting"
    /\ UNCHANGED <<phase, buildVars, refs, cleanVars, runVars, leaseVars,
                   stack, graphVars, forceVars, errVars>>

\* Mutant: no checkDrained after the shut loop.
CloseWaitsUnchecked ==
    /\ closing = "shutting"
    /\ ~Blocked(Closer) /\ stack[Closer] = <<>>
    /\ \A v \in Value : phase[v] # "current"
    /\ closing' = "waiting"
    /\ UNCHANGED <<phase, buildVars, refs, cleanVars, runVars, leaseVars,
                   stack, graphVars, forceVars, errVars>>
\* Every provider is shut, so none has a current value any more.
CloseWaits ==
    /\ closing = "shutting"
    /\ ~Blocked(Closer) /\ stack[Closer] = <<>>
    /\ \A v \in Value : phase[v] # "current"
    /\ closing' = "waiting"
    /\ drained' = CheckDrained(live, inflight)
    /\ UNCHANGED <<phase, buildVars, refs, cleanVars, runVars, leaseVars,
                   stack, live, inflight, forceVars, errVars>>

\* The end of CloseContext: its own errors and the late ones so far.
CollectErrors ==
    /\ reported' = reported \cup errs[Closer] \cup late
    /\ errs' = [errs EXCEPT ![Closer] = {}]
    /\ late' = {}
    /\ UNCHANGED failed

CloseReturns ==
    /\ closing = "waiting" /\ drained
    /\ closing' = "returned"
    /\ CollectErrors
    /\ UNCHANGED <<phase, buildVars, refs, cleanVars, runVars, leaseVars,
                   stack, graphVars, forceVars>>

\* The context ends first: the values still live are cleaned up anyway.
DeadlineEnds ==
    /\ HasDeadline
    /\ closing = "waiting"
    /\ closing' = "forcing"
    /\ forced' = live /\ forceLeft' = live
    /\ UNCHANGED <<phase, buildVars, refs, cleanVars, runVars, leaseVars,
                   stack, graphVars, forcing, fnext, finside, errVars>>

ForceNext ==
    /\ closing = "forcing" /\ forcing = None
    /\ \E v \in forceLeft :
         /\ forcing' = v
         /\ fnext' = closers[v]
         /\ forceLeft' = forceLeft \ {v}
    /\ UNCHANGED <<phase, buildVars, refs, cleanVars, runVars, leaseVars,
                   stack, graphVars, closing, forced, finside, errVars>>

ForceCloser ==
    /\ forcing # None /\ fnext > 0 /\ ~finside
    /\ IF fnext \in done[forcing]
       THEN /\ fnext' = fnext - 1
            /\ UNCHANGED <<finside, done>>
       ELSE /\ done' = [done EXCEPT ![forcing] = @ \cup {fnext}]
            /\ finside' = TRUE
            /\ UNCHANGED fnext
    /\ UNCHANGED <<phase, buildVars, refs, cleanVars, inside, leaseVars,
                   stack, graphVars, closing, forced, forceLeft, forcing, errVars>>

ForceCloserReturns ==
    /\ finside
    /\ finside' = FALSE
    /\ fnext' = fnext - 1
    /\ \/ UNCHANGED <<errs, failed>>
       \/ /\ errs' = [errs EXCEPT ![Closer] = @ \cup {<<forcing, fnext>>}]
          /\ failed' = failed \cup {<<forcing, fnext>>}
    /\ UNCHANGED <<phase, buildVars, refs, cleanVars, runVars, leaseVars,
                   stack, graphVars, closing, forced, forceLeft, forcing,
                   late, reported>>

ForceEnds ==
    /\ forcing # None /\ fnext = 0 /\ ~finside
    /\ forcing' = None
    /\ UNCHANGED <<phase, buildVars, refs, cleanVars, runVars, leaseVars,
                   stack, graphVars, closing, forced, forceLeft, fnext,
                   finside, errVars>>

CloseTimesOut ==
    /\ closing = "forcing" /\ forcing = None /\ forceLeft = {}
    /\ closing' = "timedOut"
    /\ CollectErrors
    /\ UNCHANGED <<phase, buildVars, refs, cleanVars, runVars, leaseVars,
                   stack, graphVars, forceVars>>

-----------------------------------------------------------------------------
\* Nothing is left to do: the program may stop here.
Terminated ==
    /\ Returned /\ inflight = {}
    /\ \A v \in Value : cleanup[v] # "running" /\ phase[v] # "current"
    /\ \A d \in Dropper : stack[d] = <<>>
    /\ \A l \in Lease : lease[l] \in {"idle", "released"}
    /\ UNCHANGED vars

Build(v) ==
    \/ StartBuild(v) \/ OnClose(v) \/ Publish(v) \/ Discard(v) \/ FinishBuild(v)
    \/ \E r \in Reader : Load(v, r) \/ Acquire(v, r) \/ AcquireFails(v, r)

CleanUp(v) ==
    \/ RunCloser(v) \/ CloserReturns(v) \/ ReleaseDep(v)
    \/ ReleaseReturns(v) \/ DiscardReturns(v)

UseLease(l) ==
    LeaseLoad(l) \/ LeaseAcquire(l) \/ LeaseRelease(l) \/ LeaseAddLate(l)

DropValues(d) ==
    Drop(d) \/ InvalidateReturns(d) \/ \E v \in Value : SwapOut(d, v)

Close ==
    \/ CloseBegins \/ CloseWaits \/ CloseReturns \/ DeadlineEnds \/ ForceNext
    \/ ForceCloser \/ ForceCloserReturns \/ ForceEnds \/ CloseTimesOut

Next ==
    \/ \E v \in Value : Build(v) \/ CleanUp(v)
    \/ \E l \in Lease : UseLease(l)
    \/ \E d \in Dropper : DropValues(d)
    \/ Close
    \/ Terminated

\* A goroutine that is not blocked goes on.  Builders and cleanup functions
\* return and leases are released, which is what Close waits for; nobody has
\* to build, to acquire, to invalidate, to close, or to run out of time.
Fairness ==
    /\ \A v \in Value :
         /\ WF_vars(Publish(v) \/ Discard(v))
         /\ WF_vars(FinishBuild(v))
         /\ WF_vars(CleanUp(v))
         /\ \A r \in Reader : WF_vars(Acquire(v, r) \/ AcquireFails(v, r))
    /\ \A l \in Lease : WF_vars(LeaseAcquire(l) \/ LeaseRelease(l) \/ LeaseAddLate(l))
    /\ \A d \in Dropper : WF_vars(Drop(d) \/ InvalidateReturns(d))
    /\ WF_vars(\E v \in Value : SwapOut(Closer, v))
    /\ WF_vars(CloseWaits \/ CloseReturns \/ ForceNext \/ ForceCloser
               \/ ForceCloserReturns \/ ForceEnds \/ CloseTimesOut)

Spec == Init /\ [][Next]_vars
FairSpec == Spec /\ Fairness
-----------------------------------------------------------------------------
(* What the reference counts promise.                                      *)

ProviderRefs(v) == IF phase[v] \in {"current", "swapped"} THEN 1 ELSE 0
LeasesOn(v) == {l \in Lease : lease[l] = "held" /\ of[l] = v}
DepsOn(v) == {p \in Value \X (1..MaxReads) :
                p[2] <= left[p[1]] /\ deps[p[1]][p[2]] = v}

\* The reference count of a value is the number of its holders: its provider
\* while the value is current (value.go:8), the leases on it, and the reads
\* of the builds and values that use it.
CountIsHolders ==
    \A v \in Value :
        refs[v] = ProviderRefs(v) + Cardinality(LeasesOn(v)) + Cardinality(DepsOn(v))

\* v and every value it was built from, directly or not.
BuiltFrom(v) ==
    {u \in Value : \A S \in SUBSET Value :
        (/\ v \in S
         /\ \A w \in S : \A i \in 1..Len(deps[w]) : deps[w][i] \in S) => u \in S}

\* A lease keeps its value, and every value that one was built from, open:
\* none of their cleanups has started, unless CloseContext ran out of time
\* (provider.go:67).
LeaseKeepsTree ==
    \A l \in Lease : lease[l] = "held" =>
        \A u \in BuiltFrom(of[l]) : done[u] = {} \/ u \in forced

\* The cleanups of v have all returned.
CleanupsOver(v) ==
    cleanup[v] = "over" \/ (cleanup[v] = "running" /\ next[v] = 0 /\ ~inside[v])

\* Dependents are cleaned up before their dependencies (graph.go:92): no
\* cleanup of a value starts before every cleanup of what was built from it
\* has returned, unless CloseContext ran out of time.
DependentsFirst ==
    \A v \in Value : \A i \in 1..Len(deps[v]) :
        \/ done[deps[v][i]] = {}
        \/ deps[v][i] \in forced
        \/ CleanupsOver(v)

\* Cleanup i of v is called: by a release, or by CloseContext out of time.
Starts(v, i) ==
    \/ ~inside[v] /\ inside'[v] /\ i = CleanupAt(v)
    \/ ~finside /\ finside' /\ v = forcing /\ i = fnext

\* A cleanup is called when exactly those registered after it have been, so that
\* each is called once and in reverse order (graph.go:57), whichever of two
\* goroutines calls it.
CleanupsInOrder ==
    [][\A v \in Value :
         /\ done[v] \subseteq done'[v]
         /\ \A i \in 1..MaxClosers : Starts(v, i) =>
              done[v] = (i + 1)..closers[v] /\ done'[v] = i..closers[v]]_vars

\* A value nobody holds any more is being cleaned up, or was: no reference is
\* lost (README.md:97).
LastHolderCleans ==
    \A v \in Value :
        Built(v) /\ ProviderRefs(v) = 0 /\ LeasesOn(v) = {} /\ DepsOn(v) = {}
            => cleanup[v] # "none"

\* When CloseContext returns, every cleanup of every value ever published was
\* started, and has returned unless it ran out of time (graph.go:93).
ReturnedIsClean ==
    Returned => \A v \in Value : Built(v) =>
        /\ done[v] = 1..closers[v]
        /\ closing = "returned" => cleanup[v] = "over"

\* No cleanup error is dropped on its way (value.go:36, graph.go:76): it was
\* returned, waits in late, or is held by a release still under way.
ErrorsKept ==
    failed = late \cup reported \cup UNION {errs[a] : a \in Releaser}

\* Once CloseContext has begun, every value and build is let go of in the
\* end, also after it returned early (graph.go:92): nothing waits for ever.
AllLetGo == closing # "open" ~> live = {} /\ inflight = {}

\* CloseContext returns (graph.go:93): the last release wakes it.
CloseEnds == closing = "shutting" ~> Returned

-----------------------------------------------------------------------------
(* The inductive invariant behind these promises, when builders join their *)
(* reads.                                                                  *)

\* The reads under way still fit in the scope.
Room ==
    \A v \in Value :
        Len(deps[v]) + Cardinality({r \in Reader : reading[v][r] # None}) <= MaxReads

\* What is read or leased was published, and only a running builder reads.
UsesOK ==
    /\ \A v \in Value : \A r \in Reader :
         reading[v][r] # None => phase[v] = "building" /\ Built(reading[v][r])
    /\ \A v \in Value : \A i \in 1..Len(deps[v]) : Built(deps[v][i])
    /\ \A l \in Lease : lease[l] # "idle" => Built(of[l])

\* A value is swapped out once.
StackOK ==
    /\ \A d \in Dropper : \A i \in 1..Len(stack[d]) : phase[stack[d][i]] = "swapped"
    /\ \A d, e \in Dropper : \A i \in 1..Len(stack[d]), j \in 1..Len(stack[e]) :
         stack[d][i] = stack[e][j] => d = e /\ i = j

\* A published value is cleaned up exactly when its count is zero, runs its
\* cleanups before it gives back its dependencies, and nobody else runs them.
CleanOK ==
    \A v \in Value :
        /\ phase[v] \in {"unborn", "building"} => cleanup[v] = "none"
        /\ phase[v] = "discarded" => cleanup[v] # "none"
        /\ Built(v) => (cleanup[v] = "none" <=> refs[v] >= 1)
        /\ inside[v] => cleanup[v] = "running" /\ next[v] > 0
        /\ left[v] < Len(deps[v]) => CleanupsOver(v)
        /\ done[v] # {} => cleanup[v] # "none" \/ v \in forced

\* Only a CloseContext that ran out of time forces cleanups.
ForceOK ==
    /\ forcing # None => closing = "forcing"
    /\ finside => forcing # None /\ fnext > 0
    /\ closing \in {"open", "shutting", "waiting"} => forced = {}

IInv == TypeOK /\ Room /\ UsesOK /\ StackOK /\ CountIsHolders /\ CleanOK /\ ForceOK

\* Of two cleanups, the one registered last was started first.
ReverseOrder ==
    \A v \in Value : \A i \in done[v] : i..closers[v] \subseteq done[v]

\* Those behind the one that either runAll is at were started.
OrderOK ==
    /\ \A v \in Value :
         /\ next[v] <= closers[v]
         /\ done[v] \subseteq 1..closers[v]
         /\ cleanup[v] # "none" => (next[v] + 1)..closers[v] \subseteq done[v]
         /\ cleanup[v] = "over" => next[v] = 0
         /\ inside[v] => next[v] \in done[v]
    /\ forcing # None => /\ fnext <= closers[forcing]
                         /\ (fnext + 1)..closers[forcing] \subseteq done[forcing]
    /\ finside => fnext \in done[forcing]

\* A published value is live until it is cleaned up; nothing is published once
\* the graph is closed.
LiveOK ==
    /\ \A v \in live \cup forced : Built(v)
    /\ \A v \in Value : Built(v) => v \in live \/ cleanup[v] = "over"
    /\ drained => live = {} /\ closing # "open"
    /\ closing = "returned" => drained
    /\ closing \in {"forcing", "timedOut"} => live \subseteq forced
    /\ \A v \in forced : v \in forceLeft \/ v = forcing \/ done[v] = 1..closers[v]
    /\ closing = "timedOut" => forceLeft = {} /\ forcing = None

\* Somebody waits for the cleanup of a published value, and takes its errors.
CallerOK == \A v \in Value : Built(v) /\ cleanup[v] # "none" => caller[v] \in Releaser

CloseInv == IInv /\ OrderOK /\ ReverseOrder /\ LiveOK /\ CallerOK /\ ErrorsKept

-----------------------------------------------------------------------------
(* The counts implement ownership.                                         *)

\* v is absent until it is published or refused, open while its count is not
\* zero, and closed when its cleanups have returned.
Life(v) ==
    CASE phase[v] \in {"unborn", "building"}  -> "absent"
      [] Built(v) /\ cleanup[v] = "none"       -> "open"
      [] CleanupsOver(v)                       -> "closed"
      [] OTHER                                 -> "closing"

Owners(v) ==
    {<<None, 0>> : i \in 1..ProviderRefs(v)} \cup (LeasesOn(v) \X {0}) \cup DepsOn(v)

Ownership == INSTANCE Lifetime WITH
    life    <- [v \in Value |-> Life(v)],
    owners  <- [v \in Value |-> Owners(v)],
    started <- {v \in Value : done[v] # {}},
    overdue <- forced

\* When builders join their reads, every step of the counts is a step of
\* ownership (value.go:8): a reference is only taken on a value somebody owns,
\* is given back once, and the last one to go starts the cleanups.
OwnershipKept == Ownership!Spec

-----------------------------------------------------------------------------
(* What the documentation adds, and the code does not keep.                *)

\* "It returns the cleanup errors, including those of values released since
\* the last Invalidate or Close" (graph.go:99).
LateErrorsReturned ==
    closing = "returned" => \A l \in Lease : errs[l] = {}

\* "it waits for every lease to be released and every build in progress to
\* finish" (graph.go:85).
CloseWaitsForBuilds == closing = "returned" => inflight = {}
=============================================================================
