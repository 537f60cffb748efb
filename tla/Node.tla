-------------------------------- MODULE Node --------------------------------
(***************************************************************************)
(* Providers (node.go): the single-flight builds of Deferred ones, the     *)
(* callers and builders that wait for them, the wait-for graph that        *)
(* refuses cycles, Invalidate with its cascade through the dependents, and *)
(* the part of CloseContext (graph.go) that shuts the providers.  Here all *)
(* providers are Deferred, and constructed; module App adds Eager ones,    *)
(* construction, and the lifetime of the values.                           *)
(*                                                                         *)
(* An attempt is one run of a builder; its number also names the value it  *)
(* publishes.  How long a value lives is module Values' business: here the *)
(* reference of a value is sure to be available until its provider's own   *)
(* reference is dropped, and may or may not be afterwards.                 *)
(*                                                                         *)
(* get is a loop whose critical sections and atomic operations are one     *)
(* action each; at[g] is where goroutine g is in it.  The goroutines in    *)
(* get are callers (Try, TryContext, Acquire) and builders calling From,   *)
(* of which one builder may run several.                                   *)
(***************************************************************************)
EXTENDS Integers, Sequences, FiniteSets

CONSTANTS
    Caller,       \* calls of Try, TryContext and Acquire from outside builders
    Impatient,    \* those whose context may end while they wait
    Leasing,      \* those that take a lease
    Slot,         \* goroutines of one builder that call From
    Members,      \* the providers, in the order they were constructed
    Eager,        \* the Eager ones
    Reads,        \* Reads[n]: the providers n's builder may read
    Fallible,     \* the providers whose builder may fail by itself
    Invalidator,  \* calls of Graph.Invalidate
    Targets,      \* Targets[x]: the providers that call x of either kind may be for
    MaxAttempts,  \* bound: runs of builders
    MaxReads,     \* bound: calls of From in one build
    MayClose      \* may CloseContext be called?

\* The providers.
Provider == {Members[i] : i \in 1..Len(Members)}
Attempt  == 1..MaxAttempts
None     == 0
\* A goroutine in get: a caller, or one of a builder's.
Goroutine == Caller \cup (Attempt \X Slot)

NodeAssumption ==
    /\ MaxAttempts \in Nat /\ MaxReads \in Nat /\ MayClose \in BOOLEAN
    /\ Members \in Seq(Provider) /\ IsFiniteSet(Provider)
    /\ IsFiniteSet(Slot) /\ Slot # {}
    /\ Reads \in [Provider -> SUBSET Provider]
    /\ Eager \subseteq Provider /\ Fallible \subseteq Provider
    /\ \A n \in Eager : Reads[n] \subseteq Eager
    /\ Impatient \subseteq Caller /\ Leasing \subseteq Caller
    /\ \A i, j \in 1..Len(Members) : Members[i] = Members[j] => i = j
    /\ Caller \cap (Attempt \X Slot) = {}
    /\ Targets \in [Caller \cup Invalidator -> SUBSET Provider]
ASSUME NodeAssumption

VARIABLES
    \* node
    val,         \* val[n]: the current value, None while there is none
    cur,         \* cur[n]: the build in progress
    epoch,       \* epoch[n]: bumped by invalidate
    closed,      \* closed[n]: set by shut
    dependents,  \* dependents[n]: providers that read n since its last invalidation
    \* attempt
    phase,       \* phase[a]: unused, created, running, finished, or done (closed)
    of,          \* of[a]: its provider
    began,       \* began[a]: attempt.epoch
    err,         \* err[a]: why it failed, if it did
    stale,       \* stale[a]: waiters must try again
    waits,       \* waits[a][b]: how many of a's goroutines wait on b
    fault,       \* fault[a]: the error of a From that failed in its builder
    asked,       \* asked[a]: the calls of From of its builder's goroutines
    got,         \* got[a]: the values From returned to it
    \* goroutines in get
    at,          \* at[g]: where g is
    target,      \* target[g]: the provider it resolves
    box,         \* box[g]: the value it loaded
    att,         \* att[g]: the attempt it waits on
    mine,        \* mine[g]: did it create that attempt?
    outcome,     \* outcome[g]: how its wait ended
    result,      \* result[g]: what a caller's call returned
    \* Invalidate and CloseContext
    frames,      \* frames[i]: the recursion of invalidate, innermost last
    since,       \* since[i]: <<p, epoch>> of the provider i was called on
    dropped,     \* values whose provider's reference was released
    members,     \* Graph.members
    closing,     \* "open", "closed" (Graph.closed set) or "cancelled"
    toShut       \* the members CloseContext has still to shut

nodeVars   == <<val, cur, epoch, closed>>
scopeVars  == <<fault, asked, got>>
builtVars  == <<of, began, err, stale>>
getVars    == <<target, box, att, mine, outcome, result>>
invalVars  == <<frames, since>>
closeVars  == <<members, closing, toShut>>
vars == <<nodeVars, dependents, phase, builtVars, waits, scopeVars, at, getVars,
          invalVars, dropped, closeVars>>

Builders == Attempt \X Slot
Errors   == {"cycle", "closed", "canceled", "failed", "unconstructed"}
Places   == {"out", "load", "acquire", "lock", "link", "wait", "unlink", "over"}

NodeTypes ==
    /\ val \in [Provider -> Attempt \cup {None}]
    /\ cur \in [Provider -> Attempt \cup {None}]
    /\ epoch \in [Provider -> Nat]
    /\ closed \in [Provider -> BOOLEAN]
    /\ dependents \in [Provider -> SUBSET Provider]
AttemptTypes ==
    /\ phase \in [Attempt -> {"unused", "created", "running", "finished", "done"}]
    /\ of \in [Attempt -> Provider \cup {None}]
    /\ \A a \in Attempt : phase[a] # "unused" => of[a] \in Provider
    /\ began \in [Attempt -> Nat]
    /\ err \in [Attempt -> Errors \cup {"none"}]
    /\ stale \in [Attempt -> BOOLEAN]
WaitTypes == waits \in [Attempt -> [Attempt -> 0..Cardinality(Slot)]]
ScopeTypes ==
    /\ fault \in [Attempt -> Errors \cup {"none"}]
    /\ asked \in [Attempt -> SUBSET (Provider \X Slot)]
    /\ got \in [Attempt -> SUBSET Attempt]
GetTypes ==
    /\ target \in [Goroutine -> Provider \cup {None}]
    /\ box \in [Goroutine -> Attempt \cup {None}]
    /\ att \in [Goroutine -> Attempt \cup {None}]
    /\ mine \in [Goroutine -> BOOLEAN]
    /\ outcome \in [Goroutine -> Errors \cup {"none", "done"}]
\* A call that is over has one result (node.go:98).
CallTypes ==
    /\ at \in [Goroutine -> Places]
    /\ result \in [Caller -> Errors \cup {"none", "ok"}]
    /\ \A c \in Caller : result[c] = "none" <=> at[c] # "over"
InvalTypes ==
    /\ frames \in [Invalidator ->
                     Seq([todo : SUBSET Provider, old : Attempt \cup {None}])]
    /\ since \in [Invalidator -> (Provider \X Nat) \cup {<<>>}]
CloseTypes ==
    /\ dropped \subseteq Attempt
    /\ closing \in {"open", "closed", "cancelled"}
    /\ members \in Seq(Provider) /\ toShut \in Seq(Provider)

\* The types of the variables.
TypeOK ==
    /\ NodeTypes /\ AttemptTypes /\ WaitTypes /\ ScopeTypes
    /\ GetTypes /\ CallTypes /\ InvalTypes /\ CloseTypes

\* Nothing has happened yet.
Start ==
    /\ val = [n \in Provider |-> None]
    /\ cur = [n \in Provider |-> None]
    /\ epoch = [n \in Provider |-> 0]
    /\ closed = [n \in Provider |-> FALSE]
    /\ dependents = [n \in Provider |-> {}]
    /\ phase = [a \in Attempt |-> "unused"]
    /\ of = [a \in Attempt |-> None]
    /\ began = [a \in Attempt |-> 0]
    /\ err = [a \in Attempt |-> "none"]
    /\ stale = [a \in Attempt |-> FALSE]
    /\ waits = [a \in Attempt |-> [b \in Attempt |-> 0]]
    /\ fault = [a \in Attempt |-> "none"]
    /\ asked = [a \in Attempt |-> {}]
    /\ got = [a \in Attempt |-> {}]
    /\ at = [g \in Goroutine |-> "out"]
    /\ target = [g \in Goroutine |-> None]
    /\ box = [g \in Goroutine |-> None]
    /\ att = [g \in Goroutine |-> None]
    /\ mine = [g \in Goroutine |-> FALSE]
    /\ outcome = [g \in Goroutine |-> "none"]
    /\ result = [c \in Caller |-> "none"]
    /\ frames = [i \in Invalidator |-> <<>>]
    /\ since = [i \in Invalidator |-> <<>>]
    /\ dropped = {}
    /\ closing = "open"
    /\ toShut = <<>>

\* Every provider has been constructed.
Init == Eager = {} /\ Start /\ members = Members

-----------------------------------------------------------------------------
(* get.                                                                    *)

Goto(g, place) == at' = [at EXCEPT ![g] = place]

\* get returns value v to g: to a caller, or to From, which appends it to the
\* scope of the build.
Returns(g, v) ==
    /\ IF g \in Caller
       THEN /\ Goto(g, "over")
            /\ result' = [result EXCEPT ![g] = "ok"]
            /\ UNCHANGED got
       ELSE /\ Goto(g, "out")
            /\ got' = [got EXCEPT ![g[1]] = @ \cup {v}]
            /\ UNCHANGED result
    /\ UNCHANGED fault

\* get returns error e to g; From panics with it, which fails its builder.
Fails(g, e) ==
    /\ IF g \in Caller
       THEN /\ Goto(g, "over")
            /\ result' = [result EXCEPT ![g] = e]
            /\ UNCHANGED fault
       ELSE /\ Goto(g, "out")
            /\ fault' = [fault EXCEPT ![g[1]] = e]
            /\ UNCHANGED result
    /\ UNCHANGED got

\* A caller calls Try, TryContext or Acquire.
Call(c, n) ==
    /\ at[c] = "out" /\ n \in Targets[c]
    /\ Goto(c, "load")
    /\ target' = [target EXCEPT ![c] = n]
    /\ UNCHANGED <<nodeVars, dependents, phase, builtVars, waits, scopeVars, box,
                   att, mine, outcome, result, invalVars, dropped, closeVars>>

\* Mutant: From that records the edge only of providers not yet built.
RecordsUnbuilt(n, m) ==
    dependents' = IF val[n] = None THEN [dependents EXCEPT ![n] = @ \cup {m}]
                                   ELSE dependents
\* addDependent: Eager providers are never invalidated, and their builds are
\* no attempts.
AddDependent(n, m) ==
    dependents' = IF {n, m} \cap Eager = {} THEN [dependents EXCEPT ![n] = @ \cup {m}]
                                            ELSE dependents

\* A builder's goroutine calls From.  (Each reads a provider at most once.)
Asks(g, n) ==
    LET a == g[1] IN
    /\ phase[a] = "running" /\ fault[a] = "none"
    /\ at[g] = "out"
    /\ n \in Reads[of[a]]
    /\ <<n, g[2]>> \notin asked[a] /\ Cardinality(asked[a]) < MaxReads
    /\ asked' = [asked EXCEPT ![a] = @ \cup {<<n, g[2]>>}]

\* It records the edge, then resolves.
From(g, n) ==
    /\ Asks(g, n)
    /\ AddDependent(n, of[g[1]])
    /\ Goto(g, "load")
    /\ target' = [target EXCEPT ![g] = n]
    /\ UNCHANGED <<nodeVars, phase, builtVars, waits, fault, got, box, att, mine,
                   outcome, result, invalVars, dropped, closeVars>>

\* Does g take a reference on what it reads?
TakesRef(g) == g \in Caller => g \in Leasing

\* The load at the head of the loop.
Load(g) ==
    LET n == target[g] IN
    /\ at[g] = "load"
    /\ \/ val[n] = None /\ Goto(g, "lock") /\ UNCHANGED <<box, result, fault, got>>
       \/ /\ val[n] # None /\ TakesRef(g)
          /\ Goto(g, "acquire")
          /\ box' = [box EXCEPT ![g] = val[n]]
          /\ UNCHANGED <<result, fault, got>>
       \/ val[n] # None /\ ~TakesRef(g) /\ Returns(g, val[n]) /\ UNCHANGED box
    /\ UNCHANGED <<nodeVars, dependents, phase, builtVars, waits, asked, target, att,
                   mine, outcome, invalVars, dropped, closeVars>>

\* gen.acquire succeeds.
Acquired(g) ==
    /\ at[g] = "acquire"
    /\ Returns(g, box[g])
    /\ UNCHANGED <<nodeVars, dependents, phase, builtVars, waits, asked, target, box,
                   att, mine, outcome, invalVars, dropped, closeVars>>

\* gen.acquire fails: the last reference is gone, and so is the provider's.
AcquireFails(g) ==
    /\ at[g] = "acquire"
    /\ box[g] \in dropped
    /\ Goto(g, "lock")
    /\ UNCHANGED <<nodeVars, dependents, phase, builtVars, waits, scopeVars, getVars,
                   invalVars, dropped, closeVars>>

EnterClosed(g) ==
    /\ at[g] = "lock"
    /\ closed[target[g]]
    /\ Fails(g, "closed")
    /\ UNCHANGED <<nodeVars, dependents, phase, builtVars, waits, asked, target, box,
                   att, mine, outcome, invalVars, dropped, closeVars>>

\* Published meanwhile.
EnterAgain(g) ==
    LET n == target[g] IN
    /\ at[g] = "lock"
    /\ ~closed[n] /\ val[n] # None
    /\ Goto(g, "load")
    /\ UNCHANGED <<nodeVars, dependents, phase, builtVars, waits, scopeVars, getVars,
                   invalVars, dropped, closeVars>>

\* Mutant: get that does not load the value again under the lock.
UncheckedNoValue(n) == ~closed[n]
NoValue(n) == ~closed[n] /\ val[n] = None

\* There is a build to wait for.
EnterJoins(g) ==
    LET n == target[g] IN
    /\ at[g] = "lock"
    /\ NoValue(n) /\ cur[n] # None
    /\ Goto(g, IF g \in Caller THEN "wait" ELSE "link")
    /\ att' = [att EXCEPT ![g] = cur[n]]
    /\ mine' = [mine EXCEPT ![g] = FALSE]
    /\ UNCHANGED <<nodeVars, dependents, phase, builtVars, waits, scopeVars, target,
                   box, outcome, result, invalVars, dropped, closeVars>>

\* Attempts are numbered as they are created.
Fresh(a) == phase[a] = "unused" /\ \A b \in 1..(a - 1) : phase[b] # "unused"

\* There is none: g creates the attempt.  A builder's goroutine calls waitFor
\* before it runs it.
EnterStarts(g) ==
    LET n == target[g] IN
    /\ at[g] = "lock"
    /\ NoValue(n) /\ cur[n] = None
    /\ \E a \in Attempt :
         /\ Fresh(a)
         /\ cur' = [cur EXCEPT ![n] = a]
         /\ phase' = [phase EXCEPT ![a] = IF g \in Caller THEN "running" ELSE "created"]
         /\ of' = [of EXCEPT ![a] = n]
         /\ began' = [began EXCEPT ![a] = epoch[n]]
         /\ att' = [att EXCEPT ![g] = a]
    /\ mine' = [mine EXCEPT ![g] = TRUE]
    /\ Goto(g, IF g \in Caller THEN "wait" ELSE "link")
    /\ UNCHANGED <<val, epoch, closed, dependents, err, stale, waits, scopeVars,
                   target, box, outcome, result, invalVars, dropped, closeVars>>

\* The attempts a waits on.
WaitsOn(a) == {b \in Attempt : waits[a][b] > 0}
\* Mutant: reach that takes two attempts waiting on the same one for a cycle.
ReachShared(x, y) ==
    \/ WaitsOn(x) \cap WaitsOn(y) # {}
    \/ \A S \in SUBSET Attempt :
          (x \in S /\ \A a \in S : WaitsOn(a) \subseteq S) => y \in S
\* Mutant: reach that only notices a builder that reads itself.
ReachSelf(x, y) == x = y
\* Mutant: reach that looks at direct waits only.
ReachDirect(x, y) == x = y \/ y \in WaitsOn(x)
\* reach: y is x, or x waits on it, directly or not.
Reach(x, y) ==
    \A S \in SUBSET Attempt :
        (x \in S /\ \A a \in S : WaitsOn(a) \subseteq S) => y \in S

\* waitFor records the wait; the goroutine that created the attempt runs it.
Link(g) ==
    /\ at[g] = "link"
    /\ ~Reach(att[g], g[1])
    /\ waits' = [waits EXCEPT ![g[1]][att[g]] = @ + 1]
    /\ phase' = IF mine[g] THEN [phase EXCEPT ![att[g]] = "running"] ELSE phase
    /\ Goto(g, "wait")
    /\ UNCHANGED <<nodeVars, dependents, builtVars, scopeVars, getVars, invalVars,
                   dropped, closeVars>>

\* waitFor refuses; an attempt that never started is finished with the error.
\* (Nothing waits on others through a new attempt, so g has never created it.)
FindsCycle(g) ==
    LET a == att[g] IN
    /\ at[g] = "link"
    /\ Reach(a, g[1])
    /\ Fails(g, "cycle")
    /\ IF mine[g]
       THEN /\ cur' = [cur EXCEPT ![of[a]] = None]
            /\ err' = [err EXCEPT ![a] = "cycle"]
            /\ phase' = [phase EXCEPT ![a] = "finished"]
       ELSE UNCHANGED <<cur, err, phase>>
    /\ UNCHANGED <<val, epoch, closed, dependents, of, began, stale, waits, asked,
                   target, box, att, mine, outcome, invalVars, dropped, closeVars>>

\* Mutant: a build that ended without publishing is taken for a failure.
ResumeFails(g, o) ==
    IF o # "done" THEN Fails(g, o)
    ELSE IF ~stale[att[g]] /\ val[target[g]] = None THEN Fails(g, err[att[g]])
    ELSE Goto(g, "load") /\ UNCHANGED <<result, fault, got>>
\* What get does once its wait has ended the way o says.
Resume(g, o) ==
    IF o # "done" THEN Fails(g, o)
    ELSE IF ~stale[att[g]] /\ err[att[g]] # "none" THEN Fails(g, err[att[g]])
    ELSE Goto(g, "load") /\ UNCHANGED <<result, fault, got>>

\* The wait of g ends: a builder's goroutine has to call stopWaiting first.
WaitEnds(g, o) ==
    /\ at[g] = "wait"
    /\ IF g \in Caller
       THEN Resume(g, o) /\ UNCHANGED outcome
       ELSE /\ Goto(g, "unlink")
            /\ outcome' = [outcome EXCEPT ![g] = o]
            /\ UNCHANGED <<result, fault, got>>
    /\ UNCHANGED <<nodeVars, dependents, phase, builtVars, waits, asked, target, box,
                   att, mine, invalVars, dropped, closeVars>>

Wakes(g) == at[g] = "wait" /\ phase[att[g]] = "done" /\ WaitEnds(g, "done")

\* g runs its attempt itself, and cannot leave it.
Inline(g) == mine[g] /\ g \notin Impatient
\* Its own context ended; a builder's is the graph's.
Leaves(g) ==
    /\ ~Inline(g)
    /\ g \in Caller => g \in Impatient
    /\ g \notin Caller => closing = "cancelled"
    /\ WaitEnds(g, "canceled")
SeesClose(g) ==
    /\ ~Inline(g)
    /\ closing = "cancelled"
    /\ WaitEnds(g, "closed")

\* Mutant: stopWaiting forgets every wait of a on b.
NoWaitLeft(a, b) == 0
\* One wait of a on b less.
OneWaitLess(a, b) == waits[a][b] - 1

\* stopWaiting, and on with the loop.
Unlink(g) ==
    LET a == g[1] IN
    /\ at[g] = "unlink"
    /\ waits' = [waits EXCEPT ![a][att[g]] = OneWaitLess(a, att[g])]
    /\ Resume(g, outcome[g])
    /\ UNCHANGED <<nodeVars, dependents, phase, builtVars, asked, target, box, att,
                   mine, outcome, invalVars, dropped, closeVars>>

-----------------------------------------------------------------------------
(* run and finish.                                                         *)

\* Mutant: finish that publishes builds of older epochs.
PublishesAnyEpoch(a) == ~closed[of[a]] /\ closing = "open"
\* finish publishes a successful build unless its provider was invalidated or
\* shut since it began, or (newGen) the graph is closed.
Publishes(a) == ~closed[of[a]] /\ began[a] = epoch[of[a]] /\ closing = "open"

\* The builder of a returns, once its reads have, with its own error or that of
\* a read that failed.
BuilderReturns(a, e) ==
    /\ phase[a] = "running"
    /\ \A s \in Slot : at[<<a, s>>] = "out"
    /\ e \in IF fault[a] # "none" THEN {fault[a]}
             ELSE {"none"} \cup (IF of[a] \in Fallible THEN {"failed"} ELSE {})

\* Mutant: finish that leaves a build it does not publish in its place.
FinishKeepsStale(a) ==
    LET n == of[a] IN
    /\ \E e \in Errors \cup {"none"} :
         /\ BuilderReturns(a, e)
         /\ err' = [err EXCEPT ![a] = e]
         /\ stale' = [stale EXCEPT ![a] = e = "none" /\ ~Publishes(a)]
         /\ val' = IF e = "none" /\ Publishes(a) THEN [val EXCEPT ![n] = a] ELSE val
    /\ cur' = IF stale'[a] THEN cur ELSE [cur EXCEPT ![n] = None]
    /\ phase' = [phase EXCEPT ![a] = "finished"]
    /\ UNCHANGED <<epoch, closed, dependents, of, began, waits, scopeVars, at, getVars,
                   invalVars, dropped, closeVars>>
\* finish takes the provider's lock.
Finish(a) ==
    LET n == of[a] IN
    /\ \E e \in Errors \cup {"none"} :
         /\ BuilderReturns(a, e)
         /\ err' = [err EXCEPT ![a] = e]
         /\ stale' = [stale EXCEPT ![a] = e = "none" /\ ~Publishes(a)]
         /\ val' = IF e = "none" /\ Publishes(a) THEN [val EXCEPT ![n] = a] ELSE val
    /\ cur' = [cur EXCEPT ![n] = None]
    /\ phase' = [phase EXCEPT ![a] = "finished"]
    /\ UNCHANGED <<epoch, closed, dependents, of, began, waits, scopeVars, at, getVars,
                   invalVars, dropped, closeVars>>

\* finish has cleaned up what it did not publish, and wakes the waiters.
CloseDone(a) ==
    /\ phase[a] = "finished"
    /\ phase' = [phase EXCEPT ![a] = "done"]
    /\ UNCHANGED <<nodeVars, dependents, builtVars, waits, scopeVars, at, getVars,
                   invalVars, dropped, closeVars>>

-----------------------------------------------------------------------------
(* Invalidate.                                                             *)

NextEpoch(n) == epoch[n] + 1

\* Mutant: invalidate that leaves the dependents in place.
KeepDependents(n) == dependents
TakeDependents(n) == [dependents EXCEPT ![n] = {}]

\* The critical section of invalidate on n, called by i.  below is the
\* recursion it is called from.
Invalidate(i, n, below) ==
    /\ epoch' = [epoch EXCEPT ![n] = NextEpoch(n)]
    /\ val' = [val EXCEPT ![n] = None]
    /\ dependents' = TakeDependents(n)
    /\ frames' = [frames EXCEPT ![i] =
                    Append(below, [todo |-> dependents[n], old |-> val[n]])]
    /\ UNCHANGED <<cur, closed, phase, builtVars, waits, scopeVars, at, getVars,
                   dropped, closeVars>>

\* Graph.Invalidate is called on n.
InvalidateCalled(i, n) ==
    /\ since[i] = <<>> /\ n \in Targets[i] \ Eager
    /\ since' = [since EXCEPT ![i] = <<n, epoch[n] + 1>>]
    /\ Invalidate(i, n, <<>>)

Top(i) == frames[i][Len(frames[i])]

\* The next dependent, in the order of a map.
InvalidateDependent(i, m) ==
    /\ frames[i] # <<>> /\ m \in Top(i).todo
    /\ Invalidate(i, m, [frames[i] EXCEPT ![Len(frames[i])] =
                           [todo |-> Top(i).todo \ {m}, old |-> Top(i).old]])
    /\ UNCHANGED since

\* The end of invalidate: the value's provider lets go of it.
ReleaseOld(i) ==
    /\ frames[i] # <<>> /\ Top(i).todo = {}
    /\ dropped' = dropped \cup ({Top(i).old} \ {None})
    /\ frames' = [frames EXCEPT ![i] = SubSeq(@, 1, Len(@) - 1)]
    /\ UNCHANGED <<nodeVars, dependents, phase, builtVars, waits, scopeVars, at,
                   getVars, since, closeVars>>

-----------------------------------------------------------------------------
(* CloseContext: it sets closed, cancels the graph's context, and shuts    *)
(* the providers, most recently constructed first.                         *)

CloseBegins ==
    /\ MayClose /\ closing = "open"
    /\ closing' = "closed"
    /\ toShut' = members
    /\ UNCHANGED <<nodeVars, dependents, phase, builtVars, waits, scopeVars, at,
                   getVars, invalVars, dropped, members>>

Cancel ==
    /\ closing = "closed"
    /\ closing' = "cancelled"
    /\ UNCHANGED <<nodeVars, dependents, phase, builtVars, waits, scopeVars, at,
                   getVars, invalVars, dropped, members, toShut>>

\* Mutant: shut that swaps the value out only.
ShutSwapsOnly(n) == closed
ShutCloses(n) == [closed EXCEPT ![n] = TRUE]

\* Mutant: shut that loads the value it releases, and leaves it in place.
ShutLoadsOnly ==
    /\ closing = "cancelled" /\ toShut # <<>>
    /\ LET n == toShut[Len(toShut)] IN
         /\ closed' = ShutCloses(n)
         /\ dropped' = dropped \cup ({val[n]} \ {None})
    /\ toShut' = SubSeq(toShut, 1, Len(toShut) - 1)
    /\ UNCHANGED <<val, cur, epoch, dependents, phase, builtVars, waits, scopeVars, at,
                   getVars, invalVars, members, closing>>
\* shut, with the release of the value it swapped out.
Shut ==
    /\ closing = "cancelled" /\ toShut # <<>>
    /\ LET n == toShut[Len(toShut)] IN
         /\ closed' = ShutCloses(n)
         /\ val' = [val EXCEPT ![n] = None]
         /\ dropped' = dropped \cup ({val[n]} \ {None})
    /\ toShut' = SubSeq(toShut, 1, Len(toShut) - 1)
    /\ UNCHANGED <<cur, epoch, dependents, phase, builtVars, waits, scopeVars, at,
                   getVars, invalVars, members, closing>>

-----------------------------------------------------------------------------
InvalidatorsIdle == \A i \in Invalidator : frames[i] = <<>>

\* A goroutine would start a build, but all of MaxAttempts were used.
BoundReached ==
    /\ \A a \in Attempt : phase[a] # "unused"
    /\ \E g \in Goroutine :
         at[g] = "lock" /\ NoValue(target[g]) /\ cur[target[g]] = None

\* Everything under way has come to its end.
Finished ==
    /\ \A g \in Goroutine : at[g] \in {"out", "over"}
    /\ \A a \in Attempt : phase[a] \in {"unused", "done"}
    /\ InvalidatorsIdle
    /\ closing = "open" \/ (closing = "cancelled" /\ toShut = <<>>)

Terminated == (Finished \/ BoundReached) /\ UNCHANGED vars

Get(g) ==
    \/ Load(g) \/ Acquired(g) \/ AcquireFails(g)
    \/ EnterClosed(g) \/ EnterAgain(g) \/ EnterJoins(g) \/ EnterStarts(g)
    \/ Wakes(g) \/ SeesClose(g)

\* What only the goroutine of a builder does: From, with waitFor and stopWaiting.
Read(g) == Link(g) \/ FindsCycle(g) \/ Unlink(g)

Recurse(i) == ReleaseOld(i) \/ \E m \in Provider : InvalidateDependent(i, m)

Next ==
    \/ \E c \in Caller, n \in Provider : Call(c, n)
    \/ \E g \in Goroutine : Get(g) \/ Leaves(g)
    \/ \E g \in Builders : Read(g) \/ \E n \in Provider : From(g, n)
    \/ \E a \in Attempt : Finish(a) \/ CloseDone(a)
    \/ \E i \in Invalidator : Recurse(i) \/ \E n \in Provider : InvalidateCalled(i, n)
    \/ CloseBegins \/ Cancel \/ Shut
    \/ Terminated

\* Every goroutine that can go on does, and builders return.  Nobody has to
\* call, to read, to leave, to invalidate or to close.
Fairness ==
    /\ \A g \in Goroutine : WF_vars(Get(g))
    /\ \A g \in Builders : WF_vars(Read(g))
    /\ \A a \in Attempt : WF_vars(Finish(a)) /\ WF_vars(CloseDone(a))
    /\ \A i \in Invalidator : WF_vars(Recurse(i))
    /\ WF_vars(Cancel) /\ WF_vars(Shut)

Spec == Init /\ [][Next]_vars
FairSpec == Spec /\ Fairness
-----------------------------------------------------------------------------
(* Builds.                                                                 *)

\* The attempts to build n under way; the build of an Eager one is no attempt.
InFlight(n) ==
    {a \in Attempt : phase[a] \in {"created", "running"} /\ of[a] = n /\ n \notin Eager}

\* A provider is built by one attempt at a time, which is the one its callers
\* find and wait on, and by none while it has a value (node.go:27,
\* provider.go:35).
SingleFlight ==
    \A n \in Provider :
        /\ InFlight(n) = {cur[n]} \ {None}
        /\ val[n] # None => cur[n] = None

\* Nobody waits for ever: a call returns (provider.go:33), whatever the
\* dependency graph looks like and whatever is invalidated or closed.
CallsReturn == \A c \in Caller : at[c] # "out" ~> at[c] = "over" \/ BoundReached

-----------------------------------------------------------------------------
(* Invalidation.                                                           *)

\* v and every value it was built from, directly or not.
BuiltFrom(v) ==
    {u \in Attempt : \A S \in SUBSET Attempt :
        (v \in S /\ \A w \in S : got[w] \subseteq S) => u \in S}

\* Some invalidation has yet to come to n.
Pending(n) ==
    \E i \in Invalidator : \E k \in 1..Len(frames[i]) : n \in frames[i][k].todo

\* A value built from one that is not current any more is not current either,
\* or an invalidation is on its way to it: no build slips through between the
\* edge From records, the epoch and the cascade (provider.go:118).
StaleIsPending ==
    closing = "open" =>
        \A n \in Provider : val[n] # None =>
            \A u \in got[val[n]] : val[of[u]] = u \/ Pending(n)

\* No provider has a value built, directly or not, from a value that the
\* provider i was called on had before.
GoneFor(i) ==
    \A n \in Provider : val[n] # None =>
        \A u \in BuiltFrom(val[n]) : of[u] = since[i][1] => began[u] >= since[i][2]

\* Invalidate forgets a value and everything built from it, also what was
\* being built from it meanwhile (README.md:98): once all the calls of
\* Invalidate that overlap have returned, none of it is current.
InvalidatedIsGone ==
    InvalidatorsIdle => \A i \in Invalidator : since[i] # <<>> => GoneFor(i)

\* The calls of From there have been.
ReadsMade == {e \in Attempt \X (Provider \X Slot) : e[2] \in asked[e[1]]}

\* The recursion of invalidate uses up recorded edges: it ends also where the
\* dependents form a cycle, as they do after an ErrCycle (node.go:229).
RecursionEnds == \A i \in Invalidator : Len(frames[i]) <= 1 + Cardinality(ReadsMade)

\* The memo table of module Memo, whose builds are the attempts.
Begun     == {a \in Attempt : phase[a] # "unused"}
Outdated  == {a \in Begun : began[a] # epoch[of[a]]}
Failed    == {a \in Attempt : err[a] # "none"}
DueTo     == [i \in Invalidator |-> UNION {frames[i][k].todo : k \in 1..Len(frames[i])}]
Shutdown  == {n \in Provider : closed[n]}
M == INSTANCE Memo WITH Build <- Attempt, Forgetter <- Invalidator,
       begun <- Begun, value <- val, build <- cur, reads <- got,
       outdated <- Outdated, failed <- Failed, due <- DueTo,
       ended <- closing # "open", shut <- Shutdown

\* The edges From records before it resolves, the epochs that finish compares
\* and the cascade of invalidate are a memo table that never publishes what was
\* built from a forgotten value, unless an invalidation is on its way to it, and
\* publishes every other build that succeeds: "an invalidation of p racing with
\* this build then discards the build instead of missing it" (provider.go:118).
MemoKept == M!Spec

-----------------------------------------------------------------------------
(* Cycles.                                                                 *)

\* No attempts wait on each other in a circle (node.go:53), on one goroutine
\* or across several.
NoWaitCycle ==
    \A S \in (SUBSET Attempt) \ {{}} : \E a \in S : WaitsOn(a) \cap S = {}

\* The goroutines of a's builder that wait on b, or whose wait has just ended.
Waiting(a, b) ==
    {s \in Slot : at[<<a, s>>] \in {"wait", "unlink"} /\ att[<<a, s>>] = b}

\* The wait-for graph counts the goroutines that wait, exactly, also where two
\* of one builder wait on the same attempt (node.go:45).
WaitsExact ==
    \A a, b \in Attempt : waits[a][b] = Cardinality(Waiting(a, b))

\* The unfinished attempts that goroutines of a's builder are blocked on.
BlockedOn(a) ==
    {b \in Attempt : phase[b] \in {"created", "running"}
                     /\ \E s \in Slot : at[<<a, s>>] = "wait" /\ att[<<a, s>>] = b}

\* ErrCycle is never a false alarm (provider.go:25): when waitFor is about to
\* refuse, waiting would really deadlock, unless Close is ending the waits.
CycleIsReal ==
    closing # "cancelled" =>
        \A g \in Builders : at[g] = "link" /\ Reach(att[g], g[1]) =>
            \A S \in SUBSET Attempt :
                (att[g] \in S /\ \A a \in S : BlockedOn(a) \subseteq S) => g[1] \in S

\* What a waits for and is not over yet.
HeldUpBy(a) ==
    {b \in Attempt : phase[b] # "done"
                     /\ \E s \in Slot : at[<<a, s>>] = "wait" /\ att[<<a, s>>] = b}
\* a and what it waits for, directly or not.
Awaited(a) ==
    {b \in Attempt : \A S \in SUBSET Attempt :
        (a \in S /\ \A c \in S : HeldUpBy(c) \subseteq S) => b \in S}
\* a can go on by itself: it has finished; it was created, and the goroutine
\* that did is about to run it; its builder has nothing to wait for, or one of
\* the builder's goroutines is in get and does not have to wait.
CanGo(a) ==
    \/ phase[a] = "finished"
    \/ phase[a] = "created"
       /\ \E g \in Builders : at[g] = "link" /\ mine[g] /\ att[g] = a
    \/ /\ phase[a] = "running"
       /\ \/ \A s \in Slot : at[<<a, s>>] = "out"
          \/ \E s \in Slot : /\ at[<<a, s>>] \notin {"out", "over"}
                            /\ at[<<a, s>>] = "wait" => phase[att[<<a, s>>]] = "done"

\* Builders do not deadlock (node.go:53), not even some of them while others go
\* on: whatever a build waits for, it comes down to one that can go on.
NobodyStuck ==
    \A a \in Attempt : phase[a] \notin {"unused", "done"} =>
        \E b \in Awaited(a) : CanGo(b)

-----------------------------------------------------------------------------
(* What the documentation adds, and the code does not keep.                *)

\* "app.Invalidate(app.DB) forgets the pool.  Everything built from it, found
\* through the From calls, is forgotten too" (README.md:98), by the time each
\* call returns.
GoneOnReturn ==
    \A i \in Invalidator : since[i] # <<>> /\ frames[i] = <<>> => GoneFor(i)
-----------------------------------------------------------------------------
(* What makes these invariants inductive.                                  *)

\* Where a goroutine is says what it holds; a goroutine of a builder is in get
\* only while the builder runs.
PlaceOK ==
    /\ \A g \in Goroutine :
         /\ at[g] # "out" => target[g] \in Provider
         /\ at[g] = "acquire" => /\ box[g] \in Attempt /\ of[box[g]] = target[g]
                                 /\ phase[box[g]] \in {"finished", "done"}
         /\ at[g] \in {"link", "wait", "unlink"} =>
                 att[g] \in Attempt /\ phase[att[g]] # "unused"
    /\ \A g \in Builders : at[g] # "out" => phase[g[1]] = "running"

\* A created attempt has one goroutine that is about to run it.
StarterOK ==
    \A g \in Builders : at[g] = "link" /\ mine[g] =>
        /\ phase[att[g]] = "created"
        /\ \A h \in Builders : at[h] = "link" /\ mine[h] /\ att[h] = att[g] => h = g

\* A wait that Close did not end has ended with the attempt.
UnlinkOK ==
    closing # "cancelled" =>
        \A g \in Builders : at[g] = "unlink" => phase[att[g]] = "done"

\* Has a begun, and was its provider not invalidated since?
UpToDate(a) == phase[a] # "unused" /\ began[a] = epoch[of[a]]

\* Epochs tell what is out of date.
EpochOK ==
    /\ \A a \in Attempt : phase[a] # "unused" => began[a] <= epoch[of[a]]
    /\ \A n \in Provider : val[n] # None =>
         of[val[n]] = n /\ phase[val[n]] \in {"finished", "done"} /\ UpToDate(val[n])
    /\ \A a \in Attempt : phase[a] \in {"unused", "created"} => got[a] = {}
    /\ \A a \in Attempt : \A u \in got[a] : phase[u] \in {"finished", "done"}
    /\ \A i \in Invalidator : since[i] # <<>> => since[i][2] <= epoch[since[i][1]]

\* What a build that is not out of date has read, or is reading, is not out of
\* date either and has its edge recorded, or an invalidation is on its way.
EdgesOK ==
    \A a \in Attempt : UpToDate(a) /\ ~Pending(of[a]) =>
        /\ \A u \in got[a] : UpToDate(u) /\ of[a] \in dependents[of[u]]
        /\ \A s \in Slot : at[<<a, s>>] # "out" =>
             /\ of[a] \in dependents[target[<<a, s>>]]
             /\ at[<<a, s>>] = "acquire" => UpToDate(box[<<a, s>>])

\* A value that was read stays its provider's until it is invalidated or shut.
KeptOK ==
    closing = "open" =>
        \A a \in Attempt :
            /\ \A u \in got[a] : UpToDate(u) => val[of[u]] = u
            /\ \A s \in Slot : at[<<a, s>>] = "acquire" /\ UpToDate(box[<<a, s>>]) =>
                 val[target[<<a, s>>]] = box[<<a, s>>]

\* The edges recorded, and the dependents the recursion of i has still to
\* follow: each edge was recorded by a call of From of its own, and going one
\* level deeper uses one up.
Recorded  == {e \in Provider \X Provider : e[2] \in dependents[e[1]]}
ToFollow(i) ==
    {t \in (1..Len(frames[i])) \X Provider : t[2] \in frames[i][t[1]].todo}
RecursionOK ==
    /\ Cardinality(Recorded) <= Cardinality(ReadsMade)
    /\ \A i \in Invalidator :
         /\ since[i] = <<>> => frames[i] = <<>>
         /\ frames[i] # <<>> =>
              Len(frames[i]) + Cardinality(ToFollow(i)) + Cardinality(Recorded)
                  <= 1 + Cardinality(ReadsMade)

\* A created attempt has a goroutine about to run it; what has failed is over;
\* only Close shuts.
StepsOK ==
    /\ \A a \in Attempt : phase[a] = "created" =>
         \E g \in Builders : at[g] = "link" /\ mine[g] /\ att[g] = a
    /\ \A g \in Builders : at[g] # "over"
    /\ \A a \in Attempt : phase[a] \in {"unused", "created", "running"} => err[a] = "none"
    /\ closing = "open" => \A n \in Provider : ~closed[n]

\* The inductive invariant: of builds and waits, and of invalidation.
BuildInv ==
    /\ TypeOK /\ PlaceOK /\ StarterOK /\ SingleFlight
    /\ WaitsExact /\ NoWaitCycle /\ UnlinkOK /\ EpochOK
IInv == Eager = {} /\ BuildInv /\ EdgesOK /\ KeptOK /\ RecursionOK
=============================================================================
