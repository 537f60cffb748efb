-------------------------------- MODULE App ---------------------------------
(***************************************************************************)
(* A program built on coldwire: a goroutine constructs the providers,      *)
(* Eager and Deferred, one after the other (graph.go), requests come in at *)
(* the edge and hold leases (edge.go), values are invalidated, and the     *)
(* graph is closed.  It composes                                           *)
(*   - Node: get, builds, Invalidate and the shut loop, step by step;      *)
(*   - Lifetime: who owns a value, and when it is cleaned up; the counts   *)
(*     of module Values implement it;                                      *)
(* and adds construction and the build profile (profile.go).               *)
(*                                                                         *)
(* A step of Node that takes or drops a reference is a step of Lifetime    *)
(* too.  Who runs a cleanup is Values' business: here a cleanup goes on by *)
(* itself, and does not hold up whoever dropped the last reference.        *)
(***************************************************************************)
EXTENDS Node

CONSTANT
    Overlap  \* may providers be constructed while CloseContext shuts others?

ASSUME AppAssumption == Overlap \in BOOLEAN /\ None \notin Caller

VARIABLES
    \* Lifetime
    life, owners, started,
    \* construction
    made,     \* how many of Members have been constructed
    making,   \* what the constructor is at
    said,     \* what join returned to lazyOf
    eager,    \* the build eagerOf runs, None if none
    ended,    \* ended[a]: what a's run of build returned, "not" until it has
    \* package edge
    serving,  \* requests being served
    \* Graph.built
    built,    \* the providers with an entry, in order
    rec       \* rec[n]: the error and the number of attempts of n's entry

lifeVars == <<life, owners, started>>
makeVars == <<made, making, said, eager>>
profVars == <<built, rec, ended>>
appVars  == <<vars, lifeVars, makeVars, serving, profVars>>

L == INSTANCE Lifetime WITH Value <- Attempt, Lease <- Caller, overdue <- {}

Making == {"idle", "building", "recorded", "joined", "storing", "aborting", "aborted"}

\* The types of the variables.
AppTypeOK ==
    /\ TypeOK /\ L!TypeOK
    /\ made \in 0..Len(Members) /\ making \in Making
    /\ said \in BOOLEAN /\ eager \in Attempt \cup {None}
    /\ serving \subseteq Caller
    /\ built \in Seq(Provider)
    /\ rec \in [Provider -> [err : Errors \cup {"none"}, attempts : 0..MaxAttempts]]
    /\ ended \in [Attempt -> Errors \cup {"none", "not"}]

AppInit ==
    /\ Start /\ members = <<>>
    /\ life = [a \in Attempt |-> "absent"]
    /\ owners = [a \in Attempt |-> {}]
    /\ started = {}
    /\ made = 0 /\ making = "idle" /\ said = FALSE /\ eager = None
    /\ serving = {}
    /\ built = <<>>
    /\ rec = [n \in Provider |-> [err |-> "none", attempts |-> 0]]
    /\ ended = [a \in Attempt |-> "not"]

-----------------------------------------------------------------------------
(* The profile.                                                            *)

\* Mutant: record that keeps the error of the first build.
FirstError(n, e) == IF rec[n].attempts = 0 THEN e ELSE rec[n].err
\* The error an entry shows.
LastError(n, e) == e

\* record, at the end of build.
Record(n, e) ==
    /\ built' = IF rec[n].attempts = 0 THEN Append(built, n) ELSE built
    /\ rec' = [rec EXCEPT ![n] = [err |-> LastError(n, e), attempts |-> @.attempts + 1]]

\* The builder of a returns, and build with it: it records what it returns.
\* Nobody has decided yet whether the value is published.
Build(a) ==
    /\ ended[a] = "not"
    /\ \E e \in Errors \cup {"none"} :
         /\ BuilderReturns(a, e)
         /\ Record(of[a], e)
         /\ ended' = [ended EXCEPT ![a] = e]

-----------------------------------------------------------------------------
(* Construction.                                                           *)

\* The providers the constructor has returned.
Constructed == {Members[i] : i \in 1..made}
\* The one it is at.
Current == Members[made + 1]

ShutOver == closing = "cancelled" /\ toShut = <<>>

\* The constructor goes on to the next provider.
MayConstruct ==
    /\ making = "idle" /\ made < Len(Members)
    /\ Overlap \/ closing = "open" \/ ShutOver

\* join.
Join(n) == members' = Append(members, n)

\* lazyOf, AsStatic and the like: the node joins the graph, ...
LazyJoins ==
    /\ MayConstruct /\ Current \notin Eager
    /\ Join(Current)
    /\ said' = (closing # "open")
    /\ making' = "joined"
    /\ UNCHANGED <<nodeVars, dependents, phase, builtVars, waits, scopeVars, at,
                   getVars, invalVars, dropped, closing, toShut, lifeVars, made,
                   eager, serving, profVars>>

\* Mutant: lazyOf that ignores what join returns.
JoinIgnored == FALSE
JoinResult == said

\* ... and then its closed is set, without its lock.
LazyReturns ==
    /\ making = "joined"
    /\ closed' = [closed EXCEPT ![Current] = JoinResult]
    /\ making' = "idle" /\ made' = made + 1
    /\ UNCHANGED <<val, cur, epoch, dependents, phase, builtVars, waits, scopeVars,
                   at, getVars, invalVars, dropped, closeVars, lifeVars, said,
                   eager, serving, profVars>>

\* eagerOf runs the builder; what it reads are steps of From and get.
EagerBegins ==
    /\ MayConstruct /\ Current \in Eager
    /\ \E a \in Attempt :
         /\ Fresh(a)
         /\ eager' = a
         /\ phase' = [phase EXCEPT ![a] = "running"]
         /\ of' = [of EXCEPT ![a] = Current]
    /\ making' = "building"
    /\ UNCHANGED <<nodeVars, dependents, began, err, stale, waits, scopeVars, at,
                   getVars, invalVars, dropped, closeVars, lifeVars, made, said,
                   serving, profVars>>

\* ... and the end of it is recorded.
EagerRecords ==
    /\ making = "building"
    /\ Build(eager)
    /\ making' = "recorded"
    /\ UNCHANGED <<nodeVars, dependents, phase, builtVars, waits, scopeVars, at,
                   getVars, invalVars, dropped, closeVars, lifeVars, made, said,
                   eager, serving>>

\* Mutant: eagerOf that does not look at newGen.
EagerErrorOfBuild(e) == e
\* The error of an eager build that ended with e; newGen refuses a closed graph.
EagerError(e) == IF e = "none" /\ closing # "open" THEN "closed" ELSE e

\* newGen registers the value, or its cleanups run and it lets go of what it
\* read.
EagerEnds ==
    /\ making = "recorded"
    /\ err' = [err EXCEPT ![eager] = EagerError(ended[eager])]
    /\ phase' = [phase EXCEPT ![eager] = "finished"]
    /\ IF err'[eager] = "none"
       THEN L!Publish(eager) /\ making' = "storing"
       ELSE L!Discard(eager) /\ making' = "aborting"
    /\ UNCHANGED <<nodeVars, dependents, of, began, stale, waits, scopeVars, at,
                   getVars, invalVars, dropped, closeVars, made, said, eager,
                   serving, profVars>>

\* The value is stored and the node joins the graph.  (Nobody else has the node
\* yet, so these are one step.)
EagerReturns ==
    /\ making = "storing"
    /\ val' = [val EXCEPT ![Current] = eager]
    /\ Join(Current)
    /\ phase' = [phase EXCEPT ![eager] = "done"]
    /\ making' = "idle" /\ made' = made + 1 /\ eager' = None
    /\ UNCHANGED <<cur, epoch, closed, dependents, builtVars, waits, scopeVars, at,
                   getVars, invalVars, dropped, closing, toShut, lifeVars, said,
                   serving, profVars>>

\* What a owns: the values in its list of deps, with their places there.
Deps(a) == {t \in Attempt \X (1..MaxReads) : <<a, t[2]>> \in owners[t[1]]}
\* Mutant: finish and eagerOf that leave what came to nothing as it is.
NotCleanedUp(a) == TRUE
\* What came to nothing is cleaned up.
CleanedUp(a) == life[a] = "closed" /\ Deps(a) = {}
\* The build of a failed, or its value is not published.
CameToNothing(a) == err[a] # "none" \/ stale[a]

\* After runAll and releaseAll it panics, which ends construction.
EagerPanics ==
    /\ making = "aborting"
    /\ CleanedUp(eager)
    /\ phase' = [phase EXCEPT ![eager] = "done"]
    /\ making' = "aborted"
    /\ UNCHANGED <<nodeVars, dependents, builtVars, waits, scopeVars, at, getVars,
                   invalVars, dropped, closeVars, lifeVars, made, said, eager,
                   serving, profVars>>

Construct ==
    \/ LazyJoins \/ LazyReturns
    \/ EagerBegins \/ EagerRecords \/ EagerEnds \/ EagerReturns \/ EagerPanics

-----------------------------------------------------------------------------
(* The steps of Node, with what they do to the lifetimes.                  *)

\* A read of a field that has not been assigned yet: the zero Provider.
FromUnconstructed(g, n) ==
    /\ Asks(g, n) /\ n \notin Constructed /\ ended[g[1]] = "not"
    /\ fault' = [fault EXCEPT ![g[1]] = "unconstructed"]
    /\ UNCHANGED <<nodeVars, dependents, phase, builtVars, waits, got, at, getVars,
                   invalVars, dropped, closeVars, lifeVars, makeVars, serving,
                   profVars>>

\* Steps that need the provider's field.
Uses(n) ==
    /\ n \in Constructed
    /\ \/ \E c \in Caller : Call(c, n)
       \/ \E g \in Builders : ended[g[1]] = "not" /\ From(g, n)
       \/ \E i \in Invalidator : InvalidateCalled(i, n)
    /\ UNCHANGED <<lifeVars, makeVars, serving, profVars>>

\* Mutant: the next place of deps, off by one.
HolderFromZero(g) ==
    IF g \in Caller THEN <<g, 0>> ELSE <<g[1], Cardinality(Deps(g[1]))>>
\* The owner g takes a reference for: its lease, or the next of its deps.
Holder(g) ==
    IF g \in Caller THEN <<g, 0>> ELSE <<g[1], Cardinality(Deps(g[1])) + 1>>

\* Mutant: From that takes no reference.
TakesLeaseOnly(g) ==
    IF g \in Caller THEN L!Take(Holder(g), box[g])
                    ELSE life[box[g]] = "open" /\ UNCHANGED lifeVars
Takes(g) == L!Take(Holder(g), box[g])

\* get returns: From hands the value to the builder, the edge serves.
TakeAndReturn(g) ==
    /\ Acquired(g)
    /\ Takes(g)
    /\ serving' = serving \cup ({g} \cap Caller)
    /\ UNCHANGED <<makeVars, profVars>>

TakeFails(g) ==
    /\ AcquireFails(g)
    /\ life[box[g]] # "open"
    /\ UNCHANGED <<lifeVars, makeVars, serving, profVars>>

\* The handler returns, and its deferred Release.
Answer(c) ==
    /\ c \in serving
    /\ L!Give(<<c, 0>>, box[c])
    /\ serving' = serving \ {c}
    /\ UNCHANGED <<vars, makeVars, profVars>>

Publishable(a) == err'[a] = "none" /\ ~stale'[a]

\* run: build returns, which records it, ...
RecordBuild(a) ==
    /\ of[a] \notin Eager
    /\ Build(a)
    /\ UNCHANGED <<vars, lifeVars, makeVars, serving>>

\* ... and finish publishes what it returned, or not.
EndBuild(a) ==
    /\ of[a] \notin Eager /\ ended[a] # "not"
    /\ Finish(a) /\ err'[a] = ended[a]
    /\ IF Publishable(a) THEN L!Publish(a) ELSE L!Discard(a)
    /\ UNCHANGED <<makeVars, serving, profVars>>

\* The end of finish, after what was not published is cleaned up.
WakeWaiters(a) ==
    /\ of[a] \notin Eager
    /\ CloseDone(a)
    /\ CameToNothing(a) => CleanedUp(a)
    /\ UNCHANGED <<lifeVars, makeVars, serving, profVars>>

\* A provider lets go of its value, if it has one.
LetsGo(v) == IF v = None THEN UNCHANGED lifeVars ELSE L!Give(L!TheProvider, v)

InvalidateReleases(i) ==
    /\ ReleaseOld(i)
    /\ LetsGo(Top(i).old)
    /\ UNCHANGED <<makeVars, serving, profVars>>

BeginClose ==
    /\ CloseBegins
    /\ Overlap \/ making \in {"idle", "aborted"}
    /\ UNCHANGED <<lifeVars, makeVars, serving, profVars>>

ShutAndRelease ==
    /\ Shut
    /\ LetsGo(val[toShut[Len(toShut)]])
    /\ UNCHANGED <<makeVars, serving, profVars>>

\* Who runs the cleanups of a: finish or eagerOf, before it is done, when the
\* build came to nothing; else whoever drops the last reference.
Cleans(a) == CameToNothing(a) => phase[a] = "finished"

\* The cleanups of a value run, and it lets go of what it was built from.
CleanUp(a) ==
    /\ Cleans(a)
    /\ \/ L!Start(a) /\ a \notin started
       \/ L!Finish(a)
       \/ \E t \in Deps(a) : L!Give(<<a, t[2]>>, t[1])
    /\ UNCHANGED <<vars, makeVars, serving, profVars>>

\* The steps of get, of waitFor and stopWaiting, of invalidate and of
\* CloseContext that change no lifetime.
Quietly(step) == step /\ UNCHANGED <<lifeVars, makeVars, serving, profVars>>

GoOn(g) ==
    \/ Quietly(Load(g) \/ EnterClosed(g) \/ EnterAgain(g) \/ EnterJoins(g)
               \/ EnterStarts(g) \/ Wakes(g) \/ SeesClose(g))
    \/ TakeAndReturn(g) \/ TakeFails(g)

Reading(g) == Quietly(Read(g))

Cascade(i) ==
    InvalidateReleases(i) \/ Quietly(\E m \in Provider : InvalidateDependent(i, m))

\* Nobody is at anything.
AtRest ==
    /\ Finished \/ BoundReached
    /\ making \in {"idle", "aborted"} /\ serving = {}
    /\ \A a \in Attempt : Cleans(a) =>
         life[a] # "closing" /\ (life[a] = "closed" => Deps(a) = {})

AppTerminated == AtRest /\ UNCHANGED appVars

AppNext ==
    \/ Construct
    \/ \E n \in Provider : Uses(n)
    \/ \E g \in Goroutine : GoOn(g) \/ Quietly(Leaves(g))
    \/ \E g \in Builders : Reading(g) \/ \E n \in Provider : FromUnconstructed(g, n)
    \/ \E c \in Caller : Answer(c)
    \/ \E a \in Attempt : RecordBuild(a) \/ EndBuild(a) \/ WakeWaiters(a) \/ CleanUp(a)
    \/ \E i \in Invalidator : Cascade(i)
    \/ BeginClose \/ Quietly(Cancel) \/ ShutAndRelease
    \/ AppTerminated

AppSpec == AppInit /\ [][AppNext]_appVars
-----------------------------------------------------------------------------
(* What the program is promised.                                           *)

\* "nothing is ever closed under a request" (README.md:97): the value a request
\* is served with, and all it was built from, stay open until it is answered.
ServedOpen ==
    \A c \in serving : \A u \in BuiltFrom(box[c]) : life[u] = "open"

\* "ErrClosed is returned by every provider of a closed graph" (provider.go:29):
\* once CloseContext has shut the providers, whatever has been constructed is
\* closed and has no value.
EveryProviderShut ==
    ShutOver => \A n \in Constructed : closed[n] /\ val[n] = None

\* After that only requests, builds and invalidations under way keep values
\* open, so Close can wait for the rest to go (graph.go:91).
OnlyHoldersLeft ==
    ShutOver =>
        \A v \in Attempt : life[v] = "open" =>
            \/ \E o \in owners[v] : o # L!TheProvider
            \/ \E i \in Invalidator : \E k \in 1..Len(frames[i]) : frames[i][k].old = v

\* An Eager provider is always ready (graph.go:201): nobody waits for it or
\* runs a builder it has not got, before, while or after it is shut.
EagerNeverBuilt ==
    \A n \in Eager :
        /\ cur[n] = None
        /\ n \in Constructed /\ ~closed[n] => val[n] # None
        /\ \A g \in Goroutine : target[g] = n => at[g] \notin {"link", "wait", "unlink"}

\* The runs of n's builder that have returned.
Runs(n) == {a \in Attempt : of[a] = n /\ ended[a] # "not"}

\* The build profile is true (profile.go:23), also between the end of a build and
\* finish, which decides what becomes of it: one entry per provider built, with
\* all the runs of its builder and the error of the last, so without one while
\* the provider has a value.
ProfileTrue ==
    /\ \A i, j \in 1..Len(built) : built[i] = built[j] => i = j
    /\ \A n \in Provider :
         /\ rec[n].attempts = Cardinality(Runs(n))
         /\ rec[n].attempts > 0 <=> \E i \in 1..Len(built) : built[i] = n
         /\ \A a \in Runs(n) : (\A b \in Runs(n) : b <= a) => rec[n].err = ended[a]
         /\ val[n] # None => rec[n].err = "none"

\* A provider's reference on a value is released once, whoever swaps the value
\* out, Invalidate or Close (node.go:227): while the value is current the
\* provider has it, and then one Invalidate does, which has yet to drop it.
ReleasedOnce ==
    /\ \A n \in Provider : val[n] # None => L!TheProvider \in owners[val[n]]
    /\ \A i \in Invalidator : \A k \in 1..Len(frames[i]) :
         LET v == frames[i][k].old IN v # None =>
           /\ L!TheProvider \in owners[v]
           /\ \A n \in Provider : val[n] # v
           /\ \A j \in Invalidator : \A h \in 1..Len(frames[j]) :
                frames[j][h].old = v => j = i /\ h = k

\* A closed program leaves nothing behind (graph.go:91): when all that was under
\* way has ended, also a failed construction and builds that came too late,
\* every value is cleaned up and has let go of what it was built from.
ClosedIsClean ==
    AtRest /\ ShutOver =>
        \A a \in Attempt : life[a] \in {"absent", "closed"} /\ owners[a] = {}
-----------------------------------------------------------------------------
(* What makes these invariants inductive.                                  *)

\* Only what has been constructed is used, and has a value or a build; an
\* Invalidate that has not been called is at nothing; a builder that has
\* returned reads no more.
UseOK ==
    /\ \A g \in Goroutine : at[g] # "out" => target[g] \in Constructed
    /\ \A n \in Provider : val[n] # None \/ cur[n] # None => n \in Constructed
    /\ \A i \in Invalidator : since[i] = <<>> => frames[i] = <<>>
    /\ \A g \in Builders : at[g] # "out" => ended[g[1]] = "not"

\* Nothing invalidates an Eager provider: it has no edges (provider.go:118).
EagerApart ==
    /\ \A n \in Provider : dependents[n] \cap Eager = {}
    /\ \A i \in Invalidator : \A k \in 1..Len(frames[i]) : frames[i][k].todo \cap Eager = {}
    /\ \A n \in Eager : epoch[n] = 0
    /\ \A a \in Attempt : phase[a] = "unused" => began[a] = 0 /\ ~stale[a]

\* The build eagerOf runs, and the provider it is for.
MakingOK ==
    /\ making \notin {"idle", "aborted"} =>
         made < Len(Members) /\ (making = "joined" <=> Current \notin Eager)
    /\ making \in {"building", "recorded", "storing", "aborting"} =>
         /\ eager \in Attempt /\ of[eager] = Current /\ ~stale[eager]
         /\ phase[eager] = IF making \in {"building", "recorded"}
                           THEN "running" ELSE "finished"
         /\ ended[eager] = "not" <=> making = "building"
    /\ making = "recorded" => rec[Current].err = ended[eager]
    /\ making = "storing" => rec[Current].err = "none" /\ err[eager] = "none"

\* Attempts are numbered as they are created, and a provider's builds follow one
\* another: one begins when the last is finished, the only one of an Eager
\* provider before it is constructed.
InTurn ==
    /\ \A a, b \in Attempt : a < b /\ phase[b] # "unused" =>
         /\ phase[a] # "unused"
         /\ of[a] = of[b] => phase[a] \in {"finished", "done"}
    /\ \A a \in Attempt : phase[a] # "unused" /\ of[a] \in Eager =>
         of[a] \in Constructed \/ (eager = a /\ making \notin {"idle", "joined"})

\* What has begun to run ends before it finishes; what came to nothing is cleaned
\* up before it is done.
EndedOK ==
    \A a \in Attempt :
        /\ phase[a] \in {"unused", "created"} => ended[a] = "not"
        /\ phase[a] \in {"finished", "done"} => ended[a] # "not"
        /\ phase[a] = "done" /\ CameToNothing(a) => CleanedUp(a)

\* What a builder holds and what its goroutines are after, it has asked for.
ReadsCounted ==
    \A a \in Attempt :
        /\ Cardinality(Deps(a)) + Cardinality({s \in Slot : at[<<a, s>>] # "out"})
              <= Cardinality(asked[a])
        /\ Cardinality(asked[a]) <= MaxReads

\* A value is open from the end of its build until its last owner lets go.
LifeOK ==
    \A v \in Attempt :
        /\ life[v] = "absent" <=> phase[v] \in {"unused", "created", "running"}
        /\ life[v] = "open" <=> owners[v] # {}

\* Who owns what: a provider its value until it has let go of it, requests what
\* they are served with, values what they were built from.
OwnersOK ==
    /\ \A v \in Attempt : L!TheProvider \in owners[v] =>
         \/ val[of[v]] = v \/ (making = "storing" /\ eager = v)
         \/ \E i \in Invalidator : \E k \in 1..Len(frames[i]) : frames[i][k].old = v
    /\ \A v \in Attempt, c \in Caller : <<c, 0>> \in owners[v] <=> c \in serving /\ box[c] = v
    /\ \A c \in serving : at[c] = "over" /\ box[c] \in Attempt
    /\ \A v, a \in Attempt : \A k \in 1..MaxReads : <<a, k>> \in owners[v] => v \in got[a]
    /\ \A a \in Attempt : life[a] # "closed" =>
         \A u \in got[a] : \E k \in 1..MaxReads : <<a, k>> \in owners[u]

\* The value eagerOf is about to store is no provider's yet.
StoringOwned ==
    making = "storing" =>
        /\ L!TheProvider \in owners[eager]
        /\ \A n \in Provider : val[n] # eager
        /\ \A i \in Invalidator : \A k \in 1..Len(frames[i]) : frames[i][k].old # eager

\* Nothing is built from itself, directly or not.
GotAcyclic ==
    \A S \in (SUBSET Attempt) \ {{}} : \E a \in S : \A b \in S : a \notin got[b]

\* Close comes to every provider that has been constructed.
ShutOK ==
    /\ closing = "open" => \A n \in Constructed : \E k \in 1..Len(members) : members[k] = n
    /\ closing # "open" => \A n \in Constructed :
         (closed[n] /\ val[n] = None) \/ \E k \in 1..Len(toShut) : toShut[k] = n
    /\ closing # "open" /\ ~ShutOver => making \in {"idle", "aborted"}
    /\ making = "storing" => closing = "open"
    /\ making = "joined" => /\ said <=> closing # "open"
                            /\ \E k \in 1..Len(members) : members[k] = Current

\* The inductive invariant; that Close comes to everything needs that nothing is
\* constructed meanwhile.
AppInv ==
    /\ AppTypeOK /\ PlaceOK /\ StarterOK /\ SingleFlight /\ WaitsExact /\ EpochOK
    /\ UseOK /\ EagerApart /\ EagerNeverBuilt /\ MakingOK
    /\ ReadsCounted /\ LifeOK /\ OwnersOK /\ GotAcyclic /\ ProfileTrue
    /\ InTurn /\ EndedOK /\ ReleasedOnce /\ StoringOwned
    /\ ~Overlap => ShutOK
=============================================================================
