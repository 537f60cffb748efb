# coldwire in TLA+

coldwire is a Go library for dependency injection. A program builds a `Graph`
of typed `Provider`s: eager ones are built while the graph is constructed,
deferred ones on first use, by whichever goroutine comes first. Values are
reference-counted, can be invalidated while in use, and are cleaned up by
`Close`. A second part, `coldwirevet`, is a static analyzer for misuse the
types cannot catch.

This directory holds models of both, model-checked with TLC, and proofs checked
with TLAPS. `PROJECT.json` lists the runs, the lines of code each definition
models, the mutants that show each property can fail, the hazards and the
findings.

## The system

| Component | State | Operations | Modelled in |
|---|---|---|---|
| Values, `value.go` | `gen.refs`, `closers`, `deps`; `Graph.live`, `drained` | acquire, release, releaseAll, newGen, checkDrained | `Values` |
| Cleanups, `graph.go:45-66` | `closer.done` | run, runAll | `Values` |
| Leases, `provider.go:67-97` | `Lease.released` | Acquire, Release | `Values` (references), `Node` (the wait) |
| Close, `graph.go:85-148` | `closed`, `late`, `members`, the context | Close, CloseContext | `Values` (the drain, the deadline, the errors), `Node` and `App` (cancel and shut) |
| Nodes, `node.go` | `val`, `cur`, `epoch`, `closed`, attempts | get, run, finish, build, shut | `Node` |
| Cycle detection, `node.go:48-96` | `attempt.waits` | waitFor, stopWaiting, reach | `Node` |
| Invalidation, `node.go:212-239` | `dependents`, `epoch` | addDependent, invalidate | `Node` (which values), `Values` (their release) |
| Scopes, `kind.go`, `provider.go:114-130` | `deps`, `closers`, `done` | From, OnClose | `Values`, `Node`, `App` (zero providers) |
| Analyzer, `coldwirevet/analyzer.go` | call graph, `forces`, facts | the fixpoint and the reports | `Vet` |
| Construction, `graph.go:68-74,189-241` | `members` | AsStatic, Eagerly, Lazily, join | `App` |
| Profile, `profile.go` | `built`, `site.rec` | record, Builds | `App` |
| Edge, `edge/edge.go` | the lease of a request | Handler, Func | `App` |
| Errors, `errors.go`; examples | - | wrapping; clients | no |

How they interact. A caller's `Try` or `Acquire` goes to `node.get`, which
returns the current value, waits for the build in progress, or builds. The
builder calls `From`, which records the reader as a dependent, goes to
`node.get` of the dependency with a reference, and appends the value to the
scope. `finish` turns scope and result into a `gen` with one reference, its
provider's. `Invalidate` and `shut` swap the value out and drop that reference;
leases and dependents drop theirs; the last one runs the cleanups and then drops
the references of the value to its own dependencies. `Close` waits until no
value is live and no build in flight.

What is hard. There is no global lock: `node.mu`, `graph.mu`, `waitMu`, the
scope's lock and three atomics protect parts, and every operation goes in and
out of several of them. Values are loaded before a reference is taken on them.
Builds are invalidated, closed, abandoned and joined while they run; they wait
on each other across goroutines. Cleanups fail, run concurrently with a forced
Close, and their errors travel up a recursion. Locks are short and tests can
reach few of the interleavings; that is what the models are for.

What makes each part correct:

- *values*: the count is the holders; a leased tree stays open; dependents are
  cleaned up first, cleanups in reverse order and once; nothing is lost (no
  reference, no error); Close ends, after everything has ended;
- *nodes*: one build at a time; every call returns; no deadlock between
  builders and no false alarm of one;
- *invalidation*: no value built from a forgotten one survives, the recursion ends;
- *construction*: a closed graph has no open provider, whenever it was
  constructed; an eager provider is ready or the program has failed; a failed
  construction leaves nothing open;
- *edge*: nothing is closed under a request;
- *profile*: one true entry per provider;
- *analyzer*: its facts are exactly the functions that force a provider, in
  whatever order the fixpoint runs; every misuse is reported, once.

## The modules

Two levels and a composition:

    Lifetime            who owns a value (abstract)
       ^      \
       |       App = Node x Lifetime + construction, edge, profile
     Values   /
            Node        who builds it, for whom, and when it is forgotten
              |
              v
            Memo        what is kept, and what has to go (abstract)

    Vet                 the analyzer

**`Lifetime`** says what the reference counts promise, without counts: a value is
owned by its provider while it is current, by leases, and by values built from
it; nobody can come to own a value that has lost its last owner; only then do
its cleanups start, and only when they have returned does it give up what it
owns. A Close out of time may start cleanups of values still owned (`overdue`).

**`Values`** implements it (`OwnershipKept`, when builders join their reads). The
mapping: `Life` is "open" from publication until the last reference goes,
"closing" while the cleanups run, "closed" from then on; `Owners` are the
provider until it drops its reference, the leases, and the entries of `deps`
not given back. The mapping is what a count has to be the cardinality of; the
steps of the lists and stacks in between stutter.

`Values` follows values from build to cleanup. A member of `Value` is one
run of a builder: its attempt, its scope, and the gen it publishes. Every atomic
operation and every critical section is an action. What stands for what:

| Model | Code |
|---|---|
| `phase`: unborn, building, current, swapped, dropped, discarded | the attempt; then where the provider's reference is: in `node.val`, swapped out, released; or not published |
| `reading`, `deps`, `closers` | a `From` between its load and its acquire; `scope.deps`, `gen.deps`; the number of `scope.closers` |
| `left`, `next`, `inside`, `caller` | the position in `releaseAll`, in `runAll`, inside a cleanup, and the stack of `release` calls, kept as data |
| `done` | `closer.done` |
| `lease`, `of` | an `Acquire` between load and acquire, the lease, its release, its `addLate` |
| `stack` | the values an `invalidate` or `shut` has swapped out and not released yet |
| `live`, `inflight`, `closing`, `drained`, `forced`..., `late` | the fields of `Graph` and the locals of `CloseContext` |
| `errs`, `failed`, `reported` | cleanup errors on the way up; all of them; those returned |

Which provider a value belongs to does not matter here: a build may start as
long as some provider may still be open, and an invalidation swaps out any
current values before it drops them, which includes what the cascade of `Node`
does. A value of an eager provider lives like any other; how it is built is
`App`'s. `Publish` joins `newGen` with the store to `node.val`: both happen under
the node's lock, which everybody who swaps the value out takes as well; a reader
that loads without the lock cannot see the value before the store.

**`Node`** is `node.get` and what meets it: the loop of `get` (`at[g]` says
where goroutine `g` is), attempts with `run` and `finish`, the wait-for graph,
`invalidate` with its recursion (`frames`), and the part of `CloseContext` that
cancels the context and shuts the providers. The goroutines are callers and, per
running builder, several that may call `From` (`Slot`). An attempt's number
names its value. Reference counts are abstracted to `dropped`: until its
provider's own reference is released a value can be acquired, afterwards it may
or may not be. `Values` justifies that: `refs` is positive while the provider
holds its reference (`CountIsHolders`). A builder reads what `Reads` allows, in
any order, and with `Fallible` may fail. In `Node`'s own runs every provider is
deferred and constructed before anything else happens (`Init`).

**`Memo`** says what `Node` promises, without epochs, edges, attempts' phases or
goroutines: a memo table with dependency tracking. A provider has a value, or a
build under way, or neither. A build reads current values. Forgetting a provider
outdates its builds so far and makes *due* every provider that has a value, or is
building one, from the one forgotten. A build that succeeds is published unless
it is outdated or the graph is closed, and then what it read is current or its
provider is due. `Node` implements it (`MemoKept`). The mapping: a build is
outdated when its attempt's epoch is not its provider's, due is what the recursions of
`invalidate` have still to come to, the reads are what `From` returned. The
way through `get`, the waits, and the edges recorded are stutters.

The step that looks for a cycle and the step that records the wait are one
(`waitMu`); in the graph, `Reach` is the least set closed under the waits, which
is what the search of `reach` computes. `SeesClose` and `Leaves` are both
possible for a builder's wait on a cancelled graph: `select` picks either.

**`App`** is a program. A goroutine constructs the providers, eager and deferred,
one after the other; requests, an `Invalidate` and a `Close` come in meanwhile
or later. It extends `Node`, whose steps it takes one by one, each with what it
does to the lifetimes, which are those of `Lifetime` (`L`):

| Step of `Node` | Step of `Lifetime` | Code |
|---|---|---|
| `Acquired`, `AcquireFails` | `Take`; the value is not open | `gen.acquire` |
| `Finish` (`EndBuild`) | `Publish` or `Discard` | `newGen`, or the cleanup in `finish` |
| `ReleaseOld`, `Shut` | `Give` of the provider | `gen.release` |
| - | `Start`, `Finish`, `Give` of a value (`CleanUp`) | `runAll`, `releaseAll` |
| - | `Give` of a lease (`Answer`) | the deferred `Release` of package `edge` |

So a value that `Node` may or may not be able to acquire (`dropped`) can be
acquired here exactly when it is open. Construction adds `made` (the fields of
the program's struct assigned so far: a provider not yet among them is the zero
`Provider`), `making` (where the constructor is in `eagerOf` or `lazyOf`),
`said` (what `join` returned) and `eager` (its build, which has no attempt in
the code: it is never joined or waited for, but reads through the same `From`
and `get`). `built` and `rec` are the profile, and `ended` what the run of an
attempt's builder returned. The end of a build is two steps, as it is two critical
sections: `build` records what it returns, under the graph's lock (`RecordBuild`,
`EagerRecords`), and then `finish` publishes it or not, under the node's, or
`eagerOf` asks `newGen` (`EndBuild`, `EagerEnds`). In between the profile shows a
build whose outcome is open, while others may invalidate, close or look. A cleanup in `App` goes on by
itself instead of holding up whoever dropped the last reference; that order is
`Values`' business. Where the code waits for it and others wait for that
(`finish` before it wakes the waiters, a failed `eagerOf` before it panics), the
step waits for `CleanedUp`; and these two clean up what came to nothing
themselves, before they go on, as nobody else would (`Cleans`). `Close` is followed up to the end of the shut loop.
With `Overlap` providers may also be constructed while Close shuts others.

**`Vet`** is `run` of the analyzer on packages in import order. A function is a
sequence of events, each within literals that are invoked on the spot, called by a
`go` statement, handed to a method `Go`, handed to `Eagerly` or `Lazily`, or kept. The fixpoint visits the
functions of a package in any order, as it ranges over a map. The reference
definition, `Forcing`, is stated by what executing the program does and shares
no operator with the fixpoint but the nesting of literals. The code takes the callee
of a `go` statement as a literal invoked on the spot (`OnTheSpot`). What executes
is stated apart from that: the goroutine is started, so what it forces counts
(`RunsNow`), but it has not run when its builder returns (`RunsBefore`), and there
the two differ (see Findings). Recognising
providers, builders and graphs in typed syntax is not modelled.
Package-level initialisers behave as `init` does and are represented by it.

The proofs are in modules of their own, each of which extends what it is about:

| Module | Extends | Proves |
|---|---|---|
| `ValuesProofs` | `Values` | the counts, who cleans up, and when |
| `ValuesOrderProofs` | `ValuesProofs` | the order of cleanups, their errors, `CloseContext` |
| `ValuesLifetimeProofs` | `ValuesOrderProofs` | that `Values` implements `Lifetime` |
| `NodeProofs` | `Node` | builds, waits and cycles |
| `NodeInvalidateProofs` | `NodeProofs` | invalidation, and that `Node` implements `Memo` |
| `AppProofs` | `App`, `NodeProofs` | lemmas: `Node`'s invariants and an Eager provider's, under construction |
| `AppLifetimeProofs` | `AppProofs` | who owns what in a program, its profile, its Close |
| `VetProofs` | `Vet` | the facts, the paths and the reports of the analyzer |

**`MCValues`**, **`MCNode`**, **`MCApp`** and **`MCVet`** define the instances.

## The runs

| Run | Instance | Shows |
|---|---|---|
| `values` | 2 builds with 2 cleanups each, 1 lease, 1 invalidator, Close with a deadline | `TypeOK`, `DependentsFirst`, `CleanupsInOrder`, `ErrorsKept`, `CountIsHolders`, `LeaseKeepsTree`, `LastHolderCleans` |
| `values_live` | 2 builds, 1 lease, Close with a deadline; fair | `ReturnedIsClean`, `AllLetGo`, `CloseEnds`, `OwnershipKept` |
| `values_late_errors` | 2 builds, 1 lease, Close | finding: a lease's cleanup error comes after Close |
| `values_early_drain` | 2 builds, 1 lease, Close | finding: Close does not wait for a late build |
| `values_unjoined` | 2 builds, parallel reads not joined | finding: a reference is leaked |
| `node_invalidate` | 2 providers that may read each other, 2 callers, 2 invalidators, 3 builds | `TypeOK`, `SingleFlight`, `StaleIsPending`, `InvalidatedIsGone`, `RecursionEnds`, `MemoKept` |
| `node_cycle` | 3 providers p reads q reads r reads p and q, 2 callers, 2 goroutines per builder | `NoWaitCycle`, `WaitsExact`, `CycleIsReal`, `NobodyStuck` |
| `node_calls` | 2 providers in a circle, 2 callers of p, one with a lease, one impatient, q may fail, p may be invalidated, Close, 3 builds; fair | `CallsReturn` |
| `node_two_invalidate` | a chain of 2, 2 invalidators | finding: an Invalidate returns early |
| `app` | 2 eager and 2 deferred providers, construction, a request that may leave, failures, 1 invalidator, Close | `AppTypeOK`, `ServedOpen`, `EveryProviderShut`, `OnlyHoldersLeft`, `EagerNeverBuilt`, `ProfileTrue`, `ReleasedOnce`, `ClosedIsClean` |
| `app_overlap` | the same, constructing while Close runs | finding: a provider of a closed graph stays open |
| `vet` | 3818 programs of 4 functions in 2 packages | `TypeOK`, `FactsExact`, `ViaIsPath`, `ConstructionReported`, `BuilderReadsReportedOnce`, `EscapesReported`, `BackgroundReported`, `LoopProgresses`, `Ends` |

Bounds. `MaxReads` and `MaxClosers` bound the calls of a builder; `Value` bounds
the builds. Two values are what an order between dependent and dependency needs;
chains of three and a dependency with two dependents, through which a release
recurses, are covered by the theorems below, which hold for any number. Two
cleanups are what an order of cleanups needs; two readers what a
race between reads needs. `MaxAttempts` is three in `Node`: a build that is
invalidated, the one that replaces it, and one of another provider, or one of
each provider of a circle of three. In `App` it includes the eager builds: both
eager providers and a deferred one, or an eager one and two deferred, or a
deferred one built, invalidated and built again. When a goroutine needs one more, the run
stops there (`BoundReached`); safety is checked up to that point, and
`CallsReturn` excepts it. Each goroutine of a builder reads a provider once.
In `node_calls`, as liveness takes time, all calls are for p (`Targets`): three builds
are then p's, its dependency's, and p's again after an invalidation, so a caller that
retries does so within the bound. Elsewhere a call may be for any provider. Two
invalidators are what an overlap needs, two callers what a shared build or a cycle
across goroutines needs. Symmetry is used in safety runs only, over sets
whose members no definition tells apart.

Deadlock is checked in every run. `Terminated` is the stutter allowed when all
work is over, so that a state in which someone still waits and nothing can move
is an error: in `node_cycle` this is the absence of deadlock between builders.
`NobodyStuck` says more: no build is stuck while others go on either.

Fairness. Go schedules every runnable goroutine, so what a goroutine can do next
is weakly fair, per goroutine. In `Values` this includes that builders and
cleanup functions return and that leases are released: the doc of `CloseContext`
makes waiting for them its business, and without a deadline it does wait for
ever if they never do. Nobody has to start a build, take a lease, invalidate or
call Close, and a deadline need not come. In `Node` builders return; callers
need not call or leave, and Close, once begun, goes on. `App` has no fairness: that
nothing is left behind is stated of the states in which nobody is at anything
(`AtRest` in `ClosedIsClean`), and that such a state is reached is what the absence
of deadlock and the liveness of `Node` and `Values` say of the parts.

## What is proved

Every theorem holds for all values of the constants that satisfy the assumptions
named in the modules: any finite sets of values, leases, providers, callers,
invalidators and goroutines per builder, any graph of reads, any program to
analyze, and any bounds. Each rests on an invariant that is inductive. TLC has checked each of those on the
instances of the runs before it was proved, and a few of them only then got the
conjuncts they lacked.

### Values

Under `Joins` (builders wait for their parallel reads, as the code asks them to;
`values_unjoined` shows what happens otherwise):

| Theorem | States |
|---|---|
| `Invariant` | `Spec => []IInv` |
| `TypeCorrect` | `[]TypeOK` |
| `CountsExact` | `[]CountIsHolders` |
| `LeasesKeepTrees` | `[]LeaseKeepsTree` |
| `DependentsCleanFirst` | `[]DependentsFirst` |
| `LastHolderCleansUp` | `[]LastHolderCleans` |
| `CloseInvariant` | `Spec => []CloseInv` |
| `CleanupsReversed` | `CleanupsInOrder`: a step calls a cleanup only when exactly those behind it have been called |
| `ErrorsNeverDropped` | `[]ErrorsKept` |
| `CloseReturnsClean` | `[]ReturnedIsClean` |
| `CountsImplementOwnership` | `OwnershipKept`: `Values` implements `Lifetime` |

*Counts.* A release may only run when the count is positive, which needs the
count to be the number of holders; the holders of a dependency include the
entries of `deps` not yet released, which needs to know that a value gives them
back only after its own cleanups (`CleanOK`), that what is read was published
(`UsesOK`) and that a value is swapped out by one goroutine (`StackOK`). `IInv` is
the conjunction, with the types and two facts about bounds and the forced Close.
How counts change is in lemmas on cardinalities of the sets of leases and reads.
`LeaseKeepsTree` then follows from `IInv` alone: the values that are held,
unforced and not yet cleaned up are closed under dependencies, so they contain
everything the leased value was built from.

*Close.* `CloseInv` adds where the two loops over a value's cleanups are, its
own and that of a Close out of time (`OrderOK`), from which follows that each of
them calls the next one not yet called, or finds it called; that every value published and
not cleaned up is `live`, and that `CloseContext` gets past its wait only when
nothing is live or it is out of time (`LiveOK`); and who waits for the
release of whom (`CallerOK`): an error can be handed on only if whoever asked for
the release is still there to take it.

*Refinement.* Every action is shown to be one step of `Lifetime` or a stutter,
under the mapping above. `Lifetime` ends a value with its last owner and knows no
counts, so the heart of it is `LastOwner`: the count a release finds is one
exactly when whoever releases is the only owner left, which is what
`CountIsHolders` says of sets. That a value takes only while it is being built and
gives only when its cleanups have returned comes from `Joins`, `UsesOK` and
`CleanOK`.

### Node

For providers that are all deferred and constructed beforehand (`Node`'s `Init`;
`App`'s theorems below are the ones with eager providers and construction):

| Theorem | States |
|---|---|
| `BuildInvariant` | `Spec => []BuildInv` |
| `TypesKept` | `[]TypeOK` |
| `FlightsAreSingle` | `[]SingleFlight` |
| `WaitsAreCounted` | `[]WaitsExact` |
| `NobodyWaitsInACircle` | `[]NoWaitCycle` |
| `CyclesAreReal` | `[]CycleIsReal` |
| `CreatedIsRun` | `waitFor` never refuses the attempt its caller has just created |
| `NobodyIsStuck` | `[]NobodyStuck` |
| `NodeInvariant` | `Spec => []IInv` |
| `StaleValuesArePending` | `[]StaleIsPending` |
| `InvalidatedAreGone` | `[]InvalidatedIsGone` |
| `RecursionIsBounded` | `[]RecursionEnds` |
| `NodeImplementsMemo` | `MemoKept`: `Node` implements `Memo` |

*Builds and waits.* `BuildInv` says where a goroutine in `get` may be and what it
then holds (`PlaceOK`), that an attempt that was created and not begun has one
goroutine on its way to begin it (`StarterOK`), and that a wait ends only with the
attempt unless Close ended it (`UnlinkOK`). No circle: a wait is added only when
the waiter is not in `Reach` of what it is to wait for. `Reach` is the least set
closed under the waits, so it is a closed set without the waiter: a circle
through the new edge would lie in it, and one without it was there before. The
cases of a wait that is counted twice, because two goroutines of one builder wait
for the same attempt, are what `WaitsExact` is for. That refusals are real is the
converse, with `UnlinkOK`: the counts of waits that have ended lead only to
attempts that are done.

*Nobody is stuck.* What a build waits for is in the graph of waits (`WaitsExact`),
which has no circle (`NoWaitCycle`), so among all it waits for, directly or not,
there is one that waits for none of them. That one has finished, or it was
created and whoever created it is about to run it, or its builder runs and is not
waiting. `StepsOK` gives the second case: `waitFor` refuses no attempt of its
caller's, so the creator does get there.

*Invalidation.* A value is up to date when its provider's epoch is that of its
build's beginning. `EdgesOK` says that what an up-to-date build has read is up to
date and recorded as its dependency, or an invalidation is on its way to it;
`KeptOK` that what is up to date has not been replaced. Both survive the window
between `addDependent` and the read because the edge is recorded first, and the
one between the swap and the recursion because the dependents taken away are
among those on their way (`Pending`). The recursion ends because edges recorded,
plus dependents still to follow, plus levels, never exceed the reads made by more
than one (`RecursionOK`): each level uses up an edge, and an edge comes from a read.

*Refinement.* Each action is one step of `Memo` or a stutter. The steps of
substance are the ones of the window: a read finds a current value, and `finish`
publishes what was built from current values, each unless an invalidation is due
(`EdgesOK`, `KeptOK`); and the dependents that `invalidate` takes away with the
value include everything that has read it and is not out of date, so that all of it
becomes due in the same step (`InvalidatePends`). `StepsOK` adds that a
running build has not failed yet and that nothing is shut before Close.

### App

| Theorem | States |
|---|---|
| `AppInvariant` | `AppSpec => []AppInv` |
| `AppTypesKept` | `[]AppTypeOK` |
| `EagersAreReady` | `[]EagerNeverBuilt` |
| `ProfileIsTrue` | `[]ProfileTrue` |
| `ServedStaysOpen` | `[]ServedOpen` |
| `ReleasedOnlyOnce` | `[]ReleasedOnce` |
| `EveryProviderIsShut` | `[]EveryProviderShut`, if `~Overlap` |
| `OnlyHoldersAreLeft` | `[]OnlyHoldersLeft`, if `~Overlap` |
| `ClosedProgramIsClean` | `[]ClosedIsClean`, if `~Overlap` |

`~Overlap` (no provider is constructed while Close shuts the others) is needed:
`app_overlap` shows that the first of the three fails without it. It is used in one
conjunct of `AppInv` (`ShutOK`) and nowhere else.

`AppInv` takes over from `Node` the conjuncts on builds and epochs, shown again
because a program starts with nothing constructed and has eager providers, whose
builds have no attempt in the code. The other conjuncts say how the parts fit:
only what has been constructed is used (`UseOK`); no edge ever leads to an eager
provider (`EagerApart`); where construction is, and what its build may be at
(`MakingOK`); a builder has room for what it reads (`ReadsCounted`); a value is
open exactly while it has an owner (`LifeOK`); who the owners are (`OwnersOK`);
nothing is built from itself (`GotAcyclic`, as a build still running has been read
by nobody); Close has shut a provider or is going to (`ShutOK`).

Builds of one provider follow one another, in the order of their attempts
(`InTurn`), and each records once, between its builder and the end of it (`EndedOK`).
So the last run that has returned is that of the newest attempt, the entry shows its
error, and a provider has a value only from that run (`ProfileTrue`): a build under
way while a value is current would contradict `SingleFlight`.

`ReleasedOnce` is inductive with `StoringOwned`, which says it of a value that an
eager build is about to store: every swap leaves nothing behind for another.

`ServedOpen` follows as `LeaseKeepsTree` does in `Values`: what is open is closed
under what it was built from. `ClosedIsClean` needs `GotAcyclic`: at rest only
values can own values, a nonempty set of owned ones would have a member that no
other was built from, and that one has no owner. For what came to nothing it needs
`EndedOK`: it is cleaned up before its build is done, by `finish` or `eagerOf` or
never.

`App` takes the steps of `Lifetime` as they are, so that it keeps to them is how it
is written and no theorem. That the code's counts do what those steps say is
`CountsImplementOwnership`.

### Vet

| Theorem | States |
|---|---|
| `VetInvariant` | `Spec => []VetInv` |
| `VetTypesKept` | `[]TypeOK` |
| `FactsAreExact` | `[]FactsExact` |
| `PathsAreReal` | `[]ViaIsPath` |
| `LoopAlwaysProgresses` | `LoopProgresses` |
| `ConstructionIsReported` | `[]ConstructionReported` |
| `BuilderReadsAreReportedOnce` | `[]BuilderReadsReportedOnce` |
| `EscapesAreReported` | `[]EscapesReported` |
| `BackgroundIsReported` | `[]BackgroundReported` |

They hold for any programs `VetAssumption` admits: finitely many functions
in packages without import cycles, of any length, with literals nested
to any depth. The assumption says what Go's syntax gives (`IsEvent`): a function calls
functions of its own package or of earlier ones, a literal is written in one
function and is not part of itself, and a provider is not a function.

*Facts.* `Forcing` is the least set of functions closed under "executes a forced
get, or a call of a member". Whatever the fixpoint finds is in it (`SoundOK`),
since the causes it looks at are executed. The converse is the stopping condition:
a function that an iteration without a find has passed has no cause that is
known (`PassedOK`), so that, at the end of such an iteration, what is
found, with the facts imported, is closed, and `Forcing` is the least such set.
The order in which the map is ranged over does not enter. That facts of earlier
packages are exact carries it from package to package, in import order.

*Paths.* A function's path is its cause followed by that function's path, and is
made when that one was known and this one was not. So everything on a path was
found earlier (`ViaOK`), and no path can come back to where it begins, also where
the program recurses.

*Reports.* `ReportsOK` says that the reports are those the passes owe, where "forces"
is replaced by what executing the program does (`Waits`); it follows from the
facts being exact. The rest is about literals: of the builders and constructors an
event is nested in, the last one is the one that reaches it on the spot
(`LastBuilder`), and no other does (`OneRoot`). Hence the two passes of the
analyzer split the events between them: each that deserves a report gets it from
exactly one. Of a scope's uses, `EscapesAreReported` claims those in literals that the
builder does not run or start, and leaves those in `go` statements open.

*The loop ends* because each step uses up a variant, first the functions not
found, then whether this iteration found one, then the functions it has not come
to (`LoopProgresses`); that the steps are taken is `Ends`.

### What is only model-checked

- Liveness (`AllLetGo`, `CloseEnds`, `CallsReturn`, `Ends`): it rests on
  fairness, for which the prover has no rules. With `CallsReturn` goes that
  `get`'s loop ends, for which `NobodyIsStuck` is the safety part, and with `Ends` that
  the analyzer's does, for which `LoopAlwaysProgresses` is.

Every other property of a passing run is a theorem. That holds with the bounds of
the models as parameters: nothing is proved of a build beyond `MaxAttempts`, but
`MaxAttempts` is any number.

## Findings

Five statements of the documentation that the code does not keep, each with a
run that shows a behaviour: see `findings` in `PROJECT.json`. Three are of
consequence: a build that starts while Close shuts the providers may be in
flight when Close returns (`graph.go:109`), and a parallel `From` that outlives
its builder leaks a reference, after which Close never ends (`provider.go:126`), and so does a
provider constructed while Close runs (`graph.go:233`). The last is a race between
constructing and closing, which a program that closes its graph on a signal
during start-up may run into. In the run's behaviour an eager provider has
registered its value when Close clones the members. A deferred one can stay open
too: `lazyOf` stores what `join` returned without the node's lock
(`graph.go:239`), and may undo what a `shut` in between has set.

Seen while modelling and not checked by a run: the analyzer takes the callee of a
`go` statement as a literal invoked on the spot (`analyzer.go:164`), so it does not
report a scope used in `go func() { p.From(s) }()`. Its doc promises to report a scope
used in a literal that outlives the builder (`analyzer.go:8`), and the repository's
README.md:130 assumes a builder to join only what it starts with `wg.Go` or errgroup's `Go`. `EscapesReported`
claims nothing of such uses; one that is not joined ends as `values_unjoined` shows.
The analyzer does not look for
`context.Background` in literals handed to `Go` (`analyzer.go:254`), though it
looks for `Get` there; the path in its messages, and in the exported fact,
depends on the order of a map where a function forces a provider in two ways;
`node.go:130-132` cannot be reached, as nothing waits through a new attempt
(theorem `CreatedIsRun`). A
build that was invalidated and then fails is not retried by its waiters
(`node.go:194`), although the doc of `Invalidate` says so of a build in progress;
that of `Provider.Try` says they share the error.

## Not modelled

- A second `Close`, which returns nil at once and changes nothing.
- `scope.check` refusing a late use: the panic is in the caller and changes no
  state of the graph. The `From` that passes the check just in time is modelled,
  the `OnClose` that does is not.
- Overflow of `epoch` and `refs` (64 bits).
- Times, kinds and sites in the profile; error wrapping; what an `onErr` writes.
- The examples and the benchmark, which are client code.
- The syntax and types the analyzer looks at.
- Several graphs that share `waitMu`: attempts of other graphs only add nodes
  to the wait-for graph. Values read across graphs.
- The rest of Close in `App`: the drain and the deadline are in `Values`.

## Plan

1. Done: `Lifetime`, `Values`, `Node`, `App`, `Vet` and their runs.
2. Done: proofs of every safety property of the passing runs, and of the
   refinements: `Values` of `Lifetime`, `Node` of `Memo`.
3. Open: an `OnClose` in a goroutine the builder did not join, and the drain and
   the deadline of Close in `App`.
