------------------------------ MODULE AppProofs ------------------------------
(***************************************************************************)
(* The steps of a program, and the part of its invariant (AppInv) that     *)
(* does not ask who owns what: what has been constructed, Eager providers, *)
(* the constructor, and the invariants of Node under construction.  For    *)
(* every program: any providers, in any order, that may read what they     *)
(* may, any requests, invalidations and builds.                            *)
(***************************************************************************)
EXTENDS App, NodeProofs

-----------------------------------------------------------------------------
(* The steps of a program, by kind.                                        *)

\* The step leaves alone what App adds to Node.
Apart == UNCHANGED <<lifeVars, makeVars, serving, profVars>>

\* A step of get by which a goroutine comes to hold nothing.
Strolls(g) == Hops(g) \/ Grabs(g) \/ Parks(g) \/ EnterJoins(g) \/ EnterStarts(g)

LEMMA StrollKinds ==
  ASSUME NEW g \in Goroutine,
         \/ Load(g) \/ EnterClosed(g) \/ EnterAgain(g) \/ EnterJoins(g)
         \/ EnterStarts(g) \/ Wakes(g) \/ SeesClose(g) \/ Leaves(g) \/ AcquireFails(g)
  PROVE  Strolls(g)
<1>1. CASE AcquireFails(g)
  BY <1>1 DEF AcquireFails, Hops, getVars, scopeVars, Strolls
<1>2. CASE ~AcquireFails(g)
  <2>1. at[g] # "acquire"
    BY <1>2 DEF Load, EnterClosed, EnterAgain, EnterJoins, EnterStarts, Wakes, SeesClose,
                Leaves, WaitEnds
  <2>2. Moves(g)
    BY <1>2, GetMoves DEF Get
  <2> QED
    BY <2>1, <2>2 DEF Moves, Gains, Strolls
<1> QED
  BY <1>1, <1>2

LEMMA Kinds ==
  ASSUME [AppNext]_appVars
  PROVE  \/ Construct
         \/ \E g \in Builders, n \in Provider : FromUnconstructed(g, n)
         \/ \E n \in Provider : Uses(n)
         \/ \E g \in Goroutine : TakeAndReturn(g) \/ (Strolls(g) /\ Apart)
         \/ \E g \in Builders : Read(g) /\ Apart
         \/ \E c \in Caller : Answer(c)
         \/ \E a \in Attempt : RecordBuild(a) \/ EndBuild(a) \/ WakeWaiters(a) \/ CleanUp(a)
         \/ \E i \in Invalidator :
               InvalidateReleases(i) \/ \E m \in Provider : InvalidateDependent(i, m) /\ Apart
         \/ BeginClose \/ (Cancel /\ Apart) \/ ShutAndRelease
         \/ UNCHANGED appVars
<1>1. ASSUME NEW g \in Goroutine, GoOn(g) \/ Quietly(Leaves(g))
      PROVE  TakeAndReturn(g) \/ (Strolls(g) /\ Apart)
  BY <1>1, StrollKinds DEF GoOn, Quietly, Apart, TakeFails
<1>2. ASSUME NEW i \in Invalidator, Cascade(i)
      PROVE  InvalidateReleases(i) \/ \E m \in Provider : InvalidateDependent(i, m) /\ Apart
  BY <1>2 DEF Cascade, Quietly, Apart
<1> QED
  BY <1>1, <1>2 DEF AppNext, Reading, Quietly, Apart, AppTerminated

\* What a program adds to the steps of Node.
LEMMA NodeSteps ==
  ASSUME [AppNext]_appVars
  PROVE  \/ [Next]_vars \/ Construct
         \/ \E g \in Builders, n \in Provider : FromUnconstructed(g, n)
<1>1. ASSUME NEW n \in Provider, Uses(n) PROVE Next
  BY <1>1 DEF Uses, Next
<1>2. ASSUME NEW g \in Goroutine, GoOn(g) \/ Quietly(Leaves(g)) PROVE Next
  BY <1>2 DEF GoOn, Quietly, TakeAndReturn, TakeFails, Next, Get
<1>3. ASSUME NEW g \in Builders, Reading(g) PROVE Next
  BY <1>3 DEF Reading, Quietly, Next
<1>4. ASSUME NEW c \in Caller, Answer(c) PROVE UNCHANGED vars
  BY <1>4 DEF Answer
<1>5. ASSUME NEW a \in Attempt, EndBuild(a) \/ WakeWaiters(a) PROVE Next
  BY <1>5 DEF EndBuild, WakeWaiters, Next
<1>6. ASSUME NEW a \in Attempt, RecordBuild(a) \/ CleanUp(a) PROVE UNCHANGED vars
  BY <1>6 DEF RecordBuild, CleanUp
<1>7. ASSUME NEW i \in Invalidator, Cascade(i) PROVE Next
  BY <1>7 DEF Cascade, InvalidateReleases, Quietly, Recurse, Next
<1>8. ASSUME BeginClose \/ Quietly(Cancel) \/ ShutAndRelease PROVE Next
  BY <1>8 DEF BeginClose, Quietly, ShutAndRelease, Next
<1> QED
  BY <1>1, <1>2, <1>3, <1>4, <1>5, <1>6, <1>7, <1>8 DEF AppNext, AppTerminated, appVars

LEMMA ConstructedFacts ==
  ASSUME made \in 0..Len(Members)
  PROVE  /\ Constructed \subseteq Provider
         /\ made < Len(Members) =>
              /\ Current \in Provider /\ Current \notin Constructed
              /\ made + 1 \in 0..Len(Members)
              /\ made' = made + 1 => Constructed' = Constructed \cup {Current}
         /\ made' = made => Constructed' = Constructed /\ Current' = Current
<1>1. Len(Members) \in Nat /\ \A i, j \in 1..Len(Members) : Members[i] = Members[j] => i = j
  BY NodeAssumption DEF NodeAssumption
<1>2. Constructed \subseteq Provider
  BY <1>1 DEF Constructed, Provider
<1>3. ASSUME made < Len(Members)
      PROVE  /\ Current \in Provider /\ Current \notin Constructed
             /\ made + 1 \in 0..Len(Members)
             /\ made' = made + 1 => Constructed' = Constructed \cup {Current}
  BY <1>1, <1>3 DEF Current, Constructed, Provider
<1> QED
  BY <1>2, <1>3 DEF Constructed, Current

\* A goroutine comes into get only by a step that uses a constructed provider.
LEMMA StaysIn ==
  ASSUME TypeOK, [AppNext]_appVars, ~\E n \in Provider : Uses(n)
  PROVE  \A h \in Goroutine : at'[h] # "out" => at[h] # "out" /\ target'[h] = target[h]
<1> USE DEF TypeOK, CallTypes, Goto
<1>1. CASE UNCHANGED <<at, target>>
  BY <1>1
<1>2. ASSUME Construct \/ \E g \in Builders, n \in Provider : FromUnconstructed(g, n)
      PROVE  UNCHANGED <<at, target>>
  BY <1>2 DEF Construct, LazyJoins, LazyReturns, EagerBegins, EagerRecords, EagerEnds, EagerReturns,
              EagerPanics, FromUnconstructed, getVars
<1>3. ASSUME NEW g \in Goroutine, Strolls(g)
      PROVE  \A h \in Goroutine : at'[h] # "out" => at[h] # "out" /\ target'[h] = target[h]
  BY <1>3 DEF Strolls, Hops, Grabs, Parks, EnterJoins, EnterStarts
<1>4. ASSUME NEW g \in Goroutine, TakeAndReturn(g)
      PROVE  \A h \in Goroutine : at'[h] # "out" => at[h] # "out" /\ target'[h] = target[h]
  BY <1>4 DEF TakeAndReturn, Acquired, Returns
<1>5. ASSUME NEW g \in Builders, Read(g)
      PROVE  \A h \in Goroutine : at'[h] # "out" => at[h] # "out" /\ target'[h] = target[h]
  BY <1>5, BuilderFacts DEF Read, Link, FindsCycle, Unlink, Fails, Resume, getVars
<1>6. ASSUME \/ \E c \in Caller : Answer(c)
             \/ \E a \in Attempt : RecordBuild(a) \/ EndBuild(a) \/ WakeWaiters(a) \/ CleanUp(a)
             \/ \E i \in Invalidator :
                  InvalidateReleases(i) \/ \E m \in Provider : InvalidateDependent(i, m) /\ Apart
             \/ BeginClose \/ (Cancel /\ Apart) \/ ShutAndRelease
             \/ UNCHANGED appVars
      PROVE  UNCHANGED <<at, target>>
  BY <1>6 DEF Answer, EndBuild, Finish, WakeWaiters, CloseDone, CleanUp, RecordBuild, InvalidateReleases,
              ReleaseOld, InvalidateDependent, Invalidate, BeginClose, CloseBegins, Cancel,
              ShutAndRelease, Shut, appVars, vars, getVars
<1> QED
  BY <1>1, <1>2, <1>3, <1>4, <1>5, <1>6, Kinds

\* How attempts come and go.
LEMMA PhaseSteps ==
  ASSUME TypeOK, PlaceOK, StarterOK, WaitsExact, [AppNext]_appVars, ~Construct
  PROVE  \/ UNCHANGED <<phase, of, began, err, stale>>
         \/ \E g \in Goroutine : EnterStarts(g) /\ Apart
         \/ \E a \in Attempt : /\ phase[a] = "created"
                               /\ phase' = [phase EXCEPT ![a] = "running"]
                               /\ UNCHANGED <<of, began, err, stale>> /\ Apart
         \/ \E a \in Attempt : (EndBuild(a) \/ WakeWaiters(a)) /\ UNCHANGED <<of, began>>
<1>1. ASSUME NEW g \in Goroutine, Strolls(g), ~EnterStarts(g)
      PROVE  UNCHANGED <<phase, of, began, err, stale>>
  BY <1>1 DEF Strolls, Hops, Grabs, Parks, EnterJoins, builtVars
<1>2. ASSUME NEW g \in Builders, Read(g), Apart
      PROVE  \/ UNCHANGED <<phase, of, began, err, stale>>
             \/ \E a \in Attempt : /\ phase[a] = "created"
                                   /\ phase' = [phase EXCEPT ![a] = "running"]
                                   /\ UNCHANGED <<of, began, err, stale>> /\ Apart
  <2>1. CASE Link(g)
    BY <1>2, <2>1, BuilderFacts DEF Link, PlaceOK, StarterOK, builtVars
  <2>2. CASE FindsCycle(g)
    BY <2>2, NewBuildsNeverRefused DEF FindsCycle
  <2>3. CASE Unlink(g)
    BY <2>3 DEF Unlink, builtVars
  <2> QED
    BY <1>2, <2>1, <2>2, <2>3 DEF Read
<1>3. ASSUME NEW a \in Attempt, EndBuild(a) \/ WakeWaiters(a) PROVE UNCHANGED <<of, began>>
  BY <1>3 DEF EndBuild, WakeWaiters, Finish, CloseDone, builtVars
<1>4. ASSUME \/ \E g \in Builders, n \in Provider : FromUnconstructed(g, n)
             \/ \E n \in Provider : Uses(n)
             \/ \E g \in Goroutine : TakeAndReturn(g)
             \/ \E c \in Caller : Answer(c)
             \/ \E a \in Attempt : RecordBuild(a) \/ CleanUp(a)
             \/ \E i \in Invalidator :
                  InvalidateReleases(i) \/ \E m \in Provider : InvalidateDependent(i, m) /\ Apart
             \/ BeginClose \/ (Cancel /\ Apart) \/ ShutAndRelease
             \/ UNCHANGED appVars
      PROVE  UNCHANGED <<phase, of, began, err, stale>>
  BY <1>4 DEF FromUnconstructed, Uses, Call, From, InvalidateCalled, TakeAndReturn, Acquired,
              Answer, CleanUp, RecordBuild, InvalidateReleases, ReleaseOld, InvalidateDependent, Invalidate,
              BeginClose, CloseBegins, Cancel, ShutAndRelease, Shut, appVars, vars, builtVars
<1> QED
  BY <1>1, <1>2, <1>3, <1>4, Kinds

\* The profile changes at the end of a build only.
LEMMA RecordSteps ==
  ASSUME [AppNext]_appVars
  PROVE  UNCHANGED profVars \/ EagerRecords \/ \E a \in Attempt : RecordBuild(a)
BY Kinds DEF Construct, LazyJoins, LazyReturns, EagerBegins, EagerEnds, EagerReturns, EagerPanics,
     FromUnconstructed, Uses, TakeAndReturn, Apart, Answer, EndBuild, WakeWaiters, CleanUp,
     InvalidateReleases, BeginClose, ShutAndRelease, appVars

\* A build is recorded when its goroutines have come back, and once.
LEMMA EndedSteps ==
  ASSUME AppTypeOK, MakingOK, [AppNext]_appVars, NEW a \in Attempt
  PROVE  \/ ended'[a] = ended[a]
         \/ /\ RecordBuild(a) \/ (EagerRecords /\ a = eager)
            /\ phase[a] = "running" /\ ended[a] = "not" /\ ended'[a] # "not"
            /\ \A s \in Slot : at[<<a, s>>] = "out"
<1> USE DEF AppTypeOK
<1>1. ASSUME NEW b \in Attempt, Build(b)
      PROVE  \/ ended'[a] = ended[a]
             \/ /\ a = b /\ phase[a] = "running" /\ ended[a] = "not" /\ ended'[a] # "not"
                /\ \A s \in Slot : at[<<a, s>>] = "out"
  <2>1. PICK e \in Errors \cup {"none"} : BuilderReturns(b, e) /\ ended' = [ended EXCEPT ![b] = e]
    BY <1>1 DEF Build
  <2>2. e # "not" /\ ended[b] = "not"
    BY <1>1 DEF Build, Errors
  <2> QED
    BY <2>1, <2>2 DEF BuilderReturns
<1>2. CASE UNCHANGED profVars
  BY <1>2 DEF profVars
<1>3. CASE EagerRecords
  BY <1>1, <1>3 DEF EagerRecords, MakingOK
<1>4. ASSUME NEW b \in Attempt, RecordBuild(b)
      PROVE  \/ ended'[a] = ended[a]
             \/ /\ RecordBuild(a)
                /\ phase[a] = "running" /\ ended[a] = "not" /\ ended'[a] # "not"
                /\ \A s \in Slot : at[<<a, s>>] = "out"
  BY <1>1, <1>4 DEF RecordBuild
<1> QED
  BY <1>2, <1>3, <1>4, RecordSteps

-----------------------------------------------------------------------------
(* What has not been constructed is not used.                              *)

LEMMA UseStep ==
  ASSUME AppTypeOK, SingleFlight, UseOK, MakingOK, [AppNext]_appVars
  PROVE  UseOK'
<1> USE DEF AppTypeOK, TypeOK, NodeTypes
<1>1. Constructed \subseteq Constructed'
  <2>1. CASE made' = made
    BY <2>1, ConstructedFacts
  <2>2. CASE made' # made
    <3>1. LazyReturns \/ EagerReturns
      BY <2>2, Kinds DEF Construct, LazyJoins, EagerBegins, EagerRecords, EagerEnds, EagerPanics,
         FromUnconstructed, Uses, TakeAndReturn, Apart, Answer, EndBuild, WakeWaiters,
         CleanUp, RecordBuild, InvalidateReleases, BeginClose, ShutAndRelease, appVars, makeVars
    <3> QED
      BY <3>1, ConstructedFacts DEF LazyReturns, EagerReturns, MakingOK
  <2> QED
    BY <2>1, <2>2
<1>2. \A g \in Goroutine : at'[g] # "out" => target'[g] \in Constructed'
  <2>1. ASSUME NEW n \in Provider, Uses(n)
        PROVE  \A g \in Goroutine : at'[g] # "out" => target'[g] \in Constructed \cup {n}
    <3>1. ASSUME NEW h \in Goroutine, Goto(h, "load"), target' = [target EXCEPT ![h] = n]
          PROVE  \A g \in Goroutine : at'[g] # "out" => target'[g] \in Constructed \cup {n}
      BY <3>1 DEF Goto, CallTypes, GetTypes, UseOK
    <3>2. ASSUME NEW i \in Invalidator, InvalidateCalled(i, n) PROVE UNCHANGED <<at, target>>
      BY <3>2 DEF InvalidateCalled, Invalidate, getVars
    <3>3. ASSUME NEW c \in Caller, Call(c, n)
          PROVE  c \in Goroutine /\ Goto(c, "load") /\ target' = [target EXCEPT ![c] = n]
      BY <3>3 DEF Call, Goroutine
    <3>4. ASSUME NEW h \in Builders, From(h, n)
          PROVE  h \in Goroutine /\ Goto(h, "load") /\ target' = [target EXCEPT ![h] = n]
      BY <3>4 DEF From, Goroutine, Builders
    <3> QED
      BY <2>1, <3>1, <3>2, <3>3, <3>4 DEF Uses, UseOK
  <2>2. ASSUME NEW n \in Provider, Uses(n) PROVE n \in Constructed
    BY <2>2 DEF Uses
  <2>3. CASE \E n \in Provider : Uses(n)
    BY <1>1, <2>1, <2>2, <2>3
  <2>4. CASE ~\E n \in Provider : Uses(n)
    BY <1>1, <2>4, StaysIn DEF UseOK
  <2> QED
    BY <2>3, <2>4
<1>3. \A n \in Provider : val'[n] # None \/ cur'[n] # None => n \in Constructed'
  <2>1. CASE UNCHANGED <<val, cur>>
    BY <1>1, <2>1 DEF UseOK
  <2>2. ASSUME Construct PROVE UNCHANGED <<val, cur>> \/ EagerReturns
    BY <2>2 DEF Construct, LazyJoins, LazyReturns, EagerBegins, EagerRecords, EagerEnds, EagerPanics, nodeVars
  <2>3. ASSUME EagerReturns
        PROVE  \A n \in Provider : val'[n] # None \/ cur'[n] # None => n \in Constructed'
    BY <1>1, <2>3, ConstructedFacts DEF EagerReturns, MakingOK, UseOK
  <2>4. ASSUME NEW g \in Goroutine, Strolls(g)
        PROVE  \A n \in Provider : val'[n] # None \/ cur'[n] # None => n \in Constructed
    <3>1. CASE ~EnterStarts(g)
      BY <2>4, <3>1 DEF Strolls, Hops, Grabs, Parks, EnterJoins, nodeVars, UseOK
    <3>2. CASE EnterStarts(g)
      BY <3>2 DEF EnterStarts, UseOK
    <3> QED
      BY <3>1, <3>2
  <2>5. ASSUME NEW a \in Attempt, EndBuild(a)
        PROVE  \A n \in Provider : val'[n] # None \/ cur'[n] # None => n \in Constructed
    <3>1. PICK n \in Provider \ Eager : of[a] = n /\ phase[a] = "running"
      BY <2>5 DEF EndBuild, Finish, BuilderReturns, AttemptTypes
    <3>2. cur[n] = a /\ a # None
      BY <3>1, NodeAssumption, ZenonT(30) DEF SingleFlight, InFlight, Attempt, None, NodeAssumption
    <3> QED
      BY <2>5, <3>1, <3>2 DEF EndBuild, Finish, UseOK
  <2>6. ASSUME NEW g \in Builders, Read(g)
        PROVE  \A n \in Provider : val'[n] = val[n] /\ cur'[n] \in {cur[n], None}
    BY <2>6 DEF Read, Link, FindsCycle, Unlink, nodeVars
  <2>7. ASSUME \/ \E n \in Provider : Uses(n)
               \/ \E i \in Invalidator :
                    InvalidateReleases(i) \/ \E m \in Provider : InvalidateDependent(i, m) /\ Apart
               \/ ShutAndRelease
        PROVE  \A n \in Provider : val'[n] \in {val[n], None} /\ cur'[n] = cur[n]
    BY <2>7, ZenonT(30) DEF Uses, Call, From, InvalidateCalled, InvalidateDependent, Invalidate,
                InvalidateReleases, ReleaseOld, ShutAndRelease, Shut, nodeVars
  <2>8. ASSUME \/ \E g \in Builders, n \in Provider : FromUnconstructed(g, n)
               \/ \E g \in Goroutine : TakeAndReturn(g)
               \/ \E c \in Caller : Answer(c)
               \/ \E a \in Attempt : RecordBuild(a) \/ WakeWaiters(a) \/ CleanUp(a)
               \/ BeginClose \/ (Cancel /\ Apart) \/ UNCHANGED appVars
        PROVE  UNCHANGED <<val, cur>>
    BY <2>8 DEF FromUnconstructed, TakeAndReturn, Acquired, Answer, WakeWaiters, CloseDone,
                CleanUp, RecordBuild, BeginClose, CloseBegins, Cancel, appVars, vars, nodeVars
  <2> QED
    BY <1>1, <2>1, <2>2, <2>3, <2>4, <2>5, <2>6, <2>7, <2>8, Kinds DEF UseOK
<1>4. ASSUME NEW i \in Invalidator, since'[i] = <<>> PROVE frames'[i] = <<>>
  <2>1. CASE UNCHANGED <<since, frames>>
    BY <1>4, <2>1 DEF UseOK
  <2>2. ASSUME NEW j \in Invalidator, InvalidateReleases(j)
        PROVE  frames'[i] = <<>>
    <3>1. i # j
      BY <1>4, <2>2 DEF InvalidateReleases, ReleaseOld, UseOK
    <3> QED
      BY <1>4, <2>2, <3>1 DEF InvalidateReleases, ReleaseOld, UseOK
  <2>3. ASSUME NEW j \in Invalidator, NEW n \in Provider,
               InvalidateCalled(j, n) \/ InvalidateDependent(j, n)
        PROVE  frames'[i] = <<>>
    <3>1. i # j
      <4>1. CASE InvalidateCalled(j, n)
        BY <1>4, <4>1 DEF InvalidateCalled, InvalTypes
      <4>2. CASE InvalidateDependent(j, n)
        BY <1>4, <4>2 DEF InvalidateDependent, UseOK
      <4> QED
        BY <2>3, <4>1, <4>2
    <3>2. UNCHANGED since \/ since' = [since EXCEPT ![j] = <<n, epoch[n] + 1>>]
      BY <2>3 DEF InvalidateCalled, InvalidateDependent
    <3>3. frames'[i] = frames[i]
      BY <2>3, <3>1 DEF InvalidateCalled, InvalidateDependent, Invalidate, InvalTypes
    <3> QED
      BY <1>4, <3>1, <3>2, <3>3 DEF UseOK, InvalTypes
  <2>4. ASSUME Construct \/ \E g \in Builders, n \in Provider : FromUnconstructed(g, n)
        PROVE  UNCHANGED <<since, frames>>
    BY <2>4 DEF Construct, LazyJoins, LazyReturns, EagerBegins, EagerRecords, EagerEnds, EagerReturns,
                EagerPanics, FromUnconstructed, invalVars
  <2>5. ASSUME \E g \in Goroutine : TakeAndReturn(g) \/ Strolls(g) PROVE UNCHANGED <<since, frames>>
    BY <2>5 DEF TakeAndReturn, Acquired, Strolls, Hops, Grabs, Parks, EnterJoins, EnterStarts, invalVars
  <2>6. ASSUME \E g \in Builders : Read(g) PROVE UNCHANGED <<since, frames>>
    BY <2>6 DEF Read, Link, FindsCycle, Unlink, invalVars
  <2>7. ASSUME \/ \E c \in Caller, n \in Provider : Call(c, n)
               \/ \E g \in Builders, n \in Provider : From(g, n)
               \/ \E c \in Caller : Answer(c)
               \/ \E a \in Attempt : RecordBuild(a) \/ EndBuild(a) \/ WakeWaiters(a) \/ CleanUp(a)
               \/ BeginClose \/ (Cancel /\ Apart) \/ ShutAndRelease \/ UNCHANGED appVars
        PROVE  UNCHANGED <<since, frames>>
    BY <2>7 DEF Call, From, Answer, EndBuild, Finish, WakeWaiters, CloseDone, CleanUp, RecordBuild,
                BeginClose, CloseBegins, Cancel, ShutAndRelease, Shut, appVars, vars, invalVars
  <2> QED
    BY <2>1, <2>2, <2>3, <2>4, <2>5, <2>6, <2>7, Kinds DEF Uses
<1>5. ASSUME NEW g \in Builders, at'[g] # "out" PROVE ended'[g[1]] = "not"
  <2>1. g \in Goroutine /\ g[1] \in Attempt /\ g[2] \in Slot /\ g = <<g[1], g[2]>>
    BY DEF Goroutine, Builders
  <2>2. CASE at[g] # "out"
    BY <2>1, <2>2, EndedSteps DEF UseOK
  <2>3. CASE at[g] = "out"
    <3>1. PICK n \in Provider : Uses(n)
      BY <1>5, <2>1, <2>3, StaysIn
    <3>2. ended[g[1]] = "not"
      <4>1. ~\E i \in Invalidator : InvalidateCalled(i, n)
        BY <1>5, <2>3 DEF InvalidateCalled, Invalidate
      <4>2. ASSUME NEW c \in Caller, Call(c, n) PROVE at'[g] = at[g]
        BY <2>1, <4>2, NodeAssumption DEF Call, Goto, CallTypes, NodeAssumption, Builders, Goroutine
      <4>3. ASSUME NEW h \in Builders, From(h, n), h # g PROVE at'[g] = at[g]
        BY <2>1, <4>3 DEF From, Goto, CallTypes
      <4> QED
        BY <1>5, <2>3, <3>1, <4>1, <4>2, <4>3 DEF Uses
    <3>3. UNCHANGED ended
      BY <3>1 DEF Uses, profVars
    <3> QED
      BY <3>2, <3>3
  <2> QED
    BY <2>2, <2>3
<1> QED
  BY <1>2, <1>3, <1>4, <1>5 DEF UseOK

-----------------------------------------------------------------------------
(* Eager providers.                                                        *)

\* A build begins for a provider the goroutine finds constructed, not closed and
\* without a value: no Eager one.
LEMMA StartsDeferred ==
  ASSUME UseOK, EagerNeverBuilt, NEW g \in Goroutine, at[g] = "lock", NoValue(target[g])
  PROVE  target[g] \notin Eager
  BY DEF UseOK, EagerNeverBuilt, NoValue

\* An invalidation never comes to an Eager provider.
LEMMA InvalidatesDeferred ==
  ASSUME TypeOK, EagerApart, NEW i \in Invalidator, NEW n \in Provider,
         InvalidateCalled(i, n) \/ InvalidateDependent(i, n)
  PROVE  n \notin Eager
<1>1. CASE InvalidateCalled(i, n)
  BY <1>1 DEF InvalidateCalled
<1>2. CASE InvalidateDependent(i, n)
  BY <1>2, FramesFacts DEF InvalidateDependent, EagerApart
<1> QED
  BY <1>1, <1>2

LEMMA EagerApartStep ==
  ASSUME AppTypeOK, UseOK, PlaceOK, StarterOK, WaitsExact, EagerApart, [AppNext]_appVars
  PROVE  EagerApart'
<1>0. TypeOK
  BY DEF AppTypeOK
<1>1. ASSUME UNCHANGED <<dependents, frames, epoch>>
      PROVE  /\ \A n \in Provider : dependents'[n] \cap Eager = {}
             /\ \A i \in Invalidator : \A k \in 1..Len(frames'[i]) : frames'[i][k].todo \cap Eager = {}
             /\ \A n \in Eager : epoch'[n] = 0
  BY <1>1 DEF EagerApart
<1>2. ASSUME NEW i \in Invalidator, NEW n \in Provider,
             InvalidateCalled(i, n) \/ InvalidateDependent(i, n)
      PROVE  /\ \A m \in Provider : dependents'[m] \cap Eager = {}
             /\ \A j \in Invalidator : \A k \in 1..Len(frames'[j]) : frames'[j][k].todo \cap Eager = {}
             /\ \A m \in Eager : epoch'[m] = 0
  <2>1. n \notin Eager
    BY <1>0, <1>2, InvalidatesDeferred
  <2>2. /\ epoch' = [epoch EXCEPT ![n] = NextEpoch(n)]
        /\ dependents' = [dependents EXCEPT ![n] = {}]
    BY <1>2 DEF InvalidateCalled, InvalidateDependent, Invalidate, TakeDependents
  <2>3. ASSUME NEW j \in Invalidator, NEW k \in 1..Len(frames'[j])
        PROVE  frames'[j][k].todo \cap Eager = {}
    <3>1. PICK l \in Nat : l = Len(frames[i])
      BY <1>0, FramesFacts
    <3>2. /\ Len(frames'[i]) = l + 1 /\ frames'[i][l + 1].todo = dependents[n]
          /\ \A t \in 1..l : frames'[i][t].todo \subseteq frames[i][t].todo
          /\ \A t \in Invalidator : t # i => frames'[t] = frames[t]
      <4>1. since[i] = <<>> => frames[i] = <<>>
        BY DEF UseOK
      <4>2. LET K == Len(frames[i]) IN
            /\ Len(frames'[i]) = K + 1 /\ frames'[i][K + 1].todo = dependents[n]
            /\ \A t \in 1..K : frames'[i][t].todo = IF t = K THEN frames[i][t].todo \ {n}
                                                          ELSE frames[i][t].todo
            /\ \A t \in Invalidator : t # i => frames'[t] = frames[t]
        BY <1>0, <1>2, <4>1, InvalidateFrames, ZenonT(30)
      <4>3. ASSUME NEW t \in 1..l PROVE frames'[i][t].todo \subseteq frames[i][t].todo
        BY <3>1, <4>2
      <4> QED
        BY <3>1, <4>2, <4>3
    <3>3. CASE j = i /\ k = l + 1
      BY <3>2, <3>3 DEF EagerApart
    <3>4. CASE j = i /\ k \in 1..l
      BY <3>1, <3>2, <3>4 DEF EagerApart
    <3>5. CASE j # i
      BY <3>2, <3>5 DEF EagerApart
    <3> QED
      BY <3>2, <3>3, <3>4, <3>5
  <2> QED
    BY <1>0, <2>1, <2>2, <2>3 DEF EagerApart, TypeOK, NodeTypes
<1>3. ASSUME NEW i \in Invalidator, InvalidateReleases(i)
      PROVE  /\ UNCHANGED <<dependents, epoch>>
             /\ \A j \in Invalidator : \A k \in 1..Len(frames'[j]) : frames'[j][k].todo \cap Eager = {}
  <2>1. UNCHANGED <<dependents, epoch>> /\ ReleaseOld(i)
    BY <1>3 DEF InvalidateReleases, ReleaseOld, nodeVars
  <2>2. ASSUME NEW j \in Invalidator, NEW k \in 1..Len(frames'[j])
        PROVE  frames'[j][k].todo \cap Eager = {}
    <3>1. PICK l \in Nat : l = Len(frames[i])
      BY <1>0, FramesFacts
    <3>2. /\ Len(frames'[i]) = l - 1
          /\ \A t \in 1..(l - 1) : frames'[i][t] = frames[i][t]
          /\ \A t \in Invalidator : t # i => frames'[t] = frames[t]
      BY <1>0, <2>1, <3>1, ReleaseFrames
    <3>3. CASE j = i
      <4>1. k \in 1..l /\ frames'[i][k] = frames[i][k]
        BY <3>1, <3>2, <3>3
      <4> QED
        BY <3>1, <3>3, <4>1 DEF EagerApart
    <3>4. CASE j # i
      BY <3>2, <3>4 DEF EagerApart
    <3> QED
      BY <3>3, <3>4
  <2> QED
    BY <2>1, <2>2
<1>4. ASSUME NEW g \in Builders, NEW n \in Provider, From(g, n)
      PROVE  /\ UNCHANGED <<frames, epoch>>
             /\ \A m \in Provider : dependents'[m] \cap Eager = {}
  BY <1>0, <1>4 DEF From, AddDependent, EagerApart, nodeVars, invalVars, TypeOK, NodeTypes
<1>5. ASSUME ~\E g \in Builders, n \in Provider : From(g, n),
             ~\E i \in Invalidator : InvalidateReleases(i),
             ~\E i \in Invalidator, n \in Provider : InvalidateCalled(i, n) \/ InvalidateDependent(i, n)
      PROVE  UNCHANGED <<dependents, frames, epoch>>
  <2>1. CASE Construct
    BY <2>1 DEF Construct, LazyJoins, LazyReturns, EagerBegins, EagerRecords, EagerEnds, EagerReturns,
                EagerPanics, nodeVars, invalVars
  <2>2. CASE \E g \in Goroutine : TakeAndReturn(g) \/ Strolls(g)
    BY <2>2 DEF TakeAndReturn, Acquired, Strolls, Hops, Grabs, Parks, EnterJoins,
                EnterStarts, nodeVars, invalVars
  <2>3. CASE \E g \in Builders : Read(g)
    BY <2>3 DEF Read, Link, FindsCycle, Unlink, nodeVars, invalVars
  <2> QED
    BY <1>5, <2>1, <2>2, <2>3, Kinds
       DEF Uses, Call, FromUnconstructed, Answer, EndBuild, Finish, WakeWaiters, CloseDone, CleanUp, RecordBuild,
           BeginClose, CloseBegins, Cancel, ShutAndRelease, Shut, appVars, vars, nodeVars, invalVars
<1>6. \A a \in Attempt : phase'[a] = "unused" => began'[a] = 0 /\ ~stale'[a]
  <2>1. CASE Construct
    BY <1>0, <2>1 DEF Construct, LazyJoins, LazyReturns, EagerBegins, EagerRecords, EagerEnds,
                EagerReturns, EagerPanics, builtVars, EagerApart, TypeOK, AttemptTypes
  <2>2. ASSUME NEW g \in Goroutine, EnterStarts(g)
        PROVE  \A a \in Attempt : phase'[a] = "unused" => began'[a] = 0 /\ ~stale'[a]
    BY <1>0, <2>2 DEF EnterStarts, EagerApart, TypeOK, AttemptTypes
  <2>3. ASSUME NEW a \in Attempt, EndBuild(a) \/ WakeWaiters(a), UNCHANGED began
        PROVE  \A b \in Attempt : phase'[b] = "unused" => began'[b] = 0 /\ ~stale'[b]
    BY <1>0, <2>3 DEF EndBuild, Finish, WakeWaiters, CloseDone, builtVars, EagerApart, TypeOK, AttemptTypes
  <2> QED
    BY <1>0, <2>1, <2>2, <2>3, PhaseSteps DEF EagerApart, TypeOK, AttemptTypes
<1> QED
  BY <1>1, <1>2, <1>3, <1>4, <1>5, <1>6 DEF EagerApart

LEMMA EagerStep ==
  ASSUME AppTypeOK, PlaceOK, UseOK, EagerApart, EagerNeverBuilt, MakingOK, [AppNext]_appVars
  PROVE  EagerNeverBuilt'
<1> USE DEF AppTypeOK, TypeOK, NodeTypes
<1>1. \A n \in Eager : cur'[n] = None
  <2>1. ASSUME NEW g \in Goroutine, EnterStarts(g) PROVE \A n \in Eager : cur'[n] = None
    BY <2>1, StartsDeferred DEF EnterStarts, EagerNeverBuilt
  <2>2. ASSUME NEW g \in Goroutine, Strolls(g), ~EnterStarts(g) PROVE cur' = cur
    BY <2>2 DEF Strolls, Hops, Grabs, Parks, EnterJoins, nodeVars
  <2>3. ASSUME NEW g \in Builders, Read(g) PROVE \A n \in Provider : cur'[n] \in {cur[n], None}
    BY <2>3 DEF Read, Link, FindsCycle, Unlink, nodeVars
  <2>4. ASSUME NEW a \in Attempt, EndBuild(a) PROVE \A n \in Provider : cur'[n] \in {cur[n], None}
    BY <2>4 DEF EndBuild, Finish
  <2>5. ASSUME Construct PROVE cur' = cur
    BY <2>5 DEF Construct, LazyJoins, LazyReturns, EagerBegins, EagerRecords, EagerEnds, EagerReturns,
                EagerPanics, nodeVars
  <2>6. ASSUME \/ \E g \in Builders, n \in Provider : FromUnconstructed(g, n)
               \/ \E n \in Provider : Uses(n)
               \/ \E g \in Goroutine : TakeAndReturn(g)
               \/ \E c \in Caller : Answer(c)
               \/ \E a \in Attempt : RecordBuild(a) \/ WakeWaiters(a) \/ CleanUp(a)
               \/ \E i \in Invalidator :
                    InvalidateReleases(i) \/ \E m \in Provider : InvalidateDependent(i, m) /\ Apart
               \/ BeginClose \/ (Cancel /\ Apart) \/ ShutAndRelease \/ UNCHANGED appVars
        PROVE  cur' = cur
    BY <2>6 DEF FromUnconstructed, Uses, Call, From, InvalidateCalled, InvalidateDependent,
                Invalidate, TakeAndReturn, Acquired, Answer, WakeWaiters, CloseDone, CleanUp, RecordBuild,
                InvalidateReleases, ReleaseOld, BeginClose, CloseBegins, Cancel,
                ShutAndRelease, Shut, appVars, vars, nodeVars
  <2> QED
    BY <2>1, <2>2, <2>3, <2>4, <2>5, <2>6, Kinds, NodeAssumption DEF EagerNeverBuilt, NodeAssumption
<1>2. \A n \in Eager : n \in Constructed' /\ ~closed'[n] => val'[n] # None
  <2>1. ASSUME Construct
        PROVE  \A n \in Eager : n \in Constructed' /\ ~closed'[n] => val'[n] # None
    <3>1. ASSUME LazyReturns
          PROVE  /\ UNCHANGED val /\ Constructed' = Constructed \cup {Current} /\ Current \notin Eager
                 /\ \A n \in Provider : n # Current => closed'[n] = closed[n]
      BY <3>1, ConstructedFacts DEF LazyReturns, MakingOK, nodeVars
    <3>2. ASSUME EagerReturns
          PROVE  /\ Constructed' = Constructed \cup {Current} /\ UNCHANGED closed
                 /\ val'[Current] # None /\ \A n \in Provider : n # Current => val'[n] = val[n]
      BY <3>2, ConstructedFacts, NodeAssumption
         DEF EagerReturns, MakingOK, nodeVars, NodeAssumption, Attempt, None
    <3>3. ASSUME ~LazyReturns, ~EagerReturns
          PROVE  UNCHANGED <<val, closed, made>>
      BY <2>1, <3>3 DEF Construct, LazyJoins, EagerBegins, EagerRecords, EagerEnds, EagerPanics, nodeVars
    <3>4. Eager \subseteq Provider
      BY NodeAssumption DEF NodeAssumption
    <3> QED
      BY <3>1, <3>2, <3>3, <3>4, ConstructedFacts DEF EagerNeverBuilt
  <2>2. ASSUME ~Construct PROVE Constructed' = Constructed
    BY <2>2, Kinds, ConstructedFacts DEF FromUnconstructed, Uses, TakeAndReturn, Apart, Answer,
       EndBuild, WakeWaiters, CleanUp, RecordBuild, InvalidateReleases, BeginClose, ShutAndRelease,
       appVars, makeVars
  <2>3. ASSUME NEW i \in Invalidator, NEW n \in Provider,
               InvalidateCalled(i, n) \/ InvalidateDependent(i, n)
        PROVE  /\ UNCHANGED closed
               /\ \A m \in Provider : m \in Eager => val'[m] = val[m]
    <3>1. n \notin Eager
      BY <2>3, InvalidatesDeferred
    <3>2. UNCHANGED closed /\ val' = [val EXCEPT ![n] = None]
      BY <2>3 DEF InvalidateCalled, InvalidateDependent, Invalidate
    <3> QED
      BY <3>1, <3>2
  <2>4. ASSUME ShutAndRelease
        PROVE  \A m \in Provider : ~closed'[m] => ~closed[m] /\ val'[m] = val[m]
    BY <2>4 DEF ShutAndRelease, Shut, ShutCloses, CloseTypes
  <2>5. ASSUME NEW a \in Attempt, EndBuild(a)
        PROVE  UNCHANGED closed /\ \A m \in Provider : m \in Eager => val'[m] = val[m]
    BY <2>5 DEF EndBuild, Finish
  <2>6. ASSUME ~\E i \in Invalidator, n \in Provider : InvalidateCalled(i, n) \/ InvalidateDependent(i, n),
               ~Construct, ~ShutAndRelease, ~\E a \in Attempt : EndBuild(a)
        PROVE  UNCHANGED <<val, closed>>
    <3>1. CASE \E g \in Goroutine : TakeAndReturn(g) \/ Strolls(g)
      BY <3>1 DEF TakeAndReturn, Acquired, Strolls, Hops, Grabs, Parks, EnterJoins,
                  EnterStarts, nodeVars
    <3>2. CASE \E g \in Builders : Read(g)
      BY <3>2 DEF Read, Link, FindsCycle, Unlink, nodeVars
    <3> QED
      BY <2>6, <3>1, <3>2, Kinds
         DEF Uses, Call, From, FromUnconstructed, Answer, WakeWaiters, CloseDone, CleanUp, RecordBuild,
             InvalidateReleases, ReleaseOld, BeginClose, CloseBegins, Cancel, appVars, vars, nodeVars
  <2> QED
    BY <2>1, <2>2, <2>3, <2>4, <2>5, <2>6, NodeAssumption DEF EagerNeverBuilt, NodeAssumption
<1>3. ASSUME NEW g \in Goroutine, target'[g] \in Eager PROVE at'[g] \notin {"link", "wait", "unlink"}
  <2>1. ASSUME NEW n \in Provider, Uses(n)
        PROVE  at'[g] = "load" \/ (at'[g] = at[g] /\ target'[g] = target[g])
    <3>1. ASSUME NEW c \in Goroutine, Goto(c, "load"), target' = [target EXCEPT ![c] = n]
          PROVE  at'[g] = "load" \/ (at'[g] = at[g] /\ target'[g] = target[g])
      BY <3>1 DEF Goto, CallTypes, GetTypes
    <3>2. ASSUME NEW i \in Invalidator, InvalidateCalled(i, n) PROVE UNCHANGED <<at, target>>
      BY <3>2 DEF InvalidateCalled, Invalidate, getVars
    <3> QED
      BY <2>1, <3>1, <3>2, BuilderFacts DEF Uses, Call, From, Goroutine
  <2>2. ASSUME NEW h \in Goroutine, Strolls(h)
        PROVE  at'[g] \notin {"link", "wait", "unlink"}
    <3>1. target' = target
      BY <2>2 DEF Strolls, Hops, Grabs, Parks, EnterJoins, EnterStarts
    <3>2. CASE EnterJoins(h) \/ EnterStarts(h)
      BY <1>3, <3>1, <3>2, StartsDeferred DEF EnterJoins, EnterStarts, EagerNeverBuilt, Goto, CallTypes
    <3>3. CASE Hops(h) \/ Grabs(h) \/ Parks(h)
      BY <1>3, <3>1, <3>3 DEF Hops, Grabs, Parks, EagerNeverBuilt, Goto, CallTypes
    <3> QED
      BY <2>2, <3>2, <3>3 DEF Strolls
  <2>3. ASSUME NEW h \in Builders, Read(h) PROVE at'[g] \notin {"link", "wait", "unlink"}
    BY <1>3, <2>3, BuilderFacts
       DEF Read, Link, FindsCycle, Unlink, Fails, Resume, getVars, EagerNeverBuilt, Goto, CallTypes
  <2>4. ASSUME NEW h \in Goroutine, TakeAndReturn(h)
        PROVE  at'[g] \in {at[g], "out", "over"} /\ target' = target
    BY <2>4 DEF TakeAndReturn, Acquired, Returns, Goto, CallTypes
  <2>5. ASSUME Construct \/ \E h \in Builders, n \in Provider : FromUnconstructed(h, n)
        PROVE  UNCHANGED <<at, target>>
    BY <2>5 DEF Construct, LazyJoins, LazyReturns, EagerBegins, EagerRecords, EagerEnds, EagerReturns,
                EagerPanics, FromUnconstructed, getVars
  <2>6. ASSUME \/ \E c \in Caller : Answer(c)
               \/ \E a \in Attempt : RecordBuild(a) \/ EndBuild(a) \/ WakeWaiters(a) \/ CleanUp(a)
               \/ \E i \in Invalidator :
                    InvalidateReleases(i) \/ \E m \in Provider : InvalidateDependent(i, m) /\ Apart
               \/ BeginClose \/ (Cancel /\ Apart) \/ ShutAndRelease \/ UNCHANGED appVars
        PROVE  UNCHANGED <<at, target>>
    BY <2>6 DEF Answer, EndBuild, Finish, WakeWaiters, CloseDone, CleanUp, RecordBuild, InvalidateReleases,
                ReleaseOld, InvalidateDependent, Invalidate, BeginClose, CloseBegins, Cancel,
                ShutAndRelease, Shut, appVars, vars, getVars
  <2> QED
    BY <1>3, <2>1, <2>2, <2>3, <2>4, <2>5, <2>6, Kinds DEF EagerNeverBuilt
<1> QED
  BY <1>1, <1>2, <1>3 DEF EagerNeverBuilt

-----------------------------------------------------------------------------
(* The constructor.                                                        *)

\* Only construction changes where the constructor is, and what it builds.
LEMMA MakingStays ==
  ASSUME [AppNext]_appVars, ~Construct
  PROVE  UNCHANGED makeVars /\ UNCHANGED Constructed /\ UNCHANGED Current
<1>1. UNCHANGED makeVars
  BY Kinds DEF FromUnconstructed, Uses, TakeAndReturn, Apart, Answer, EndBuild, WakeWaiters,
     CleanUp, RecordBuild, InvalidateReleases, BeginClose, ShutAndRelease, appVars
<1> QED
  BY <1>1 DEF Constructed, Current, makeVars

\* A step of get or of a deferred build leaves eager builds alone.
LEMMA EagerBuildStays ==
  ASSUME TypeOK, PlaceOK, StarterOK, WaitsExact, UseOK, EagerNeverBuilt,
         [AppNext]_appVars, ~Construct, NEW a \in Attempt, of[a] \in Eager,
         phase[a] \in {"running", "finished"}
  PROVE  /\ phase'[a] = phase[a] /\ of'[a] = of[a]
         /\ err'[a] = err[a] /\ stale'[a] = stale[a]
<1> USE DEF TypeOK, AttemptTypes
<1>1. ASSUME NEW g \in Goroutine, EnterStarts(g)
      PROVE  /\ phase'[a] = phase[a] /\ of'[a] = of[a]
             /\ err'[a] = err[a] /\ stale'[a] = stale[a]
  BY <1>1 DEF EnterStarts, Fresh
<1>2. ASSUME NEW b \in Attempt, EndBuild(b) \/ WakeWaiters(b), UNCHANGED <<of, began>>
      PROVE  /\ phase'[a] = phase[a] /\ of'[a] = of[a]
             /\ err'[a] = err[a] /\ stale'[a] = stale[a]
  BY <1>2 DEF EndBuild, Finish, WakeWaiters, CloseDone, builtVars
<1> QED
  BY <1>1, <1>2, PhaseSteps

\* What record writes.
LEMMA BuildFacts ==
  ASSUME AppTypeOK, NEW a \in Attempt, of[a] \in Provider, Build(a)
  PROVE  /\ phase[a] = "running" /\ ended[a] = "not"
         /\ ended'[a] \in Errors \cup {"none"} /\ rec'[of[a]].err = ended'[a]
         /\ \A b \in Attempt : b # a => ended'[b] = ended[b]
         /\ \A n \in Provider : n # of[a] => rec'[n] = rec[n]
<1>1. PICK e \in Errors \cup {"none"} :
        /\ BuilderReturns(a, e) /\ ended[a] = "not" /\ Record(of[a], e)
        /\ ended' = [ended EXCEPT ![a] = e]
  BY DEF Build
<1> QED
  BY <1>1 DEF Record, LastError, BuilderReturns, AppTypeOK

LEMMA MakingStep ==
  ASSUME AppTypeOK, PlaceOK, StarterOK, WaitsExact, UseOK, EagerApart, EagerNeverBuilt, EndedOK,
         MakingOK, [AppNext]_appVars
  PROVE  MakingOK'
<1>0. TypeOK /\ made \in 0..Len(Members)
  BY DEF AppTypeOK
<1>1. CASE Construct
  <2> USE DEF MakingOK, TypeOK, AttemptTypes
  <2>1. CASE LazyJoins
    BY <1>0, <2>1, ConstructedFacts DEF LazyJoins, MayConstruct
  <2>2. CASE LazyReturns \/ EagerReturns \/ EagerPanics
    BY <1>0, <2>2, ConstructedFacts DEF LazyReturns, EagerReturns, EagerPanics, Current, builtVars
  <2>3. CASE EagerBegins
    <3>1. PICK a \in Attempt : /\ Fresh(a) /\ eager' = a
                               /\ phase' = [phase EXCEPT ![a] = "running"]
                               /\ of' = [of EXCEPT ![a] = Current]
      BY <2>3 DEF EagerBegins
    <3>2. ~stale[a] /\ ended[a] = "not"
      BY <3>1 DEF Fresh, EagerApart, EndedOK
    <3> QED
      BY <1>0, <2>3, <3>1, <3>2, ConstructedFacts DEF EagerBegins, MayConstruct, profVars
  <2>4. CASE EagerRecords
    <3>1. /\ making = "building" /\ making' = "recorded" /\ UNCHANGED <<made, eager>>
          /\ UNCHANGED <<phase, of, stale>> /\ Build(eager)
      BY <2>4 DEF EagerRecords, builtVars
    <3>2. eager \in Attempt /\ of[eager] = Current /\ Current \in Provider
      BY <1>0, <3>1, ConstructedFacts
    <3>3. rec'[Current].err = ended'[eager] /\ ended'[eager] # "not"
      BY <3>1, <3>2, BuildFacts DEF Errors
    <3> QED
      BY <1>0, <3>1, <3>2, <3>3, ConstructedFacts
  <2>5. CASE EagerEnds
    <3>1. /\ making = "recorded" /\ err' = [err EXCEPT ![eager] = EagerError(ended[eager])]
          /\ eager \in Attempt /\ of[eager] = Current
          /\ UNCHANGED <<rec, ended, of, stale, made, eager>>
      BY <2>5 DEF EagerEnds, profVars
    <3>2. making' = "storing" => ended[eager] = "none" /\ err'[eager] = "none"
      BY <1>0, <2>5, <3>1 DEF EagerEnds, EagerError
    <3>3. making' \in {"storing", "aborting"} /\ phase' = [phase EXCEPT ![eager] = "finished"]
      BY <2>5 DEF EagerEnds
    <3> QED
      BY <1>0, <3>1, <3>2, <3>3, ConstructedFacts
  <2> QED
    BY <1>1, <2>1, <2>2, <2>3, <2>4, <2>5 DEF Construct
<1>2. CASE ~Construct
  <2>1. /\ UNCHANGED <<made, making, eager>> /\ Current' = Current
        /\ making \in {"building", "recorded", "storing", "aborting"} =>
             /\ eager \in Attempt /\ of[eager] = Current
             /\ Current \in Eager /\ Current \in Provider
    BY <1>0, <1>2, MakingStays, ConstructedFacts DEF makeVars, MakingOK
  <2>2. making \in {"building", "recorded", "storing", "aborting"} =>
          /\ phase'[eager] = phase[eager] /\ of'[eager] = of[eager]
          /\ err'[eager] = err[eager] /\ stale'[eager] = stale[eager]
    BY <1>0, <1>2, <2>1, EagerBuildStays DEF MakingOK
  <2>3. making \in {"building", "recorded", "storing", "aborting"} =>
          rec'[Current] = rec[Current] /\ ended'[eager] = ended[eager]
    <3>1. ASSUME NEW a \in Attempt, RecordBuild(a),
                 making \in {"building", "recorded", "storing", "aborting"}
          PROVE  rec'[Current] = rec[Current] /\ ended'[eager] = ended[eager]
      <4>1. Build(a) /\ of[a] \notin Eager
        BY <3>1 DEF RecordBuild
      <4>2. of[a] \in Provider
        <5>1. phase[a] = "running"
          BY <4>1 DEF Build, BuilderReturns
        <5> QED
          BY <1>0, <5>1 DEF TypeOK, AttemptTypes
      <4> QED
        BY <2>1, <3>1, <4>1, <4>2, BuildFacts
    <3>2. ASSUME UNCHANGED profVars PROVE UNCHANGED <<rec, ended>>
      BY <3>2 DEF profVars
    <3> QED
      BY <1>2, <3>1, <3>2, RecordSteps DEF Construct
  <2> QED
    BY <2>1, <2>2, <2>3 DEF MakingOK
<1> QED
  BY <1>1, <1>2

-----------------------------------------------------------------------------
(* The invariants of Node, of which construction is no step.               *)

LEMMA StartsOnlyDeferred ==
  ASSUME TypeOK, PlaceOK, StarterOK, WaitsExact, UseOK, EagerNeverBuilt,
         [AppNext]_appVars, ~Construct
  PROVE  BuildsDeferred
  BY StartsDeferred, EagerBuildStays DEF BuildsDeferred, EnterStarts

\* What construction does to the variables of Node.
LEMMA ConstructTypes ==
  ASSUME AppTypeOK, MakingOK, Construct
  PROVE  TypeOK'
<1>0. TypeOK /\ made \in 0..Len(Members)
  BY DEF AppTypeOK
<1>1. CASE LazyJoins
  <2>1. CloseTypes'
    BY <1>0, <1>1, ConstructedFacts DEF LazyJoins, MayConstruct, Join, TypeOK, CloseTypes
  <2> QED
    BY <1>0, <1>1, <2>1, TypeFrames DEF LazyJoins, TypeOK, getVars, scopeVars, invalVars
<1>2. CASE LazyReturns
  <2>1. NodeTypes'
    BY <1>0, <1>2, ConstructedFacts
       DEF LazyReturns, JoinResult, MakingOK, AppTypeOK, TypeOK, NodeTypes
  <2> QED
    BY <1>0, <1>2, <2>1, TypeFrames DEF LazyReturns, TypeOK, getVars, scopeVars, invalVars, closeVars
<1>3. CASE EagerBegins
  <2>1. AttemptTypes'
    BY <1>0, <1>3, ConstructedFacts DEF EagerBegins, MayConstruct, TypeOK, AttemptTypes
  <2> QED
    BY <1>0, <1>3, <2>1, TypeFrames DEF EagerBegins, TypeOK, getVars, scopeVars, invalVars, closeVars
<1>4. CASE EagerRecords
  BY <1>0, <1>4, TypeFrames
     DEF EagerRecords, TypeOK, builtVars, getVars, scopeVars, invalVars, closeVars
<1>5. CASE EagerEnds
  <2>1. err' = [err EXCEPT ![eager] = EagerError(ended[eager])]
    BY <1>5 DEF EagerEnds
  <2>2. EagerError(ended[eager]) \in Errors \cup {"none"}
    <3>1. eager \in Attempt /\ ended[eager] # "not"
      BY <1>5 DEF EagerEnds, MakingOK
    <3> QED
      BY <3>1 DEF EagerError, Errors, AppTypeOK
  <2>3. AttemptTypes'
    BY <1>0, <1>5, <2>1, <2>2 DEF EagerEnds, TypeOK, AttemptTypes, MakingOK
  <2> QED
    BY <1>0, <1>5, <2>3, TypeFrames DEF EagerEnds, TypeOK, getVars, scopeVars, invalVars, closeVars
<1>6. CASE EagerReturns
  <2>1. NodeTypes' /\ AttemptTypes' /\ CloseTypes'
    BY <1>0, <1>6, ConstructedFacts
       DEF EagerReturns, Join, MakingOK, TypeOK, NodeTypes, AttemptTypes, CloseTypes, builtVars
  <2> QED
    BY <1>0, <1>6, <2>1, TypeFrames DEF EagerReturns, TypeOK, getVars, scopeVars, invalVars
<1>7. CASE EagerPanics
  <2>1. AttemptTypes'
    BY <1>0, <1>7 DEF EagerPanics, MakingOK, TypeOK, AttemptTypes, builtVars
  <2> QED
    BY <1>0, <1>7, <2>1, TypeFrames DEF EagerPanics, TypeOK, getVars, scopeVars, invalVars, closeVars
<1> QED
  BY <1>1, <1>2, <1>3, <1>4, <1>5, <1>6, <1>7 DEF Construct

LEMMA ConstructKeepsNode ==
  ASSUME AppTypeOK, PlaceOK, StarterOK, SingleFlight, WaitsExact, EpochOK, UseOK, EagerApart,
         MakingOK, Construct
  PROVE  PlaceOK' /\ StarterOK' /\ SingleFlight' /\ WaitsExact' /\ EpochOK'
<1>0. TypeOK /\ made \in 0..Len(Members)
  BY DEF AppTypeOK
<1>1. /\ UNCHANGED <<cur, epoch, waits, got, began, at, target, box, att, mine, since>>
      /\ \A a \in Attempt : \/ phase'[a] = phase[a] /\ of'[a] = of[a]
                            \/ a = eager' /\ phase[a] = "unused" /\ phase'[a] = "running"
                               /\ of'[a] = Current /\ Current \in Eager /\ began[a] = 0
                            \/ /\ a = eager /\ of'[a] = of[a] /\ of[a] \in Eager
                               /\ phase[a] = "running" /\ phase'[a] = "finished"
                               /\ \A s \in Slot : at[<<a, s>>] = "out"
                            \/ /\ a = eager /\ of'[a] = of[a] /\ of[a] \in Eager
                               /\ phase[a] = "finished" /\ phase'[a] = "done"
  <2> USE <1>0 DEF TypeOK, AttemptTypes
  <2>1. CASE LazyJoins \/ LazyReturns \/ EagerRecords
    BY <2>1 DEF LazyJoins, LazyReturns, EagerRecords, nodeVars, builtVars, getVars, scopeVars, invalVars
  <2>2. CASE EagerBegins
    BY <2>2 DEF EagerBegins, Fresh, EagerApart, nodeVars, getVars, scopeVars, invalVars
  <2>3. CASE EagerEnds
    <3>1. making = "recorded" /\ eager \in Attempt /\ ended[eager] # "not"
      BY <2>3 DEF EagerEnds, MakingOK
    <3>2. \A s \in Slot : at[<<eager, s>>] = "out"
      BY <3>1 DEF UseOK, Builders
    <3> QED
      BY <2>3, <3>1, <3>2 DEF EagerEnds, MakingOK, nodeVars, getVars, scopeVars, invalVars
  <2>4. CASE EagerReturns \/ EagerPanics
    BY <2>4 DEF EagerReturns, EagerPanics, MakingOK, nodeVars, builtVars, getVars, scopeVars, invalVars
  <2> QED
    BY <2>1, <2>2, <2>3, <2>4 DEF Construct
<1>2. PlaceOK'
  BY <1>1, BuilderFacts DEF PlaceOK
<1>3. StarterOK'
  BY <1>1, BuilderFacts DEF StarterOK, PlaceOK
<1>4. WaitsExact'
  BY <1>1, WaitsFrame
<1>5. val' = val \/ (EagerReturns /\ val' = [val EXCEPT ![Current] = eager])
  BY DEF Construct, LazyJoins, LazyReturns, EagerBegins, EagerRecords, EagerEnds, EagerReturns, EagerPanics, nodeVars
<1>6. SingleFlight'
  <2>1. \A n \in Provider : InFlight(n)' = InFlight(n)
    BY <1>1 DEF InFlight
  <2>2. \A n \in Provider : val'[n] = val[n] \/ (n \in Eager /\ cur[n] = None)
    BY <1>0, <1>5 DEF EagerReturns, MakingOK, SingleFlight, InFlight, TypeOK, NodeTypes
  <2> QED
    BY <1>1, <2>1, <2>2 DEF SingleFlight
<1>7. EpochOK'
  <2>1. ASSUME NEW a \in Attempt, phase'[a] # "unused"
        PROVE  began'[a] <= epoch'[of'[a]]
    <3>1. CASE of'[a] = of[a] /\ phase[a] # "unused"
      BY <1>1, <3>1 DEF EpochOK
    <3>2. CASE of'[a] = Current /\ Current \in Eager /\ began[a] = 0
      BY <1>1, <3>2 DEF EagerApart
    <3> QED
      BY <1>1, <2>1, <3>1, <3>2
  <2>2. \A n \in Provider : val[n] # None => val[n] \in Attempt
    BY <1>0 DEF TypeOK, NodeTypes
  <2>3. ASSUME NEW n \in Provider, val'[n] # None
        PROVE  /\ of'[val'[n]] = n /\ phase'[val'[n]] \in {"finished", "done"}
               /\ began'[val'[n]] = epoch'[of'[val'[n]]]
    <3>1. CASE val'[n] = val[n]
      <4>1. PICK a \in Attempt : /\ val'[n] = a /\ of[a] = n /\ phase[a] \in {"finished", "done"}
                                 /\ began[a] = epoch[n]
        BY <2>2, <2>3, <3>1 DEF EpochOK, UpToDate
      <4>2. of'[a] = of[a] /\ phase'[a] \in {"finished", "done"}
        BY <1>1, <4>1
      <4> QED
        BY <1>1, <4>1, <4>2
    <3>2. CASE EagerReturns /\ n = Current /\ val'[n] = eager
      <4>1. PICK a \in Attempt :
              /\ eager = a /\ of[a] = n /\ n \in Eager /\ phase[a] = "finished"
              /\ phase' = [phase EXCEPT ![a] = "done"] /\ of' = of
        BY <3>2 DEF EagerReturns, MakingOK, builtVars
      <4>2. epoch[n] = 0 /\ began[a] \in Nat /\ began[a] <= epoch[of[a]]
        BY <1>0, <4>1 DEF EagerApart, EpochOK, TypeOK, AttemptTypes
      <4>3. began[a] = epoch[n]
        BY <4>1, <4>2
      <4>4. phase'[a] = "done"
        BY <1>0, <4>1 DEF TypeOK, AttemptTypes
      <4> QED
        BY <1>1, <3>2, <4>1, <4>3, <4>4
    <3> QED
      BY <1>0, <1>5, <3>1, <3>2 DEF TypeOK, NodeTypes
  <2>4. \A a \in Attempt : phase'[a] \in {"unused", "created"} => got'[a] = {}
    BY <1>1 DEF EpochOK
  <2>5. \A a \in Attempt : \A u \in got'[a] : phase'[u] \in {"finished", "done"}
    BY <1>0, <1>1 DEF EpochOK, TypeOK, ScopeTypes
  <2>6. \A i \in Invalidator : since'[i] # <<>> => since'[i][2] <= epoch'[since'[i][1]]
    BY <1>1 DEF EpochOK
  <2>7. \A n \in Provider : val'[n] # None =>
          of'[val'[n]] = n /\ phase'[val'[n]] \in {"finished", "done"} /\ UpToDate(val[n])'
    BY <2>3 DEF UpToDate
  <2> QED
    BY <2>1, <2>7, <2>4, <2>5, <2>6 DEF EpochOK
<1> QED
  BY <1>2, <1>3, <1>4, <1>6, <1>7

LEMMA UnconstructedKeepsNode ==
  ASSUME TypeOK, PlaceOK, StarterOK, SingleFlight, WaitsExact, EpochOK,
         NEW g \in Builders, NEW n \in Provider, FromUnconstructed(g, n)
  PROVE  TypeOK' /\ PlaceOK' /\ StarterOK' /\ SingleFlight' /\ WaitsExact' /\ EpochOK'
<1>1. /\ UNCHANGED <<nodeVars, dependents, phase, builtVars, waits, got, at, getVars,
                     invalVars, dropped, closeVars>>
      /\ g[1] \in Attempt /\ g[2] \in Slot
      /\ fault' = [fault EXCEPT ![g[1]] = "unconstructed"]
      /\ asked' = [asked EXCEPT ![g[1]] = @ \cup {<<n, g[2]>>}]
  BY BuilderFacts DEF FromUnconstructed, Asks
<1>2. ScopeTypes'
  BY <1>1 DEF TypeOK, ScopeTypes, Errors
<1>3. TypeOK'
  BY <1>1, <1>2, TypeFrames DEF TypeOK, getVars, closeVars
<1>4. PlaceOK' /\ StarterOK' /\ WaitsExact'
  BY <1>1, WaitsFrame, BuilderFacts DEF PlaceOK, StarterOK, getVars, builtVars
<1>5. SingleFlight' /\ EpochOK'
  BY <1>1, FlightFrame, EpochFrame DEF nodeVars, builtVars, invalVars
<1> QED
  BY <1>3, <1>4, <1>5

LEMMA NodeKept ==
  ASSUME AppTypeOK, PlaceOK, StarterOK, SingleFlight, WaitsExact, EpochOK, UseOK,
         EagerApart, EagerNeverBuilt, MakingOK, [AppNext]_appVars
  PROVE  TypeOK' /\ PlaceOK' /\ StarterOK' /\ SingleFlight' /\ WaitsExact' /\ EpochOK'
<1>0. TypeOK
  BY DEF AppTypeOK
<1>1. CASE Construct
  BY <1>1, ConstructTypes, ConstructKeepsNode
<1>2. CASE \E g \in Builders, n \in Provider : FromUnconstructed(g, n)
  BY <1>0, <1>2, UnconstructedKeepsNode
<1>3. CASE [Next]_vars /\ ~Construct
  BY <1>0, <1>3, StartsOnlyDeferred, TypeStep, PlaceStep, StarterStep, FlightStep, WaitsStep, EpochStep
<1> QED
  BY <1>1, <1>2, <1>3, NodeSteps
=============================================================================
