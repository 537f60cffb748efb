-------------------------- MODULE AppLifetimeProofs --------------------------
(***************************************************************************)
(* The rest of the invariant of a program: who owns a value and when it is *)
(* open, that nothing is built from itself, the build profile, that builds *)
(* follow one another, that a provider's reference is dropped once, and    *)
(* that Close comes to everything; then the theorems about programs.       *)
(***************************************************************************)
EXTENDS AppProofs

-----------------------------------------------------------------------------
(* Lifetimes.                                                              *)

\* The goroutines of a's builder that are in get.
Busy(a) == {s \in Slot : at[<<a, s>>] # "out"}

LEMMA FiniteFacts ==
  ASSUME TypeOK, NEW a \in Attempt
  PROVE  /\ IsFiniteSet(Deps(a)) /\ Cardinality(Deps(a)) \in Nat
         /\ IsFiniteSet(Busy(a)) /\ Cardinality(Busy(a)) \in Nat
         /\ IsFiniteSet(asked[a]) /\ Cardinality(asked[a]) \in Nat
<1>1. MaxAttempts \in Nat /\ MaxReads \in Nat /\ IsFiniteSet(Provider) /\ IsFiniteSet(Slot)
  BY NodeAssumption DEF NodeAssumption
<1>2. IsFiniteSet(Attempt \X (1..MaxReads)) /\ IsFiniteSet(Provider \X Slot)
  <2>1. IsFiniteSet(1..MaxAttempts) /\ IsFiniteSet(1..MaxReads)
    BY <1>1, FS_Interval
  <2> QED
    BY <1>1, <2>1, FS_Product DEF Attempt
<1>3. Deps(a) \subseteq Attempt \X (1..MaxReads) /\ Busy(a) \subseteq Slot
      /\ asked[a] \subseteq Provider \X Slot
  BY DEF Deps, Busy, TypeOK, ScopeTypes
<1> QED
  BY <1>1, <1>2, <1>3, FS_Subset, FS_CardinalityType

\* A builder takes a reference only when there is a place for it.
LEMMA HolderFacts ==
  ASSUME TypeOK, ReadsCounted, NEW g \in Goroutine, at[g] = "acquire"
  PROVE  /\ Holder(g) \in L!Owner /\ Holder(g) # L!TheProvider
         /\ g \in Caller => Holder(g) = <<g, 0>>
         /\ g \notin Caller => /\ g \in Builders /\ Holder(g)[2] \in 1..MaxReads
                               /\ Holder(g) = <<g[1], Cardinality(Deps(g[1])) + 1>>
<1>1. CASE g \in Caller
  BY <1>1, AppAssumption DEF AppAssumption, Holder, L!Owner, L!TheProvider
<1>2. CASE g \notin Caller
  <2>1. g \in Builders /\ g[1] \in Attempt /\ g[2] \in Slot /\ g = <<g[1], g[2]>>
    BY <1>2 DEF Goroutine, Builders
  <2>2. PICK d \in Nat : d = Cardinality(Deps(g[1]))
    BY <2>1, FiniteFacts
  <2>3. Cardinality(Busy(g[1])) \in Nat /\ Cardinality(Busy(g[1])) # 0
    BY <2>1, FiniteFacts, FS_EmptySet DEF Busy
  <2>4. d + 1 \in 1..MaxReads
    <3>1. PICK b, k \in Nat : b = Cardinality(Busy(g[1])) /\ k = Cardinality(asked[g[1]])
      BY <2>1, FiniteFacts
    <3>2. d + b <= k /\ k <= MaxReads
      BY <2>1, <2>2, <3>1 DEF ReadsCounted, Busy
    <3>3. MaxReads \in Nat
      BY NodeAssumption DEF NodeAssumption
    <3> QED
      BY <2>3, <3>1, <3>2, <3>3
  <2>5. Holder(g) = <<g[1], d + 1>>
    BY <1>2, <2>2 DEF Holder
  <2>6. Holder(g) \in L!Owner
    BY <2>1, <2>4, <2>5 DEF L!Owner
  <2>7. Holder(g) # L!TheProvider /\ Holder(g)[2] \in 1..MaxReads
    BY <2>4, <2>5 DEF L!TheProvider
  <2> QED
    BY <1>2, <2>1, <2>2, <2>5, <2>6, <2>7
<1> QED
  BY <1>1, <1>2

\* The value a provider lets go of, if any.
LEMMA LetsGoSteps ==
  ASSUME NEW v \in Attempt \cup {None}, LetsGo(v)
  PROVE  UNCHANGED lifeVars \/ (v \in Attempt /\ L!Give(L!TheProvider, v))
BY DEF LetsGo

\* The steps that change who owns what.
LEMMA LifeKinds ==
  ASSUME AppTypeOK, PlaceOK, MakingOK, ReadsCounted, OwnersOK, [AppNext]_appVars
  PROVE  \/ UNCHANGED lifeVars
         \/ \E a \in Attempt : /\ L!Publish(a) \/ L!Discard(a)
                               /\ EndBuild(a) \/ (EagerEnds /\ a = eager)
         \/ \E g \in Goroutine : /\ TakeAndReturn(g) /\ box[g] \in Attempt
                                 /\ L!Take(Holder(g), box[g]) /\ Holder(g) \in L!Owner
         \/ \E c \in Caller : Answer(c) /\ box[c] \in Attempt /\ L!Give(<<c, 0>>, box[c])
         \/ \E i \in Invalidator : /\ InvalidateReleases(i) /\ Top(i).old \in Attempt
                                   /\ L!Give(L!TheProvider, Top(i).old)
         \/ LET n == toShut[Len(toShut)]
            IN  ShutAndRelease /\ val[n] \in Attempt /\ L!Give(L!TheProvider, val[n])
         \/ \E a \in Attempt : CleanUp(a) /\ (L!Start(a) \/ L!Finish(a))
         \/ \E a \in Attempt : \E t \in Deps(a) : CleanUp(a) /\ L!Give(<<a, t[2]>>, t[1])
<1>0. TypeOK
  BY DEF AppTypeOK
<1>1. ASSUME Construct
      PROVE  \/ UNCHANGED lifeVars
             \/ EagerEnds /\ eager \in Attempt /\ (L!Publish(eager) \/ L!Discard(eager))
  BY <1>1 DEF Construct, LazyJoins, LazyReturns, EagerBegins, EagerRecords, EagerEnds, EagerReturns,
              EagerPanics, MakingOK
<1>2. ASSUME NEW g \in Goroutine, TakeAndReturn(g)
      PROVE  box[g] \in Attempt /\ L!Take(Holder(g), box[g]) /\ Holder(g) \in L!Owner
  BY <1>0, <1>2, HolderFacts DEF TakeAndReturn, Takes, Acquired, PlaceOK
<1>3. ASSUME NEW a \in Attempt, EndBuild(a) PROVE L!Publish(a) \/ L!Discard(a)
  BY <1>3 DEF EndBuild
<1>4. ASSUME NEW i \in Invalidator, InvalidateReleases(i)
      PROVE  UNCHANGED lifeVars \/ (Top(i).old \in Attempt /\ L!Give(L!TheProvider, Top(i).old))
  <2>1. Top(i).old \in Attempt \cup {None}
    <3>1. Len(frames[i]) \in 1..Len(frames[i]) /\ Top(i) = frames[i][Len(frames[i])]
      BY <1>0, <1>4, FramesFacts DEF InvalidateReleases, ReleaseOld
    <3>2. Top(i) \in Frame
      BY <1>0, <3>1, FramesFacts
    <3> QED
      BY <3>2 DEF Frame
  <2> QED
    BY <1>4, <2>1, LetsGoSteps DEF InvalidateReleases
<1>5. ASSUME ShutAndRelease
      PROVE  LET n == toShut[Len(toShut)]
             IN  UNCHANGED lifeVars \/ (val[n] \in Attempt /\ L!Give(L!TheProvider, val[n]))
  <2>1. toShut[Len(toShut)] \in Provider
    BY <1>0, <1>5 DEF ShutAndRelease, Shut, TypeOK, CloseTypes
  <2> QED
    BY <1>0, <1>5, <2>1, LetsGoSteps DEF ShutAndRelease, TypeOK, NodeTypes
<1>6. ASSUME NEW a \in Attempt, CleanUp(a)
      PROVE  \/ L!Start(a) \/ L!Finish(a)
             \/ \E t \in Deps(a) : L!Give(<<a, t[2]>>, t[1])
  BY <1>6 DEF CleanUp
<1>7. ASSUME NEW c \in Caller, Answer(c) PROVE box[c] \in Attempt /\ L!Give(<<c, 0>>, box[c])
  BY <1>7 DEF Answer, OwnersOK
<1> QED
  BY <1>1, <1>2, <1>3, <1>4, <1>5, <1>6, <1>7, Kinds
     DEF FromUnconstructed, Uses, Apart, RecordBuild, WakeWaiters, BeginClose, appVars

\* Each is a step of Lifetime.
LEMMA LifeStep ==
  ASSUME AppTypeOK, PlaceOK, MakingOK, ReadsCounted, OwnersOK, [AppNext]_appVars
  PROVE  [L!Next]_(L!vars)
<1>1. L!TheProvider \in L!Owner /\ \A c \in Caller : <<c, 0>> \in L!Owner
  BY DEF L!Owner
<1>2. \A a \in Attempt : \A t \in Deps(a) : t[1] \in Attempt /\ <<a, t[2]>> \in L!Owner
  BY DEF Deps, L!Owner
<1> QED
  BY <1>1, <1>2, LifeKinds DEF L!Next, L!vars, lifeVars

LEMMA LifeTypes ==
  ASSUME L!TypeOK, [L!Next]_(L!vars)
  PROVE  L!TypeOK'
<1> USE DEF L!TypeOK
<1>1. ASSUME NEW v \in Attempt,
             L!Publish(v) \/ L!Discard(v) \/ L!Start(v) \/ L!Finish(v)
      PROVE  L!TypeOK'
  BY <1>1 DEF L!Publish, L!Discard, L!Ends, L!Start, L!Finish, L!Owner
<1>2. ASSUME NEW v \in Attempt, NEW o \in L!Owner, L!Take(o, v) \/ L!Give(o, v)
      PROVE  L!TypeOK'
  BY <1>2 DEF L!Take, L!Give, L!Ends
<1>3. ASSUME NEW S \in SUBSET Attempt, L!Expire(S) PROVE L!TypeOK'
  BY <1>3 DEF L!Expire
<1> QED
  BY <1>1, <1>2, <1>3 DEF L!Next, L!vars

\* Owners are added by the end of a build, which makes the provider the owner,
\* and by get.
LEMMA OwnersGrow ==
  ASSUME AppTypeOK, PlaceOK, MakingOK, ReadsCounted, OwnersOK, [AppNext]_appVars
  PROVE  \/ \A v \in Attempt : owners'[v] \subseteq owners[v] \cup {L!TheProvider}
         \/ \E g \in Goroutine :
              /\ TakeAndReturn(g) /\ at[g] = "acquire" /\ box[g] \in Attempt
              /\ Holder(g) \in L!Owner /\ Holder(g) \notin owners[box[g]]
              /\ life[box[g]] = "open"
              /\ owners' = [owners EXCEPT ![box[g]] = @ \cup {Holder(g)}]
              /\ UNCHANGED life
<1> USE DEF AppTypeOK, L!TypeOK
<1>1. ASSUME NEW v \in Attempt, NEW o, L!Give(o, v)
      PROVE  \A u \in Attempt : owners'[u] \subseteq owners[u]
  BY <1>1 DEF L!Give
<1>2. ASSUME NEW v \in Attempt, L!Publish(v) \/ L!Discard(v)
      PROVE  \A u \in Attempt : owners'[u] \subseteq owners[u] \cup {L!TheProvider}
  BY <1>2 DEF L!Publish, L!Discard
<1>3. ASSUME NEW v \in Attempt, L!Start(v) \/ L!Finish(v) PROVE UNCHANGED owners
  BY <1>3 DEF L!Start, L!Finish
<1>4. ASSUME NEW a \in Attempt, NEW t \in Deps(a) PROVE t[1] \in Attempt
  BY DEF Deps
<1>5. toShut # <<>> => toShut[Len(toShut)] \in Provider
  BY DEF TypeOK, CloseTypes
<1>6. ASSUME NEW g \in Goroutine, TakeAndReturn(g), L!Take(Holder(g), box[g])
      PROVE  /\ at[g] = "acquire" /\ Holder(g) \notin owners[box[g]] /\ life[box[g]] = "open"
             /\ owners' = [owners EXCEPT ![box[g]] = @ \cup {Holder(g)}]
             /\ UNCHANGED life
  BY <1>6 DEF TakeAndReturn, Acquired, L!Take
<1> QED
  BY <1>1, <1>2, <1>3, <1>4, <1>5, <1>6, LifeKinds DEF lifeVars

\* How many goroutines of builders are in get, and what they have asked for.
LEMMA AskedSteps ==
  ASSUME AppTypeOK, [AppNext]_appVars
  PROVE  \/ /\ UNCHANGED asked
            /\ \A a \in Attempt : Busy(a)' \subseteq Busy(a)
         \/ \E g \in Builders :
              /\ UNCHANGED owners
              /\ asked'[g[1]] # asked[g[1]] /\ Cardinality(asked[g[1]]) < MaxReads
              /\ \E n \in Provider : asked' = [asked EXCEPT ![g[1]] = @ \cup {<<n, g[2]>>}]
              /\ Busy(g[1])' \subseteq Busy(g[1]) \cup {g[2]}
              /\ \A a \in Attempt : a # g[1] => Busy(a)' \subseteq Busy(a)
<1>0. TypeOK
  BY DEF AppTypeOK
<1>1. ASSUME NEW g \in Builders, NEW n \in Provider, Uses(n), From(g, n)
      PROVE  /\ Asks(g, n) /\ UNCHANGED owners
             /\ \A a \in Attempt : \A s \in Slot : <<a, s>> # g => at'[<<a, s>>] = at[<<a, s>>]
  BY <1>0, <1>1, BuilderFacts DEF Uses, From, lifeVars, Goto, TypeOK, CallTypes, Goroutine
<1>2. ASSUME NEW g \in Builders, NEW n \in Provider, FromUnconstructed(g, n)
      PROVE  Asks(g, n) /\ UNCHANGED owners /\ UNCHANGED at
  BY <1>2 DEF FromUnconstructed, lifeVars
<1>3. ASSUME NEW g \in Builders, NEW n \in Provider, Asks(g, n), UNCHANGED owners,
             \A a \in Attempt : \A s \in Slot : <<a, s>> # g => at'[<<a, s>>] = at[<<a, s>>]
      PROVE  /\ asked'[g[1]] # asked[g[1]] /\ Cardinality(asked[g[1]]) < MaxReads
             /\ asked' = [asked EXCEPT ![g[1]] = @ \cup {<<n, g[2]>>}]
             /\ Busy(g[1])' \subseteq Busy(g[1]) \cup {g[2]}
             /\ \A a \in Attempt : a # g[1] => Busy(a)' \subseteq Busy(a)
  <2>1. g[1] \in Attempt /\ g[2] \in Slot /\ g = <<g[1], g[2]>>
    BY DEF Builders
  <2>2. /\ <<n, g[2]>> \notin asked[g[1]] /\ Cardinality(asked[g[1]]) < MaxReads
        /\ asked' = [asked EXCEPT ![g[1]] = @ \cup {<<n, g[2]>>}]
    BY <1>3 DEF Asks
  <2>3. asked'[g[1]] # asked[g[1]]
    BY <1>0, <2>1, <2>2 DEF TypeOK, ScopeTypes
  <2>4. /\ Busy(g[1])' \subseteq Busy(g[1]) \cup {g[2]}
        /\ \A a \in Attempt : a # g[1] => Busy(a)' \subseteq Busy(a)
    BY <1>3, <2>1 DEF Busy
  <2> QED
    BY <2>2, <2>3, <2>4
<1>4. ASSUME ~\E g \in Builders, n \in Provider : FromUnconstructed(g, n) \/ (Uses(n) /\ From(g, n))
      PROVE  UNCHANGED asked
  <2>1. CASE Construct
    BY <2>1 DEF Construct, LazyJoins, LazyReturns, EagerBegins, EagerRecords, EagerEnds, EagerReturns,
                EagerPanics, scopeVars
  <2>2. CASE \E n \in Provider : Uses(n)
    BY <1>4, <2>2 DEF Uses, Call, InvalidateCalled, Invalidate, scopeVars
  <2>3. CASE \E g \in Goroutine : TakeAndReturn(g) \/ Strolls(g)
    BY <2>3 DEF TakeAndReturn, Acquired, Strolls, Hops, Grabs, Parks, EnterJoins, EnterStarts, scopeVars
  <2>4. CASE \E g \in Builders : Read(g)
    BY <2>4 DEF Read, Link, FindsCycle, Unlink, scopeVars
  <2>5. CASE \/ \E c \in Caller : Answer(c)
             \/ \E a \in Attempt : RecordBuild(a) \/ EndBuild(a) \/ WakeWaiters(a) \/ CleanUp(a)
             \/ \E i \in Invalidator :
                  InvalidateReleases(i) \/ \E m \in Provider : InvalidateDependent(i, m) /\ Apart
             \/ BeginClose \/ (Cancel /\ Apart) \/ ShutAndRelease \/ UNCHANGED appVars
    BY <2>5 DEF Answer, EndBuild, Finish, WakeWaiters, CloseDone, CleanUp, RecordBuild, InvalidateReleases,
                ReleaseOld, InvalidateDependent, Invalidate, BeginClose, CloseBegins, Cancel,
                ShutAndRelease, Shut, appVars, vars, scopeVars
  <2> QED
    BY <1>4, <2>1, <2>2, <2>3, <2>4, <2>5, Kinds
<1>5. ASSUME ~\E g \in Builders, n \in Provider : FromUnconstructed(g, n) \/ (Uses(n) /\ From(g, n))
      PROVE  \A a \in Attempt : Busy(a)' \subseteq Busy(a)
  <2>1. CASE \E n \in Provider : Uses(n)
    <3>1. ASSUME NEW n \in Provider, NEW c \in Caller, Call(c, n)
          PROVE  \A g \in Builders : at'[g] = at[g]
      BY <1>0, <3>1, NodeAssumption DEF Call, Goto, TypeOK, CallTypes, NodeAssumption, Builders, Goroutine
    <3>2. ASSUME NEW n \in Provider, NEW i \in Invalidator, InvalidateCalled(i, n) PROVE UNCHANGED at
      BY <3>2 DEF InvalidateCalled, Invalidate
    <3> QED
      BY <1>5, <2>1, <3>1, <3>2 DEF Uses, Busy, Builders
  <2>2. CASE ~\E n \in Provider : Uses(n)
    BY <1>0, <2>2, StaysIn DEF Busy, Goroutine
  <2> QED
    BY <2>1, <2>2
<1> QED
  BY <1>1, <1>2, <1>3, <1>4, <1>5

LEMMA ReadsStep ==
  ASSUME AppTypeOK, TypeOK', PlaceOK, MakingOK, ReadsCounted, OwnersOK, [AppNext]_appVars
  PROVE  ReadsCounted'
<1>0. TypeOK
  BY DEF AppTypeOK
<1>1. ASSUME NEW a \in Attempt
      PROVE  /\ Cardinality(Deps(a)') + Cardinality(Busy(a)') <= Cardinality(asked'[a])
             /\ Cardinality(asked'[a]) <= MaxReads
  <2>1. PICK d, b, k \in Nat :
          d = Cardinality(Deps(a)) /\ b = Cardinality(Busy(a)) /\ k = Cardinality(asked[a])
    BY <1>0, FiniteFacts
  <2>2. d + b <= k /\ k <= MaxReads /\ MaxReads \in Nat
    BY <2>1, NodeAssumption DEF ReadsCounted, Busy, NodeAssumption
  <2>3. IsFiniteSet(Deps(a)) /\ IsFiniteSet(Busy(a)) /\ IsFiniteSet(asked[a])
    BY <1>0, FiniteFacts
  <2>4. /\ Cardinality(Deps(a)') \in Nat /\ Cardinality(Busy(a)') \in Nat
        /\ Cardinality(asked'[a]) \in Nat
    <3>1. /\ IsFiniteSet(Deps(a)') /\ IsFiniteSet(Busy(a)') /\ IsFiniteSet(asked'[a])
      <4>1. MaxAttempts \in Nat /\ MaxReads \in Nat /\ IsFiniteSet(Provider) /\ IsFiniteSet(Slot)
        BY NodeAssumption DEF NodeAssumption
      <4>2. IsFiniteSet(1..MaxAttempts) /\ IsFiniteSet(1..MaxReads)
        BY <4>1, FS_Interval
      <4>3. IsFiniteSet(Attempt \X (1..MaxReads)) /\ IsFiniteSet(Provider \X Slot)
        BY <4>1, <4>2, FS_Product DEF Attempt
      <4>4. Deps(a)' \subseteq Attempt \X (1..MaxReads) /\ Busy(a)' \subseteq Slot
            /\ asked'[a] \subseteq Provider \X Slot
        BY DEF Deps, Busy, TypeOK, ScopeTypes
      <4> QED
        BY <4>1, <4>3, <4>4, FS_Subset
    <3> QED
      BY <3>1, FS_CardinalityType
  <2>5. Busy(a)' \subseteq Busy(a) => Cardinality(Busy(a)') <= b
    BY <2>1, <2>3, FS_Subset
  <2>6. Deps(a)' \subseteq Deps(a) => Cardinality(Deps(a)') <= d
    BY <2>1, <2>3, FS_Subset
  \* A goroutine asks.
  <2>7. ASSUME UNCHANGED owners, NEW g \in Builders, g[1] = a, NEW n \in Provider,
               asked'[a] # asked[a], k < MaxReads,
               asked' = [asked EXCEPT ![a] = @ \cup {<<n, g[2]>>}],
               Busy(a)' \subseteq Busy(a) \cup {g[2]}
        PROVE  /\ Cardinality(Deps(a)') + Cardinality(Busy(a)') <= Cardinality(asked'[a])
               /\ Cardinality(asked'[a]) <= MaxReads
    <3>1. asked'[a] = asked[a] \cup {<<n, g[2]>>} /\ <<n, g[2]>> \notin asked[a]
      BY <1>0, <2>7 DEF TypeOK, ScopeTypes
    <3>2. Cardinality(asked'[a]) = k + 1
      BY <2>1, <2>3, <3>1, FS_AddElement
    <3>3. IsFiniteSet(Busy(a) \cup {g[2]}) /\ Cardinality(Busy(a) \cup {g[2]}) \in {b, b + 1}
      BY <2>1, <2>3, FS_AddElement
    <3>4. Cardinality(Busy(a)') <= Cardinality(Busy(a) \cup {g[2]})
      BY <2>7, <3>3, FS_Subset
    <3>5. Cardinality(Busy(a) \cup {g[2]}) \in Nat
      BY <3>3, FS_CardinalityType
    <3>6. Deps(a)' = Deps(a)
      BY <2>7 DEF Deps
    <3> QED
      BY <2>1, <2>2, <2>4, <2>7, <3>2, <3>3, <3>4, <3>5, <3>6
  \* One of its goroutines gets a value.
  <2>8. ASSUME NEW g \in Builders, g[1] = a, TakeAndReturn(g), at[g] = "acquire",
               owners' = [owners EXCEPT ![box[g]] = @ \cup {Holder(g)}]
        PROVE  /\ Cardinality(Deps(a)') <= d + 1 /\ Cardinality(Busy(a)') <= b - 1
               /\ asked'[a] = asked[a]
    <3>1. g \in Goroutine /\ g \notin Caller /\ g = <<a, g[2]>> /\ g[2] \in Slot
      BY <2>8, BuilderFacts DEF Builders
    <3>2. g[2] \in Busy(a) /\ Busy(a)' \subseteq Busy(a) \ {g[2]}
      BY <1>0, <2>8, <3>1 DEF TakeAndReturn, Acquired, Returns, Goto, TypeOK, CallTypes, Busy, Goroutine
    <3>3. Cardinality(Busy(a)') <= b - 1
      <4>1. IsFiniteSet(Busy(a) \ {g[2]}) /\ Cardinality(Busy(a) \ {g[2]}) = b - 1
        BY <2>1, <2>3, <3>2, FS_RemoveElement
      <4> QED
        BY <3>2, <4>1, FS_Subset
    <3>4. PICK o : o = <<a, d + 1>> /\ o = Holder(g)
      BY <2>1, <2>8, <3>1 DEF Holder
    <3>5. Deps(a)' \subseteq Deps(a) \cup {<<box[g], d + 1>>}
      <4>1. ASSUME NEW v \in Attempt, NEW j \in 1..MaxReads, <<a, j>> \in owners'[v]
            PROVE  <<a, j>> \in owners[v] \/ (v = box[g] /\ j = d + 1)
        BY <2>8, <3>4, <4>1 DEF AppTypeOK, L!TypeOK
      <4>2. ASSUME NEW t \in Deps(a)' PROVE t \in Deps(a) \/ t = <<box[g], d + 1>>
        <5>1. t[1] \in Attempt /\ t[2] \in 1..MaxReads /\ t = <<t[1], t[2]>>
              /\ <<a, t[2]>> \in owners'[t[1]]
          BY <4>2 DEF Deps
        <5> QED
          BY <4>1, <5>1 DEF Deps
      <4> QED
        BY <4>2
    <3>6. IsFiniteSet(Deps(a) \cup {<<box[g], d + 1>>})
          /\ Cardinality(Deps(a) \cup {<<box[g], d + 1>>}) \in {d, d + 1}
      BY <2>1, <2>3, FS_AddElement
    <3>7. Cardinality(Deps(a)') <= d + 1
      BY <2>1, <2>4, <3>5, <3>6, FS_Subset
    <3>8. asked'[a] = asked[a]
      BY <2>8 DEF TakeAndReturn, Acquired
    <3> QED
      BY <3>3, <3>7, <3>8
  <2>9. ASSUME \A v \in Attempt : owners'[v] \subseteq owners[v] \cup {L!TheProvider}
        PROVE  Deps(a)' \subseteq Deps(a)
    BY <2>9, NodeAssumption DEF Deps, L!TheProvider, Attempt, None, NodeAssumption
  <2>10. ASSUME NEW g \in Goroutine, at[g] = "acquire", ~(g \in Builders /\ g[1] = a),
                owners' = [owners EXCEPT ![box[g]] = @ \cup {Holder(g)}]
         PROVE  Deps(a)' \subseteq Deps(a)
    <3>1. Holder(g) = <<g, 0>> \/ (g \in Builders /\ Holder(g)[1] # a)
      BY <1>0, <2>10, HolderFacts
    <3>2. \A t \in 1..MaxReads : Holder(g) # <<a, t>>
      BY <3>1
    <3> QED
      BY <2>10, <3>2 DEF Deps, AppTypeOK, L!TypeOK
  <2>11. CASE UNCHANGED asked /\ \A c \in Attempt : Busy(c)' \subseteq Busy(c)
    <3>1. Deps(a)' \subseteq Deps(a)
          \/ \E g \in Builders : /\ g[1] = a /\ TakeAndReturn(g) /\ at[g] = "acquire"
                                 /\ owners' = [owners EXCEPT ![box[g]] = @ \cup {Holder(g)}]
      BY <2>9, <2>10, OwnersGrow
    <3> QED
      BY <2>1, <2>2, <2>4, <2>5, <2>6, <2>8, <2>11, <3>1
  <2>12. ASSUME NEW g \in Builders, UNCHANGED owners,
                asked'[g[1]] # asked[g[1]], Cardinality(asked[g[1]]) < MaxReads,
                NEW n \in Provider, asked' = [asked EXCEPT ![g[1]] = @ \cup {<<n, g[2]>>}],
                Busy(g[1])' \subseteq Busy(g[1]) \cup {g[2]},
                \A c \in Attempt : c # g[1] => Busy(c)' \subseteq Busy(c)
         PROVE  /\ Cardinality(Deps(a)') + Cardinality(Busy(a)') <= Cardinality(asked'[a])
                /\ Cardinality(asked'[a]) <= MaxReads
    <3>1. CASE g[1] = a
      BY <2>1, <2>7, <2>12, <3>1
    <3>2. CASE g[1] # a
      <4>1. asked'[a] = asked[a] /\ Deps(a)' = Deps(a) /\ Busy(a)' \subseteq Busy(a)
        BY <1>0, <2>12, <3>2 DEF Deps, TypeOK, ScopeTypes
      <4> QED
        BY <2>1, <2>2, <2>4, <2>5, <4>1
    <3> QED
      BY <3>1, <3>2
  <2> QED
    BY <2>11, <2>12, AskedSteps
<1> QED
  BY <1>1 DEF ReadsCounted, Busy

\* The build of v ends in this step.
Ends(v) == EndBuild(v) \/ (EagerEnds /\ v = eager)

LEMMA EndFacts ==
  ASSUME AppTypeOK, MakingOK, NEW v \in Attempt, Ends(v)
  PROVE  /\ phase[v] = "running" /\ phase'[v] = "finished" /\ of'[v] = of[v]
         /\ ended[v] # "not" /\ UNCHANGED profVars
         /\ L!Publish(v) \/ L!Discard(v)
<1> USE DEF AppTypeOK, TypeOK, AttemptTypes
<1>1. CASE EndBuild(v)
  BY <1>1 DEF EndBuild, Finish, BuilderReturns
<1>2. CASE EagerEnds /\ v = eager
  BY <1>2 DEF EagerEnds, MakingOK
<1> QED
  BY <1>1, <1>2 DEF Ends

Unbuilt == {"unused", "created", "running"}

\* A value comes to be at the end of its build, and stays.
LEMMA BuiltSteps ==
  ASSUME AppTypeOK, PlaceOK, StarterOK, WaitsExact, MakingOK, [AppNext]_appVars,
         NEW v \in Attempt, ~Ends(v)
  PROVE  /\ phase'[v] \in Unbuilt <=> phase[v] \in Unbuilt
         /\ phase[v] # "unused" => of'[v] = of[v] /\ phase'[v] # "unused"
         /\ phase[v] = "running" => phase'[v] = "running"
<1> USE DEF AppTypeOK, TypeOK, AttemptTypes, Unbuilt
<1>1. CASE Construct
  <2>1. CASE EagerEnds
    BY <2>1 DEF EagerEnds, MakingOK, Ends
  <2>2. CASE EagerBegins
    BY <2>2 DEF EagerBegins, Fresh
  <2>3. CASE EagerReturns \/ EagerPanics
    BY <2>3 DEF EagerReturns, EagerPanics, MakingOK, builtVars
  <2>4. CASE LazyJoins \/ LazyReturns \/ EagerRecords
    BY <2>4 DEF LazyJoins, LazyReturns, EagerRecords, builtVars
  <2> QED
    BY <1>1, <2>1, <2>2, <2>3, <2>4 DEF Construct
<1>2. ASSUME NEW g \in Goroutine, EnterStarts(g)
      PROVE  /\ phase'[v] \in Unbuilt <=> phase[v] \in Unbuilt
             /\ phase[v] # "unused" => of'[v] = of[v] /\ phase'[v] # "unused"
             /\ phase[v] = "running" => phase'[v] = "running"
  BY <1>2 DEF EnterStarts, Fresh
<1>3. ASSUME NEW a \in Attempt, EndBuild(a) \/ WakeWaiters(a), UNCHANGED of
      PROVE  /\ phase'[v] \in Unbuilt <=> phase[v] \in Unbuilt
             /\ phase[v] # "unused" => of'[v] = of[v] /\ phase'[v] # "unused"
             /\ phase[v] = "running" => phase'[v] = "running"
  BY <1>3 DEF EndBuild, Finish, WakeWaiters, CloseDone, Ends
<1> QED
  BY <1>1, <1>2, <1>3, PhaseSteps

\* What a step does to the life of v, and to who owns it.
LEMMA LifeSteps ==
  ASSUME AppTypeOK, PlaceOK, MakingOK, ReadsCounted, OwnersOK, [AppNext]_appVars,
         NEW v \in Attempt, ~Ends(v)
  PROVE  \/ life'[v] = life[v] /\ owners'[v] = owners[v]
         \/ \E g \in Goroutine :
              /\ TakeAndReturn(g) /\ v = box[g] /\ life[v] = "open" /\ life'[v] = "open"
              /\ owners'[v] = owners[v] \cup {Holder(g)}
         \/ \E o \in owners[v] :
              /\ owners'[v] = owners[v] \ {o}
              /\ IF owners[v] = {o} THEN life'[v] \in {"closing", "closed"} ELSE life'[v] = life[v]
              /\ o[2] > 0 => life[o[1]] = "closed"
         \/ life[v] = "closing" /\ life'[v] = "closed" /\ owners'[v] = owners[v]
<1> USE DEF AppTypeOK, L!TypeOK
<1>1. ASSUME NEW u \in Attempt, NEW o, L!Give(o, u)
      PROVE  \/ life'[v] = life[v] /\ owners'[v] = owners[v]
             \/ \E p \in owners[v] :
                  /\ owners'[v] = owners[v] \ {p}
                  /\ IF owners[v] = {p} THEN life'[v] \in {"closing", "closed"} ELSE life'[v] = life[v]
                  /\ p[2] > 0 => life[p[1]] = "closed"
  <2>1. CASE u = v
    BY <1>1, <2>1 DEF L!Give, L!Ends
  <2>2. CASE u # v
    BY <1>1, <2>2 DEF L!Give, L!Ends
  <2> QED
    BY <2>1, <2>2
<1>2. ASSUME NEW a \in Attempt, L!Publish(a) \/ L!Discard(a), EndBuild(a) \/ (EagerEnds /\ a = eager)
      PROVE  life'[v] = life[v] /\ owners'[v] = owners[v]
  BY <1>2 DEF L!Publish, L!Discard, L!Ends, Ends
<1>3. ASSUME NEW g \in Goroutine, box[g] \in Attempt, L!Take(Holder(g), box[g])
      PROVE  \/ life'[v] = life[v] /\ owners'[v] = owners[v]
             \/ /\ v = box[g] /\ life[v] = "open" /\ life'[v] = "open"
                /\ owners'[v] = owners[v] \cup {Holder(g)}
  BY <1>3 DEF L!Take
<1>4. ASSUME NEW a \in Attempt, L!Start(a) \/ L!Finish(a)
      PROVE  \/ life'[v] = life[v] /\ owners'[v] = owners[v]
             \/ life[v] = "closing" /\ life'[v] = "closed" /\ owners'[v] = owners[v]
  BY <1>4 DEF L!Start, L!Finish
<1>5. ASSUME NEW a \in Attempt, NEW t \in Deps(a) PROVE t[1] \in Attempt
  BY DEF Deps
<1> QED
  BY <1>1, <1>2, <1>3, <1>4, <1>5, LifeKinds DEF lifeVars

LEMMA LifeInvStep ==
  ASSUME AppTypeOK, PlaceOK, StarterOK, WaitsExact, MakingOK, ReadsCounted, LifeOK, OwnersOK,
         [AppNext]_appVars
  PROVE  LifeOK'
<1> USE DEF AppTypeOK, L!TypeOK
<1>1. ASSUME NEW v \in Attempt, Ends(v)
      PROVE  /\ life'[v] = "absent" <=> phase'[v] \in Unbuilt
             /\ life'[v] = "open" <=> owners'[v] # {}
  <2>1. phase'[v] = "finished" /\ (L!Publish(v) \/ L!Discard(v))
    BY <1>1, EndFacts
  <2> QED
    BY <2>1, ZenonT(30) DEF L!Publish, L!Discard, L!Ends, LifeOK, Unbuilt
<1>2. ASSUME NEW v \in Attempt, ~Ends(v)
      PROVE  /\ life'[v] = "absent" <=> phase'[v] \in Unbuilt
             /\ life'[v] = "open" <=> owners'[v] # {}
  <2>1. phase'[v] \in Unbuilt <=> phase[v] \in Unbuilt
    BY <1>2, BuiltSteps
  <2>2. /\ life[v] = "absent" <=> phase[v] \in Unbuilt
        /\ life[v] = "open" <=> owners[v] # {}
    BY DEF LifeOK, Unbuilt
  <2>3. /\ life'[v] = "absent" <=> life[v] = "absent"
        /\ life'[v] = "open" <=> owners'[v] # {}
    <3>1. CASE life'[v] = life[v] /\ owners'[v] = owners[v]
      BY <2>2, <3>1
    <3>2. ASSUME NEW g \in Goroutine, life[v] = "open", life'[v] = "open",
                 owners'[v] = owners[v] \cup {Holder(g)}
          PROVE  owners'[v] # {}
      BY <3>2
    <3>3. ASSUME NEW o \in owners[v], owners'[v] = owners[v] \ {o},
                 IF owners[v] = {o} THEN life'[v] \in {"closing", "closed"}
                                    ELSE life'[v] = life[v]
          PROVE  /\ life[v] = "open" /\ life'[v] # "absent"
                 /\ life'[v] = "open" <=> owners'[v] # {}
      BY <2>2, <3>3
    <3>4. CASE life[v] = "closing" /\ life'[v] = "closed" /\ owners'[v] = owners[v]
      BY <2>2, <3>4
    <3> QED
      BY <1>2, <3>1, <3>2, <3>3, <3>4, LifeSteps, Zenon
  <2> QED
    BY <2>1, <2>2, <2>3
<1> QED
  BY <1>1, <1>2 DEF LifeOK, Unbuilt

-----------------------------------------------------------------------------
(* What builders read.                                                     *)

LEMMA GotSteps ==
  ASSUME TypeOK, [AppNext]_appVars
  PROVE  \/ UNCHANGED got
         \/ \E g \in Builders : TakeAndReturn(g) /\ got' = [got EXCEPT ![g[1]] = @ \cup {box[g]}]
<1>1. CASE Construct \/ \E g \in Builders, n \in Provider : FromUnconstructed(g, n)
  BY <1>1 DEF Construct, LazyJoins, LazyReturns, EagerBegins, EagerRecords, EagerEnds, EagerReturns,
              EagerPanics, FromUnconstructed, scopeVars
<1>2. CASE \E n \in Provider : Uses(n)
  BY <1>2 DEF Uses, Call, From, InvalidateCalled, Invalidate, scopeVars
<1>3. ASSUME NEW g \in Goroutine, TakeAndReturn(g)
      PROVE  \/ UNCHANGED got
             \/ g \in Builders /\ got' = [got EXCEPT ![g[1]] = @ \cup {box[g]}]
  BY <1>3 DEF TakeAndReturn, Acquired, Returns, Goroutine, Builders
<1>4. CASE \E g \in Goroutine : Strolls(g)
  BY <1>4 DEF Strolls, Hops, Grabs, Parks, EnterJoins, EnterStarts, scopeVars
<1>5. CASE \E g \in Builders : Read(g)
  BY <1>5 DEF Read, Link, FindsCycle, Unlink, Fails, Resume, scopeVars
<1>6. CASE \/ \E c \in Caller : Answer(c)
           \/ \E a \in Attempt : RecordBuild(a) \/ EndBuild(a) \/ WakeWaiters(a) \/ CleanUp(a)
           \/ \E i \in Invalidator :
                InvalidateReleases(i) \/ \E m \in Provider : InvalidateDependent(i, m) /\ Apart
           \/ BeginClose \/ (Cancel /\ Apart) \/ ShutAndRelease \/ UNCHANGED appVars
  BY <1>6 DEF Answer, EndBuild, Finish, WakeWaiters, CloseDone, CleanUp, RecordBuild, InvalidateReleases,
              ReleaseOld, InvalidateDependent, Invalidate, BeginClose, CloseBegins, Cancel,
              ShutAndRelease, Shut, appVars, vars, scopeVars
<1> QED
  BY <1>1, <1>2, <1>3, <1>4, <1>5, <1>6, Kinds

\* A value that is being built has been read by none, and reads only built ones.
LEMMA GainFacts ==
  ASSUME TypeOK, PlaceOK, EpochOK, NEW g \in Builders, TakeAndReturn(g)
  PROVE  /\ phase[g[1]] = "running" /\ \A b \in Attempt : g[1] \notin got[b]
         /\ box[g] \in Attempt /\ box[g] # g[1]
<1>1. phase[g[1]] = "running" /\ box[g] \in Attempt /\ phase[box[g]] \in {"finished", "done"}
  BY BuilderFacts DEF TakeAndReturn, Acquired, PlaceOK
<1>2. \A b \in Attempt : g[1] \notin got[b]
  BY <1>1 DEF EpochOK
<1> QED
  BY <1>1, <1>2

LEMMA GotAcyclicStep ==
  ASSUME TypeOK, PlaceOK, EpochOK, GotAcyclic, [AppNext]_appVars
  PROVE  GotAcyclic'
<1>1. CASE UNCHANGED got
  BY <1>1 DEF GotAcyclic
<1>2. ASSUME NEW g \in Builders, TakeAndReturn(g), got' = [got EXCEPT ![g[1]] = @ \cup {box[g]}],
             NEW S \in (SUBSET Attempt) \ {{}}
      PROVE  \E a \in S : \A b \in S : a \notin got'[b]
  <2>1. g[1] \in Attempt /\ \A b \in Attempt : g[1] \notin got'[b]
    BY <1>2, GainFacts, BuilderFacts DEF TypeOK, ScopeTypes
  <2>2. CASE g[1] \in S
    BY <2>1, <2>2
  <2>3. CASE g[1] \notin S
    <3>1. \A b \in S : got'[b] = got[b]
      BY <1>2, <2>3 DEF TypeOK, ScopeTypes
    <3> QED
      BY <3>1 DEF GotAcyclic
  <2> QED
    BY <2>2, <2>3
<1> QED
  BY <1>1, <1>2, GotSteps DEF GotAcyclic

-----------------------------------------------------------------------------
(* Owners.                                                                 *)

\* Except for a lease taken or given up, and a value read, nobody comes to own
\* anything but a provider what was built for it; only a value that is cleaned
\* up lets go of what it was built from.
LEMMA OtherOwners ==
  ASSUME AppTypeOK, PlaceOK, MakingOK, ReadsCounted, LifeOK, OwnersOK, [AppNext]_appVars,
         ~\E g \in Goroutine : TakeAndReturn(g), NEW v \in Attempt
  PROVE  /\ \A c \in Caller : <<c, 0>> \in owners'[v] =>  <<c, 0>> \in owners[v]
         /\ \A c \in Caller : ~Answer(c) => (<<c, 0>> \in owners[v] => <<c, 0>> \in owners'[v])
         /\ \A a \in Attempt : \A k \in 1..MaxReads : <<a, k>> \in owners'[v] => <<a, k>> \in owners[v]
         /\ \A a \in Attempt : \A k \in 1..MaxReads : life[a] # "closed" =>
              (<<a, k>> \in owners[v] => <<a, k>> \in owners'[v])
<1> USE DEF AppTypeOK, L!TypeOK
<1>1. /\ \A c \in Caller : <<c, 0>> # L!TheProvider
      /\ \A a \in Attempt : \A k \in 1..MaxReads : <<a, k>> # L!TheProvider
  BY AppAssumption, NodeAssumption DEF L!TheProvider, AppAssumption, NodeAssumption
<1>2. CASE \E a \in Attempt : L!Publish(a) \/ L!Discard(a)
  BY <1>1, <1>2 DEF L!Publish, L!Discard, LifeOK
<1>3. CASE \E u \in Attempt : L!Give(L!TheProvider, u)
  BY <1>1, <1>3 DEF L!Give
<1>4. ASSUME NEW d \in Caller, Answer(d), L!Give(<<d, 0>>, box[d]), box[d] \in Attempt
      PROVE  /\ \A c \in Caller : <<c, 0>> \in owners'[v] =>  <<c, 0>> \in owners[v]
             /\ \A c \in Caller : ~Answer(c) => (<<c, 0>> \in owners[v] => <<c, 0>> \in owners'[v])
             /\ \A a \in Attempt : \A k \in 1..MaxReads : <<a, k>> \in owners'[v] <=> <<a, k>> \in owners[v]
  BY <1>4 DEF L!Give
<1>5. ASSUME NEW a \in Attempt, NEW t \in Deps(a), L!Give(<<a, t[2]>>, t[1])
      PROVE  /\ \A c \in Caller : <<c, 0>> \in owners'[v] <=> <<c, 0>> \in owners[v]
             /\ \A b \in Attempt : \A k \in 1..MaxReads :
                  /\ <<b, k>> \in owners'[v] => <<b, k>> \in owners[v]
                  /\ life[b] # "closed" => (<<b, k>> \in owners[v] => <<b, k>> \in owners'[v])
  <2>1. t[1] \in Attempt /\ t[2] \in 1..MaxReads
    BY DEF Deps
  <2>2. owners' = [owners EXCEPT ![t[1]] = @ \ {<<a, t[2]>>}] /\ life[a] = "closed"
    BY <1>5, <2>1 DEF L!Give
  <2> QED
    BY <2>1, <2>2
<1>6. CASE UNCHANGED owners
  BY <1>6
<1>7. ASSUME NEW a \in Attempt, L!Start(a) \/ L!Finish(a) PROVE UNCHANGED owners
  BY <1>7 DEF L!Start, L!Finish
<1> QED
  BY <1>2, <1>3, <1>4, <1>5, <1>6, <1>7, LifeKinds DEF lifeVars

\* A call that is over stays over.
LEMMA OverStays ==
  ASSUME TypeOK, [AppNext]_appVars, NEW c \in Caller, at[c] = "over"
  PROVE  at'[c] = "over" /\ box'[c] = box[c]
<1> USE DEF TypeOK, CallTypes, GetTypes, Goto
<1>0. c \in Goroutine /\ c \notin Builders
  BY NodeAssumption DEF Goroutine, Builders, NodeAssumption
<1>1. CASE Construct \/ \E g \in Builders, n \in Provider : FromUnconstructed(g, n)
  BY <1>1 DEF Construct, LazyJoins, LazyReturns, EagerBegins, EagerRecords, EagerEnds, EagerReturns,
              EagerPanics, FromUnconstructed, getVars
<1>2. ASSUME NEW n \in Provider, Uses(n) PROVE at'[c] = "over" /\ box'[c] = box[c]
  BY <1>0, <1>2, BuilderFacts DEF Uses, Call, From, InvalidateCalled, Invalidate, getVars, Goroutine
<1>3. ASSUME NEW g \in Goroutine, TakeAndReturn(g) \/ Strolls(g)
      PROVE  at'[c] = "over" /\ box'[c] = box[c]
  <2>1. g # c
    BY <1>3 DEF TakeAndReturn, Acquired, Strolls, Hops, Grabs, Parks, EnterJoins, EnterStarts
  <2> QED
    BY <1>0, <1>3, <2>1 DEF TakeAndReturn, Acquired, Returns, Strolls, Hops, Grabs, Parks,
       EnterJoins, EnterStarts
<1>4. ASSUME NEW g \in Builders, Read(g) PROVE at'[c] = "over" /\ box'[c] = box[c]
  BY <1>0, <1>4, BuilderFacts DEF Read, Link, FindsCycle, Unlink, Fails, Resume, getVars
<1>5. CASE \/ \E d \in Caller : Answer(d)
           \/ \E a \in Attempt : RecordBuild(a) \/ EndBuild(a) \/ WakeWaiters(a) \/ CleanUp(a)
           \/ \E i \in Invalidator :
                InvalidateReleases(i) \/ \E m \in Provider : InvalidateDependent(i, m) /\ Apart
           \/ BeginClose \/ (Cancel /\ Apart) \/ ShutAndRelease \/ UNCHANGED appVars
  BY <1>5 DEF Answer, EndBuild, Finish, WakeWaiters, CloseDone, CleanUp, RecordBuild, InvalidateReleases,
              ReleaseOld, InvalidateDependent, Invalidate, BeginClose, CloseBegins, Cancel,
              ShutAndRelease, Shut, appVars, vars, getVars
<1> QED
  BY <1>1, <1>2, <1>3, <1>4, <1>5, Kinds

LEMMA ServingSteps ==
  ASSUME [AppNext]_appVars
  PROVE  \/ UNCHANGED serving
         \/ \E g \in Goroutine : TakeAndReturn(g)
         \/ \E c \in Caller : Answer(c) /\ serving' = serving \ {c} /\ UNCHANGED <<at, box>>
BY Kinds DEF Construct, LazyJoins, LazyReturns, EagerBegins, EagerRecords, EagerEnds, EagerReturns, EagerPanics,
     FromUnconstructed, Uses, Apart, Answer, EndBuild, WakeWaiters, CleanUp, RecordBuild, InvalidateReleases,
     BeginClose, ShutAndRelease, appVars, vars, getVars

\* Requests own what they are served with.
LEMMA LeasesStep ==
  ASSUME AppTypeOK, PlaceOK, MakingOK, ReadsCounted, LifeOK, OwnersOK, [AppNext]_appVars
  PROVE  /\ \A v \in Attempt, c \in Caller : <<c, 0>> \in owners'[v] <=> c \in serving' /\ box'[c] = v
         /\ \A c \in serving' : at'[c] = "over" /\ box'[c] \in Attempt
<1>0. TypeOK
  BY DEF AppTypeOK
<1>1. /\ serving \subseteq Caller
      /\ \A v \in Attempt, c \in Caller : <<c, 0>> \in owners[v] <=> c \in serving /\ box[c] = v
      /\ \A c \in serving : at[c] = "over" /\ box[c] \in Attempt
  BY DEF AppTypeOK, OwnersOK
<1>2. \A c \in serving : at'[c] = "over" /\ box'[c] = box[c]
  BY <1>0, <1>1, OverStays
<1>3. ASSUME NEW g \in Goroutine, TakeAndReturn(g)
      PROVE  /\ \A v \in Attempt, c \in Caller :
                  <<c, 0>> \in owners'[v] <=> c \in serving' /\ box'[c] = v
             /\ \A c \in serving' : at'[c] = "over" /\ box'[c] \in Attempt
  <2>1. /\ at[g] = "acquire" /\ box' = box /\ serving' = serving \cup ({g} \cap Caller)
        /\ box[g] \in Attempt
        /\ owners' = [owners EXCEPT ![box[g]] = @ \cup {Holder(g)}]
        /\ g \in Caller => at'[g] = "over"
    BY <1>0, <1>3 DEF TakeAndReturn, Takes, Acquired, Returns, Goto, PlaceOK, L!Take,
                      TypeOK, CallTypes, Goroutine
  <2>2. \A v \in Attempt : owners'[v] = IF v = box[g] THEN owners[v] \cup {Holder(g)} ELSE owners[v]
    BY <2>1 DEF AppTypeOK, L!TypeOK
  <2>3. CASE g \in Caller
    <3>1. Holder(g) = <<g, 0>> /\ serving' = serving \cup {g}
      BY <2>1, <2>3 DEF Holder
    <3> QED
      BY <1>1, <1>2, <2>1, <2>2, <2>3, <3>1
  <2>4. CASE g \notin Caller
    <3>1. serving' = serving
      BY <2>1, <2>4
    <3>2. \A c \in Caller : Holder(g) # <<c, 0>>
      BY <1>0, <2>1, <2>4, HolderFacts
    <3> QED
      BY <1>1, <1>2, <2>1, <2>2, <3>1, <3>2
  <2> QED
    BY <2>3, <2>4
<1>4. ASSUME ~\E g \in Goroutine : TakeAndReturn(g)
      PROVE  /\ \A v \in Attempt, c \in Caller :
                  <<c, 0>> \in owners'[v] <=> c \in serving' /\ box'[c] = v
             /\ \A c \in serving' : at'[c] = "over" /\ box'[c] \in Attempt
  <2>1. ASSUME NEW c \in Caller, Answer(c)
        PROVE  /\ \A v \in Attempt, d \in Caller :
                    <<d, 0>> \in owners'[v] <=> d \in serving' /\ box'[d] = v
               /\ \A d \in serving' : at'[d] = "over" /\ box'[d] \in Attempt
    <3>1. /\ owners' = [owners EXCEPT ![box[c]] = @ \ {<<c, 0>>}]
          /\ box' = box /\ serving' = serving \ {c} /\ box[c] \in Attempt /\ c \in serving
      BY <1>1, <2>1 DEF Answer, L!Give, vars, getVars
    <3>2. \A v \in Attempt : owners'[v] = IF v = box[c] THEN owners[v] \ {<<c, 0>>} ELSE owners[v]
      BY <3>1 DEF AppTypeOK, L!TypeOK
    <3>3. \A v \in Attempt : \A d \in Caller :
            <<d, 0>> \in owners'[v] <=> <<d, 0>> \in owners[v] /\ d # c
      <4>1. ASSUME NEW v \in Attempt, NEW d \in Caller, v = box[c]
            PROVE  <<d, 0>> \in owners'[v] <=> <<d, 0>> \in owners[v] /\ d # c
        <5>1. <<d, 0>> = <<c, 0>> <=> d = c
          OBVIOUS
        <5> QED
          BY <3>2, <4>1, <5>1
      <4>2. ASSUME NEW v \in Attempt, NEW d \in Caller, v # box[c]
            PROVE  <<d, 0>> \in owners'[v] <=> <<d, 0>> \in owners[v] /\ d # c
        <5>1. owners'[v] = owners[v] /\ (d = c => <<d, 0>> \notin owners[v])
          BY <1>1, <3>2, <4>2
        <5> QED
          BY <5>1
      <4> QED
        BY <4>1, <4>2
    <3> QED
      BY <1>1, <1>2, <3>1, <3>3
  <2>2. ASSUME ~\E c \in Caller : Answer(c)
        PROVE  /\ \A v \in Attempt, c \in Caller :
                    <<c, 0>> \in owners'[v] <=> c \in serving' /\ box'[c] = v
               /\ \A c \in serving' : at'[c] = "over" /\ box'[c] \in Attempt
    <3>1. serving' = serving
      BY <1>4, <2>2, ServingSteps
    <3>2. \A v \in Attempt, c \in Caller : <<c, 0>> \in owners'[v] <=> <<c, 0>> \in owners[v]
      BY <1>4, <2>2, OtherOwners
    <3> QED
      BY <1>1, <1>2, <3>1, <3>2
  <2> QED
    BY <2>1, <2>2
<1> QED
  BY <1>3, <1>4

\* Values own what they were built from.
LEMMA DepsStep ==
  ASSUME AppTypeOK, PlaceOK, StarterOK, WaitsExact, MakingOK, ReadsCounted, LifeOK, OwnersOK,
         [AppNext]_appVars
  PROVE  /\ \A v, a \in Attempt : \A k \in 1..MaxReads : <<a, k>> \in owners'[v] => v \in got'[a]
         /\ \A a \in Attempt : life'[a] # "closed" =>
              \A u \in got'[a] : \E k \in 1..MaxReads : <<a, k>> \in owners'[u]
<1>0. TypeOK
  BY DEF AppTypeOK
<1>1. /\ \A v, a \in Attempt : \A k \in 1..MaxReads : <<a, k>> \in owners[v] => v \in got[a]
      /\ \A a \in Attempt : life[a] # "closed" =>
           \A u \in got[a] : \E k \in 1..MaxReads : <<a, k>> \in owners[u]
  BY DEF OwnersOK
<1>2. \A a \in Attempt : got[a] \subseteq Attempt
  BY <1>0 DEF TypeOK, ScopeTypes
<1>3. ASSUME NEW g \in Goroutine, TakeAndReturn(g)
      PROVE  /\ \A v, a \in Attempt : \A k \in 1..MaxReads : <<a, k>> \in owners'[v] => v \in got'[a]
             /\ \A a \in Attempt : life'[a] # "closed" =>
                  \A u \in got'[a] : \E k \in 1..MaxReads : <<a, k>> \in owners'[u]
  <2>1. /\ at[g] = "acquire" /\ box[g] \in Attempt /\ life' = life
        /\ owners' = [owners EXCEPT ![box[g]] = @ \cup {Holder(g)}]
        /\ got' = IF g \in Caller THEN got ELSE [got EXCEPT ![g[1]] = @ \cup {box[g]}]
    BY <1>0, <1>3 DEF TakeAndReturn, Takes, Acquired, Returns, PlaceOK, L!Take
  <2>2. \A v \in Attempt : owners'[v] = IF v = box[g] THEN owners[v] \cup {Holder(g)} ELSE owners[v]
    BY <2>1 DEF AppTypeOK, L!TypeOK
  <2>3. CASE g \in Caller
    <3>1. got' = got /\ \A a \in Attempt : \A k \in 1..MaxReads : Holder(g) # <<a, k>>
      BY <2>1, <2>3 DEF Holder
    <3> QED
      BY <1>1, <1>2, <2>1, <2>2, <3>1
  <2>4. CASE g \notin Caller
    <3>1. PICK a \in Attempt, k \in 1..MaxReads : g[1] = a /\ Holder(g) = <<a, k>>
      BY <1>0, <2>1, <2>4, HolderFacts, BuilderFacts
    <3>2. \A b \in Attempt : got'[b] = IF b = a THEN got[b] \cup {box[g]} ELSE got[b]
      BY <1>0, <2>1, <2>4, <3>1 DEF TypeOK, ScopeTypes
    <3>3. ASSUME NEW v \in Attempt, NEW b \in Attempt, NEW j \in 1..MaxReads,
                 <<b, j>> \in owners'[v]
          PROVE  v \in got'[b]
      <4>1. CASE <<b, j>> \in owners[v]
        BY <1>1, <3>2, <4>1
      <4>2. CASE <<b, j>> \notin owners[v]
        <5>1. v = box[g] /\ <<b, j>> = <<a, k>>
          BY <2>2, <3>1, <3>3, <4>2
        <5>2. v = box[g] /\ b = a
          BY <5>1
        <5> QED
          BY <3>2, <5>2
      <4> QED
        BY <4>1, <4>2
    <3>4. ASSUME NEW b \in Attempt, life'[b] # "closed", NEW u \in got'[b]
          PROVE  \E j \in 1..MaxReads : <<b, j>> \in owners'[u]
      <4>1. CASE u \in got[b]
        <5>1. u \in Attempt /\ life[b] # "closed"
          BY <1>2, <2>1, <3>4, <4>1
        <5>2. PICK j \in 1..MaxReads : <<b, j>> \in owners[u]
          BY <1>1, <4>1, <5>1
        <5>3. <<b, j>> \in owners'[u]
          BY <2>2, <5>1, <5>2
        <5> QED
          BY <5>3
      <4>2. CASE u \notin got[b]
        <5>1. b = a /\ u = box[g]
          BY <3>2, <3>4, <4>2
        <5> QED
          BY <2>1, <2>2, <3>1, <5>1
      <4> QED
        BY <4>1, <4>2
    <3> QED
      BY <3>3, <3>4
  <2> QED
    BY <2>3, <2>4
<1>4. ASSUME ~\E g \in Goroutine : TakeAndReturn(g)
      PROVE  /\ \A v, a \in Attempt : \A k \in 1..MaxReads : <<a, k>> \in owners'[v] => v \in got'[a]
             /\ \A a \in Attempt : life'[a] # "closed" =>
                  \A u \in got'[a] : \E k \in 1..MaxReads : <<a, k>> \in owners'[u]
  <2>1. got' = got
    BY <1>0, <1>4, GotSteps, BuilderFacts
  <2>2. \A a \in Attempt : life[a] = "closed" => life'[a] = "closed"
    <3>1. ASSUME NEW a \in Attempt, life[a] = "closed", Ends(a) PROVE FALSE
      BY <3>1, EndFacts DEF L!Publish, L!Discard
    <3>2. ASSUME NEW a \in Attempt, life[a] = "closed", ~Ends(a) PROVE life'[a] = "closed"
      BY <3>2, LifeSteps DEF LifeOK
    <3> QED
      BY <3>1, <3>2
  <2> QED
    BY <1>1, <1>2, <1>4, <2>1, <2>2, OtherOwners
<1> QED
  BY <1>3, <1>4

\* A provider loses its value by Invalidate and by Close only.
LEMMA ValSteps ==
  ASSUME AppTypeOK, SingleFlight, UseOK, MakingOK, [AppNext]_appVars,
         NEW n \in Provider, val[n] # None
  PROVE  \/ val'[n] = val[n]
         \/ \E i \in Invalidator : InvalidateCalled(i, n) \/ InvalidateDependent(i, n)
         \/ ShutAndRelease /\ n = toShut[Len(toShut)]
<1>0. TypeOK /\ made \in 0..Len(Members)
  BY DEF AppTypeOK
<1> USE DEF TypeOK, NodeTypes
<1>1. CASE Construct
  <2>1. EagerReturns => Current \notin Constructed
    BY <1>0, ConstructedFacts DEF EagerReturns, MakingOK
  <2> QED
    BY <1>0, <1>1, <2>1 DEF Construct, LazyJoins, LazyReturns, EagerBegins, EagerRecords, EagerEnds,
       EagerReturns, EagerPanics, nodeVars, UseOK
<1>2. CASE \E g \in Builders, m \in Provider : FromUnconstructed(g, m)
  BY <1>2 DEF FromUnconstructed, nodeVars
<1>3. CASE \E m \in Provider : Uses(m)
  <2>1. ASSUME NEW m \in Provider, NEW i \in Invalidator, InvalidateCalled(i, m)
        PROVE  val'[n] = val[n] \/ InvalidateCalled(i, n)
    <3>1. m # n => val'[n] = val[n]
      BY <2>1 DEF InvalidateCalled, Invalidate
    <3> QED
      BY <2>1, <3>1
  <2>2. ASSUME NEW m \in Provider,
               (\E c \in Caller : Call(c, m)) \/ \E g \in Builders : From(g, m)
        PROVE  val' = val
    BY <2>2 DEF Call, From, nodeVars
  <2> QED
    BY <1>3, <2>1, <2>2 DEF Uses
<1>4. CASE \E g \in Goroutine : TakeAndReturn(g) \/ Strolls(g)
  BY <1>4 DEF TakeAndReturn, Acquired, Strolls, Hops, Grabs, Parks, EnterJoins, EnterStarts, nodeVars
<1>5. CASE \E g \in Builders : Read(g)
  BY <1>5 DEF Read, Link, FindsCycle, Unlink, nodeVars
<1>6. ASSUME NEW a \in Attempt, EndBuild(a) PROVE val'[n] = val[n]
  <2>1. of[a] \in Provider \ Eager /\ phase[a] = "running"
    BY <1>0, <1>6 DEF EndBuild, Finish, BuilderReturns, AttemptTypes
  <2>2. a # None /\ cur[of[a]] = a
    BY <2>1, NodeAssumption DEF SingleFlight, InFlight, Attempt, None, NodeAssumption
  <2>3. of[a] # n
    BY <2>2 DEF SingleFlight
  <2> QED
    BY <1>6, <2>3 DEF EndBuild, Finish
<1>7. ASSUME NEW i \in Invalidator, NEW m \in Provider, InvalidateDependent(i, m)
      PROVE  val'[n] = val[n] \/ InvalidateDependent(i, n)
  <2>1. m # n => val'[n] = val[n]
    BY <1>7 DEF InvalidateDependent, Invalidate
  <2> QED
    BY <1>7, <2>1
<1>8. CASE ShutAndRelease
  BY <1>8 DEF ShutAndRelease, Shut
<1>9. CASE \/ \E c \in Caller : Answer(c)
           \/ \E a \in Attempt : RecordBuild(a) \/ WakeWaiters(a) \/ CleanUp(a)
           \/ \E i \in Invalidator : InvalidateReleases(i)
           \/ BeginClose \/ (Cancel /\ Apart) \/ UNCHANGED appVars
  BY <1>9 DEF Answer, WakeWaiters, CloseDone, CleanUp, RecordBuild, InvalidateReleases, ReleaseOld,
              BeginClose, CloseBegins, Cancel, appVars, vars, nodeVars
<1> QED
  BY <1>1, <1>2, <1>3, <1>4, <1>5, <1>6, <1>7, <1>8, <1>9, Kinds

\* Only a step of i's changes the recursion of i.
LEMMA FramesStay ==
  ASSUME TypeOK, [AppNext]_appVars, NEW i \in Invalidator, ~InvalidateReleases(i),
         ~\E n \in Provider : InvalidateCalled(i, n) \/ InvalidateDependent(i, n)
  PROVE  frames'[i] = frames[i]
<1> USE DEF TypeOK, InvalTypes
<1>1. CASE Construct
  BY <1>1 DEF Construct, LazyJoins, LazyReturns, EagerBegins, EagerRecords, EagerEnds, EagerReturns,
              EagerPanics, invalVars
<1>2. CASE \E g \in Goroutine : TakeAndReturn(g) \/ Strolls(g)
  BY <1>2 DEF TakeAndReturn, Acquired, Strolls, Hops, Grabs, Parks, EnterJoins,
              EnterStarts, invalVars
<1>3. CASE \E g \in Builders : Read(g)
  BY <1>3 DEF Read, Link, FindsCycle, Unlink, invalVars
<1>4. ASSUME NEW j \in Invalidator, j # i, NEW n \in Provider,
             InvalidateCalled(j, n) \/ InvalidateDependent(j, n)
      PROVE  frames'[i] = frames[i]
  BY <1>4 DEF InvalidateCalled, InvalidateDependent, Invalidate
<1>5. ASSUME NEW j \in Invalidator, j # i, InvalidateReleases(j) PROVE frames'[i] = frames[i]
  BY <1>5 DEF InvalidateReleases, ReleaseOld
<1> QED
  BY <1>1, <1>2, <1>3, <1>4, <1>5, Kinds
     DEF Uses, Call, From, FromUnconstructed, Answer, EndBuild, Finish, WakeWaiters, CloseDone,
         CleanUp, RecordBuild, BeginClose, CloseBegins, Cancel, ShutAndRelease, Shut, appVars, vars, invalVars

\* The recursion of invalidate keeps the values it has swapped out.
LEMMA OldStays ==
  ASSUME TypeOK, UseOK, [AppNext]_appVars, NEW i \in Invalidator, NEW k \in 1..Len(frames[i])
  PROVE  \/ k \in 1..Len(frames'[i]) /\ frames'[i][k].old = frames[i][k].old
         \/ InvalidateReleases(i) /\ k = Len(frames[i])
<1>1. PICK l \in Nat : l = Len(frames[i])
  BY FramesFacts
<1>2. ASSUME NEW j \in Invalidator, NEW n \in Provider, InvalidateCalled(j, n) \/ InvalidateDependent(j, n)
      PROVE  k \in 1..Len(frames'[i]) /\ frames'[i][k].old = frames[i][k].old
  <2>1. since[j] = <<>> => frames[j] = <<>>
    BY DEF UseOK
  <2>2. LET F == Len(frames[j]) IN
        /\ Len(frames'[j]) = F + 1
        /\ \A t \in 1..F : frames'[j][t].old = frames[j][t].old
        /\ \A t \in Invalidator : t # j => frames'[t] = frames[t]
    BY <1>2, <2>1, InvalidateFrames
  <2>3. CASE j = i
    <3>1. Len(frames'[i]) = l + 1 /\ \A t \in 1..l : frames'[i][t].old = frames[i][t].old
      BY <1>1, <2>2, <2>3
    <3> QED
      BY <1>1, <3>1
  <2>4. CASE j # i
    BY <2>2, <2>4
  <2> QED
    BY <2>3, <2>4
<1>3. ASSUME NEW j \in Invalidator, InvalidateReleases(j)
      PROVE  \/ k \in 1..Len(frames'[i]) /\ frames'[i][k].old = frames[i][k].old
             \/ j = i /\ k = Len(frames[i])
  <2>1. ReleaseOld(j)
    BY <1>3 DEF InvalidateReleases
  <2>2. CASE j = i
    <3>1. Len(frames'[i]) = l - 1 /\ \A t \in 1..(l - 1) : frames'[i][t] = frames[i][t]
      BY <1>1, <2>1, <2>2, ReleaseFrames
    <3> QED
      BY <1>1, <2>2, <3>1
  <2>3. CASE j # i
    BY <2>1, <2>3, ReleaseFrames
  <2> QED
    BY <2>2, <2>3
<1> QED
  BY <1>2, <1>3, FramesStay

\* A provider owns its value until it has let go of it.
LEMMA ProviderOwnsStep ==
  ASSUME AppTypeOK, PlaceOK, StarterOK, SingleFlight, WaitsExact, UseOK, MakingOK,
         ReadsCounted, LifeOK, OwnersOK, [AppNext]_appVars,
         NEW v \in Attempt, L!TheProvider \in owners'[v]
  PROVE  \/ val'[of'[v]] = v
         \/ making' = "storing" /\ eager' = v
         \/ \E i \in Invalidator : \E k \in 1..Len(frames'[i]) : frames'[i][k].old = v
<1>0. TypeOK /\ v # None
  BY NodeAssumption DEF AppTypeOK, NodeAssumption, Attempt, None
<1>1. CASE Ends(v)
  <2>1. owners[v] = {} /\ L!Publish(v) /\ of[v] \in Provider /\ phase[v] = "running"
    <3>1. phase[v] = "running" /\ (L!Publish(v) \/ L!Discard(v))
      BY <1>1, EndFacts
    <3>2. owners[v] = {}
      BY <3>1 DEF LifeOK
    <3> QED
      BY <1>0, <3>1, <3>2 DEF L!Discard, TypeOK, AttemptTypes
  <2>2. CASE EagerEnds /\ v = eager
    BY <2>1, <2>2 DEF EagerEnds, L!Publish, L!Discard, L!Ends, AppTypeOK, L!TypeOK, makeVars
  <2>3. CASE EndBuild(v)
    <3>1. Publishable(v)
      BY <2>1, <2>3 DEF EndBuild, L!Publish, L!Discard, L!Ends, AppTypeOK, L!TypeOK
    <3>2. val' = [val EXCEPT ![of[v]] = v] /\ of' = of
      BY <1>0, <2>3, <3>1 DEF EndBuild, Finish, Publishable, TypeOK, AttemptTypes
    <3> QED
      BY <1>0, <2>1, <3>2 DEF TypeOK, NodeTypes
  <2> QED
    BY <1>1, <2>2, <2>3 DEF Ends
<1>2. CASE ~Ends(v)
  <2>1. L!TheProvider \in owners[v]
    <3>1. ASSUME NEW g \in Goroutine, TakeAndReturn(g) PROVE Holder(g) # L!TheProvider
      BY <1>0, <3>1, HolderFacts DEF TakeAndReturn, Acquired, AppTypeOK
    <3> QED
      BY <1>2, <3>1, LifeSteps
  <2>2. of'[v] = of[v] /\ of[v] \in Provider
    <3>1. phase[v] # "unused"
      BY <2>1 DEF LifeOK
    <3> QED
      BY <1>0, <1>2, <3>1, BuiltSteps DEF TypeOK, AttemptTypes
  <2>3. CASE val[of[v]] = v
    <3>1. PICK n \in Provider : n = of[v] /\ val[n] = v
      BY <2>2, <2>3
    <3>2. CASE val'[n] = val[n]
      BY <2>2, <3>1, <3>2
    <3>3. ASSUME NEW i \in Invalidator, InvalidateCalled(i, n) \/ InvalidateDependent(i, n)
          PROVE  \E k \in 1..Len(frames'[i]) : frames'[i][k].old = v
      <4>1. since[i] = <<>> => frames[i] = <<>>
        BY DEF UseOK
      <4>2. PICK l \in Nat : l = Len(frames[i])
        BY <1>0, FramesFacts
      <4>3. Len(frames'[i]) = l + 1 /\ frames'[i][l + 1].old = v
        BY <1>0, <3>1, <3>3, <4>1, <4>2, InvalidateFrames
      <4> QED
        BY <4>3
    <3>4. CASE ShutAndRelease /\ n = toShut[Len(toShut)]
      <4>1. L!Give(L!TheProvider, v)
        BY <1>0, <3>1, <3>4 DEF ShutAndRelease, LetsGo
      <4> QED
        BY <4>1 DEF L!Give, AppTypeOK, L!TypeOK
    <3> QED
      BY <1>0, <3>1, <3>2, <3>3, <3>4, ValSteps
  <2>4. CASE making = "storing" /\ eager = v
    <3>1. CASE ~Construct
      BY <2>4, <3>1, MakingStays DEF makeVars
    <3>2. CASE EagerReturns
      BY <1>0, <2>2, <2>4, <3>2 DEF EagerReturns, MakingOK, TypeOK, NodeTypes
    <3>3. CASE Construct /\ ~EagerReturns
      BY <2>4, <3>3 DEF Construct, LazyJoins, LazyReturns, EagerBegins, EagerRecords, EagerEnds,
                        EagerPanics, MayConstruct
    <3> QED
      BY <3>1, <3>2, <3>3
  <2>5. ASSUME NEW i \in Invalidator, NEW k \in 1..Len(frames[i]), frames[i][k].old = v
        PROVE  \E h \in 1..Len(frames'[i]) : frames'[i][h].old = v
    <3>1. ASSUME InvalidateReleases(i), k = Len(frames[i]) PROVE FALSE
      <4>1. Top(i).old = v
        BY <1>0, <2>5, <3>1, FramesFacts DEF InvalidateReleases, ReleaseOld
      <4>2. L!Give(L!TheProvider, v)
        BY <1>0, <3>1, <4>1 DEF InvalidateReleases, LetsGo
      <4> QED
        BY <4>2 DEF L!Give, AppTypeOK, L!TypeOK
    <3> QED
      BY <1>0, <2>5, <3>1, OldStays
  <2> QED
    BY <2>1, <2>3, <2>4, <2>5 DEF OwnersOK
<1> QED
  BY <1>1, <1>2

LEMMA OwnersStep ==
  ASSUME AppTypeOK, PlaceOK, StarterOK, SingleFlight, WaitsExact, UseOK, MakingOK,
         ReadsCounted, LifeOK, OwnersOK, [AppNext]_appVars
  PROVE  OwnersOK'
  BY LeasesStep, DepsStep, ProviderOwnsStep DEF OwnersOK

-----------------------------------------------------------------------------
(* The profile.                                                            *)

\* A provider comes to have a value at the end of a build.
LEMMA ValGains ==
  ASSUME TypeOK, [AppNext]_appVars, ~\E a \in Attempt : EndBuild(a), NEW n \in Provider,
         ~(EagerReturns /\ n = Current)
  PROVE  val'[n] \in {val[n], None}
<1> USE DEF TypeOK, NodeTypes
<1>1. CASE Construct
  BY <1>1 DEF Construct, LazyJoins, LazyReturns, EagerBegins, EagerRecords, EagerEnds, EagerReturns,
              EagerPanics, nodeVars
<1>2. CASE \/ \E m \in Provider : Uses(m)
           \/ \E i \in Invalidator :
                InvalidateReleases(i) \/ \E m \in Provider : InvalidateDependent(i, m) /\ Apart
           \/ ShutAndRelease
  BY <1>2 DEF Uses, Call, From, InvalidateCalled, InvalidateDependent, Invalidate,
              InvalidateReleases, ReleaseOld, ShutAndRelease, Shut, nodeVars
<1>3. CASE \E g \in Goroutine : TakeAndReturn(g) \/ Strolls(g)
  BY <1>3 DEF TakeAndReturn, Acquired, Strolls, Hops, Grabs, Parks, EnterJoins, EnterStarts, nodeVars
<1>4. CASE \E g \in Builders : Read(g)
  BY <1>4 DEF Read, Link, FindsCycle, Unlink, nodeVars
<1>5. CASE \/ \E g \in Builders, m \in Provider : FromUnconstructed(g, m)
           \/ \E c \in Caller : Answer(c)
           \/ \E a \in Attempt : RecordBuild(a) \/ WakeWaiters(a) \/ CleanUp(a)
           \/ BeginClose \/ (Cancel /\ Apart) \/ UNCHANGED appVars
  BY <1>5 DEF FromUnconstructed, Answer, WakeWaiters, CloseDone, CleanUp, RecordBuild, BeginClose,
              CloseBegins, Cancel, appVars, vars, nodeVars
<1> QED
  BY <1>1, <1>2, <1>3, <1>4, <1>5, Kinds

LEMMA RunsFacts ==
  ASSUME NEW S \in SUBSET Attempt
  PROVE  IsFiniteSet(S) /\ Cardinality(S) \in 0..MaxAttempts
<1>1. MaxAttempts \in Nat
  BY NodeAssumption DEF NodeAssumption
<1>2. IsFiniteSet(Attempt) /\ Cardinality(Attempt) = MaxAttempts
  <2>1. IsFiniteSet(1..MaxAttempts)
        /\ Cardinality(1..MaxAttempts) = IF 1 > MaxAttempts THEN 0 ELSE MaxAttempts - 1 + 1
    BY <1>1, FS_Interval
  <2> QED
    BY <1>1, <2>1 DEF Attempt
<1>3. IsFiniteSet(S) /\ Cardinality(S) <= MaxAttempts
  BY <1>2, FS_Subset
<1>4. Cardinality(S) \in Nat
  BY <1>3, FS_CardinalityType
<1> QED
  BY <1>1, <1>3, <1>4

\* The end of a build is recorded once, and nothing else is.
LEMMA RunSteps ==
  ASSUME AppTypeOK, PlaceOK, StarterOK, WaitsExact, MakingOK, EndedOK, [AppNext]_appVars
  PROVE  \/ UNCHANGED profVars /\ \A n \in Provider : Runs(n)' = Runs(n)
         \/ \E v \in Attempt, n \in Provider, e \in Errors \cup {"none"} :
              /\ RecordBuild(v) \/ (EagerRecords /\ v = eager)
              /\ of[v] = n /\ phase[v] = "running"
              /\ Record(n, e) /\ ended' = [ended EXCEPT ![v] = e]
              /\ v \notin Runs(n) /\ Runs(n)' = Runs(n) \cup {v}
              /\ \A m \in Provider : m # n => Runs(m)' = Runs(m)
<1>0. ended \in [Attempt -> Errors \cup {"none", "not"}] /\ TypeOK
  BY DEF AppTypeOK
<1>1. ASSUME NEW v \in Attempt, Build(v), UNCHANGED of
      PROVE  \E n \in Provider, e \in Errors \cup {"none"} :
              /\ of[v] = n /\ phase[v] = "running"
              /\ Record(n, e) /\ ended' = [ended EXCEPT ![v] = e]
              /\ v \notin Runs(n) /\ Runs(n)' = Runs(n) \cup {v}
              /\ \A m \in Provider : m # n => Runs(m)' = Runs(m)
  <2>1. PICK e \in Errors \cup {"none"} :
          /\ phase[v] = "running" /\ ended[v] = "not"
          /\ Record(of[v], e) /\ ended' = [ended EXCEPT ![v] = e]
    BY <1>1 DEF Build, BuilderReturns
  <2>2. PICK n \in Provider : of[v] = n
    BY <1>0, <2>1 DEF TypeOK, AttemptTypes
  <2>3. \A a \in Attempt : ended'[a] # "not" <=> a = v \/ ended[a] # "not"
    BY <1>0, <2>1 DEF Errors
  <2>4. /\ v \notin Runs(n) /\ Runs(n)' = Runs(n) \cup {v}
        /\ \A m \in Provider : m # n => Runs(m)' = Runs(m)
    BY <1>1, <2>1, <2>2, <2>3 DEF Runs
  <2> QED
    BY <2>1, <2>2, <2>4
<1>2. ASSUME UNCHANGED profVars, NEW n \in Provider PROVE Runs(n)' = Runs(n)
  <2>1. ASSUME NEW a \in Attempt, ended[a] # "not" PROVE of'[a] = of[a]
    <3>1. phase[a] # "unused"
      BY <2>1 DEF EndedOK
    <3> QED
      BY <3>1, BuiltSteps, EndFacts
  <2> QED
    BY <1>2, <2>1 DEF Runs, profVars
<1>3. CASE EagerRecords
  <2>1. eager \in Attempt /\ Build(eager) /\ UNCHANGED of
    BY <1>3 DEF EagerRecords, MakingOK, builtVars
  <2> QED
    BY <1>1, <1>3, <2>1
<1>4. ASSUME NEW v \in Attempt, RecordBuild(v) PROVE Build(v) /\ UNCHANGED of
  BY <1>4 DEF RecordBuild, vars, builtVars
<1> QED
  BY <1>1, <1>2, <1>3, <1>4, RecordSteps

\* A provider without an entry gets one, at the end of the list.
LEMMA RecordFacts ==
  ASSUME built \in Seq(Provider), NEW n \in Provider, NEW e,
         \A i, j \in 1..Len(built) : built[i] = built[j] => i = j,
         \A m \in Provider : rec[m].attempts > 0 <=> \E i \in 1..Len(built) : built[i] = m,
         \A m \in Provider : rec[m].attempts \in Nat,
         Record(n, e)
  PROVE  /\ built' \in Seq(Provider)
         /\ \A i, j \in 1..Len(built') : built'[i] = built'[j] => i = j
         /\ \A m \in Provider :
              (\E i \in 1..Len(built') : built'[i] = m) <=>
                m = n \/ \E i \in 1..Len(built) : built[i] = m
<1>1. CASE rec[n].attempts = 0
  <2>1. PICK l \in Nat : l = Len(built)
    OBVIOUS
  <2>2. built' = Append(built, n)
    BY <1>1 DEF Record
  <2>3. /\ built' \in Seq(Provider) /\ Len(built') = l + 1 /\ built'[l + 1] = n
        /\ \A i \in 1..l : built'[i] = built[i]
    BY <2>1, <2>2
  <2>4. \A i \in 1..l : built[i] # n
    BY <1>1, <2>1
  <2>5. \A i \in 1..(l + 1) : i \in 1..l \/ i = l + 1
    BY <2>1
  <2>6. \A i, j \in 1..(l + 1) : built'[i] = built'[j] => i = j
    BY <2>1, <2>3, <2>4, <2>5
  <2>7. ASSUME NEW m \in Provider
        PROVE  (\E i \in 1..(l + 1) : built'[i] = m) <=> m = n \/ \E i \in 1..l : built[i] = m
    <3>1. l + 1 \in 1..(l + 1) /\ \A i \in 1..l : i \in 1..(l + 1)
      BY <2>1
    <3> QED
      BY <2>3, <2>5, <3>1
  <2> QED
    BY <2>1, <2>3, <2>6, <2>7
<1>2. CASE rec[n].attempts # 0
  <2>1. built' = built /\ rec[n].attempts > 0
    BY <1>2 DEF Record
  <2> QED
    BY <2>1
<1> QED
  BY <1>1, <1>2

LEMMA ProfileStep ==
  ASSUME AppTypeOK, PlaceOK, StarterOK, SingleFlight, WaitsExact, UseOK, MakingOK,
         ProfileTrue, InTurn, EndedOK, [AppNext]_appVars
  PROVE  /\ built' \in Seq(Provider)
         /\ rec' \in [Provider -> [err : Errors \cup {"none"}, attempts : 0..MaxAttempts]]
         /\ ended' \in [Attempt -> Errors \cup {"none", "not"}]
         /\ ProfileTrue'
<1>0. /\ TypeOK /\ made \in 0..Len(Members) /\ built \in Seq(Provider)
      /\ rec \in [Provider -> [err : Errors \cup {"none"}, attempts : 0..MaxAttempts]]
      /\ ended \in [Attempt -> Errors \cup {"none", "not"}]
  BY DEF AppTypeOK
<1>1. /\ \A i, j \in 1..Len(built) : built[i] = built[j] => i = j
      /\ \A n \in Provider :
           /\ rec[n].attempts = Cardinality(Runs(n))
           /\ rec[n].attempts > 0 <=> \E i \in 1..Len(built) : built[i] = n
           /\ \A a \in Runs(n) : (\A b \in Runs(n) : b <= a) => rec[n].err = ended[a]
           /\ val[n] # None => rec[n].err = "none"
  BY DEF ProfileTrue
\* The build under way is the last of its provider's.
<1>2. ASSUME NEW v \in Attempt, phase[v] = "running", NEW n \in Provider, of[v] = n
      PROVE  \A b \in Runs(n) : b <= v
  <2>1. ASSUME NEW b \in Runs(n), v < b PROVE FALSE
    <3>1. b \in Attempt /\ of[b] = n /\ phase[b] # "unused"
      BY <2>1 DEF Runs, EndedOK
    <3> QED
      BY <1>2, <2>1, <3>1 DEF InTurn
  <2>2. \A b \in Runs(n) : b \in Nat /\ v \in Nat
    BY DEF Runs, Attempt
  <2> QED
    BY <2>1, <2>2
<1>3. ASSUME UNCHANGED profVars, NEW n \in Provider, val'[n] # None PROVE rec[n].err = "none"
  <2>1. CASE \E a \in Attempt : EndBuild(a) /\ of[a] = n /\ val[n] = None
    <3>1. PICK a \in Attempt : EndBuild(a) /\ of[a] = n /\ val[n] = None
      BY <2>1
    <3>2. PICK e \in Errors \cup {"none"} :
            /\ BuilderReturns(a, e) /\ err' = [err EXCEPT ![a] = e]
            /\ val' = IF e = "none" /\ Publishes(a) THEN [val EXCEPT ![n] = a] ELSE val
      BY <3>1 DEF EndBuild, Finish
    <3>3. phase[a] = "running" /\ ended[a] = "none"
      BY <1>0, <1>3, <3>1, <3>2 DEF EndBuild, BuilderReturns, TypeOK, AttemptTypes
    <3>4. a \in Runs(n)
      BY <3>1, <3>3 DEF Runs
    <3> QED
      BY <1>1, <1>2, <3>1, <3>3, <3>4
  <2>2. CASE EagerReturns /\ n = Current
    BY <2>2 DEF EagerReturns, MakingOK
  <2>3. CASE val[n] # None
    BY <1>1, <2>3
  <2>4. ASSUME NEW a \in Attempt, EndBuild(a), of[a] # n PROVE val'[n] = val[n]
    BY <1>0, <2>4 DEF EndBuild, Finish, TypeOK, NodeTypes
  <2> QED
    BY <1>0, <1>3, <2>1, <2>2, <2>3, <2>4, ValGains
<1>4. CASE UNCHANGED profVars /\ \A n \in Provider : Runs(n)' = Runs(n)
  <2>1. built' = built /\ rec' = rec /\ ended' = ended
    BY <1>4 DEF profVars
  <2>2. \A n \in Provider : val'[n] # None => rec[n].err = "none"
    BY <1>3, <1>4
  <2>3. ASSUME NEW n \in Provider
        PROVE  /\ rec'[n].attempts = Cardinality(Runs(n)')
               /\ \A a \in Runs(n)' : (\A b \in Runs(n)' : b <= a) => rec'[n].err = ended'[a]
    <3>1. Runs(n)' = Runs(n)
      BY <1>4
    <3> QED
      BY <1>1, <2>1, <3>1
  <2>4. ProfileTrue'
    BY <1>1, <2>1, <2>2, <2>3 DEF ProfileTrue
  <2> QED
    BY <1>0, <2>1, <2>4
<1>5. ASSUME NEW v \in Attempt, NEW n \in Provider, NEW e \in Errors \cup {"none"},
             RecordBuild(v) \/ (EagerRecords /\ v = eager),
             of[v] = n, phase[v] = "running", Record(n, e), ended' = [ended EXCEPT ![v] = e],
             v \notin Runs(n), Runs(n)' = Runs(n) \cup {v},
             \A m \in Provider : m # n => Runs(m)' = Runs(m)
      PROVE  /\ built' \in Seq(Provider)
             /\ rec' \in [Provider -> [err : Errors \cup {"none"}, attempts : 0..MaxAttempts]]
             /\ ended' \in [Attempt -> Errors \cup {"none", "not"}]
             /\ ProfileTrue'
  <2>1. PICK k \in Nat : k = Cardinality(Runs(n)) /\ rec[n].attempts = k
    BY <1>1, RunsFacts, SMTT(30) DEF Runs
  <2>2. Cardinality(Runs(n) \cup {v}) = k + 1 /\ k + 1 \in 0..MaxAttempts
    <3>1. Runs(n) \in SUBSET Attempt /\ Runs(n) \cup {v} \in SUBSET Attempt
      BY DEF Runs
    <3>2. Cardinality(Runs(n) \cup {v}) = k + 1
      BY <1>5, <2>1, <3>1, RunsFacts, FS_AddElement
    <3> QED
      BY <3>1, <3>2, RunsFacts
  <2>3. rec' = [rec EXCEPT ![n] = [err |-> e, attempts |-> k + 1]]
    BY <1>5, <2>1 DEF Record, LastError
  <2>4. /\ rec' \in [Provider -> [err : Errors \cup {"none"}, attempts : 0..MaxAttempts]]
        /\ rec'[n].err = e /\ rec'[n].attempts = k + 1
        /\ \A m \in Provider : m # n => rec'[m] = rec[m]
    BY <1>0, <2>2, <2>3
  <2>5. \A m \in Provider : rec[m].attempts \in Nat
    BY <1>0
  <2>6. /\ built' \in Seq(Provider)
        /\ \A i, j \in 1..Len(built') : built'[i] = built'[j] => i = j
        /\ \A m \in Provider :
             (\E i \in 1..Len(built') : built'[i] = m) <=>
               m = n \/ \E i \in 1..Len(built) : built[i] = m
    <3>1. built \in Seq(Provider) /\ Record(n, e)
      BY <1>0, <1>5
    <3>2. /\ \A i, j \in 1..Len(built) : built[i] = built[j] => i = j
          /\ \A m \in Provider :
               rec[m].attempts > 0 <=> \E i \in 1..Len(built) : built[i] = m
      BY <1>1
    <3> QED
      BY <2>5, <3>1, <3>2, RecordFacts, ZenonT(30)
  <2>7. \A m \in Provider : /\ rec'[m].attempts = Cardinality(Runs(m)')
                            /\ rec'[m].attempts > 0 <=> \E i \in 1..Len(built') : built'[i] = m
    <3>1. rec'[n].attempts = Cardinality(Runs(n)') /\ rec'[n].attempts > 0
      BY <1>5, <2>2, <2>4
    <3>2. ASSUME NEW m \in Provider, m # n
          PROVE  /\ rec'[m].attempts = Cardinality(Runs(m)')
                 /\ rec'[m].attempts > 0 <=> \E i \in 1..Len(built') : built'[i] = m
      <4>1. rec'[m] = rec[m] /\ Runs(m)' = Runs(m)
        BY <1>5, <2>4, <3>2
      <4> QED
        BY <1>1, <2>6, <3>2, <4>1
    <3> QED
      BY <2>6, <3>1, <3>2
  <2>8. ASSUME NEW m \in Provider, val'[m] # None PROVE rec'[m].err = "none"
    <3>1. val' = val
      BY <1>5 DEF RecordBuild, EagerRecords, vars, nodeVars
    <3>2. CASE RecordBuild(v)
      <4>1. n \notin Eager /\ v # None
        BY <1>5, <3>2, NodeAssumption DEF RecordBuild, NodeAssumption, Attempt, None
      <4>2. val[n] = None
        BY <1>5, <4>1 DEF SingleFlight, InFlight
      <4> QED
        BY <1>1, <2>4, <2>8, <3>1, <4>2
    <3>3. CASE EagerRecords /\ v = eager
      <4>1. n = Current /\ val[n] = None
        BY <1>0, <1>5, <3>3, ConstructedFacts DEF EagerRecords, MakingOK, UseOK
      <4> QED
        BY <1>1, <2>4, <2>8, <3>1, <4>1
    <3> QED
      BY <1>5, <3>2, <3>3
  <2>9. ASSUME NEW m \in Provider, NEW a \in Runs(m)', \A b \in Runs(m)' : b <= a
        PROVE  rec'[m].err = ended'[a]
    <3>1. CASE m = n
      <4>1. v <= a /\ (a = v \/ a \in Runs(n))
        BY <1>5, <2>9, <3>1
      <4>2. a = v \/ a <= v
        BY <1>2, <1>5, <4>1
      <4>3. a \in Nat /\ v \in Nat
        BY <4>1 DEF Runs, Attempt
      <4>4. a = v
        BY <4>1, <4>2, <4>3
      <4> QED
        BY <1>0, <1>5, <2>4, <3>1, <4>4
    <3>2. CASE m # n
      <4>1. Runs(m)' = Runs(m) /\ rec'[m] = rec[m]
        BY <1>5, <2>4, <3>2
      <4>2. a \in Attempt /\ a # v
        BY <1>5, <2>9, <3>2, <4>1 DEF Runs
      <4> QED
        BY <1>0, <1>1, <1>5, <2>9, <4>1, <4>2
    <3> QED
      BY <3>1, <3>2
  <2>10. ended' \in [Attempt -> Errors \cup {"none", "not"}]
    BY <1>0, <1>5
  <2> QED
    BY <2>4, <2>6, <2>7, <2>8, <2>9, <2>10 DEF ProfileTrue
<1> QED
  BY <1>4, <1>5, RunSteps

-----------------------------------------------------------------------------
(* Builds, one after the other.                                            *)

\* What a step does to a: nothing, or it is created when the provider's other
\* builds are finished, runs, ends, or is done.
LEMMA AttemptSteps ==
  ASSUME AppTypeOK, PlaceOK, StarterOK, SingleFlight, WaitsExact, UseOK, EagerNeverBuilt,
         MakingOK, InTurn, [AppNext]_appVars, NEW a \in Attempt
  PROVE  \/ /\ phase'[a] = phase[a] /\ of'[a] = of[a]
            /\ phase[a] \in {"finished", "done"} => err'[a] = err[a] /\ stale'[a] = stale[a]
         \/ /\ Fresh(a) /\ phase'[a] \in {"created", "running"}
            /\ of'[a] \in Eager => EagerBegins /\ eager' = a
            /\ \A x \in Attempt : phase[x] # "unused" /\ of[x] = of'[a] =>
                 phase[x] \in {"finished", "done"}
         \/ phase[a] = "created" /\ phase'[a] = "running" /\ of'[a] = of[a]
         \/ Ends(a)
         \/ /\ phase[a] = "finished" /\ phase'[a] = "done" /\ of'[a] = of[a]
            /\ err'[a] = err[a] /\ stale'[a] = stale[a]
            /\ CameToNothing(a) => CleanedUp(a)
            /\ UNCHANGED owners /\ UNCHANGED life
<1> USE DEF AppTypeOK, TypeOK, AttemptTypes
<1>0. made \in 0..Len(Members)
  OBVIOUS
<1>1. CASE LazyJoins \/ LazyReturns \/ EagerRecords
  BY <1>1 DEF LazyJoins, LazyReturns, EagerRecords, builtVars
<1>2. CASE EagerBegins
  <2>1. PICK b \in Attempt :
          /\ Fresh(b) /\ eager' = b /\ phase' = [phase EXCEPT ![b] = "running"]
          /\ of' = [of EXCEPT ![b] = Current] /\ UNCHANGED <<err, stale>>
    BY <1>2 DEF EagerBegins
  <2>2. Current \in Eager /\ Current \notin Constructed /\ making = "idle"
    BY <1>0, <1>2, ConstructedFacts DEF EagerBegins, MayConstruct
  <2>3. \A x \in Attempt : phase[x] # "unused" => of[x] # Current
    BY <2>2 DEF InTurn
  <2>4. CASE a = b
    <3>1. phase'[a] = "running" /\ of'[a] = Current
      BY <2>1, <2>4
    <3> QED
      BY <1>2, <2>1, <2>3, <2>4, <3>1
  <2>5. CASE a # b
    BY <2>1, <2>5
  <2> QED
    BY <2>4, <2>5
<1>3. CASE EagerEnds
  BY <1>3 DEF EagerEnds, Ends
<1>4. CASE EagerReturns \/ EagerPanics
  <2>1. /\ eager \in Attempt /\ phase[eager] = "finished"
        /\ phase' = [phase EXCEPT ![eager] = "done"]
        /\ UNCHANGED <<of, err, stale, owners, life>>
        /\ CameToNothing(eager) => CleanedUp(eager)
    BY <1>4 DEF EagerReturns, EagerPanics, MakingOK, CameToNothing, builtVars, lifeVars
  <2> QED
    BY <2>1
<1>5. ASSUME NEW g \in Goroutine, EnterStarts(g), ~Construct, Fresh(a), phase'[a] # "unused"
      PROVE  /\ phase'[a] \in {"created", "running"} /\ of'[a] \notin Eager
             /\ \A x \in Attempt : phase[x] # "unused" /\ of[x] = of'[a] =>
                  phase[x] \in {"finished", "done"}
  <2>1. PICK n : n = target[g]
    OBVIOUS
  <2>2. n \in Constructed /\ n \notin Eager /\ cur[n] = None
    BY <1>5, <2>1, StartsDeferred DEF EnterStarts, UseOK
  <2>3. n \in Provider
    BY <1>0, <2>2, ConstructedFacts
  <2>4. phase'[a] \in {"created", "running"} /\ of'[a] = n
    BY <1>5, <2>1 DEF EnterStarts, Fresh
  <2>5. InFlight(n) = {}
    BY <2>2, <2>3 DEF SingleFlight
  <2> QED
    BY <2>2, <2>4, <2>5 DEF InFlight
<1>6. ASSUME NEW g \in Goroutine, EnterStarts(g), ~(Fresh(a) /\ phase'[a] # "unused")
      PROVE  /\ phase'[a] = phase[a] /\ of'[a] = of[a]
             /\ err'[a] = err[a] /\ stale'[a] = stale[a]
  BY <1>6 DEF EnterStarts, Fresh
<1>7. ASSUME NEW b \in Attempt, EndBuild(b) \/ WakeWaiters(b), UNCHANGED of
      PROVE  \/ /\ phase'[a] = phase[a] /\ of'[a] = of[a]
                /\ err'[a] = err[a] /\ stale'[a] = stale[a]
             \/ Ends(a)
             \/ /\ phase[a] = "finished" /\ phase'[a] = "done" /\ of'[a] = of[a]
                /\ err'[a] = err[a] /\ stale'[a] = stale[a]
                /\ CameToNothing(a) => CleanedUp(a)
                /\ UNCHANGED owners /\ UNCHANGED life
  <2>1. CASE EndBuild(b)
    <3>1. PICK e : /\ err' = [err EXCEPT ![b] = e] /\ phase' = [phase EXCEPT ![b] = "finished"]
                   /\ stale' = [stale EXCEPT ![b] = e = "none" /\ ~Publishes(b)]
      BY <2>1 DEF EndBuild, Finish
    <3>2. a # b => /\ phase'[a] = phase[a] /\ of'[a] = of[a]
                   /\ err'[a] = err[a] /\ stale'[a] = stale[a]
      BY <1>7, <3>1
    <3> QED
      BY <2>1, <3>2 DEF Ends
  <2>2. CASE WakeWaiters(b)
    BY <1>7, <2>2 DEF WakeWaiters, CloseDone, builtVars, lifeVars
  <2> QED
    BY <1>7, <2>1, <2>2
<1>8. ASSUME NEW b \in Attempt, phase[b] = "created", phase' = [phase EXCEPT ![b] = "running"],
             UNCHANGED <<of, err, stale>>
      PROVE  \/ /\ phase'[a] = phase[a] /\ of'[a] = of[a]
                /\ err'[a] = err[a] /\ stale'[a] = stale[a]
             \/ phase[a] = "created" /\ phase'[a] = "running" /\ of'[a] = of[a]
  BY <1>8
<1>9. CASE ~Construct
  BY <1>5, <1>6, <1>7, <1>8, <1>9, PhaseSteps
<1> QED
  BY <1>1, <1>2, <1>3, <1>4, <1>9 DEF Construct

LEMMA InTurnStep ==
  ASSUME AppTypeOK, PlaceOK, StarterOK, SingleFlight, WaitsExact, UseOK, EagerNeverBuilt,
         MakingOK, InTurn, [AppNext]_appVars
  PROVE  InTurn'
<1>0. made \in 0..Len(Members) /\ \A x \in Attempt : x \in Nat
  BY DEF AppTypeOK, Attempt
\* Which attempts have begun, and which are finished.
<1>1. ASSUME NEW x \in Attempt
      PROVE  /\ phase[x] # "unused" => phase'[x] # "unused" /\ of'[x] = of[x]
             /\ phase[x] \in {"finished", "done"} => phase'[x] \in {"finished", "done"}
             /\ phase[x] = "unused" /\ phase'[x] # "unused" =>
                  /\ \A y \in Attempt : y < x => phase[y] # "unused"
                  /\ of'[x] \in Eager => EagerBegins /\ eager' = x
                  /\ \A y \in Attempt : phase[y] # "unused" /\ of[y] = of'[x] =>
                       phase[y] \in {"finished", "done"}
  <2>1. Fresh(x) => phase[x] = "unused" /\ \A y \in Attempt : y < x => phase[y] # "unused"
    BY DEF Fresh, Attempt
  <2>2. Ends(x) => /\ phase[x] = "running" /\ phase'[x] = "finished" /\ of'[x] = of[x]
    BY EndFacts
  <2> QED
    BY <2>1, <2>2, AttemptSteps
<1>2. ASSUME NEW a \in Attempt, NEW b \in Attempt, a < b, phase'[b] # "unused"
      PROVE  /\ phase'[a] # "unused"
             /\ of'[a] = of'[b] => phase'[a] \in {"finished", "done"}
  <2>1. CASE phase[b] # "unused"
    <3>1. phase[a] # "unused" /\ (of[a] = of[b] => phase[a] \in {"finished", "done"})
      BY <1>2, <2>1 DEF InTurn
    <3> QED
      BY <1>1, <2>1, <3>1
  <2>2. CASE phase[b] = "unused"
    <3>1. phase[a] # "unused" /\ (of[a] = of'[b] => phase[a] \in {"finished", "done"})
      BY <1>1, <1>2, <2>2
    <3> QED
      BY <1>1, <3>1
  <2> QED
    BY <2>1, <2>2
<1>3. ASSUME NEW a \in Attempt, phase'[a] # "unused", of'[a] \in Eager
      PROVE  of'[a] \in Constructed' \/ (eager' = a /\ making' \notin {"idle", "joined"})
  <2>1. CASE phase[a] = "unused"
    <3>1. EagerBegins /\ eager' = a
      BY <1>1, <1>3, <2>1
    <3> QED
      BY <3>1 DEF EagerBegins
  <2>2. CASE phase[a] # "unused"
    <3>1. of[a] \in Constructed \/ (eager = a /\ making \notin {"idle", "joined"})
      BY <1>1, <1>3, <2>2 DEF InTurn
    <3>2. CASE ~Construct
      BY <1>1, <2>2, <3>1, <3>2, MakingStays DEF makeVars
    <3>3. CASE LazyJoins \/ LazyReturns \/ EagerBegins
      <4>1. of[a] \in Constructed
        BY <3>1, <3>3 DEF LazyJoins, LazyReturns, EagerBegins, MayConstruct
      <4>2. Constructed \subseteq Constructed'
        BY <1>0, <3>3, ConstructedFacts
           DEF LazyJoins, LazyReturns, EagerBegins, MayConstruct, MakingOK
      <4> QED
        BY <1>1, <2>2, <4>1, <4>2
    <3>4. CASE EagerRecords \/ EagerEnds \/ EagerPanics
      <4>1. made' = made /\ eager' = eager /\ making' \notin {"idle", "joined"}
        BY <3>4 DEF EagerRecords, EagerEnds, EagerPanics
      <4>2. Constructed' = Constructed
        BY <1>0, <4>1, ConstructedFacts
      <4> QED
        BY <1>1, <2>2, <3>1, <4>1, <4>2
    <3>5. CASE EagerReturns
      <4>1. Constructed' = Constructed \cup {Current} /\ (eager = a => of[a] = Current)
        BY <1>0, <3>5, ConstructedFacts DEF EagerReturns, MakingOK
      <4> QED
        BY <1>1, <2>2, <3>1, <4>1
    <3> QED
      BY <3>2, <3>3, <3>4, <3>5 DEF Construct
  <2> QED
    BY <2>1, <2>2
<1> QED
  BY <1>2, <1>3 DEF InTurn

\* What has been cleaned up stays clean.
LEMMA CleanedStays ==
  ASSUME AppTypeOK, PlaceOK, EpochOK, MakingOK, ReadsCounted, LifeOK, OwnersOK,
         [AppNext]_appVars, NEW a \in Attempt, phase[a] = "done", CleanedUp(a)
  PROVE  CleanedUp(a)'
<1>1. life'[a] = "closed"
  <2>1. ~Ends(a)
    BY EndFacts
  <2> QED
    BY <2>1, LifeSteps DEF CleanedUp, LifeOK
<1>2. ASSUME NEW v \in Attempt, NEW k \in 1..MaxReads, <<a, k>> \in owners'[v]
      PROVE  <<a, k>> \in owners[v]
  <2>1. CASE ~\E g \in Goroutine : TakeAndReturn(g)
    BY <1>2, <2>1, OtherOwners
  <2>2. ASSUME NEW g \in Goroutine, TakeAndReturn(g) PROVE <<a, k>> \in owners[v]
    <3>1. Holder(g) # <<a, k>>
      <4>1. CASE g \in Caller
        BY <4>1 DEF Holder
      <4>2. CASE g \notin Caller
        <5>1. g \in Builders /\ phase[g[1]] = "running"
          BY <2>2, <4>2, GainFacts DEF Goroutine, Builders, AppTypeOK
        <5> QED
          BY <4>2, <5>1 DEF Holder
      <4> QED
        BY <4>1, <4>2
    <3>2. owners' = [owners EXCEPT ![box[g]] = @ \cup {Holder(g)}]
      BY <2>2 DEF TakeAndReturn, Takes, L!Take
    <3> QED
      BY <1>2, <3>1, <3>2 DEF AppTypeOK, L!TypeOK
  <2> QED
    BY <2>1, <2>2
<1>3. Deps(a)' = {}
  <2>1. ASSUME NEW t \in Deps(a)' PROVE FALSE
    <3>1. t \in Attempt \X (1..MaxReads) /\ <<a, t[2]>> \in owners'[t[1]]
      BY <2>1 DEF Deps
    <3>2. <<a, t[2]>> \in owners[t[1]]
      BY <1>2, <3>1
    <3>3. t \in Deps(a)
      BY <3>1, <3>2 DEF Deps
    <3> QED
      BY <3>3 DEF CleanedUp
  <2> QED
    BY <2>1
<1> QED
  BY <1>1, <1>3 DEF CleanedUp

LEMMA EndedStep ==
  ASSUME AppTypeOK, PlaceOK, StarterOK, SingleFlight, WaitsExact, EpochOK, UseOK,
         EagerNeverBuilt, MakingOK, InTurn, EndedOK, ReadsCounted, LifeOK, OwnersOK,
         [AppNext]_appVars
  PROVE  EndedOK'
<1>1. ASSUME NEW a \in Attempt, phase'[a] \in {"unused", "created"} PROVE ended'[a] = "not"
  <2>1. phase[a] \in {"unused", "created"}
    <3>1. Fresh(a) => phase[a] = "unused"
      BY DEF Fresh
    <3>2. Ends(a) => phase'[a] = "finished"
      BY EndFacts
    <3> QED
      BY <1>1, <3>1, <3>2, AttemptSteps
  <2>2. ended[a] = "not" /\ phase[a] # "running"
    BY <2>1 DEF EndedOK
  <2> QED
    BY <2>2, EndedSteps
<1>2. ASSUME NEW a \in Attempt, phase'[a] \in {"finished", "done"} PROVE ended'[a] # "not"
  <2>1. ended[a] # "not"
    <3>1. CASE Ends(a)
      BY <3>1, EndFacts
    <3>2. CASE ~Ends(a)
      <4>1. phase[a] \in {"finished", "done"}
        BY <1>2, <3>2, AttemptSteps
      <4> QED
        BY <4>1 DEF EndedOK
    <3> QED
      BY <3>1, <3>2
  <2> QED
    BY <2>1, EndedSteps
<1>3. ASSUME NEW a \in Attempt, phase'[a] = "done", CameToNothing(a)' PROVE CleanedUp(a)'
  <2>1. CASE phase[a] = "done"
    <3>1. err'[a] = err[a] /\ stale'[a] = stale[a]
      <4>1. ~Ends(a) /\ ~Fresh(a)
        BY <2>1, EndFacts DEF Fresh
      <4> QED
        BY <2>1, <4>1, AttemptSteps
    <3>2. CleanedUp(a)
      BY <1>3, <2>1, <3>1 DEF EndedOK, CameToNothing
    <3> QED
      BY <2>1, <3>2, CleanedStays
  <2>2. CASE phase[a] # "done"
    <3>1. ~Ends(a)
      BY <1>3, EndFacts
    <3>2. /\ err'[a] = err[a] /\ stale'[a] = stale[a]
          /\ CameToNothing(a) => CleanedUp(a)
          /\ UNCHANGED owners /\ UNCHANGED life
      BY <1>3, <2>2, <3>1, AttemptSteps
    <3> QED
      BY <1>3, <3>2 DEF CameToNothing, CleanedUp, Deps
  <2> QED
    BY <2>1, <2>2
<1> QED
  BY <1>1, <1>2, <1>3 DEF EndedOK

-----------------------------------------------------------------------------
(* A provider's reference, and who drops it.                               *)

\* A provider's reference on v is dropped at the end of invalidate or by Close.
LEMMA ProviderKeeps ==
  ASSUME AppTypeOK, PlaceOK, MakingOK, ReadsCounted, OwnersOK, [AppNext]_appVars,
         NEW v \in Attempt, L!TheProvider \in owners[v]
  PROVE  \/ L!TheProvider \in owners'[v]
         \/ \E i \in Invalidator : InvalidateReleases(i) /\ Top(i).old = v
         \/ ShutAndRelease /\ val[toShut[Len(toShut)]] = v
<1> USE DEF AppTypeOK, L!TypeOK
<1>1. ASSUME NEW u \in Attempt, NEW o, o # L!TheProvider \/ u # v, L!Give(o, u)
      PROVE  L!TheProvider \in owners'[v]
  BY <1>1 DEF L!Give
<1>2. ASSUME NEW u \in Attempt, L!Publish(u) \/ L!Discard(u) PROVE L!TheProvider \in owners'[v]
  BY <1>2 DEF L!Publish, L!Discard
<1>3. ASSUME NEW u \in Attempt, L!Start(u) \/ L!Finish(u) PROVE UNCHANGED owners
  BY <1>3 DEF L!Start, L!Finish
<1>4. ASSUME NEW o, NEW u \in Attempt, L!Take(o, u) PROVE L!TheProvider \in owners'[v]
  BY <1>4 DEF L!Take
<1>5. ASSUME NEW c \in Caller PROVE <<c, 0>> # L!TheProvider
  BY <1>5, AppAssumption DEF AppAssumption, L!TheProvider
<1>6. ASSUME NEW a \in Attempt, NEW t \in Deps(a)
      PROVE  t[1] \in Attempt /\ <<a, t[2]>> # L!TheProvider
  BY <1>6 DEF Deps, L!TheProvider
<1> QED
  BY <1>1, <1>2, <1>3, <1>4, <1>5, <1>6, LifeKinds DEF lifeVars

\* A value that Invalidate has yet to drop was so already, or is swapped out now.
LEMMA OldFrom ==
  ASSUME TypeOK, UseOK, [AppNext]_appVars, NEW i \in Invalidator, NEW k \in 1..Len(frames'[i])
  PROVE  \/ /\ k \in 1..Len(frames[i]) /\ frames'[i][k].old = frames[i][k].old
            /\ ~(InvalidateReleases(i) /\ k = Len(frames[i]))
         \/ /\ \E n \in Provider : /\ InvalidateCalled(i, n) \/ InvalidateDependent(i, n)
                                   /\ frames'[i][k].old = val[n]
            /\ k = Len(frames[i]) + 1
            /\ \A j \in Invalidator : j # i => frames'[j] = frames[j]
<1>1. PICK l \in Nat : l = Len(frames[i])
  BY FramesFacts
<1>2. ASSUME NEW n \in Provider, InvalidateCalled(i, n) \/ InvalidateDependent(i, n)
      PROVE  \/ k \in 1..l /\ frames'[i][k].old = frames[i][k].old /\ ~InvalidateReleases(i)
             \/ /\ frames'[i][k].old = val[n] /\ k = l + 1
                /\ \A j \in Invalidator : j # i => frames'[j] = frames[j]
  <2>1. since[i] = <<>> => frames[i] = <<>>
    BY DEF UseOK
  <2>2. /\ Len(frames'[i]) = l + 1 /\ frames'[i][l + 1].old = val[n]
        /\ \A t \in 1..l : frames'[i][t].old = frames[i][t].old
        /\ \A j \in Invalidator : j # i => frames'[j] = frames[j]
    BY <1>1, <1>2, <2>1, InvalidateFrames
  <2>3. ASSUME InvalidateReleases(i) PROVE FALSE
    <3>1. Len(frames'[i]) = l - 1
      BY <1>1, <2>3, ReleaseFrames DEF InvalidateReleases
    <3> QED
      BY <2>2, <3>1
  <2> QED
    BY <2>2, <2>3
<1>3. CASE ~\E n \in Provider : InvalidateCalled(i, n) \/ InvalidateDependent(i, n)
  <2>1. CASE InvalidateReleases(i)
    <3>1. Len(frames'[i]) = l - 1 /\ \A t \in 1..(l - 1) : frames'[i][t] = frames[i][t]
      BY <1>1, <2>1, ReleaseFrames DEF InvalidateReleases
    <3> QED
      BY <1>1, <3>1
  <2>2. CASE ~InvalidateReleases(i)
    <3>1. frames'[i] = frames[i]
      BY <1>3, <2>2, FramesStay
    <3> QED
      BY <2>2, <3>1
  <2> QED
    BY <2>1, <2>2
<1> QED
  BY <1>1, <1>2, <1>3

\* Who comes to have a value v: the provider of a build that ends with it, or the
\* one that stores it.
LEMMA GainsFrom ==
  ASSUME AppTypeOK, EpochOK, MakingOK, LifeOK, [AppNext]_appVars,
         NEW n \in Provider, val'[n] # val[n], val'[n] # None
  PROVE  \/ /\ val'[n] \in Attempt /\ owners[val'[n]] = {}
            /\ owners'[val'[n]] = {L!TheProvider}
         \/ EagerReturns /\ n = Current /\ val'[n] = eager
<1>0. TypeOK
  BY DEF AppTypeOK
<1>1. ASSUME NEW a \in Attempt, EndBuild(a)
      PROVE  val'[n] = a /\ owners[a] = {} /\ owners'[a] = {L!TheProvider}
  <2>1. PICK e \in Errors \cup {"none"} :
          /\ phase[a] = "running"
          /\ err' = [err EXCEPT ![a] = e]
          /\ stale' = [stale EXCEPT ![a] = e = "none" /\ ~Publishes(a)]
          /\ val' = IF e = "none" /\ Publishes(a) THEN [val EXCEPT ![of[a]] = a] ELSE val
    BY <1>1 DEF EndBuild, Finish, BuilderReturns
  <2>2. e = "none" /\ Publishes(a) /\ val'[n] = a
    BY <1>0, <2>1 DEF TypeOK, NodeTypes
  <2>3. err'[a] = "none" /\ ~stale'[a]
    BY <1>0, <2>1, <2>2 DEF TypeOK, AttemptTypes
  <2>4. L!Publish(a)
    BY <1>1, <2>3 DEF EndBuild, Publishable
  <2>5. owners'[a] = {L!TheProvider}
    BY <2>4 DEF L!Publish, AppTypeOK, L!TypeOK
  <2> QED
    BY <2>1, <2>2, <2>5 DEF LifeOK
<1>2. ASSUME EagerReturns, n = Current PROVE val'[n] = eager
  BY <1>0, <1>2 DEF EagerReturns, TypeOK, NodeTypes
<1> QED
  BY <1>0, <1>1, <1>2, ValGains

LEMMA ReleasedStep ==
  ASSUME AppTypeOK, PlaceOK, EpochOK, UseOK, MakingOK, ReadsCounted, LifeOK, OwnersOK,
         ReleasedOnce, StoringOwned, [AppNext]_appVars
  PROVE  ReleasedOnce'
<1>0. TypeOK /\ made \in 0..Len(Members)
  BY DEF AppTypeOK
<1>1. \A n \in Provider : val[n] # None =>
        val[n] \in Attempt /\ of[val[n]] = n /\ L!TheProvider \in owners[val[n]]
  BY <1>0 DEF EpochOK, ReleasedOnce, TypeOK, NodeTypes
<1>2. ASSUME NEW i \in Invalidator, NEW k \in 1..Len(frames[i]), frames[i][k].old # None
      PROVE  /\ frames[i][k].old \in Attempt /\ L!TheProvider \in owners[frames[i][k].old]
             /\ \A n \in Provider : val[n] # frames[i][k].old
             /\ \A j \in Invalidator : \A h \in 1..Len(frames[j]) :
                  frames[j][h].old = frames[i][k].old => j = i /\ h = k
  BY <1>0, <1>2, FramesFacts DEF ReleasedOnce, Frame
\* What is dropped is on top of some recursion, or the value of the one shut.
<1>3. ASSUME NEW i \in Invalidator, InvalidateReleases(i), Top(i).old # None
      PROVE  Len(frames[i]) \in 1..Len(frames[i]) /\ Top(i).old = frames[i][Len(frames[i])].old
  BY <1>0, <1>3, FramesFacts DEF InvalidateReleases, ReleaseOld
<1>4. ASSUME ShutAndRelease
      PROVE  LET m == toShut[Len(toShut)] IN m \in Provider /\ val'[m] = None
  <2>1. toShut[Len(toShut)] \in Provider
    BY <1>0, <1>4 DEF ShutAndRelease, Shut, TypeOK, CloseTypes
  <2> QED
    BY <1>0, <1>4, <2>1 DEF ShutAndRelease, Shut, TypeOK, NodeTypes
\* A provider that has a value owns it.
<1>5. ASSUME NEW n \in Provider, val'[n] # None PROVE L!TheProvider \in owners'[val'[n]]
  <2>1. CASE val'[n] # val[n]
    <3>1. CASE EagerReturns /\ n = Current /\ val'[n] = eager
      BY <3>1 DEF EagerReturns, StoringOwned, lifeVars
    <3>2. CASE owners'[val'[n]] = {L!TheProvider}
      BY <3>2
    <3> QED
      BY <1>5, <2>1, <3>1, <3>2, GainsFrom
  <2>2. CASE val'[n] = val[n]
    <3>1. PICK v \in Attempt : v = val[n] /\ L!TheProvider \in owners[v] /\ of[v] = n
      BY <1>1, <1>5, <2>2
    <3>2. ASSUME NEW i \in Invalidator, InvalidateReleases(i), Top(i).old = v PROVE FALSE
      BY <1>2, <1>3, <1>5, <2>2, <3>1, <3>2
    <3>3. ASSUME ShutAndRelease, val[toShut[Len(toShut)]] = v PROVE FALSE
      <4>1. PICK m \in Provider : m = toShut[Len(toShut)] /\ val'[m] = None
        BY <1>4, <3>3
      <4>2. m = n
        BY <1>1, <1>5, <2>2, <3>1, <3>3, <4>1
      <4> QED
        BY <1>5, <4>1, <4>2
    <3> QED
      BY <2>2, <3>1, <3>2, <3>3, ProviderKeeps
  <2> QED
    BY <2>1, <2>2
\* The value swapped out now was a provider's, and no other's.
<1>6. ASSUME NEW i \in Invalidator, NEW n \in Provider,
             InvalidateCalled(i, n) \/ InvalidateDependent(i, n), val[n] # None
      PROVE  \A m \in Provider : val'[m] # val[n]
  <2>1. val' = [val EXCEPT ![n] = None]
    BY <1>6 DEF InvalidateCalled, InvalidateDependent, Invalidate
  <2>2. ASSUME NEW m \in Provider, m # n PROVE val[m] # val[n]
    BY <1>1, <1>6, <2>2
  <2> QED
    BY <1>0, <1>6, <2>1, <2>2 DEF TypeOK, NodeTypes
<1>7. ASSUME NEW i \in Invalidator, NEW n \in Provider,
             InvalidateCalled(i, n) \/ InvalidateDependent(i, n), val[n] # None
      PROVE  L!TheProvider \in owners'[val[n]]
  <2>1. PICK v \in Attempt : v = val[n] /\ L!TheProvider \in owners[v]
    BY <1>1, <1>7
  <2>2. Len(frames'[i]) = Len(frames[i]) + 1 /\ Len(frames[i]) \in Nat
    <3>1. since[i] = <<>> => frames[i] = <<>>
      BY DEF UseOK
    <3> QED
      BY <1>0, <1>7, <3>1, FramesFacts, InvalidateFrames
  <2>3. ASSUME NEW j \in Invalidator, InvalidateReleases(j), Top(j).old = v PROVE FALSE
    BY <1>2, <1>3, <1>7, <2>1, <2>3
  <2>4. ~ShutAndRelease
    BY <2>2 DEF ShutAndRelease, Shut, invalVars
  <2> QED
    BY <2>1, <2>3, <2>4, ProviderKeeps
\* One Invalidate has yet to drop what was swapped out, and nobody else.
<1>8. ASSUME NEW i \in Invalidator, NEW k \in 1..Len(frames'[i]), NEW v,
             v = frames'[i][k].old, v # None
      PROVE  /\ L!TheProvider \in owners'[v]
             /\ \A n \in Provider : val'[n] # v
             /\ \A j \in Invalidator : \A h \in 1..Len(frames'[j]) :
                  frames'[j][h].old = v => j = i /\ h = k
  <2>1. CASE /\ k \in 1..Len(frames[i]) /\ v = frames[i][k].old
             /\ ~(InvalidateReleases(i) /\ k = Len(frames[i]))
    <3>1. /\ v \in Attempt /\ L!TheProvider \in owners[v]
          /\ \A n \in Provider : val[n] # v
          /\ \A j \in Invalidator : \A h \in 1..Len(frames[j]) :
               frames[j][h].old = v => j = i /\ h = k
      BY <1>2, <1>8, <2>1
    <3>2. L!TheProvider \in owners'[v]
      <4>1. ASSUME NEW j \in Invalidator, InvalidateReleases(j), Top(j).old = v PROVE FALSE
        BY <1>3, <1>8, <2>1, <3>1, <4>1
      <4>2. ~(ShutAndRelease /\ val[toShut[Len(toShut)]] = v)
        BY <1>4, <3>1
      <4> QED
        BY <3>1, <4>1, <4>2, ProviderKeeps
    <3>3. ASSUME NEW n \in Provider, val'[n] = v PROVE FALSE
      <4>1. val'[n] # val[n]
        BY <3>1, <3>3
      <4>2. owners[v] # {}
        BY <3>1
      <4>3. EagerReturns /\ v = eager
        BY <1>8, <3>3, <4>1, <4>2, GainsFrom
      <4> QED
        BY <2>1, <4>3 DEF EagerReturns, StoringOwned
    <3>4. ASSUME NEW j \in Invalidator, NEW h \in 1..Len(frames'[j]), frames'[j][h].old = v
          PROVE  j = i /\ h = k
      <4>1. CASE h \in 1..Len(frames[j]) /\ frames[j][h].old = v
        BY <3>1, <4>1
      <4>2. CASE \E n \in Provider : v = val[n]
        BY <3>1, <4>2
      <4> QED
        BY <1>0, <3>4, <4>1, <4>2, OldFrom
    <3> QED
      BY <3>2, <3>3, <3>4
  <2>2. ASSUME NEW n \in Provider, InvalidateCalled(i, n) \/ InvalidateDependent(i, n), v = val[n],
               k = Len(frames[i]) + 1, \A j \in Invalidator : j # i => frames'[j] = frames[j]
        PROVE  /\ L!TheProvider \in owners'[v]
               /\ \A m \in Provider : val'[m] # v
               /\ \A j \in Invalidator : \A h \in 1..Len(frames'[j]) :
                    frames'[j][h].old = v => j = i /\ h = k
    <3>1. L!TheProvider \in owners'[v] /\ \A m \in Provider : val'[m] # v
      BY <1>6, <1>7, <1>8, <2>2
    <3>2. ASSUME NEW j \in Invalidator, NEW h \in 1..Len(frames'[j]), frames'[j][h].old = v
          PROVE  j = i /\ h = k
      <4>1. ~(h \in 1..Len(frames[j]) /\ frames[j][h].old = v)
        BY <1>2, <1>8, <2>2
      <4>2. h = Len(frames[j]) + 1
        BY <1>0, <3>2, <4>1, OldFrom
      <4>3. j = i
        <5>1. ASSUME j # i PROVE FALSE
          <6>1. frames'[j] = frames[j] /\ Len(frames[j]) \in Nat
            BY <1>0, <2>2, <5>1, FramesFacts
          <6> QED
            BY <3>2, <4>2, <6>1
        <5> QED
          BY <5>1
      <4> QED
        BY <2>2, <4>2, <4>3
    <3> QED
      BY <3>1, <3>2
  <2> QED
    BY <1>0, <1>8, <2>1, <2>2, OldFrom
<1> QED
  BY <1>5, <1>8 DEF ReleasedOnce

LEMMA StoringStep ==
  ASSUME AppTypeOK, PlaceOK, EpochOK, UseOK, MakingOK, ReadsCounted, LifeOK, OwnersOK,
         ReleasedOnce, StoringOwned, [AppNext]_appVars, making' = "storing"
  PROVE  /\ L!TheProvider \in owners'[eager']
         /\ \A n \in Provider : val'[n] # eager'
         /\ \A i \in Invalidator : \A k \in 1..Len(frames'[i]) : frames'[i][k].old # eager'
<1>0. TypeOK
  BY DEF AppTypeOK
<1>1. CASE Construct
  <2>1. EagerEnds
    BY <1>1 DEF Construct, LazyJoins, LazyReturns, EagerBegins, EagerRecords, EagerReturns, EagerPanics
  <2>2. /\ eager' = eager /\ val' = val /\ frames' = frames
        /\ eager \in Attempt /\ phase[eager] = "running" /\ L!Publish(eager)
    BY <2>1 DEF EagerEnds, MakingOK, nodeVars, invalVars
  <2>3. L!TheProvider \in owners'[eager] /\ owners[eager] = {}
    BY <2>2 DEF L!Publish, AppTypeOK, L!TypeOK, LifeOK
  <2>4. \A n \in Provider : val[n] # eager
    BY <2>2, NodeAssumption DEF EpochOK, NodeAssumption, Attempt, None
  <2>5. \A i \in Invalidator : \A k \in 1..Len(frames[i]) : frames[i][k].old # eager
    BY <2>2, <2>3, NodeAssumption DEF ReleasedOnce, NodeAssumption, Attempt, None
  <2> QED
    BY <2>2, <2>3, <2>4, <2>5
<1>2. CASE ~Construct
  <2>1. making = "storing" /\ eager' = eager /\ eager \in Attempt
    BY <1>2, MakingStays DEF makeVars, MakingOK
  <2>2. /\ L!TheProvider \in owners[eager]
        /\ \A n \in Provider : val[n] # eager
        /\ \A i \in Invalidator : \A k \in 1..Len(frames[i]) : frames[i][k].old # eager
    BY <2>1 DEF StoringOwned
  <2>3. L!TheProvider \in owners'[eager]
    <3>1. ASSUME NEW i \in Invalidator, InvalidateReleases(i), Top(i).old = eager PROVE FALSE
      <4>1. Len(frames[i]) \in 1..Len(frames[i]) /\ Top(i).old = frames[i][Len(frames[i])].old
        BY <1>0, <3>1, FramesFacts DEF InvalidateReleases, ReleaseOld
      <4> QED
        BY <2>2, <3>1, <4>1
    <3>2. ASSUME ShutAndRelease, val[toShut[Len(toShut)]] = eager PROVE FALSE
      <4>1. toShut[Len(toShut)] \in Provider
        BY <1>0, <3>2 DEF ShutAndRelease, Shut, TypeOK, CloseTypes
      <4> QED
        BY <2>2, <3>2, <4>1
    <3> QED
      BY <2>1, <2>2, <3>1, <3>2, ProviderKeeps
  <2>4. ASSUME NEW n \in Provider, val'[n] = eager PROVE FALSE
    <3>1. eager # None /\ ~EagerReturns
      BY <1>2, <2>1, NodeAssumption DEF Construct, NodeAssumption, Attempt, None
    <3> QED
      BY <2>2, <2>4, <3>1, GainsFrom
  <2>5. ASSUME NEW i \in Invalidator, NEW k \in 1..Len(frames'[i]), frames'[i][k].old = eager
        PROVE  FALSE
    BY <1>0, <2>2, <2>5, OldFrom
  <2> QED
    BY <2>1, <2>3, <2>4, <2>5
<1> QED
  BY <1>1, <1>2

-----------------------------------------------------------------------------
(* Close comes to everything.                                              *)

LEMMA CloseSteps ==
  ASSUME [AppNext]_appVars
  PROVE  /\ UNCHANGED <<closing, toShut>> \/ BeginClose \/ (Cancel /\ Apart) \/ ShutAndRelease
         /\ UNCHANGED members \/ LazyJoins \/ EagerReturns
         /\ UNCHANGED closed \/ LazyReturns \/ ShutAndRelease
<1>1. CASE Construct
  BY <1>1 DEF Construct, LazyJoins, LazyReturns, EagerBegins, EagerRecords, EagerEnds, EagerReturns,
              EagerPanics, nodeVars, closeVars
<1>2. CASE \E g \in Goroutine : TakeAndReturn(g) \/ Strolls(g)
  BY <1>2 DEF TakeAndReturn, Acquired, Strolls, Hops, Grabs, Parks, EnterJoins, EnterStarts,
              nodeVars, closeVars
<1>3. CASE \E g \in Builders : Read(g)
  BY <1>3 DEF Read, Link, FindsCycle, Unlink, nodeVars, closeVars
<1>4. CASE \/ \E g \in Builders, n \in Provider : FromUnconstructed(g, n)
           \/ \E n \in Provider : Uses(n)
           \/ \E c \in Caller : Answer(c)
           \/ \E a \in Attempt : RecordBuild(a) \/ EndBuild(a) \/ WakeWaiters(a) \/ CleanUp(a)
           \/ \E i \in Invalidator :
                InvalidateReleases(i) \/ \E m \in Provider : InvalidateDependent(i, m) /\ Apart
           \/ UNCHANGED appVars
  <2>1. CASE \E n \in Provider : Uses(n)
    BY <2>1 DEF Uses, Call, From, InvalidateCalled, Invalidate, nodeVars, closeVars
  <2>2. CASE \E i \in Invalidator :
               InvalidateReleases(i) \/ \E m \in Provider : InvalidateDependent(i, m) /\ Apart
    BY <2>2 DEF InvalidateReleases, ReleaseOld, InvalidateDependent, Invalidate, nodeVars, closeVars
  <2>3. CASE \E a \in Attempt : EndBuild(a) \/ WakeWaiters(a)
    BY <2>3 DEF EndBuild, Finish, WakeWaiters, CloseDone, nodeVars, closeVars
  <2>4. CASE \/ \E g \in Builders, n \in Provider : FromUnconstructed(g, n)
             \/ \E c \in Caller : Answer(c)
             \/ \E a \in Attempt : RecordBuild(a) \/ CleanUp(a)
             \/ UNCHANGED appVars
    BY <2>4 DEF FromUnconstructed, Answer, CleanUp, RecordBuild, appVars, vars, nodeVars, closeVars
  <2> QED
    BY <1>4, <2>1, <2>2, <2>3, <2>4
<1>5. CASE BeginClose \/ (Cancel /\ Apart) \/ ShutAndRelease
  BY <1>5 DEF BeginClose, CloseBegins, Cancel, ShutAndRelease, Shut, nodeVars
<1> QED
  BY <1>1, <1>2, <1>3, <1>4, <1>5, Kinds

\* A provider that has been shut never has a value again.
LEMMA ShutStays ==
  ASSUME AppTypeOK, MakingOK, [AppNext]_appVars, NEW n \in Constructed,
         closed[n], val[n] = None
  PROVE  closed'[n] /\ val'[n] = None
<1>0. TypeOK /\ made \in 0..Len(Members) /\ n \in Provider
  BY ConstructedFacts DEF AppTypeOK
<1>1. LazyReturns \/ EagerReturns => n # Current
  BY <1>0, ConstructedFacts DEF LazyReturns, EagerReturns, MakingOK
<1>2. closed'[n]
  BY <1>0, <1>1, CloseSteps DEF LazyReturns, ShutAndRelease, Shut, ShutCloses, TypeOK, NodeTypes
<1>3. ASSUME NEW a \in Attempt, EndBuild(a) PROVE val'[n] = None
  <2>1. val' = val \/ (~closed[of[a]] /\ val' = [val EXCEPT ![of[a]] = a])
    BY <1>3 DEF EndBuild, Finish, Publishes
  <2> QED
    BY <1>0, <2>1 DEF TypeOK, NodeTypes
<1>4. ASSUME ~\E a \in Attempt : EndBuild(a) PROVE val'[n] = None
  <2>1. n \in Provider /\ ~(EagerReturns /\ n = Current)
    BY <1>0, <1>1
  <2>2. val'[n] \in {val[n], None}
    BY <1>0, <1>4, <2>1, ValGains
  <2> QED
    BY <2>2
<1> QED
  BY <1>2, <1>3, <1>4

LEMMA ShutStep ==
  ASSUME AppTypeOK, UseOK, MakingOK, ~Overlap, ShutOK, [AppNext]_appVars
  PROVE  ShutOK'
<1>0. /\ TypeOK /\ made \in 0..Len(Members)
      /\ members \in Seq(Provider) /\ toShut \in Seq(Provider)
  BY DEF AppTypeOK, TypeOK, CloseTypes
<1>1. ASSUME NEW n \in Constructed', n \notin Constructed
      PROVE  /\ n = Current /\ n \in Provider /\ (LazyReturns \/ EagerReturns)
             /\ UNCHANGED <<closing, toShut>>
  <2>1. CASE LazyReturns \/ EagerReturns
    BY <1>0, <1>1, <2>1, ConstructedFacts DEF LazyReturns, EagerReturns, MakingOK, closeVars
  <2>2. CASE ~(LazyReturns \/ EagerReturns)
    <3>1. made' = made
      BY <2>2, MakingStays DEF Construct, LazyJoins, EagerBegins, EagerRecords, EagerEnds, EagerPanics, makeVars
    <3> QED
      BY <1>0, <1>1, <3>1, ConstructedFacts
  <2> QED
    BY <2>1, <2>2
<1>2. ASSUME NEW n \in Provider, \E k \in 1..Len(members) : members[k] = n
      PROVE  \E k \in 1..Len(members') : members'[k] = n
  <2>1. CASE UNCHANGED members
    BY <1>2, <2>1
  <2>2. ASSUME LazyJoins \/ EagerReturns
        PROVE  \E k \in 1..Len(members') : members'[k] = n
    <3>1. members' = Append(members, Current) /\ Current \in Provider
      BY <1>0, <2>2, ConstructedFacts DEF LazyJoins, EagerReturns, Join, MayConstruct, MakingOK
    <3>2. PICK k \in 1..Len(members) : members[k] = n
      BY <1>2
    <3>3. k \in 1..Len(members') /\ members'[k] = n
      BY <1>0, <3>1, <3>2
    <3> QED
      BY <3>3
  <2> QED
    BY <2>1, <2>2, CloseSteps
<1>3. ASSUME LazyJoins \/ EagerReturns
      PROVE  \E k \in 1..Len(members') : members'[k] = Current
  <2>1. members' = Append(members, Current) /\ Current \in Provider
    BY <1>0, <1>3, ConstructedFacts DEF LazyJoins, EagerReturns, Join, MayConstruct, MakingOK
  <2>2. Len(members) + 1 \in 1..Len(members') /\ members'[Len(members) + 1] = Current
    BY <1>0, <2>1
  <2> QED
    BY <2>2
<1>4. closing' = "open" => closing = "open"
  BY CloseSteps DEF BeginClose, CloseBegins, Cancel, ShutAndRelease, Shut
<1>5. making \in {"idle", "aborted"} \/ ~BeginClose
  BY DEF BeginClose
<1>6. ASSUME closing' = "open", NEW n \in Constructed'
      PROVE  \E k \in 1..Len(members') : members'[k] = n
  <2>1. CASE n \in Constructed
    BY <1>0, <1>2, <1>4, <1>6, <2>1, ConstructedFacts DEF ShutOK
  <2>2. CASE n \notin Constructed
    <3>1. n = Current /\ n \in Provider /\ (LazyReturns \/ EagerReturns)
      BY <1>1, <2>2
    <3>2. CASE EagerReturns
      BY <1>3, <3>1, <3>2
    <3>3. CASE LazyReturns
      BY <1>2, <3>1, <3>3 DEF LazyReturns, ShutOK
    <3> QED
      BY <3>1, <3>2, <3>3
  <2> QED
    BY <2>1, <2>2
<1>7. ASSUME closing' # "open", NEW n \in Constructed'
      PROVE  (closed'[n] /\ val'[n] = None) \/ \E k \in 1..Len(toShut') : toShut'[k] = n
  <2>1. CASE n \notin Constructed
    <3>1. /\ n = Current /\ n \in Provider /\ (LazyReturns \/ EagerReturns)
          /\ UNCHANGED <<closing, toShut>>
      BY <1>1, <2>1
    <3>2. LazyReturns /\ said
      BY <1>7, <3>1 DEF LazyReturns, EagerReturns, ShutOK
    <3>3. closed'[n] /\ val'[n] = val[n]
      BY <1>0, <3>1, <3>2 DEF LazyReturns, JoinResult, TypeOK, NodeTypes
    <3>4. val[n] = None
      BY <2>1, <3>1 DEF UseOK
    <3> QED
      BY <3>3, <3>4
  <2>2. CASE n \in Constructed /\ closing = "open"
    <3>1. BeginClose
      BY <1>7, <2>2, CloseSteps DEF Cancel, ShutAndRelease, Shut
    <3>2. toShut' = members
      BY <3>1 DEF BeginClose, CloseBegins
    <3> QED
      BY <2>2, <3>2 DEF ShutOK
  <2>3. CASE n \in Constructed /\ closing # "open" /\ closed[n] /\ val[n] = None
    BY <2>3, ShutStays
  <2>4. ASSUME n \in Constructed, closing # "open", NEW k \in 1..Len(toShut), toShut[k] = n
        PROVE  (closed'[n] /\ val'[n] = None) \/ \E h \in 1..Len(toShut') : toShut'[h] = n
    <3>1. CASE UNCHANGED toShut
      BY <2>4, <3>1
    <3>2. CASE ShutAndRelease
      <4>1. PICK l \in Nat : l = Len(toShut)
        BY <1>0
      <4>2. CASE k = l
        BY <1>0, <2>4, <3>2, <4>1, <4>2
           DEF ShutAndRelease, Shut, ShutCloses, TypeOK, NodeTypes
      <4>3. CASE k # l
        <5>1. toShut' = SubSeq(toShut, 1, l - 1) /\ k \in 1..(l - 1)
          BY <2>4, <3>2, <4>1, <4>3 DEF ShutAndRelease, Shut
        <5>2. Len(toShut') = l - 1 /\ toShut'[k] = n
          BY <1>0, <2>4, <4>1, <5>1
        <5> QED
          BY <5>1, <5>2
      <4> QED
        BY <4>2, <4>3
    <3> QED
      BY <2>4, <3>1, <3>2, CloseSteps DEF BeginClose, CloseBegins, Cancel
  <2> QED
    BY <2>1, <2>2, <2>3, <2>4 DEF ShutOK
<1>8. ASSUME closing' # "open", ~ShutOver' PROVE making' \in {"idle", "aborted"}
  <2>1. ~ShutOver
    BY <1>8, CloseSteps DEF ShutOver, BeginClose, CloseBegins, Cancel, ShutAndRelease, Shut
  <2>2. CASE closing = "open"
    <3>1. BeginClose
      BY <1>8, <2>2, CloseSteps DEF Cancel, ShutAndRelease, Shut
    <3> QED
      BY <3>1 DEF BeginClose, makeVars
  <2>3. CASE closing # "open"
    <3>1. making \in {"idle", "aborted"}
      BY <2>1, <2>3 DEF ShutOK
    <3>2. ~Construct
      BY <2>1, <2>3, <3>1 DEF Construct, LazyJoins, LazyReturns, EagerBegins, EagerRecords, EagerEnds,
                              EagerReturns, EagerPanics, MayConstruct
    <3> QED
      BY <3>1, <3>2, MakingStays DEF makeVars
  <2> QED
    BY <2>2, <2>3
<1>9. ASSUME making' = "storing" PROVE closing' = "open"
  <2>1. CASE making = "storing"
    <3>1. closing = "open" /\ ~BeginClose
      BY <1>5, <2>1 DEF ShutOK
    <3> QED
      BY <3>1, CloseSteps DEF Cancel, ShutAndRelease, Shut
  <2>2. CASE making # "storing"
    <3>1. EagerEnds
      BY <1>9, <2>2, MakingStays DEF Construct, LazyJoins, LazyReturns, EagerBegins, EagerRecords,
         EagerReturns, EagerPanics, makeVars
    <3>2. err' = [err EXCEPT ![eager] = EagerError(ended[eager])]
      BY <3>1 DEF EagerEnds
    <3>3. EagerError(ended[eager]) = "none" /\ closing' = closing
      BY <1>0, <1>9, <3>1, <3>2 DEF EagerEnds, MakingOK, TypeOK, AttemptTypes, closeVars
    <3> QED
      BY <3>3 DEF EagerError
  <2> QED
    BY <2>1, <2>2
<1>10. ASSUME making' = "joined"
       PROVE  /\ said' <=> closing' # "open"
              /\ \E k \in 1..Len(members') : members'[k] = Current'
  <2>1. CASE LazyJoins
    <3>1. made' = made /\ said' = (closing # "open") /\ closing' = closing
      BY <2>1 DEF LazyJoins
    <3> QED
      BY <1>0, <1>3, <2>1, <3>1, ConstructedFacts
  <2>2. CASE ~LazyJoins
    <3>1. making = "joined" /\ ~Construct
      BY <1>10, <2>2, MakingStays DEF Construct, LazyReturns, EagerBegins, EagerRecords, EagerEnds, EagerReturns,
         EagerPanics, makeVars
    <3>2. /\ said <=> closing # "open"
          /\ \E k \in 1..Len(members) : members[k] = Current
          /\ Current \in Provider
      BY <1>0, <3>1, ConstructedFacts DEF ShutOK, MakingOK
    <3>3. said' = said /\ Current' = Current
      BY <3>1, MakingStays DEF makeVars
    <3>4. closing' # "open" <=> closing # "open"
      BY <1>5, <3>1, CloseSteps DEF Cancel, ShutAndRelease, Shut
    <3> QED
      BY <1>2, <3>2, <3>3, <3>4
  <2> QED
    BY <2>1, <2>2
<1> QED
  BY <1>6, <1>7, <1>8, <1>9, <1>10 DEF ShutOK

-----------------------------------------------------------------------------
(* The invariant.                                                          *)

LEMMA MakeTypes ==
  ASSUME AppTypeOK, PlaceOK, MakingOK, [AppNext]_appVars
  PROVE  /\ made' \in 0..Len(Members) /\ making' \in Making
         /\ said' \in BOOLEAN /\ eager' \in Attempt \cup {None}
         /\ serving' \subseteq Caller
<1>1. CASE Construct
  <2>1. Len(Members) \in Nat
    BY NodeAssumption DEF NodeAssumption
  <2>2. /\ made \in 0..Len(Members) /\ said \in BOOLEAN /\ eager \in Attempt \cup {None}
        /\ serving \subseteq Caller
        /\ making \notin {"idle", "aborted"} => made < Len(Members)
    BY DEF AppTypeOK, MakingOK
  <2>3. CASE LazyJoins \/ LazyReturns
    <3>1. said' \in BOOLEAN
      <4>1. CASE LazyJoins
        BY <4>1 DEF LazyJoins
      <4>2. CASE LazyReturns
        BY <2>2, <4>2 DEF LazyReturns
      <4> QED
        BY <2>3, <4>1, <4>2
    <3>2. made' \in 0..Len(Members) /\ making' \in Making /\ UNCHANGED <<eager, serving>>
      BY <2>1, <2>2, <2>3 DEF LazyJoins, LazyReturns, Making
    <3> QED
      BY <2>2, <3>1, <3>2
  <2>4. CASE EagerBegins \/ EagerRecords \/ EagerEnds
    BY <2>1, <2>2, <2>4 DEF EagerBegins, EagerRecords, EagerEnds, Making
  <2>5. CASE EagerReturns \/ EagerPanics
    BY <2>1, <2>2, <2>5 DEF EagerReturns, EagerPanics, Making
  <2> QED
    BY <1>1, <2>3, <2>4, <2>5 DEF Construct
<1>2. CASE ~Construct
  <2>1. UNCHANGED makeVars
    BY <1>2, MakingStays
  <2>2. serving' \subseteq Caller
    BY ServingSteps DEF TakeAndReturn, AppTypeOK
  <2> QED
    BY <2>1, <2>2 DEF makeVars, AppTypeOK
<1> QED
  BY <1>1, <1>2

LEMMA AppStep == AppInv /\ [AppNext]_appVars => AppInv'
<1> SUFFICES ASSUME AppInv, [AppNext]_appVars PROVE AppInv'
  OBVIOUS
<1>1. /\ AppTypeOK /\ PlaceOK /\ StarterOK /\ SingleFlight /\ WaitsExact /\ EpochOK
      /\ UseOK /\ EagerApart /\ EagerNeverBuilt /\ MakingOK
      /\ ReadsCounted /\ LifeOK /\ OwnersOK /\ GotAcyclic /\ ProfileTrue
      /\ InTurn /\ EndedOK /\ ReleasedOnce /\ StoringOwned
      /\ ~Overlap => ShutOK
  BY DEF AppInv
<1>2. TypeOK' /\ PlaceOK' /\ StarterOK' /\ SingleFlight' /\ WaitsExact' /\ EpochOK'
  BY <1>1, NodeKept
<1>3. UseOK' /\ EagerApart' /\ EagerNeverBuilt' /\ MakingOK'
  BY <1>1, UseStep, EagerApartStep, EagerStep, MakingStep
<1>4. ReadsCounted' /\ LifeOK' /\ OwnersOK'
  BY <1>1, <1>2, ReadsStep, LifeInvStep, OwnersStep
<1>5. GotAcyclic'
  BY <1>1, GotAcyclicStep DEF AppTypeOK
<1>6. L!TypeOK'
  BY <1>1, LifeStep, LifeTypes DEF AppTypeOK
<1>7. ProfileTrue' /\ AppTypeOK'
  BY <1>1, <1>2, <1>6, ProfileStep, MakeTypes DEF AppTypeOK
<1>8. InTurn' /\ EndedOK'
  BY <1>1, InTurnStep, EndedStep
<1>9. ReleasedOnce' /\ StoringOwned'
  <2>1. ReleasedOnce'
    BY <1>1, ReleasedStep
  <2>2. StoringOwned'
    BY <1>1, StoringStep DEF StoringOwned
  <2> QED
    BY <2>1, <2>2
<1>10. ~Overlap => ShutOK'
  BY <1>1, ShutStep
<1> QED
  BY <1>2, <1>3, <1>4, <1>5, <1>7, <1>8, <1>9, <1>10 DEF AppInv

LEMMA AppStarts == AppInit => AppInv
<1> SUFFICES ASSUME AppInit PROVE AppInv
  OBVIOUS
<1>0. /\ Start /\ members = <<>> /\ MaxAttempts \in Nat /\ MaxReads \in Nat
      /\ Len(Members) \in Nat /\ Eager \subseteq Provider
  BY NodeAssumption DEF AppInit, NodeAssumption
<1>1. BuildInv
  BY <1>0, BuildInit
<1>2. TypeOK /\ PlaceOK /\ StarterOK /\ SingleFlight /\ WaitsExact /\ EpochOK
  BY <1>1 DEF BuildInv
<1>3. Constructed = {}
  BY DEF Constructed, AppInit
<1>4. \A g \in Goroutine : at[g] = "out"
  BY <1>0 DEF Start
<1>5. UseOK
  BY <1>0, <1>4, BuilderFacts DEF UseOK, Start
<1>6. EagerApart
  <2>1. \A i \in Invalidator : Len(frames[i]) = 0
    BY <1>0 DEF Start
  <2> QED
    BY <1>0, <2>1 DEF EagerApart, Start
<1>7. EagerNeverBuilt
  BY <1>0, <1>3, <1>4 DEF EagerNeverBuilt, Start
<1>8. MakingOK /\ LifeOK /\ OwnersOK
  BY <1>0 DEF MakingOK, LifeOK, OwnersOK, AppInit, Start
<1>9. ReadsCounted
  <2>1. ASSUME NEW a \in Attempt
        PROVE  /\ Cardinality(Deps(a)) = 0 /\ Cardinality(Busy(a)) = 0
               /\ Cardinality(asked[a]) = 0
    <3>1. \A s \in Slot : at[<<a, s>>] = "out"
      BY <1>0, <1>4 DEF Goroutine
    <3>2. Deps(a) = {} /\ Busy(a) = {} /\ asked[a] = {}
      <4>1. \A u \in Attempt : owners[u] = {}
        BY DEF AppInit
      <4>2. Deps(a) = {}
        BY <4>1 DEF Deps
      <4>3. Busy(a) = {}
        BY <3>1 DEF Busy
      <4>4. asked[a] = {}
        BY <1>0 DEF Start
      <4> QED
        BY <4>2, <4>3, <4>4
    <3>3. Cardinality({}) = 0
      BY FS_EmptySet
    <3> QED
      BY <3>2, <3>3, Zenon
  <2>2. ASSUME NEW a \in Attempt
        PROVE  /\ Cardinality(Deps(a)) + Cardinality(Busy(a)) <= Cardinality(asked[a])
               /\ Cardinality(asked[a]) <= MaxReads
    BY <1>0, <2>1
  <2> QED
    BY <2>2 DEF ReadsCounted, Busy
<1>10. GotAcyclic
  BY <1>0 DEF GotAcyclic, Start
<1>11. ProfileTrue
  <2>0. \A n \in Provider : Runs(n) = {}
    BY DEF Runs, AppInit
  <2>1. \A n \in Provider : Cardinality(Runs(n)) = 0
    BY <2>0, FS_EmptySet
  <2>2. Len(built) = 0 /\ \A n \in Provider : rec[n].attempts = 0 /\ val[n] = None
    BY <1>0 DEF AppInit, Start
  <2> QED
    BY <2>0, <2>1, <2>2 DEF ProfileTrue
<1>12. AppTypeOK
  <2>1. L!TypeOK
    BY DEF L!TypeOK, AppInit
  <2>2. built \in Seq(Provider) /\ made \in 0..Len(Members) /\ making \in Making
        /\ said \in BOOLEAN /\ eager \in Attempt \cup {None} /\ serving \subseteq Caller
    <3>1. built = <<>> /\ made = 0 /\ making = "idle" /\ said = FALSE /\ eager = None /\ serving = {}
      BY DEF AppInit
    <3>2. built \in Seq(Provider)
      BY <3>1
    <3>3. said \in BOOLEAN
      BY <3>1
    <3>4. making \in Making /\ eager \in Attempt \cup {None} /\ serving \subseteq Caller
      BY <3>1 DEF Making
    <3>5. made \in 0..Len(Members)
      BY <1>0, <3>1
    <3> QED
      BY <3>2, <3>3, <3>4, <3>5
  <2>3. rec \in [Provider -> [err : Errors \cup {"none"}, attempts : 0..MaxAttempts]]
    BY <1>0 DEF AppInit
  <2>4. ended \in [Attempt -> Errors \cup {"none", "not"}]
    BY DEF AppInit
  <2> QED
    BY <1>2, <2>1, <2>2, <2>3, <2>4 DEF AppTypeOK
<1>13. ShutOK
  BY <1>0, <1>3 DEF ShutOK, AppInit, Start
<1>14. InTurn /\ EndedOK /\ StoringOwned
  BY <1>0 DEF InTurn, EndedOK, StoringOwned, AppInit, Start
<1>15. ReleasedOnce
  BY <1>0 DEF ReleasedOnce, Start
<1> QED
  BY <1>2, <1>5, <1>6, <1>7, <1>8, <1>9, <1>10, <1>11, <1>12, <1>13, <1>14, <1>15 DEF AppInv

\* A program keeps its invariant: AppInv, which says where construction,
\* requests, builds and Close are, and who owns which value meanwhile
\* (graph.go, edge.go, node.go:256, value.go).
THEOREM AppInvariant == AppSpec => []AppInv
<1>1. AppInit => AppInv
  BY AppStarts
<1>2. AppInv /\ [AppNext]_appVars => AppInv'
  BY AppStep
<1> QED
  BY <1>1, <1>2, PTL DEF AppSpec

-----------------------------------------------------------------------------
(* What follows from it.                                                   *)

\* A served value and what it was built from have owners.
LEMMA ServedIsOpen ==
  ASSUME AppInv
  PROVE  ServedOpen
<1>0. TypeOK /\ LifeOK /\ OwnersOK /\ serving \subseteq Caller
  BY DEF AppInv, AppTypeOK
<1> DEFINE Open == {w \in Attempt : life[w] = "open"}
<1>1. ASSUME NEW w \in Open PROVE got[w] \subseteq Open
  <2>1. ASSUME NEW u \in got[w] PROVE u \in Open
    <3>1. u \in Attempt /\ w \in Attempt /\ life[w] = "open"
      BY <1>0, <2>1 DEF TypeOK, ScopeTypes
    <3>2. PICK k \in 1..MaxReads : <<w, k>> \in owners[u]
      BY <1>0, <2>1, <3>1 DEF OwnersOK
    <3> QED
      BY <1>0, <3>1, <3>2 DEF LifeOK
  <2> QED
    BY <2>1
<1>2. ASSUME NEW c \in serving PROVE box[c] \in Open
  <2>1. box[c] \in Attempt /\ <<c, 0>> \in owners[box[c]]
    BY <1>0, <1>2 DEF OwnersOK
  <2> QED
    BY <1>0, <2>1 DEF LifeOK
<1>3. ASSUME NEW c \in serving, NEW u \in BuiltFrom(box[c]) PROVE u \in Open
  <2>1. Open \in SUBSET Attempt
    OBVIOUS
  <2> QED
    BY <1>1, <1>2, <1>3, <2>1 DEF BuiltFrom
<1> QED
  BY <1>3 DEF ServedOpen

\* The providers that were constructed have been shut, and let go.
LEMMA ShutFacts ==
  ASSUME AppInv, ~Overlap, ShutOver
  PROVE  /\ \A n \in Constructed : closed[n] /\ val[n] = None
         /\ \A v \in Attempt : L!TheProvider \in owners[v] =>
              \E i \in Invalidator : \E k \in 1..Len(frames[i]) : frames[i][k].old = v
<1>1. \A n \in Constructed : closed[n] /\ val[n] = None
  BY DEF AppInv, ShutOK, ShutOver
<1>2. ASSUME NEW v \in Attempt, L!TheProvider \in owners[v]
      PROVE  \E i \in Invalidator : \E k \in 1..Len(frames[i]) : frames[i][k].old = v
  <2>1. v # None /\ TypeOK /\ LifeOK /\ OwnersOK /\ UseOK /\ ShutOK
    BY NodeAssumption DEF AppInv, AppTypeOK, NodeAssumption, Attempt, None
  <2>2. of[v] \in Provider
    <3>1. phase[v] # "unused"
      BY <1>2, <2>1 DEF LifeOK
    <3> QED
      BY <2>1, <3>1 DEF TypeOK, AttemptTypes
  <2>3. val[of[v]] # v
    BY <1>1, <2>1, <2>2 DEF UseOK
  <2>4. making # "storing"
    BY <2>1 DEF ShutOK, ShutOver
  <2> QED
    BY <1>2, <2>1, <2>3, <2>4 DEF OwnersOK
<1> QED
  BY <1>1, <1>2

LEMMA OnlyHoldersFacts ==
  ASSUME AppInv, ~Overlap
  PROVE  OnlyHoldersLeft
<1>1. ASSUME ShutOver, NEW v \in Attempt, life[v] = "open", \A o \in owners[v] : o = L!TheProvider
      PROVE  \E i \in Invalidator : \E k \in 1..Len(frames[i]) : frames[i][k].old = v
  <2>1. L!TheProvider \in owners[v]
    BY <1>1 DEF AppInv, LifeOK
  <2> QED
    BY <1>1, <2>1, ShutFacts
<1> QED
  BY <1>1 DEF OnlyHoldersLeft

\* Were a value open when nobody is at anything, one that no other open value was
\* built from would have no owner.
LEMMA CleanFacts ==
  ASSUME AppInv, ~Overlap
  PROVE  ClosedIsClean
<1> SUFFICES ASSUME AtRest, ShutOver
             PROVE  \A a \in Attempt : life[a] \in {"absent", "closed"} /\ owners[a] = {}
  BY DEF ClosedIsClean
<1>0. /\ TypeOK /\ UseOK /\ LifeOK /\ OwnersOK /\ GotAcyclic /\ EpochOK /\ L!TypeOK
      /\ serving = {} /\ EndedOK
  BY DEF AppInv, AppTypeOK, AtRest
<1>1. ~BoundReached
  BY <1>0, ShutFacts DEF BoundReached, NoValue, UseOK
<1>2. /\ InvalidatorsIdle
      /\ \A a \in Attempt : phase[a] \in {"unused", "done"}
  BY <1>1 DEF AtRest, Finished
\* The end of a build cleans up what came to nothing, the last owner the rest.
<1>3. \A a \in Attempt : life[a] # "closing" /\ (life[a] = "closed" => Deps(a) = {})
  <2>1. ASSUME NEW a \in Attempt, Cleans(a)
        PROVE  life[a] # "closing" /\ (life[a] = "closed" => Deps(a) = {})
    BY <2>1 DEF AtRest
  <2>2. ASSUME NEW a \in Attempt, ~Cleans(a)
        PROVE  life[a] # "closing" /\ (life[a] = "closed" => Deps(a) = {})
    <3>1. CASE phase[a] = "unused"
      BY <1>0, <3>1 DEF LifeOK
    <3>2. CASE phase[a] = "done"
      BY <1>0, <2>2, <3>2 DEF Cleans, EndedOK, CleanedUp
    <3> QED
      BY <1>2, <3>1, <3>2
  <2> QED
    BY <2>1, <2>2
<1> DEFINE Open == {v \in Attempt : life[v] = "open"}
<1>4. ASSUME Open # {} PROVE FALSE
  <2>1. PICK a \in Open : \A b \in Open : a \notin got[b]
    BY <1>0, <1>4 DEF GotAcyclic
  <2>2. a \in Attempt /\ life[a] = "open"
    OBVIOUS
  <2>3. PICK o \in owners[a] : o # L!TheProvider
    <3>1. ~\E i \in Invalidator : \E k \in 1..Len(frames[i]) : frames[i][k].old = a
      <4>1. \A i \in Invalidator : Len(frames[i]) = 0
        BY <1>2 DEF InvalidatorsIdle
      <4> QED
        BY <4>1
    <3> QED
      BY <2>2, <3>1, OnlyHoldersFacts DEF OnlyHoldersLeft
  <2>4. ~\E c \in Caller : o = <<c, 0>>
    BY <1>0, <2>2, <2>3 DEF OwnersOK
  <2>5. PICK b \in Attempt, k \in 1..MaxReads : o = <<b, k>>
    BY <1>0, <2>2, <2>3, <2>4 DEF L!TypeOK, L!Owner
  <2>6. a \in got[b]
    BY <1>0, <2>2, <2>3, <2>5 DEF OwnersOK
  <2>7. life[b] \in {"absent", "closed"}
    BY <1>0, <1>3, <2>1, <2>6 DEF L!TypeOK
  <2>8. life[b] # "closed"
    <3>1. <<a, k>> \in Deps(b)
      BY <2>2, <2>3, <2>5 DEF Deps
    <3> QED
      BY <1>3, <3>1
  <2>9. phase[b] = "unused"
    BY <1>0, <1>2, <2>7, <2>8 DEF LifeOK
  <2> QED
    BY <1>0, <2>6, <2>9 DEF EpochOK
<1> QED
  BY <1>0, <1>3, <1>4 DEF LifeOK, L!TypeOK

-----------------------------------------------------------------------------
(* The theorems.                                                           *)

\* The types of the variables, with the bounds of the profile and of what one
\* value owns (profile.go:96, value.go:12).
THEOREM AppTypesKept == AppSpec => []AppTypeOK
<1>1. AppInv => AppTypeOK
  BY DEF AppInv
<1> QED
  BY <1>1, AppInvariant, PTL

\* An Eager provider is ready as soon as it is constructed, and nobody waits for
\* it or runs a builder it has not got (graph.go:201).
THEOREM EagersAreReady == AppSpec => []EagerNeverBuilt
<1>1. AppInv => EagerNeverBuilt
  BY DEF AppInv
<1> QED
  BY <1>1, AppInvariant, PTL

\* The profile has one entry per provider built, with the runs of its builder and
\* the error of the last, and no error while the provider has a value; also
\* between the end of a build and finish, which decides what becomes of it
\* (profile.go:23, node.go:274).
THEOREM ProfileIsTrue == AppSpec => []ProfileTrue
<1>1. AppInv => ProfileTrue
  BY DEF AppInv
<1> QED
  BY <1>1, AppInvariant, PTL

\* What a request is served with, and all it was built from, stays open until
\* the request is answered (README.md:97).
THEOREM ServedStaysOpen == AppSpec => []ServedOpen
<1>1. AppInv => ServedOpen
  BY ServedIsOpen
<1> QED
  BY <1>1, AppInvariant, PTL

\* A provider's reference on a value is released once: while the value is
\* current the provider has it, and then it is one call of Invalidate that has
\* yet to drop it, or Close that dropped it (node.go:227, node.go:244).
THEOREM ReleasedOnlyOnce == AppSpec => []ReleasedOnce
<1>1. AppInv => ReleasedOnce
  BY DEF AppInv
<1> QED
  BY <1>1, AppInvariant, PTL

\* Once CloseContext has shut the providers, all that were constructed are closed
\* and have no value (provider.go:29), if none was constructed meanwhile.
THEOREM EveryProviderIsShut ==
  ASSUME ~Overlap
  PROVE  AppSpec => []EveryProviderShut
<1>1. AppInv => EveryProviderShut
  BY ShutFacts DEF EveryProviderShut
<1> QED
  BY <1>1, AppInvariant, PTL

\* ... and only requests, builds and invalidations under way keep values open
\* (graph.go:91).
THEOREM OnlyHoldersAreLeft ==
  ASSUME ~Overlap
  PROVE  AppSpec => []OnlyHoldersLeft
<1>1. AppInv => OnlyHoldersLeft
  BY OnlyHoldersFacts
<1> QED
  BY <1>1, AppInvariant, PTL

\* A closed program leaves nothing behind when all that was under way has ended:
\* every value is cleaned up and has let go of what it was built from, also what
\* came to nothing (graph.go:91, node.go:207, graph.go:225).
THEOREM ClosedProgramIsClean ==
  ASSUME ~Overlap
  PROVE  AppSpec => []ClosedIsClean
<1>1. AppInv => ClosedIsClean
  BY CleanFacts
<1> QED
  BY <1>1, AppInvariant, PTL
=============================================================================
