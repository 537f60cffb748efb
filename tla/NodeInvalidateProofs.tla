------------------------ MODULE NodeInvalidateProofs ------------------------
(***************************************************************************)
(* What Node promises of Invalidate, proved for every number of providers, *)
(* callers, builds and overlapping calls of Invalidate.                    *)
(***************************************************************************)
EXTENDS NodeProofs

-----------------------------------------------------------------------------
(* Which invalidations are on their way.                                   *)

\* An invalidation of n puts off none of another provider, and is on its way to
\* the dependents of n.
LEMMA InvalidatePends ==
  ASSUME TypeOK, RecursionOK, NEW i \in Invalidator, NEW n \in Provider,
         InvalidateCalled(i, n) \/ InvalidateDependent(i, n),
         NEW m \in Provider, (Pending(m) /\ m # n) \/ m \in dependents[n]
  PROVE  Pending(m)'
<1> DEFINE L == Len(frames[i])
<1>0. since[i] = <<>> => frames[i] = <<>>
  BY DEF RecursionOK
<1>1. /\ Len(frames'[i]) = L + 1 /\ L \in Nat
      /\ frames'[i][L + 1].todo = dependents[n]
      /\ \A k \in 1..L : frames'[i][k].todo =
               IF k = L THEN frames[i][k].todo \ {n} ELSE frames[i][k].todo
      /\ \A j \in Invalidator : j # i => frames'[j] = frames[j]
  BY <1>0, InvalidateFrames, FramesFacts, ZenonT(30)
<1> HIDE DEF L
<1>2. CASE m \in dependents[n]
  <2>1. L + 1 \in 1..Len(frames'[i]) /\ m \in frames'[i][L + 1].todo
    BY <1>1, <1>2
  <2> QED
    BY <2>1 DEF Pending
<1>3. CASE Pending(m) /\ m # n
  <2> PICK j \in Invalidator : \E k \in 1..Len(frames[j]) : m \in frames[j][k].todo
    BY <1>3 DEF Pending
  <2>1. PICK k \in 1..Len(frames[j]) : m \in frames[j][k].todo
    OBVIOUS
  <2>2. k \in 1..Len(frames'[j]) /\ m \in frames'[j][k].todo
    <3>1. CASE j = i
      <4>1. k \in 1..L /\ m \in frames[i][k].todo
        BY <2>1, <3>1 DEF L
      <4>2. m \in frames'[i][k].todo
        BY <1>1, <1>3, <4>1
      <4> QED
        BY <1>1, <3>1, <4>1, <4>2
    <3>2. CASE j # i
      BY <1>1, <2>1, <3>2
    <3> QED
      BY <3>1, <3>2
  <2> QED
    BY <2>2 DEF Pending
<1> QED
  BY <1>2, <1>3

\* invalidate returns from what has no more dependents to follow.
LEMMA ReleasePends ==
  ASSUME TypeOK, NEW i \in Invalidator, ReleaseOld(i), NEW m \in Provider, Pending(m)
  PROVE  Pending(m)'
<1> PICK j \in Invalidator : \E k \in 1..Len(frames[j]) : m \in frames[j][k].todo
  BY DEF Pending
<1>1. PICK k \in 1..Len(frames[j]) : m \in frames[j][k].todo
  OBVIOUS
<1>2. k \in 1..Len(frames'[j]) /\ m \in frames'[j][k].todo
  BY <1>1, ReleaseFrames, FramesFacts
<1> QED
  BY <1>2 DEF Pending

-----------------------------------------------------------------------------
(* No build slips through.                                                 *)

\* What is said of the reads of one build.
EdgesOf(a) ==
    /\ \A u \in got[a] : UpToDate(u) /\ of[a] \in dependents[of[u]]
    /\ \A s \in Slot : at[<<a, s>>] # "out" =>
         /\ of[a] \in dependents[target[<<a, s>>]]
         /\ at[<<a, s>>] = "acquire" => UpToDate(box[<<a, s>>])

LEMMA SlotFacts ==
  \A a \in Attempt, s \in Slot : /\ <<a, s>> \in Builders /\ <<a, s>> \in Goroutine
                                 /\ <<a, s>>[1] = a
  BY DEF Builders, Goroutine

\* Steps in which goroutines only let go, and no epoch or edge changes.
LEMMA EdgesFrame ==
  ASSUME EdgesOK, TypeOK, UNCHANGED <<dependents, epoch, began, of, got, frames>>,
         \A a \in Attempt : phase[a] = "unused" <=> phase'[a] = "unused",
         \A g \in Builders : at'[g] # "out" =>
            /\ at[g] # "out" /\ target'[g] = target[g]
            /\ at'[g] = "acquire" => at[g] = "acquire" /\ box'[g] = box[g],
         PlaceOK
  PROVE  EdgesOK'
<1> SUFFICES ASSUME NEW a \in Attempt, UpToDate(a)', ~Pending(of[a])'
             PROVE  EdgesOf(a)'
  BY DEF EdgesOK, EdgesOf
<1>1. \A b \in Attempt : UpToDate(b)' <=> UpToDate(b)
  BY DEF UpToDate
<1>2. EdgesOf(a)
  BY <1>1 DEF EdgesOK, EdgesOf, Pending
<1>3. got[a] \subseteq Attempt
  BY DEF TypeOK, ScopeTypes
<1>4. \A s \in Slot : at[<<a, s>>] = "acquire" => box[<<a, s>>] \in Attempt
  BY SlotFacts DEF PlaceOK
<1> QED
  BY <1>1, <1>2, <1>3, <1>4, SlotFacts DEF EdgesOf

\* A goroutine loads a current value, and then puts it into the scope.
LEMMA ReadEdges ==
  ASSUME TypeOK, PlaceOK, EpochOK, EdgesOK, NEW g \in Goroutine, Grabs(g) \/ Gains(g)
  PROVE  EdgesOK'
<1> SUFFICES ASSUME NEW a \in Attempt, UpToDate(a)', ~Pending(of[a])'
             PROVE  EdgesOf(a)'
  BY DEF EdgesOK, EdgesOf
<1>1. UNCHANGED <<dependents, epoch, began, of, phase, target, frames>>
  BY DEF Grabs, Gains, nodeVars, builtVars, invalVars
<1>2. \A b \in Attempt : UpToDate(b)' <=> UpToDate(b)
  BY <1>1 DEF UpToDate
<1>3. EdgesOf(a)
  BY <1>1, <1>2 DEF EdgesOK, EdgesOf, Pending
<1>4. \A s \in Slot : at[<<a, s>>] = "acquire" => box[<<a, s>>] \in Attempt
  BY SlotFacts DEF PlaceOK
<1>5. got[a] \subseteq Attempt
  BY DEF TypeOK, ScopeTypes
<1>6. CASE Grabs(g)
  <2>1. target[g] \in Provider /\ val[target[g]] \in Attempt /\ UpToDate(val[target[g]])
    BY <1>6 DEF Grabs, PlaceOK, EpochOK, TypeOK, NodeTypes
  <2>2. /\ at' = [at EXCEPT ![g] = "acquire"] /\ at[g] = "load"
        /\ box' = [box EXCEPT ![g] = val[target[g]]] /\ UNCHANGED got
    BY <1>6 DEF Grabs, Goto
  <2> QED
    BY <1>1, <1>2, <1>3, <1>4, <1>5, <2>1, <2>2, SlotFacts
       DEF EdgesOf, TypeOK, CallTypes, GetTypes
<1>7. CASE Gains(g)
  <2>1. PICK b \in Attempt, s \in Slot, u \in Attempt :
          /\ g = <<b, s>> /\ g[1] = b /\ box[g] = u /\ of[u] = target[g]
    BY <1>7 DEF Gains, PlaceOK, Goroutine, Builders
  <2>2. /\ at' = [at EXCEPT ![g] = "out"] /\ at[g] = "acquire"
        /\ got' = [got EXCEPT ![b] = @ \cup {u}] /\ UNCHANGED box
    BY <1>7, <2>1 DEF Gains, Goto
  <2>3. ASSUME NEW w \in got'[a] PROVE (UpToDate(w) /\ of[a] \in dependents[of[w]])
    BY <1>3, <2>1, <2>2, <2>3 DEF EdgesOf, TypeOK, ScopeTypes
  <2>4. got'[a] \subseteq Attempt
    BY <1>5, <2>2 DEF TypeOK, ScopeTypes
  <2> QED
    BY <1>1, <1>2, <1>3, <1>4, <2>2, <2>3, <2>4, SlotFacts DEF EdgesOf, TypeOK, CallTypes
<1> QED
  BY <1>6, <1>7

\* A new attempt has read nothing.
LEMMA StartEdges ==
  ASSUME TypeOK, PlaceOK, EpochOK, EdgesOK, NEW g \in Goroutine, EnterStarts(g)
  PROVE  EdgesOK'
<1> SUFFICES ASSUME NEW a \in Attempt, UpToDate(a)', ~Pending(of[a])'
             PROVE  EdgesOf(a)'
  BY DEF EdgesOK, EdgesOf
<1>1. PICK b \in Attempt, n \in Provider :
        /\ phase[b] = "unused"
        /\ phase' = [phase EXCEPT ![b] = IF g \in Caller THEN "running" ELSE "created"]
        /\ of' = [of EXCEPT ![b] = n]
        /\ began' = [began EXCEPT ![b] = epoch[n]]
        /\ at[g] = "lock"
        /\ at' = [at EXCEPT ![g] = IF g \in Caller THEN "wait" ELSE "link"]
  BY StartFacts
<1>2. UNCHANGED <<dependents, epoch, got, target, box, frames>>
  BY DEF EnterStarts, scopeVars, invalVars
<1>3. \A c \in Attempt : c # b => of'[c] = of[c] /\ (UpToDate(c)' <=> UpToDate(c))
  BY <1>1, <1>2 DEF UpToDate, TypeOK, AttemptTypes
<1>4. \A h \in Builders : /\ at'[h] # "out" <=> at[h] # "out"
                          /\ at'[h] = "acquire" => at[h] = "acquire"
  BY <1>1, BuilderFacts DEF TypeOK, CallTypes
<1>5. CASE a = b
  <2>1. got[a] = {} /\ \A s \in Slot : at[<<a, s>>] = "out"
    BY <1>1, <1>5, SlotFacts DEF EpochOK, PlaceOK
  <2> QED
    BY <1>2, <1>4, <2>1, SlotFacts DEF EdgesOf
<1>6. CASE a # b
  <2>1. EdgesOf(a)
    BY <1>2, <1>3, <1>6 DEF EdgesOK, EdgesOf, Pending
  <2>2. \A u \in got[a] : u \in Attempt /\ u # b
    BY <1>1 DEF EpochOK, TypeOK, ScopeTypes
  <2>3. \A s \in Slot : at[<<a, s>>] = "acquire" => box[<<a, s>>] \in Attempt /\ box[<<a, s>>] # b
    BY <1>1, SlotFacts DEF PlaceOK
  <2> QED
    BY <1>2, <1>3, <1>4, <1>6, <2>1, <2>2, <2>3, SlotFacts DEF EdgesOf
<1> QED
  BY <1>5, <1>6

\* From records the edge before it reads.
LEMMA FromEdges ==
  ASSUME Eager = {}, TypeOK, PlaceOK, EdgesOK, NEW g \in Builders, NEW n \in Provider, From(g, n)
  PROVE  EdgesOK'
<1> SUFFICES ASSUME NEW a \in Attempt, UpToDate(a)', ~Pending(of[a])'
             PROVE  EdgesOf(a)'
  BY DEF EdgesOK, EdgesOf
<1>1. UNCHANGED <<epoch, began, of, phase, frames, got, box>>
  BY DEF From, nodeVars, builtVars, invalVars
<1>2. \A b \in Attempt : UpToDate(b)' <=> UpToDate(b)
  BY <1>1 DEF UpToDate
<1>3. EdgesOf(a)
  BY <1>1, <1>2 DEF EdgesOK, EdgesOf, Pending
<1>4. PICK b \in Attempt, s \in Slot : g = <<b, s>> /\ g[1] = b
  BY BuilderFacts
<1>5. /\ at' = [at EXCEPT ![g] = "load"] /\ target' = [target EXCEPT ![g] = n]
      /\ dependents' = [dependents EXCEPT ![n] = @ \cup {of[b]}]
      /\ phase[b] = "running"
  BY <1>4 DEF From, Asks, AddDependent, Goto
<1>6. \A m \in Provider : dependents[m] \subseteq dependents'[m]
  BY <1>5 DEF TypeOK, NodeTypes
<1>7. of[b] \in dependents'[n]
  BY <1>5 DEF TypeOK, NodeTypes
<1>8. ASSUME NEW u \in got[a] PROVE UpToDate(u)' /\ of[a] \in dependents'[of[u]]
  <2>1. u \in Attempt /\ UpToDate(u) /\ of[a] \in dependents[of[u]]
    BY <1>3 DEF EdgesOf, TypeOK, ScopeTypes
  <2>2. of[u] \in Provider
    BY <2>1 DEF UpToDate, TypeOK, AttemptTypes
  <2> QED
    BY <1>2, <1>6, <2>1, <2>2
<1>9. ASSUME NEW t \in Slot, at'[<<a, t>>] # "out"
      PROVE  /\ of[a] \in dependents'[target'[<<a, t>>]]
             /\ at'[<<a, t>>] = "acquire" => UpToDate(box[<<a, t>>])'
  <2>1. CASE <<a, t>> = g
    BY <1>4, <1>5, <1>7, <2>1, SlotFacts DEF TypeOK, CallTypes, GetTypes
  <2>2. CASE <<a, t>> # g
    <3>1. /\ at'[<<a, t>>] = at[<<a, t>>] /\ target'[<<a, t>>] = target[<<a, t>>]
          /\ target[<<a, t>>] \in Provider
          /\ at[<<a, t>>] = "acquire" => box[<<a, t>>] \in Attempt
      BY <1>5, <1>9, <2>2, SlotFacts DEF TypeOK, CallTypes, GetTypes, PlaceOK
    <3> QED
      BY <1>1, <1>2, <1>3, <1>6, <1>9, <3>1 DEF EdgesOf
  <2> QED
    BY <2>1, <2>2
<1> QED
  BY <1>1, <1>8, <1>9 DEF EdgesOf

\* An invalidation of n makes what reads n pending.
LEMMA InvalidateEdges ==
  ASSUME TypeOK, PlaceOK, EpochOK, EdgesOK, RecursionOK,
         NEW i \in Invalidator, NEW n \in Provider,
         InvalidateCalled(i, n) \/ InvalidateDependent(i, n)
  PROVE  EdgesOK'
<1> SUFFICES ASSUME NEW a \in Attempt, UpToDate(a)', ~Pending(of[a])'
             PROVE  EdgesOf(a)'
  BY DEF EdgesOK, EdgesOf
<1>1. /\ UNCHANGED <<began, of, phase, got, at, target, box>>
      /\ epoch' = [epoch EXCEPT ![n] = epoch[n] + 1]
      /\ dependents' = [dependents EXCEPT ![n] = {}]
  BY DEF InvalidateCalled, InvalidateDependent, Invalidate, NextEpoch, TakeDependents,
         builtVars, scopeVars, getVars
<1>2. ASSUME NEW b \in Attempt, phase[b] # "unused"
      PROVE  UpToDate(b)' <=> UpToDate(b) /\ of[b] # n
  <2>1. of[b] \in Provider /\ began[b] \in Nat /\ epoch[n] \in Nat /\ began[b] <= epoch[of[b]]
    BY <1>2 DEF TypeOK, AttemptTypes, NodeTypes, EpochOK
  <2>2. epoch'[of[b]] = IF of[b] = n THEN epoch[n] + 1 ELSE epoch[of[b]]
    BY <1>1, <2>1 DEF TypeOK, NodeTypes
  <2> QED
    BY <1>1, <1>2, <2>1, <2>2 DEF UpToDate
<1>3. UpToDate(a) /\ of[a] # n /\ of[a] \in Provider
  BY <1>1, <1>2 DEF UpToDate, TypeOK, AttemptTypes
<1>4. ~Pending(of[a]) /\ of[a] \notin dependents[n]
  <2>1. PICK m \in Provider : of[a] = m
    BY <1>3
  <2>2. ~Pending(m)'
    BY <1>1, <2>1 DEF Pending
  <2> QED
    BY <1>3, <2>1, <2>2, InvalidatePends
<1>5. EdgesOf(a)
  BY <1>3, <1>4 DEF EdgesOK, EdgesOf
<1>6. \A m \in Provider : m # n => dependents'[m] = dependents[m]
  BY <1>1 DEF TypeOK, NodeTypes
<1>7. ASSUME NEW u \in got[a] PROVE UpToDate(u)' /\ of[a] \in dependents'[of[u]]
  <2>1. u \in Attempt /\ UpToDate(u) /\ of[a] \in dependents[of[u]]
    BY <1>5 DEF EdgesOf, TypeOK, ScopeTypes
  <2>2. of[u] \in Provider /\ of[u] # n /\ phase[u] # "unused"
    BY <1>4, <2>1 DEF UpToDate, TypeOK, AttemptTypes
  <2> QED
    BY <1>2, <1>6, <2>1, <2>2
<1>8. ASSUME NEW t \in Slot, at[<<a, t>>] # "out"
      PROVE  /\ of[a] \in dependents'[target[<<a, t>>]]
             /\ at[<<a, t>>] = "acquire" => UpToDate(box[<<a, t>>])'
  <2>1. target[<<a, t>>] \in Provider /\ of[a] \in dependents[target[<<a, t>>]]
    BY <1>5, <1>8, SlotFacts DEF PlaceOK, EdgesOf
  <2>2. target[<<a, t>>] # n
    BY <1>4, <2>1
  <2>3. ASSUME at[<<a, t>>] = "acquire" PROVE UpToDate(box[<<a, t>>])'
    <3>1. PICK u \in Attempt : box[<<a, t>>] = u /\ of[u] = target[<<a, t>>]
                               /\ phase[u] # "unused"
      BY <2>3, SlotFacts DEF PlaceOK
    <3>2. UpToDate(u)
      BY <1>5, <2>3, <3>1 DEF EdgesOf
    <3>3. UpToDate(u)'
      BY <1>2, <2>2, <3>1, <3>2
    <3> QED
      BY <1>1, <3>1, <3>3 DEF UpToDate
  <2> QED
    BY <1>6, <2>1, <2>2, <2>3
<1> QED
  BY <1>1, <1>7, <1>8 DEF EdgesOf

LEMMA EdgesStep ==
  ASSUME IInv, [Next]_vars
  PROVE  EdgesOK'
<1> USE DEF IInv, BuildInv
<1>1. ASSUME NEW g \in Goroutine, Moves(g) PROVE EdgesOK'
  <2>1. CASE Grabs(g) \/ Gains(g)
    BY <2>1, ReadEdges
  <2>2. CASE EnterStarts(g)
    BY <2>2, StartEdges
  <2>3. CASE Hops(g) \/ Parks(g) \/ EnterJoins(g)
    <3>1. UNCHANGED <<dependents, epoch, began, of, got, frames, phase, target, box>>
      BY <2>3 DEF Hops, Parks, EnterJoins, nodeVars, builtVars, scopeVars, invalVars
    <3>2. PICK p \in {"load", "lock", "out", "over", "unlink", "wait", "link"} :
            at' = [at EXCEPT ![g] = p] /\ at[g] \in {"load", "acquire", "lock", "wait"}
      BY <2>3 DEF Hops, Parks, EnterJoins, Goto
    <3>3. \A h \in Builders : /\ at'[h] # "out" => at[h] # "out"
                              /\ at'[h] = "acquire" => at[h] = "acquire"
      BY <3>2, BuilderFacts DEF TypeOK, CallTypes
    <3> QED
      BY <3>1, <3>3, EdgesFrame
  <2> QED
    BY <1>1, <2>1, <2>2, <2>3 DEF Moves
<1>2. ASSUME NEW c \in Caller, NEW n \in Provider, Call(c, n) PROVE EdgesOK'
  <2>1. UNCHANGED <<dependents, epoch, began, of, got, frames, phase, box>>
    BY <1>2 DEF Call, nodeVars, builtVars, scopeVars, invalVars
  <2>2. \A h \in Builders : at'[h] = at[h] /\ target'[h] = target[h]
    BY <1>2, BuilderFacts DEF Call, Goto, Goroutine, TypeOK, CallTypes, GetTypes
  <2> QED
    BY <2>1, <2>2, EdgesFrame
<1>3. ASSUME NEW g \in Builders, Read(g) PROVE EdgesOK'
  <2>1. UNCHANGED <<dependents, epoch, began, of, got, frames, target, box>>
    BY <1>3 DEF Read, Link, FindsCycle, Unlink, Resume, Fails, nodeVars, builtVars,
                scopeVars, getVars, invalVars
  <2>2. PICK p \in {"wait", "out", "load"} :
          at' = [at EXCEPT ![g] = p] /\ at[g] # "out"
    BY <1>3, BuilderFacts DEF Read, Link, FindsCycle, Unlink, Resume, Fails, Goto
  <2>3. \A h \in Builders : /\ at'[h] # "out" => at[h] # "out"
                            /\ at'[h] = "acquire" => at[h] = "acquire"
    BY <2>2, BuilderFacts DEF TypeOK, CallTypes
  <2>4. \A a \in Attempt : phase[a] = "unused" <=> phase'[a] = "unused"
    <3>1. at[g] = "link" => att[g] \in Attempt /\ phase[att[g]] # "unused"
      BY BuilderFacts DEF PlaceOK
    <3> QED
      BY <1>3, <3>1 DEF Read, Link, FindsCycle, Unlink, TypeOK, AttemptTypes
  <2> QED
    BY <2>1, <2>3, <2>4, EdgesFrame
<1>4. ASSUME UNCHANGED <<dependents, epoch, began, of, got, frames, at, target, box>>,
             \A a \in Attempt : phase[a] = "unused" <=> phase'[a] = "unused"
      PROVE  EdgesOK'
  BY <1>4, EdgesFrame
<1>5. ASSUME NEW a \in Attempt, Finish(a) \/ CloseDone(a) PROVE EdgesOK'
  <2>1. UNCHANGED <<dependents, epoch, began, of, got, frames, at, target, box>>
    BY <1>5 DEF Finish, CloseDone, nodeVars, builtVars, scopeVars, getVars, invalVars
  <2>2. \A b \in Attempt : phase[b] = "unused" <=> phase'[b] = "unused"
    BY <1>5 DEF Finish, BuilderReturns, CloseDone, TypeOK, AttemptTypes
  <2> QED
    BY <1>4, <2>1, <2>2
<1>6. ASSUME NEW i \in Invalidator, ReleaseOld(i) PROVE EdgesOK'
  <2>1. UNCHANGED <<dependents, epoch, began, of, got, at, target, box, phase>>
    BY <1>6 DEF ReleaseOld, nodeVars, builtVars, scopeVars, getVars
  <2>2. \A a \in Attempt : UpToDate(a)' <=> UpToDate(a)
    BY <2>1 DEF UpToDate
  <2> SUFFICES ASSUME NEW a \in Attempt, UpToDate(a)', ~Pending(of[a])'
               PROVE  EdgesOf(a)'
    BY DEF EdgesOK, EdgesOf
  <2>3. PICK m \in Provider : of[a] = m
    BY <2>2 DEF UpToDate, TypeOK, AttemptTypes
  <2>4. ~Pending(m)'
    BY <2>1, <2>3 DEF Pending
  <2>5. EdgesOf(a)
    BY <1>6, <2>2, <2>3, <2>4, ReleasePends DEF EdgesOK, EdgesOf
  <2>6. got[a] \subseteq Attempt
    BY DEF TypeOK, ScopeTypes
  <2>7. \A s \in Slot : at[<<a, s>>] = "acquire" => box[<<a, s>>] \in Attempt
    BY SlotFacts DEF PlaceOK
  <2> QED
    BY <2>1, <2>2, <2>5, <2>6, <2>7 DEF EdgesOf
<1>7. ASSUME CloseBegins \/ Cancel \/ Shut \/ UNCHANGED vars PROVE EdgesOK'
  BY <1>4, <1>7 DEF CloseBegins, Cancel, Shut, vars, nodeVars, builtVars, scopeVars,
                    getVars, invalVars
<1> QED
  BY <1>1, <1>2, <1>3, <1>5, <1>6, <1>7, GetMoves, FromEdges, InvalidateEdges
     DEF Next, Terminated, Recurse

-----------------------------------------------------------------------------
(* What was read stays current until it is invalidated.                    *)

KeptBy(a) ==
    /\ \A u \in got[a] : UpToDate(u) => val[of[u]] = u
    /\ \A s \in Slot : at[<<a, s>>] = "acquire" /\ UpToDate(box[<<a, s>>]) =>
         val[target[<<a, s>>]] = box[<<a, s>>]

\* Steps that only let go of what was loaded.  What was read has ended, so a
\* new attempt is none of it.
LEMMA KeptFrame ==
  ASSUME KeptOK, TypeOK, PlaceOK, EpochOK, UNCHANGED <<val, epoch, got>>,
         closing' = "open" => closing = "open",
         \A a \in Attempt : phase[a] # "unused" =>
            phase'[a] # "unused" /\ of'[a] = of[a] /\ began'[a] = began[a],
         \A g \in Builders : at'[g] = "acquire" =>
            at[g] = "acquire" /\ box'[g] = box[g] /\ target'[g] = target[g]
  PROVE  KeptOK'
<1> SUFFICES ASSUME closing' = "open", NEW a \in Attempt PROVE KeptBy(a)'
  BY DEF KeptOK, KeptBy
<1>1. KeptBy(a)
  BY DEF KeptOK, KeptBy
<1>2. ASSUME NEW b \in Attempt, phase[b] # "unused"
      PROVE  (UpToDate(b)' <=> UpToDate(b)) /\ of'[b] = of[b]
  BY <1>2 DEF UpToDate
<1>3. \A u \in got[a] : u \in Attempt /\ phase[u] # "unused"
  BY DEF EpochOK, TypeOK, ScopeTypes
<1>4. \A s \in Slot : at[<<a, s>>] = "acquire" =>
         box[<<a, s>>] \in Attempt /\ phase[box[<<a, s>>]] # "unused"
  BY SlotFacts DEF PlaceOK
<1> QED
  BY <1>1, <1>2, <1>3, <1>4, SlotFacts DEF KeptBy

LEMMA ReadKept ==
  ASSUME TypeOK, PlaceOK, EpochOK, KeptOK, NEW g \in Goroutine, Grabs(g) \/ Gains(g)
  PROVE  KeptOK'
<1>1. UNCHANGED <<val, epoch, began, of, phase, target, closing>>
  BY DEF Grabs, Gains, nodeVars, builtVars, closeVars
<1> SUFFICES ASSUME closing' = "open", NEW a \in Attempt PROVE KeptBy(a)'
  BY DEF KeptOK, KeptBy
<1>2. KeptBy(a)
  BY <1>1 DEF KeptOK, KeptBy
<1>3. \A b \in Attempt : UpToDate(b)' <=> UpToDate(b)
  BY <1>1 DEF UpToDate
<1>4. CASE Grabs(g)
  <2>1. /\ at' = [at EXCEPT ![g] = "acquire"]
        /\ box' = [box EXCEPT ![g] = val[target[g]]] /\ UNCHANGED got
    BY <1>4 DEF Grabs, Goto
  <2>2. \A s \in Slot : at[<<a, s>>] = "acquire" => box[<<a, s>>] \in Attempt
    BY SlotFacts DEF PlaceOK
  <2>3. got[a] \subseteq Attempt
    BY DEF TypeOK, ScopeTypes
  <2> QED
    BY <1>1, <1>2, <1>3, <2>1, <2>2, <2>3, SlotFacts
       DEF KeptBy, TypeOK, CallTypes, GetTypes
<1>5. CASE Gains(g)
  <2>1. PICK b \in Attempt, s \in Slot, u \in Attempt :
          /\ g = <<b, s>> /\ g[1] = b /\ box[g] = u /\ of[u] = target[g]
    BY <1>5 DEF Gains, PlaceOK, Goroutine, Builders
  <2>2. /\ at' = [at EXCEPT ![g] = "out"] /\ at[g] = "acquire"
        /\ got' = [got EXCEPT ![b] = @ \cup {u}] /\ UNCHANGED box
    BY <1>5, <2>1 DEF Gains, Goto
  <2>3. ASSUME NEW w \in got'[a], UpToDate(w) PROVE val[of[w]] = w
    BY <1>2, <2>1, <2>2, <2>3 DEF KeptBy, TypeOK, ScopeTypes
  <2>4. got'[a] \subseteq Attempt
    BY <2>2 DEF TypeOK, ScopeTypes
  <2>5. \A t \in Slot : at'[<<a, t>>] = "acquire" =>
           at[<<a, t>>] = "acquire" /\ box[<<a, t>>] \in Attempt
    BY <2>2, SlotFacts DEF PlaceOK, TypeOK, CallTypes
  <2> QED
    BY <1>1, <1>2, <1>3, <2>2, <2>3, <2>4, <2>5 DEF KeptBy
<1> QED
  BY <1>4, <1>5

\* A build is published only where there is no value.
LEMMA FinishKept ==
  ASSUME TypeOK, PlaceOK, EpochOK, SingleFlight, KeptOK, Eager = {},
         NEW a \in Attempt, Finish(a)
  PROVE  KeptOK'
<1>1. PICK n \in Provider : of[a] = n
  BY DEF Finish, BuilderReturns, TypeOK, AttemptTypes
<1>2. /\ phase[a] = "running" /\ phase' = [phase EXCEPT ![a] = "finished"]
      /\ UNCHANGED <<epoch, of, began, got, at, target, box, closing>>
      /\ val' = val \/ val' = [val EXCEPT ![n] = a]
  BY <1>1 DEF Finish, BuilderReturns, scopeVars, getVars, closeVars
<1>3. val[n] = None
  BY <1>1, <1>2, NodeAssumption
     DEF SingleFlight, InFlight, Attempt, None, NodeAssumption
<1>4. \A m \in Provider : val[m] # None => val'[m] = val[m]
  BY <1>2, <1>3 DEF TypeOK, NodeTypes
<1>5. \A b \in Attempt : (UpToDate(b)' <=> UpToDate(b))
  BY <1>2 DEF UpToDate, TypeOK, AttemptTypes
<1> SUFFICES ASSUME closing = "open", NEW b \in Attempt PROVE KeptBy(b)'
  BY <1>2 DEF KeptOK, KeptBy
<1>6. KeptBy(b)
  BY DEF KeptOK, KeptBy
<1>7. ASSUME NEW u \in got[b], UpToDate(u) PROVE val'[of[u]] = u
  <2>1. u \in Attempt /\ of[u] \in Provider /\ val[of[u]] = u
    BY <1>6, <1>7 DEF KeptBy, UpToDate, TypeOK, AttemptTypes, ScopeTypes
  <2>2. u # None
    BY <2>1, NodeAssumption DEF Attempt, None, NodeAssumption
  <2> QED
    BY <1>4, <2>1, <2>2
<1>8. ASSUME NEW s \in Slot, at[<<b, s>>] = "acquire", UpToDate(box[<<b, s>>])
      PROVE  val'[target[<<b, s>>]] = box[<<b, s>>]
  <2>1. /\ box[<<b, s>>] \in Attempt /\ target[<<b, s>>] \in Provider
        /\ val[target[<<b, s>>]] = box[<<b, s>>]
    BY <1>6, <1>8, SlotFacts DEF KeptBy, PlaceOK
  <2>2. box[<<b, s>>] # None
    BY <2>1, NodeAssumption DEF Attempt, None, NodeAssumption
  <2> QED
    BY <1>4, <2>1, <2>2
<1>9. got[b] \subseteq Attempt /\ \A s \in Slot : at[<<b, s>>] = "acquire" => box[<<b, s>>] \in Attempt
  BY SlotFacts DEF TypeOK, ScopeTypes, PlaceOK
<1> QED
  BY <1>2, <1>5, <1>7, <1>8, <1>9 DEF KeptBy

\* An invalidation takes away a value only by putting it out of date.
LEMMA InvalidateKept ==
  ASSUME TypeOK, PlaceOK, EpochOK, KeptOK, NEW i \in Invalidator, NEW n \in Provider,
         InvalidateCalled(i, n) \/ InvalidateDependent(i, n)
  PROVE  KeptOK'
<1>1. /\ UNCHANGED <<began, of, phase, got, at, target, box, closing>>
      /\ epoch' = [epoch EXCEPT ![n] = epoch[n] + 1]
      /\ val' = [val EXCEPT ![n] = None]
  BY DEF InvalidateCalled, InvalidateDependent, Invalidate, NextEpoch,
         builtVars, scopeVars, getVars, closeVars
<1> SUFFICES ASSUME closing = "open", NEW a \in Attempt PROVE KeptBy(a)'
  BY <1>1 DEF KeptOK, KeptBy
<1>2. KeptBy(a)
  BY DEF KeptOK, KeptBy
<1>3. ASSUME NEW b \in Attempt, phase[b] # "unused", UpToDate(b)'
      PROVE  UpToDate(b) /\ of[b] # n /\ of[b] \in Provider
  <2>1. of[b] \in Provider /\ began[b] \in Nat /\ epoch[n] \in Nat /\ began[b] <= epoch[of[b]]
    BY <1>3 DEF TypeOK, AttemptTypes, NodeTypes, EpochOK
  <2>2. epoch'[of[b]] = IF of[b] = n THEN epoch[n] + 1 ELSE epoch[of[b]]
    BY <1>1, <2>1 DEF TypeOK, NodeTypes
  <2> QED
    BY <1>1, <1>3, <2>1, <2>2 DEF UpToDate
<1>4. \A m \in Provider : m # n => val'[m] = val[m]
  BY <1>1 DEF TypeOK, NodeTypes
<1>5. \A u \in got[a] : u \in Attempt /\ phase[u] # "unused"
  BY DEF EpochOK, TypeOK, ScopeTypes
<1>6. \A s \in Slot : at[<<a, s>>] = "acquire" =>
         /\ box[<<a, s>>] \in Attempt /\ phase[box[<<a, s>>]] # "unused"
         /\ of[box[<<a, s>>]] = target[<<a, s>>]
  BY SlotFacts DEF PlaceOK
<1> QED
  BY <1>1, <1>2, <1>3, <1>4, <1>5, <1>6 DEF KeptBy

LEMMA KeptStep ==
  ASSUME IInv, [Next]_vars
  PROVE  KeptOK'
<1> USE DEF IInv, BuildInv
<1>1. ASSUME NEW g \in Goroutine, Moves(g) PROVE KeptOK'
  <2>1. CASE Grabs(g) \/ Gains(g)
    BY <2>1, ReadKept
  <2>2. CASE EnterStarts(g)
    <3>1. PICK b \in Attempt, n \in Provider :
            /\ phase[b] = "unused"
            /\ phase' = [phase EXCEPT ![b] = IF g \in Caller THEN "running" ELSE "created"]
            /\ of' = [of EXCEPT ![b] = n]
            /\ began' = [began EXCEPT ![b] = epoch[n]]
            /\ at' = [at EXCEPT ![g] = IF g \in Caller THEN "wait" ELSE "link"]
      BY <2>2, StartFacts
    <3>2. \A a \in Attempt : phase[a] # "unused" =>
             phase'[a] # "unused" /\ of'[a] = of[a] /\ began'[a] = began[a]
      BY <3>1 DEF TypeOK, AttemptTypes
    <3>3. \A h \in Builders : at'[h] = "acquire" => at[h] = "acquire"
      BY <3>1, BuilderFacts DEF TypeOK, CallTypes
    <3>4. UNCHANGED <<val, epoch, got, closing, box, target>>
      BY <2>2 DEF EnterStarts, scopeVars, closeVars
    <3> QED
      BY <3>2, <3>3, <3>4, KeptFrame
  <2>3. CASE Hops(g) \/ Parks(g) \/ EnterJoins(g)
    <3>1. UNCHANGED <<val, epoch, began, of, got, phase, target, box, closing>>
      BY <2>3 DEF Hops, Parks, EnterJoins, nodeVars, builtVars, scopeVars, closeVars
    <3>2. PICK p \in {"load", "lock", "out", "over", "unlink", "wait", "link"} :
            at' = [at EXCEPT ![g] = p]
      BY <2>3 DEF Hops, Parks, EnterJoins, Goto
    <3>3. \A h \in Builders : at'[h] = "acquire" => at[h] = "acquire"
      BY <3>2, BuilderFacts DEF TypeOK, CallTypes
    <3> QED
      BY <3>1, <3>3, KeptFrame
  <2> QED
    BY <1>1, <2>1, <2>2, <2>3 DEF Moves
<1>2. ASSUME NEW g \in Goroutine, NEW n \in Provider, Goto(g, "load"),
             target' = [target EXCEPT ![g] = n],
             UNCHANGED <<val, epoch, began, of, got, phase, box, closing>>
      PROVE  KeptOK'
  <2>1. \A h \in Builders : at'[h] = "acquire" => at[h] = "acquire" /\ target'[h] = target[h]
    BY <1>2, BuilderFacts DEF Goto, TypeOK, CallTypes, GetTypes
  <2> QED
    BY <1>2, <2>1, KeptFrame
<1>3. ASSUME NEW c \in Caller, NEW n \in Provider, Call(c, n) PROVE KeptOK'
  BY <1>2, <1>3 DEF Call, Goroutine, nodeVars, builtVars, scopeVars, closeVars
<1>4. ASSUME NEW g \in Builders, NEW n \in Provider, From(g, n) PROVE KeptOK'
  BY <1>2, <1>4, BuilderFacts DEF From, nodeVars, builtVars, closeVars
<1>5. ASSUME NEW g \in Builders, Read(g) PROVE KeptOK'
  <2>1. UNCHANGED <<val, epoch, began, of, got, target, box, closing>>
    BY <1>5 DEF Read, Link, FindsCycle, Unlink, Resume, Fails, nodeVars, builtVars,
                scopeVars, getVars, closeVars
  <2>2. PICK p \in {"wait", "out", "load"} : at' = [at EXCEPT ![g] = p]
    BY <1>5, BuilderFacts DEF Read, Link, FindsCycle, Unlink, Resume, Fails, Goto
  <2>3. \A h \in Builders : at'[h] = "acquire" => at[h] = "acquire"
    BY <2>2, BuilderFacts DEF TypeOK, CallTypes
  <2>4. \A a \in Attempt : phase[a] # "unused" => phase'[a] # "unused"
    BY <1>5 DEF Read, Link, FindsCycle, Unlink, TypeOK, AttemptTypes
  <2> QED
    BY <2>1, <2>3, <2>4, KeptFrame
<1>6. ASSUME UNCHANGED <<val, epoch, began, of, got, at, target, box>>,
             closing' = "open" => closing = "open",
             \A a \in Attempt : phase[a] # "unused" => phase'[a] # "unused"
      PROVE  KeptOK'
  BY <1>6, KeptFrame
<1>7. ASSUME NEW a \in Attempt, CloseDone(a) PROVE KeptOK'
  BY <1>6, <1>7 DEF CloseDone, nodeVars, builtVars, scopeVars, getVars, closeVars,
                    TypeOK, AttemptTypes
<1>8. ASSUME NEW i \in Invalidator, ReleaseOld(i) PROVE KeptOK'
  BY <1>6, <1>8 DEF ReleaseOld, nodeVars, builtVars, scopeVars, getVars, closeVars
<1>9. ASSUME CloseBegins \/ Cancel \/ UNCHANGED vars PROVE KeptOK'
  BY <1>6, <1>9 DEF CloseBegins, Cancel, vars, nodeVars, builtVars, scopeVars,
                    getVars, closeVars
<1>10. ASSUME Shut PROVE KeptOK'
  BY <1>10 DEF Shut, KeptOK
<1> QED
  BY <1>1, <1>3, <1>4, <1>5, <1>7, <1>8, <1>9, <1>10, GetMoves, FinishKept,
     InvalidateKept DEF Next, Terminated, Recurse

-----------------------------------------------------------------------------
(* The recursion of invalidate ends.                                       *)

\* The sets that are counted are finite.
LEMMA CountsFinite ==
  ASSUME TypeOK
  PROVE  /\ IsFiniteSet(Recorded) /\ Cardinality(Recorded) \in Nat
         /\ IsFiniteSet(ReadsMade) /\ Cardinality(ReadsMade) \in Nat
         /\ \A i \in Invalidator : /\ IsFiniteSet(ToFollow(i))
                                   /\ Cardinality(ToFollow(i)) \in Nat
<1>1. IsFiniteSet(Provider) /\ IsFiniteSet(Slot) /\ IsFiniteSet(Attempt)
  <2>1. MaxAttempts \in Int
    BY NodeAssumption DEF NodeAssumption
  <2> QED
    BY <2>1, FS_Interval, NodeAssumption DEF NodeAssumption, Attempt
<1>2. IsFiniteSet(Recorded)
  BY <1>1, FS_Product, FS_Subset DEF Recorded
<1>3. IsFiniteSet(ReadsMade)
  <2>1. IsFiniteSet(Attempt \X (Provider \X Slot))
    BY <1>1, FS_Product
  <2> QED
    BY <2>1, FS_Subset DEF ReadsMade
<1>4. ASSUME NEW i \in Invalidator PROVE IsFiniteSet(ToFollow(i))
  <2>1. IsFiniteSet(1..Len(frames[i]))
    BY FramesFacts, FS_Interval
  <2>2. IsFiniteSet((1..Len(frames[i])) \X Provider)
    BY <1>1, <2>1, FS_Product
  <2> QED
    BY <2>2, FS_Subset DEF ToFollow
<1> QED
  BY <1>2, <1>3, <1>4, FS_CardinalityType

\* From records one edge at most.
LEMMA FromCounts ==
  ASSUME TypeOK, RecursionOK, NEW g \in Builders, NEW n \in Provider, From(g, n)
  PROVE  RecursionOK'
<1>1. PICK a \in Attempt, s \in Slot, m \in Provider : g = <<a, s>> /\ g[1] = a /\ g[2] = s
                                                       /\ of[a] = m
  BY BuilderFacts DEF From, Asks, TypeOK, AttemptTypes
<1>2. /\ <<n, s>> \notin asked[a] /\ asked' = [asked EXCEPT ![a] = @ \cup {<<n, s>>}]
      /\ UNCHANGED <<frames, since>>
      /\ dependents' = [dependents EXCEPT ![n] = @ \cup {m}] \/ dependents' = dependents
  BY <1>1 DEF From, Asks, AddDependent, invalVars
<1>3. Cardinality(ReadsMade)' = Cardinality(ReadsMade) + 1
  <2>1. /\ ReadsMade' = ReadsMade \cup {<<a, <<n, s>>>>}
        /\ <<a, <<n, s>>>> \notin ReadsMade
    BY <1>2 DEF ReadsMade, TypeOK, ScopeTypes
  <2> QED
    BY <2>1, CountsFinite, FS_AddElement
<1>4. Cardinality(Recorded)' <= Cardinality(Recorded) + 1 /\ Cardinality(Recorded)' \in Nat
  <2>1. Recorded' = Recorded \/ Recorded' = Recorded \cup {<<n, m>>}
    BY <1>2 DEF Recorded, TypeOK, NodeTypes
  <2>2. Cardinality(Recorded) \in Nat
    BY CountsFinite
  <2>3. Cardinality(Recorded \cup {<<n, m>>}) \in {Cardinality(Recorded), Cardinality(Recorded) + 1}
    BY CountsFinite, FS_AddElement
  <2>4. CASE Recorded' = Recorded
    BY <2>2, <2>4
  <2>5. CASE Recorded' = Recorded \cup {<<n, m>>}
    BY <2>2, <2>3, <2>5
  <2> QED
    BY <2>1, <2>4, <2>5
<1>5. \A i \in Invalidator : ToFollow(i)' = ToFollow(i)
  BY <1>2 DEF ToFollow
<1> QED
  BY <1>2, <1>3, <1>4, <1>5, CountsFinite, FramesFacts DEF RecursionOK

\* A set of pairs that share their first component counts the second ones.
LEMMA PairsCount ==
  ASSUME NEW D, IsFiniteSet(D), NEW x
  PROVE  IsFiniteSet({x} \X D) /\ Cardinality({x} \X D) = Cardinality(D)
         /\ Cardinality(D) \in Nat
<1>1. IsFiniteSet({x}) /\ Cardinality({x}) = 1
  BY FS_Singleton
<1>2. Cardinality(D) \in Nat
  BY FS_CardinalityType
<1>3. IsFiniteSet({x} \X D) /\ Cardinality({x} \X D) = 1 * Cardinality(D)
  BY <1>1, FS_Product
<1> QED
  BY <1>2, <1>3

\* invalidate takes the edges of its provider: they are followed one level
\* deeper, and the one that led there is used up.
LEMMA InvalidateCounts ==
  ASSUME TypeOK, RecursionOK, NEW i \in Invalidator, NEW n \in Provider,
         InvalidateCalled(i, n) \/ InvalidateDependent(i, n)
  PROVE  RecursionOK'
<1> DEFINE L == Len(frames[i])
           D == dependents[n]
<1>1. PICK l \in Nat, d \in SUBSET Provider : l = L /\ d = D
  BY FramesFacts DEF TypeOK, NodeTypes
<1>2. /\ UNCHANGED asked /\ d \subseteq Provider
      /\ dependents' = [dependents EXCEPT ![n] = {}]
      /\ since'[i] # <<>> /\ \A j \in Invalidator : j # i => since'[j] = since[j]
      /\ frames[i] # <<>> => since'[i] = since[i]
  <2>1. /\ UNCHANGED asked /\ d \subseteq Provider
        /\ dependents' = [dependents EXCEPT ![n] = {}]
    BY <1>1 DEF InvalidateCalled, InvalidateDependent, Invalidate, TakeDependents,
                scopeVars, TypeOK, NodeTypes
  <2>2. ASSUME  InvalidateCalled(i, n)
        PROVE  /\ since'[i] # <<>> /\ \A j \in Invalidator : j # i => since'[j] = since[j]
               /\ frames[i] # <<>> => since'[i] = since[i]
    BY <2>2 DEF InvalidateCalled, TypeOK, InvalTypes, RecursionOK
  <2>3. ASSUME  InvalidateDependent(i, n)
        PROVE  /\ since'[i] # <<>> /\ \A j \in Invalidator : j # i => since'[j] = since[j]
               /\ frames[i] # <<>> => since'[i] = since[i]
    BY <2>3 DEF InvalidateDependent, RecursionOK
  <2> QED
    <3>1. /\ since'[i] # <<>> /\ \A j \in Invalidator : j # i => since'[j] = since[j]
          /\ frames[i] # <<>> => since'[i] = since[i]
      BY <2>2, <2>3
    <3> QED
      BY <2>1, <3>1
<1>3. ReadsMade' = ReadsMade
  BY <1>2 DEF ReadsMade
<1>4. IsFiniteSet(d) /\ Cardinality(d) \in Nat
  BY <1>2, NodeAssumption, FS_Subset, FS_CardinalityType DEF NodeAssumption
<1>5. Cardinality(Recorded)' = Cardinality(Recorded) - Cardinality(d)
  <2>1. Recorded' = Recorded \ ({n} \X d) /\ Recorded \cap ({n} \X d) = {n} \X d
    BY <1>1, <1>2 DEF Recorded, TypeOK, NodeTypes
  <2> QED
    <3>1. Cardinality(Recorded \ ({n} \X d)) =
             Cardinality(Recorded) - Cardinality(Recorded \cap ({n} \X d))
      BY CountsFinite, FS_Difference
    <3>2. Cardinality({n} \X d) = Cardinality(d)
      BY <1>4, PairsCount
    <3> QED
      BY <2>1, <3>1, <3>2
<1>0. since[i] = <<>> => frames[i] = <<>>
  BY DEF RecursionOK
<1>6. /\ Len(frames'[i]) = l + 1
      /\ frames'[i][l + 1].todo = d
      /\ \A k \in 1..l : frames'[i][k].todo =
            IF k = l THEN frames[i][k].todo \ {n} ELSE frames[i][k].todo
      /\ l # 0 => n \in frames[i][l].todo
      /\ \A j \in Invalidator : j # i => frames'[j] = frames[j]
  <2>1. /\ Len(frames'[i]) = L + 1
        /\ frames'[i][L + 1].todo = D
        /\ \A k \in 1..L : frames'[i][k].todo =
              IF k = L THEN frames[i][k].todo \ {n} ELSE frames[i][k].todo
        /\ L # 0 => n \in frames[i][L].todo
        /\ \A j \in Invalidator : j # i => frames'[j] = frames[j]
    BY <1>0, InvalidateFrames, ZenonT(30)
  <2> QED
    BY <1>1, <2>1
<1>7. ToFollow(i)' = (ToFollow(i) \ {<<l, n>>}) \cup ({l + 1} \X d)
  <2>1. ToFollow(i) = {t \in (1..l) \X Provider : t[2] \in frames[i][t[1]].todo}
    BY <1>1 DEF ToFollow
  <2>2. ToFollow(i)' = {t \in (1..(l + 1)) \X Provider : t[2] \in frames'[i][t[1]].todo}
    BY <1>6 DEF ToFollow
  <2>3. ASSUME NEW k \in 1..(l + 1), NEW m \in Provider
        PROVE  m \in frames'[i][k].todo <=>
                  \/ k = l + 1 /\ m \in d
                  \/ k # l + 1 /\ m \in frames[i][k].todo /\ ~(k = l /\ m = n)
    <3>1. CASE k = l + 1
      BY <1>6, <3>1
    <3>2. CASE k # l + 1
      <4>1. k \in 1..l
        BY <3>2
      <4> QED
        BY <1>6, <3>2, <4>1
    <3> QED
      BY <3>1, <3>2
  <2>4. 1..(l + 1) = (1..l) \cup {l + 1} /\ l + 1 \notin 1..l
    OBVIOUS
  <2> QED
    BY <1>2, <2>1, <2>2, <2>3, <2>4
<1>8. /\ IsFiniteSet(ToFollow(i) \ {<<l, n>>})
      /\ Cardinality(ToFollow(i) \ {<<l, n>>}) =
            IF l = 0 THEN Cardinality(ToFollow(i)) ELSE Cardinality(ToFollow(i)) - 1
  <2>1. <<l, n>> \in ToFollow(i) <=> l # 0
    BY <1>1, <1>6 DEF ToFollow
  <2> QED
    BY <2>1, CountsFinite, FS_RemoveElement
<1>9. Cardinality(ToFollow(i)') = Cardinality(ToFollow(i) \ {<<l, n>>}) + Cardinality(d)
  <2>1. (ToFollow(i) \ {<<l, n>>}) \cap ({l + 1} \X d) = {}
    BY <1>1 DEF ToFollow
  <2>2. IsFiniteSet({l + 1} \X d) /\ Cardinality({l + 1} \X d) = Cardinality(d)
    BY <1>4, PairsCount
  <2>3. Cardinality(ToFollow(i) \ {<<l, n>>}) \in Nat
    BY <1>8, FS_CardinalityType
  <2>4. Cardinality((ToFollow(i) \ {<<l, n>>}) \cap ({l + 1} \X d)) = 0
    BY <2>1, FS_EmptySet
  <2> QED
    <3>1. PICK A, B : A = ToFollow(i) \ {<<l, n>>} /\ B = {l + 1} \X d
      OBVIOUS
    <3>2. Cardinality(A \cup B) = Cardinality(A) + Cardinality(B) - Cardinality(A \cap B)
      BY <1>8, <2>2, <3>1, FS_Union
    <3> QED
      BY <1>4, <1>7, <2>2, <2>3, <2>4, <3>1, <3>2
<1>10. l = 0 => Cardinality(ToFollow(i)) = 0
  <2>1. l = 0 => ToFollow(i) = {}
    BY <1>1 DEF ToFollow
  <2> QED
    BY <2>1, FS_EmptySet
<1>11. frames[i] # <<>> <=> l # 0
  BY <1>1, FramesFacts
<1>12. /\ Cardinality(Recorded) <= Cardinality(ReadsMade)
       /\ l # 0 => l + Cardinality(ToFollow(i)) + Cardinality(Recorded)
                      <= 1 + Cardinality(ReadsMade)
  BY <1>1, <1>11 DEF RecursionOK
<1>13. Len(frames'[i]) + Cardinality(ToFollow(i)') + Cardinality(Recorded)'
          <= 1 + Cardinality(ReadsMade)
  BY <1>4, <1>5, <1>6, <1>8, <1>9, <1>10, <1>12, CountsFinite
<1>14. Cardinality(Recorded)' <= Cardinality(Recorded) /\ Cardinality(Recorded)' \in Int
  BY <1>4, <1>5, CountsFinite
<1>15. ASSUME NEW j \in Invalidator, j # i
       PROVE  /\ since'[j] = <<>> => frames'[j] = <<>>
              /\ frames'[j] # <<>> =>
                   Len(frames'[j]) + Cardinality(ToFollow(j)') + Cardinality(Recorded)'
                       <= 1 + Cardinality(ReadsMade)
  <2>1. ToFollow(j)' = ToFollow(j) /\ frames'[j] = frames[j] /\ since'[j] = since[j]
    BY <1>2, <1>6, <1>15 DEF ToFollow
  <2> QED
    BY <1>14, <2>1, CountsFinite, FramesFacts DEF RecursionOK
<1>16. Cardinality(Recorded)' <= Cardinality(ReadsMade)
  BY <1>12, <1>14, CountsFinite
<1> QED
  BY <1>2, <1>3, <1>13, <1>15, <1>16 DEF RecursionOK

LEMMA ReleaseCounts ==
  ASSUME TypeOK, RecursionOK, NEW i \in Invalidator, ReleaseOld(i)
  PROVE  RecursionOK'
<1>1. UNCHANGED <<dependents, asked, since>> /\ frames[i] # <<>>
  BY DEF ReleaseOld, scopeVars
<1>2. Recorded' = Recorded /\ ReadsMade' = ReadsMade
  BY <1>1 DEF Recorded, ReadsMade
<1>3. ToFollow(i)' = ToFollow(i)
  <2>1. PICK l \in Nat : l = Len(frames[i])
    BY FramesFacts
  <2>2. /\ l >= 1 /\ Len(frames'[i]) = l - 1 /\ frames[i][l].todo = {}
        /\ \A k \in 1..(l - 1) : frames'[i][k] = frames[i][k]
    BY <2>1, ReleaseFrames
  <2>3. 1..l = (1..(l - 1)) \cup {l}
    BY <2>2
  <2>4. ToFollow(i) = {t \in (1..l) \X Provider : t[2] \in frames[i][t[1]].todo}
    BY <2>1 DEF ToFollow
  <2>5. ToFollow(i)' = {t \in (1..(l - 1)) \X Provider : t[2] \in frames'[i][t[1]].todo}
    BY <2>2 DEF ToFollow
  <2> QED
    BY <2>2, <2>3, <2>4, <2>5
<1>4. \A j \in Invalidator : j # i => frames'[j] = frames[j] /\ ToFollow(j)' = ToFollow(j)
  BY ReleaseFrames DEF ToFollow
<1>5. Len(frames'[i]) = Len(frames[i]) - 1 /\ since[i] # <<>>
  BY <1>1, ReleaseFrames DEF RecursionOK
<1>6. /\ Cardinality(Recorded) <= Cardinality(ReadsMade)
      /\ Len(frames'[i]) + Cardinality(ToFollow(i)) + Cardinality(Recorded)
            <= 1 + Cardinality(ReadsMade)
  BY <1>1, <1>5, CountsFinite, FramesFacts DEF RecursionOK
<1>7. \A j \in Invalidator :
        /\ since'[j] = <<>> => frames'[j] = <<>>
        /\ frames'[j] # <<>> =>
             Len(frames'[j]) + Cardinality(ToFollow(j)') + Cardinality(Recorded)
                 <= 1 + Cardinality(ReadsMade)
  BY <1>1, <1>3, <1>4, <1>5, <1>6 DEF RecursionOK
<1> QED
  BY <1>2, <1>6, <1>7 DEF RecursionOK

LEMMA RecursionStep ==
  ASSUME IInv, [Next]_vars
  PROVE  RecursionOK'
<1> USE DEF IInv, BuildInv
<1>1. ASSUME UNCHANGED <<dependents, asked, frames, since>> PROVE RecursionOK'
  BY <1>1 DEF RecursionOK, Recorded, ReadsMade, ToFollow
<1>2. ASSUME NEW g \in Goroutine, Moves(g) PROVE RecursionOK'
  BY <1>1, <1>2 DEF Moves, Hops, Grabs, Gains, Parks, EnterJoins, EnterStarts,
                    scopeVars, invalVars
<1>3. ASSUME NEW c \in Caller, NEW n \in Provider, Call(c, n) PROVE RecursionOK'
  BY <1>1, <1>3 DEF Call, scopeVars, invalVars
<1>4. ASSUME NEW g \in Builders, Read(g) PROVE RecursionOK'
  BY <1>1, <1>4 DEF Read, Link, FindsCycle, Unlink, scopeVars, invalVars
<1>5. ASSUME NEW a \in Attempt, Finish(a) \/ CloseDone(a) PROVE RecursionOK'
  BY <1>1, <1>5 DEF Finish, CloseDone, scopeVars, invalVars
<1>6. ASSUME CloseBegins \/ Cancel \/ Shut \/ UNCHANGED vars PROVE RecursionOK'
  BY <1>1, <1>6 DEF CloseBegins, Cancel, Shut, vars, scopeVars, invalVars
<1> QED
  BY <1>2, <1>3, <1>4, <1>5, <1>6, GetMoves, FromCounts, InvalidateCounts,
     ReleaseCounts DEF Next, Terminated, Recurse

-----------------------------------------------------------------------------
(* The inductive invariant, and what follows from it.                      *)

LEMMA InvariantInit == Init => IInv
<1> SUFFICES ASSUME Init PROVE IInv
  OBVIOUS
<1>1. Eager = {} /\ BuildInv
  BY BuildInit, NodeAssumption DEF Init, NodeAssumption
<1>2. EdgesOK
  BY DEF EdgesOK, UpToDate, Init, Start
<1>3. KeptOK
  BY SlotFacts DEF KeptOK, Init, Start
<1>4. RecursionOK
  <2>1. Recorded = {}
    BY DEF Recorded, Init, Start
  <2>2. Cardinality(ReadsMade) \in Nat
    BY <1>1, CountsFinite DEF BuildInv
  <2>3. \A i \in Invalidator : frames[i] = <<>>
    BY DEF Init, Start
  <2> QED
    BY <2>1, <2>2, <2>3, FS_EmptySet DEF RecursionOK
<1> QED
  BY <1>1, <1>2, <1>3, <1>4 DEF IInv

LEMMA InvariantStep == IInv /\ [Next]_vars => IInv'
<1> SUFFICES ASSUME IInv, [Next]_vars PROVE IInv'
  OBVIOUS
<1>1. BuildInv'
  BY BuildStep DEF IInv, BuildsDeferred
<1> QED
  BY <1>1, EdgesStep, KeptStep, RecursionStep DEF IInv

\* The inductive invariant holds in every state the providers reach.
THEOREM NodeInvariant == Spec => []IInv
  BY InvariantInit, InvariantStep, PTL DEF Spec

\* No build slips through between the edge From records, the epoch and the
\* cascade: a value built from one that is not current has an invalidation on
\* its way to it.
THEOREM StaleValuesArePending == Spec => []StaleIsPending
<1>1. ASSUME IInv PROVE StaleIsPending
  <2> SUFFICES ASSUME closing = "open", NEW n \in Provider, val[n] # None,
                      NEW u \in got[val[n]], ~Pending(n)
               PROVE  val[of[u]] = u
    BY DEF StaleIsPending
  <2>1. PICK a \in Attempt : val[n] = a /\ of[a] = n /\ UpToDate(a)
    BY <1>1 DEF IInv, BuildInv, TypeOK, NodeTypes, EpochOK
  <2>2. UpToDate(u)
    BY <1>1, <2>1 DEF IInv, EdgesOK
  <2> QED
    BY <1>1, <2>1, <2>2 DEF IInv, KeptOK
<1> QED
  BY <1>1, NodeInvariant, PTL

\* While no invalidation is under way, all that a value was built from is up to
\* date: what is up to date is closed under what was read.
LEMMA BuiltFromUpToDate ==
  ASSUME IInv, InvalidatorsIdle, NEW v \in Attempt, UpToDate(v), NEW u \in BuiltFrom(v)
  PROVE  UpToDate(u)
<1> DEFINE S == {a \in Attempt : UpToDate(a)}
<1>1. \A n : ~Pending(n)
  BY DEF InvalidatorsIdle, Pending
<1>2. ASSUME NEW a \in S PROVE got[a] \subseteq S
  BY <1>1, <1>2 DEF IInv, BuildInv, EdgesOK, TypeOK, ScopeTypes
<1>3. u \in S
  BY <1>2 DEF BuiltFrom
<1> QED
  BY <1>3

\* When the calls of Invalidate that overlap have returned, no provider has a
\* value built, however indirectly, from one that was invalidated.
THEOREM InvalidatedAreGone == Spec => []InvalidatedIsGone
<1>1. ASSUME IInv PROVE InvalidatedIsGone
  <2> SUFFICES ASSUME InvalidatorsIdle, NEW i \in Invalidator, since[i] # <<>>,
                      NEW n \in Provider, val[n] # None,
                      NEW u \in BuiltFrom(val[n]), of[u] = since[i][1]
               PROVE  began[u] >= since[i][2]
    BY DEF InvalidatedIsGone, GoneFor
  <2>1. val[n] \in Attempt /\ UpToDate(val[n])
    BY <1>1 DEF IInv, BuildInv, TypeOK, NodeTypes, EpochOK
  <2>2. UpToDate(u)
    BY <1>1, <2>1, BuiltFromUpToDate
  <2>3. began[u] = epoch[since[i][1]]
    BY <2>2 DEF UpToDate
  <2>4. since[i][2] <= epoch[since[i][1]] /\ since[i][2] \in Nat /\ since[i][1] \in Provider
    BY <1>1 DEF IInv, BuildInv, EpochOK, TypeOK, InvalTypes
  <2> QED
    BY <1>1, <2>3, <2>4 DEF IInv, BuildInv, TypeOK, NodeTypes
<1> QED
  BY <1>1, NodeInvariant, PTL

\* The recursion of invalidate is never deeper than there were calls of From,
\* also where the dependents form a cycle.
THEOREM RecursionIsBounded == Spec => []RecursionEnds
<1>1. ASSUME IInv PROVE RecursionEnds
  <2> SUFFICES ASSUME NEW i \in Invalidator
               PROVE  Len(frames[i]) <= 1 + Cardinality(ReadsMade)
    BY DEF RecursionEnds
  <2>1. /\ Len(frames[i]) \in Nat /\ Cardinality(ToFollow(i)) \in Nat
        /\ Cardinality(Recorded) \in Nat /\ Cardinality(ReadsMade) \in Nat
    BY <1>1, CountsFinite, FramesFacts DEF IInv, BuildInv
  <2>2. CASE frames[i] = <<>>
    BY <2>1, <2>2
  <2>3. CASE frames[i] # <<>>
    BY <1>1, <2>1, <2>3 DEF IInv, RecursionOK
  <2> QED
    BY <2>2, <2>3
<1> QED
  BY <1>1, NodeInvariant, PTL

-----------------------------------------------------------------------------
(* Providers are a memo table: every step is one of module Memo, or none.  *)

Fits == IInv /\ StepsOK

\* A build under way is the one its provider knows of.
LEMMA UnderWayFacts ==
  ASSUME Fits, NEW a \in Attempt, phase[a] \in {"created", "running"}
  PROVE  M!UnderWay(a) /\ of[a] \in Provider
<1>1. of[a] \in Provider
  BY DEF Fits, IInv, BuildInv, TypeOK, AttemptTypes
<1>2. a \in InFlight(of[a])
  BY <1>1 DEF InFlight, Fits, IInv
<1> QED
  BY <1>1, <1>2 DEF Fits, IInv, BuildInv, SingleFlight, M!UnderWay, Begun

\* What Invalidate has still to come to.
LEMMA DueIsPending == \A n : n \in M!Due <=> Pending(n)
  BY DEF M!Due, DueTo, Pending

\* DueTo is a function, then and now.
LEMMA DueIsFunction ==
  /\ DueTo = [j \in Invalidator |-> DueTo[j]]
  /\ DueTo' = [j \in Invalidator |-> DueTo'[j]]
<1> DEFINE D(j) == UNION {frames[j][k].todo : k \in 1..Len(frames[j])}
           E(j) == UNION {frames'[j][k].todo : k \in 1..Len(frames'[j])}
<1>1. DueTo = [j \in Invalidator |-> D(j)] /\ DueTo' = [j \in Invalidator |-> E(j)]
  BY DEF DueTo
<1> HIDE DEF D, E
<1> QED
  BY <1>1

\* Steps that the table does not see.
LEMMA MemoStutters ==
  ASSUME UNCHANGED <<val, cur, got, of, epoch, began, err, DueTo, closed>>,
         \A a \in Attempt : phase'[a] = "unused" <=> phase[a] = "unused",
         closing' = "open" <=> closing = "open"
  PROVE  UNCHANGED M!vars
<1>1. Begun' = Begun /\ Failed' = Failed /\ Shutdown' = Shutdown
  BY DEF Begun, Failed, Shutdown
<1>2. Outdated' = Outdated
  BY <1>1 DEF Outdated
<1>3. (closing # "open")' = (closing # "open")
  OBVIOUS
<1> QED
  BY <1>1, <1>2, <1>3 DEF M!vars

\* get enters, and finds that it has to build.
LEMMA StartMaps ==
  ASSUME Fits, NEW g \in Goroutine, EnterStarts(g)
  PROVE  M!Next
<1>1. PICK a \in Attempt, n \in Provider :
            /\ target[g] = n /\ val[n] = None /\ cur[n] = None /\ phase[a] = "unused"
            /\ cur' = [cur EXCEPT ![n] = a]
            /\ phase' = [phase EXCEPT ![a] = IF g \in Caller THEN "running" ELSE "created"]
            /\ of' = [of EXCEPT ![a] = n]
            /\ began' = [began EXCEPT ![a] = epoch[n]]
  BY StartFacts DEF Fits, IInv, BuildInv
<1>2. ~closed[n] /\ UNCHANGED <<val, epoch, closed, err, got, frames, closing>>
  BY <1>1 DEF EnterStarts, NoValue, scopeVars, invalVars, closeVars
<1>3. Begun' = Begun \cup {a} /\ a \notin Begun
  BY <1>1 DEF Begun, Fits, IInv, BuildInv, TypeOK, AttemptTypes
<1>4. Outdated' = Outdated
  BY <1>1, <1>2, <1>3 DEF Outdated, Begun, Fits, IInv, BuildInv, TypeOK, AttemptTypes
<1>5. Failed' = Failed /\ DueTo' = DueTo /\ Shutdown' = Shutdown /\ n \notin Shutdown
  BY <1>2 DEF Failed, DueTo, Shutdown
<1>6. M!Begin(a, n)
  BY <1>1, <1>2, <1>3, <1>4, <1>5 DEF M!Begin
<1> QED
  BY <1>6 DEF M!Next

\* What a build is about to read is current, unless nobody will keep the build.
LEMMA ReadMaps ==
  ASSUME Fits, NEW g \in Goroutine, Gains(g)
  PROVE  M!Next
<1>1. g \in Builders
  BY DEF Gains, Goroutine, Builders
<1>2. PICK b \in Attempt, s \in Slot, u \in Attempt :
        /\ g = <<b, s>> /\ g[1] = b /\ box[g] = u /\ of[u] = target[g]
        /\ phase[b] = "running" /\ phase[u] \in {"finished", "done"} /\ at[g] = "acquire"
  BY <1>1, BuilderFacts DEF Gains, Fits, IInv, BuildInv, PlaceOK
<1>3. /\ UNCHANGED <<val, cur, of, epoch, began, err, frames, closed, phase, closing>>
      /\ got' = [got EXCEPT ![b] = @ \cup {u}]
  BY <1>2 DEF Gains, nodeVars, builtVars, invalVars, closeVars
<1>4. val[of[u]] = u \/ b \in Outdated \/ of[b] \in M!Due \/ closing # "open"
  <2> SUFFICES ASSUME b \notin Outdated, of[b] \notin M!Due, closing = "open"
               PROVE  val[of[u]] = u
    OBVIOUS
  <2>1. UpToDate(b) /\ ~Pending(of[b])
    BY <1>2, DueIsPending DEF Outdated, Begun, UpToDate
  <2>2. UpToDate(u)
    BY <1>2, <2>1 DEF Fits, IInv, EdgesOK
  <2> QED
    BY <1>2, <2>2 DEF Fits, IInv, KeptOK
<1>5. M!UnderWay(b) /\ u \in Begun
  BY <1>2, UnderWayFacts DEF Begun
<1>6. /\ Begun' = Begun /\ Failed' = Failed /\ DueTo' = DueTo /\ Shutdown' = Shutdown
      /\ Outdated' = Outdated
  BY <1>3 DEF Begun, Failed, DueTo, Shutdown, Outdated
<1>7. M!Read(b, u)
  BY <1>3, <1>4, <1>5, <1>6 DEF M!Read
<1> QED
  BY <1>2, <1>7 DEF M!Next

\* finish publishes, discards or fails, as the epoch and the edges say.
LEMMA FinishMaps ==
  ASSUME Fits, NEW a \in Attempt, Finish(a)
  PROVE  M!Next
<1>1. PICK e \in Errors \cup {"none"}, n \in Provider :
        /\ of[a] = n /\ phase[a] = "running" /\ err' = [err EXCEPT ![a] = e]
        /\ val' = IF e = "none" /\ Publishes(a) THEN [val EXCEPT ![n] = a] ELSE val
        /\ cur' = [cur EXCEPT ![n] = None]
        /\ phase' = [phase EXCEPT ![a] = "finished"]
  BY DEF Finish, BuilderReturns, Fits, IInv, BuildInv, TypeOK, AttemptTypes
<1>2. UNCHANGED <<of, got, epoch, began, frames, closed, closing>>
  BY DEF Finish, scopeVars, invalVars, closeVars
<1>3. M!UnderWay(a) /\ err[a] = "none"
  BY <1>1, UnderWayFacts DEF Fits, StepsOK
<1>4. Begun' = Begun /\ a \in Begun
  BY <1>1 DEF Begun, Fits, IInv, BuildInv, TypeOK, AttemptTypes
<1>5. Outdated' = Outdated /\ DueTo' = DueTo /\ Shutdown' = Shutdown
  BY <1>2, <1>4 DEF Outdated, DueTo, Shutdown
<1>6. Failed' = IF e = "none" THEN Failed ELSE Failed \cup {a}
  BY <1>1, <1>3 DEF Failed, Fits, IInv, BuildInv, TypeOK, AttemptTypes
<1>7. CASE e # "none"
  <2>1. M!Fail(a)
    BY <1>1, <1>2, <1>3, <1>4, <1>5, <1>6, <1>7 DEF M!Fail
  <2> QED
    BY <2>1 DEF M!Next
<1>8. CASE e = "none" /\ Publishes(a)
  <2>1. a \notin Outdated /\ closing = "open" /\ UpToDate(a)
    BY <1>1, <1>8 DEF Publishes, Outdated, UpToDate
  <2>2. ASSUME NEW u \in got[a], of[a] \notin M!Due PROVE val[of[u]] = u
    <3>1. UpToDate(u)
      BY <2>1, <2>2, DueIsPending DEF Fits, IInv, EdgesOK
    <3> QED
      BY <2>1, <3>1 DEF Fits, IInv, KeptOK
  <2>3. M!Publish(a)
    BY <1>1, <1>2, <1>3, <1>4, <1>5, <1>6, <1>8, <2>1, <2>2 DEF M!Publish
  <2> QED
    BY <2>3 DEF M!Next
<1>9. CASE e = "none" /\ ~Publishes(a)
  <2>1. a \in Outdated \/ closing # "open"
    BY <1>1, <1>4, <1>9 DEF Publishes, Outdated, Fits, StepsOK
  <2>2. M!Discard(a)
    BY <1>1, <1>2, <1>3, <1>4, <1>5, <1>6, <1>9, <2>1 DEF M!Discard
  <2> QED
    BY <2>2 DEF M!Next
<1> QED
  BY <1>7, <1>8, <1>9

\* What reads the value that an invalidation of n forgets is due to go as well.
LEMMA ReadersAreDue ==
  ASSUME Fits, NEW i \in Invalidator, NEW n \in Provider,
         InvalidateCalled(i, n) \/ InvalidateDependent(i, n), val[n] # None,
         NEW m \in Provider, m # n, NEW b \in {val[m], cur[m]}, b # None,
         b \notin Outdated, val[n] \in got[b]
  PROVE  Pending(m)'
<1>1. b \in Attempt /\ of[b] = m /\ phase[b] # "unused"
  <2>1. CASE b = val[m]
    BY <2>1 DEF Fits, IInv, BuildInv, TypeOK, NodeTypes, EpochOK
  <2>2. CASE b = cur[m]
    <3>1. b \in InFlight(m)
      BY <2>2 DEF Fits, IInv, BuildInv, SingleFlight
    <3> QED
      BY <3>1 DEF InFlight
  <2> QED
    BY <2>1, <2>2
<1>2. UpToDate(b)
  BY <1>1 DEF Outdated, Begun, UpToDate
<1>3. of[val[n]] = n
  BY DEF Fits, IInv, BuildInv, EpochOK
<1>4. Pending(m) \/ m \in dependents[n]
  BY <1>1, <1>2, <1>3 DEF Fits, IInv, EdgesOK
<1> QED
  BY <1>4, InvalidatePends DEF Fits, IInv, BuildInv

\* What i has still to forget, as an invalidation of n changes it.
LEMMA DueAfter ==
  ASSUME Fits, NEW i \in Invalidator, NEW n \in Provider,
         InvalidateCalled(i, n) \/ InvalidateDependent(i, n)
  PROVE  /\ n \in DueTo[i] \/ DueTo[i] = {}
         /\ DueTo'[i] \subseteq Provider /\ DueTo[i] \ {n} \subseteq DueTo'[i]
         /\ \A j \in Invalidator : j # i => DueTo'[j] = DueTo[j]
<1> DEFINE L == Len(frames[i])
<1>0. since[i] = <<>> => frames[i] = <<>>
  BY DEF Fits, IInv, RecursionOK
<1>1. /\ Len(frames'[i]) = L + 1 /\ L \in Nat
      /\ frames'[i][L + 1].todo = dependents[n]
      /\ \A k \in 1..L : /\ frames[i][k].todo \subseteq Provider
                         /\ frames'[i][k].todo = IF k = L THEN frames[i][k].todo \ {n}
                                                          ELSE frames[i][k].todo
      /\ L # 0 => n \in frames[i][L].todo
      /\ \A j \in Invalidator : j # i => frames'[j] = frames[j]
  BY <1>0, InvalidateFrames, FramesFacts, ZenonT(30) DEF Fits, IInv, BuildInv, Frame
<1>2. dependents[n] \subseteq Provider
  BY DEF Fits, IInv, BuildInv, TypeOK, NodeTypes
<1> HIDE DEF L
<1>3. DueTo[i] = UNION {frames[i][k].todo : k \in 1..L}
  BY DEF DueTo, L
<1>4. DueTo'[i] = UNION {frames'[i][k].todo : k \in 1..(L + 1)}
  BY <1>1 DEF DueTo
<1>5. n \in DueTo[i] \/ DueTo[i] = {}
  BY <1>1, <1>3
<1>6. DueTo'[i] \subseteq Provider
  <2> SUFFICES ASSUME NEW k \in 1..(L + 1) PROVE frames'[i][k].todo \subseteq Provider
    BY <1>4
  <2>1. CASE k = L + 1
    BY <1>1, <1>2, <2>1
  <2>2. CASE k \in 1..L
    <3>1. frames'[i][k].todo \subseteq frames[i][k].todo
      BY <1>1, <2>2
    <3> QED
      BY <1>1, <2>2, <3>1
  <2> QED
    BY <1>1, <2>1, <2>2
<1>7. DueTo[i] \ {n} \subseteq DueTo'[i]
  <2> SUFFICES ASSUME NEW m, m # n, NEW k \in 1..L, m \in frames[i][k].todo
               PROVE  m \in DueTo'[i]
    BY <1>3
  <2>1. k \in 1..(L + 1)
    BY <1>1
  <2>2. m \in frames'[i][k].todo
    <3>1. frames'[i][k].todo = IF k = L THEN frames[i][k].todo \ {n} ELSE frames[i][k].todo
      BY <1>1
    <3> QED
      BY <3>1
  <2> QED
    BY <1>4, <2>1, <2>2
<1>8. \A j \in Invalidator : j # i => DueTo'[j] = DueTo[j]
  BY <1>1 DEF DueTo
<1> QED
  BY <1>5, <1>6, <1>7, <1>8

LEMMA InvalidateMaps ==
  ASSUME Fits, NEW i \in Invalidator, NEW n \in Provider,
         InvalidateCalled(i, n) \/ InvalidateDependent(i, n)
  PROVE  M!Next
<1>1. /\ UNCHANGED <<cur, of, got, began, err, phase, closed, closing>>
      /\ epoch' = [epoch EXCEPT ![n] = epoch[n] + 1]
      /\ val' = [val EXCEPT ![n] = None]
  BY DEF InvalidateCalled, InvalidateDependent, Invalidate, NextEpoch, builtVars,
         scopeVars, closeVars
<1>2. Begun' = Begun /\ Failed' = Failed /\ Shutdown' = Shutdown
  BY <1>1 DEF Begun, Failed, Shutdown
<1>3. Outdated' = Outdated \cup {b \in Begun : of[b] = n}
  <2>1. \A b \in Begun : /\ of[b] \in Provider /\ began[b] \in Nat
                         /\ began[b] <= epoch[of[b]]
    BY DEF Begun, Fits, IInv, BuildInv, TypeOK, AttemptTypes, EpochOK
  <2>2. \A m \in Provider : epoch[m] \in Nat
                            /\ epoch'[m] = IF m = n THEN epoch[m] + 1 ELSE epoch[m]
    BY <1>1 DEF Fits, IInv, BuildInv, TypeOK, NodeTypes
  <2>3. \A b \in Begun : b \in Outdated' <=> b \in Outdated \/ of[b] = n
    BY <1>1, <1>2, <2>1, <2>2 DEF Outdated
  <2> QED
    BY <1>2, <2>3 DEF Outdated
<1>4. DueTo' = [DueTo EXCEPT ![i] = (@ \ {n}) \cup DueTo'[i]]
  <2>1. DueTo'[i] = (DueTo[i] \ {n}) \cup DueTo'[i]
        /\ \A j \in Invalidator : j # i => DueTo'[j] = DueTo[j]
    BY DueAfter
  <2> QED
    BY <2>1, DueIsFunction
<1>5. ASSUME val[n] # None, NEW m \in Provider, NEW b \in {val[m], cur[m]} \ Outdated',
             b # None, val[n] \in got[b]
      PROVE  m \in M!Due'
  <2>1. b \in Attempt => b \in Begun /\ of[b] = m
    <3>1. CASE b = val[m]
      BY <1>5, <3>1 DEF Begun, Fits, IInv, BuildInv, EpochOK
    <3>2. CASE b = cur[m]
      <4>1. b \in InFlight(m)
        BY <1>5, <3>2 DEF Fits, IInv, BuildInv, SingleFlight
      <4> QED
        BY <4>1 DEF InFlight, Begun
    <3> QED
      BY <3>1, <3>2
  <2>2. b \in Attempt
    BY <1>5 DEF Fits, IInv, BuildInv, TypeOK, NodeTypes
  <2>3. m # n /\ b \notin Outdated
    BY <1>3, <1>5, <2>1, <2>2
  <2>4. Pending(m)'
    BY <1>5, <2>3, ReadersAreDue
  <2> QED
    BY <2>4 DEF Pending, M!Due, DueTo
<1>6. M!Forget(i, n)
  <2>1. n \in DueTo[i] \/ DueTo[i] = {}
    BY DueAfter
  <2>2. \E D \in SUBSET Provider : DueTo' = [DueTo EXCEPT ![i] = (@ \ {n}) \cup D]
    BY <1>4, DueAfter
  <2> QED
    BY <1>1, <1>2, <1>3, <1>5, <2>1, <2>2 DEF M!Forget
<1> QED
  BY <1>6 DEF M!Next

\* invalidate returns from what has nothing left to do.
LEMMA ReleaseMaps ==
  ASSUME Fits, NEW i \in Invalidator, ReleaseOld(i)
  PROVE  UNCHANGED M!vars
<1> DEFINE L == Len(frames[i])
<1>1. /\ L \in Nat /\ L >= 1 /\ Len(frames'[i]) = L - 1 /\ frames[i][L].todo = {}
      /\ \A k \in 1..(L - 1) : frames'[i][k] = frames[i][k]
      /\ \A j \in Invalidator : j # i => frames'[j] = frames[j]
  BY ReleaseFrames, FramesFacts DEF Fits, IInv, BuildInv
<1> HIDE DEF L
<1>2. DueTo'[i] = DueTo[i]
  <2>1. DueTo[i] = UNION {frames[i][k].todo : k \in 1..L}
    BY DEF DueTo, L
  <2>2. DueTo'[i] = UNION {frames'[i][k].todo : k \in 1..(L - 1)}
    BY <1>1 DEF DueTo
  <2>3. \A m : (\E k \in 1..L : m \in frames[i][k].todo)
               <=> \E k \in 1..(L - 1) : m \in frames'[i][k].todo
    BY <1>1
  <2> QED
    BY <2>1, <2>2, <2>3
<1>3. DueTo' = DueTo
  <2>1. \A j \in Invalidator : j # i => DueTo'[j] = DueTo[j]
    BY <1>1 DEF DueTo
  <2> QED
    BY <1>2, <2>1, DueIsFunction
<1>4. UNCHANGED <<val, cur, got, of, epoch, began, err, closed, phase, closing>>
  BY DEF ReleaseOld, nodeVars, builtVars, scopeVars, closeVars
<1> QED
  BY <1>3, <1>4, MemoStutters

LEMMA CloseMaps ==
  ASSUME Fits, CloseBegins \/ Shut
  PROVE  M!Next
<1>1. CASE CloseBegins
  <2>1. UNCHANGED <<val, cur, got, of, epoch, began, err, frames, closed, phase>>
        /\ closing' = "closed"
    BY <1>1 DEF CloseBegins, nodeVars, builtVars, scopeVars, invalVars
  <2>2. UNCHANGED <<Begun, Outdated, Failed, DueTo, Shutdown>>
    BY <2>1 DEF Begun, Outdated, Failed, DueTo, Shutdown
  <2>3. M!End
    BY <2>1, <2>2 DEF M!End
  <2> QED
    BY <2>3 DEF M!Next
<1>2. CASE Shut
  <2>1. PICK n : n = toShut[Len(toShut)]
    OBVIOUS
  <2>2. n \in Provider
    <3>1. toShut \in Seq(Provider) /\ toShut # <<>>
      BY <1>2 DEF Shut, Fits, IInv, BuildInv, TypeOK, CloseTypes
    <3> QED
      BY <2>1, <3>1
  <2>3. /\ UNCHANGED <<cur, got, of, epoch, began, err, frames, phase, closing>>
        /\ closing = "cancelled"
        /\ val' = [val EXCEPT ![n] = None] /\ closed' = [closed EXCEPT ![n] = TRUE]
    BY <1>2, <2>1 DEF Shut, ShutCloses, builtVars, scopeVars, invalVars
  <2>4. UNCHANGED <<Begun, Outdated, Failed, DueTo>>
    BY <2>3 DEF Begun, Outdated, Failed, DueTo
  <2>5. Shutdown' = Shutdown \cup {n}
    BY <2>2, <2>3 DEF Shutdown, Fits, IInv, BuildInv, TypeOK, NodeTypes
  <2>6. M!Shut(n)
    BY <2>3, <2>4, <2>5 DEF M!Shut
  <2> QED
    BY <2>2, <2>6 DEF M!Next
<1> QED
  BY <1>1, <1>2

\* The other steps of goroutines are not seen.
LEMMA GetMaps ==
  ASSUME Fits, NEW g \in Goroutine, Moves(g)
  PROVE  M!Next \/ UNCHANGED M!vars
<1>1. CASE Hops(g) \/ Grabs(g) \/ Parks(g) \/ EnterJoins(g)
  <2>1. UNCHANGED <<val, cur, got, of, epoch, began, err, frames, closed, phase, closing>>
    BY <1>1 DEF Hops, Grabs, Parks, EnterJoins, nodeVars, builtVars, scopeVars,
                invalVars, closeVars
  <2> QED
    BY <2>1, MemoStutters DEF DueTo
<1> QED
  BY <1>1, StartMaps, ReadMaps DEF Moves

LEMMA WaitMaps ==
  ASSUME Fits, NEW g \in Builders, Read(g)
  PROVE  UNCHANGED M!vars
<1>1. UNCHANGED <<val, got, of, epoch, began, frames, closed, closing>>
  BY DEF Read, Link, FindsCycle, Unlink, Resume, Fails, nodeVars, builtVars,
         scopeVars, invalVars, closeVars
<1>2. FindsCycle(g) => ~mine[g]
  BY NewBuildsNeverRefused DEF FindsCycle, Fits, IInv, BuildInv
<1>3. UNCHANGED <<cur, err>>
  BY <1>2 DEF Read, Link, FindsCycle, Unlink, nodeVars, builtVars
<1>4. \A a \in Attempt : phase'[a] = "unused" <=> phase[a] = "unused"
  <2>1. CASE Link(g)
    <3>1. att[g] \in Attempt /\ (mine[g] => phase[att[g]] = "created")
      BY <2>1, BuilderFacts DEF Link, StarterOK, PlaceOK, Fits, IInv, BuildInv
    <3> QED
      BY <2>1, <3>1 DEF Link, Fits, IInv, BuildInv, TypeOK, AttemptTypes
  <2>2. CASE ~Link(g)
    BY <1>2, <2>2 DEF Read, FindsCycle, Unlink
  <2> QED
    BY <2>1, <2>2
<1> QED
  BY <1>1, <1>3, <1>4, MemoStutters DEF DueTo

LEMMA MemoInit == Init => M!Init
<1> SUFFICES ASSUME Init PROVE M!Init
  OBVIOUS
<1>1. Begun = {} /\ Outdated = {} /\ Failed = {} /\ Shutdown = {}
  BY DEF Init, Start, Begun, Outdated, Failed, Shutdown
<1>2. DueTo = [i \in Invalidator |-> {}]
  BY DEF Init, Start, DueTo
<1> QED
  BY <1>1, <1>2 DEF Init, Start, M!Init

LEMMA MemoStep == Fits /\ [Next]_vars => [M!Next]_(M!vars)
<1> SUFFICES ASSUME Fits, [Next]_vars PROVE M!Next \/ UNCHANGED M!vars
  OBVIOUS
<1>1. ASSUME UNCHANGED <<nodeVars, builtVars, scopeVars, frames>>,
             \A a \in Attempt : phase'[a] = "unused" <=> phase[a] = "unused",
             closing' = "open" <=> closing = "open"
      PROVE  UNCHANGED M!vars
  BY <1>1, MemoStutters DEF nodeVars, builtVars, scopeVars, DueTo
<1>2. ASSUME NEW c \in Caller, NEW n \in Provider, Call(c, n) PROVE UNCHANGED M!vars
  BY <1>1, <1>2 DEF Call, invalVars, closeVars
<1>3. ASSUME NEW g \in Builders, NEW n \in Provider, From(g, n) PROVE UNCHANGED M!vars
  <2>1. UNCHANGED <<val, cur, got, of, epoch, began, err, frames, closed, phase, closing>>
    BY <1>3 DEF From, nodeVars, builtVars, invalVars, closeVars
  <2> QED
    BY <2>1, MemoStutters DEF DueTo
<1>4. ASSUME NEW a \in Attempt, CloseDone(a) PROVE UNCHANGED M!vars
  BY <1>1, <1>4 DEF CloseDone, invalVars, closeVars, Fits, IInv, BuildInv, TypeOK,
                    AttemptTypes
<1>5. ASSUME Cancel \/ UNCHANGED vars PROVE UNCHANGED M!vars
  BY <1>1, <1>5 DEF Cancel, vars, invalVars, closeVars
<1> QED
  BY <1>2, <1>3, <1>4, <1>5, GetMoves, GetMaps, WaitMaps, FinishMaps, InvalidateMaps,
     ReleaseMaps, CloseMaps DEF Next, Terminated, Recurse

\* Providers implement the memo table: every behaviour of the epochs, the edges
\* and the cascade, however it interleaves, is one of module Memo.
THEOREM NodeImplementsMemo == Spec => MemoKept
<1>1. Init => M!Init
  BY MemoInit
<1>2. Fits /\ [Next]_vars => [M!Next]_(M!vars)
  BY MemoStep
<1>3. Spec => []Fits
  BY NodeInvariant, BuildsGoOn, PTL DEF Fits
<1> QED
  BY <1>1, <1>2, <1>3, PTL DEF Spec, MemoKept, M!Spec
=============================================================================
