------------------------- MODULE ValuesOrderProofs -------------------------
(***************************************************************************)
(* The order in which cleanups run, what CloseContext has done when it     *)
(* returns, and where cleanup errors go, proved for every instance of      *)
(* Values.  CloseInv is the inductive invariant.                           *)
(***************************************************************************)
EXTENDS ValuesProofs

-----------------------------------------------------------------------------
(* Releases.                                                               *)

\* a releases u, which somebody holds and nobody cleans up yet.
Gives(u, a) ==
    /\ u \in Value /\ a \in Releaser
    /\ Release(u, a)
    /\ Built(u) /\ refs[u] >= 1 /\ cleanup[u] = "none" /\ ~inside[u]

\* Whatever the code releases is held.
LEMMA ReleasesHeld ==
  ASSUME IInv
  PROVE  /\ \A v \in Value : ReleaseDep(v) => Gives(deps[v][left[v]], v)
         /\ \A l \in Lease : LeaseRelease(l) => Gives(of[l], l)
         /\ \A d \in Dropper : Drop(d) => Gives(stack[d][Len(stack[d])], d)
<1>0. TypeOK /\ UsesOK /\ StackOK /\ CleanOK /\ CountIsHolders
  BY DEF IInv
<1>1. ASSUME NEW v \in Value, ReleaseDep(v) PROVE Gives(deps[v][left[v]], v)
  <2>0. PICK u : u = deps[v][left[v]]
    OBVIOUS
  <2>1. /\ left[v] \in 1..MaxReads /\ left[v] \in 1..Len(deps[v]) /\ u \in Value
        /\ Release(u, v)
    BY <1>0, <1>1, <2>0 DEF ReleaseDep, TypeOK, BuildTypes
  <2>2. <<v, left[v]>> \in DepsOn(u)
    BY <2>0, <2>1 DEF DepsOn
  <2>3. refs[u] >= 1 /\ Built(u)
    BY <1>0, <2>0, <2>1, <2>2, Held DEF UsesOK
  <2> QED
    BY <1>0, <2>0, <2>1, <2>3 DEF Gives, CleanOK, Releaser
<1>2. ASSUME NEW l \in Lease, LeaseRelease(l) PROVE Gives(of[l], l)
  <2>1. of[l] \in Value /\ Built(of[l]) /\ Release(of[l], l) /\ l \in LeasesOn(of[l])
    BY <1>0, <1>2 DEF LeaseRelease, MayRelease, TypeOK, LeaseTypes, UsesOK, LeasesOn
  <2>2. refs[of[l]] >= 1
    BY <1>0, <2>1, Held
  <2> QED
    BY <1>0, <2>1, <2>2 DEF Gives, CleanOK, Releaser
<1>3. ASSUME NEW d \in Dropper, Drop(d) PROVE Gives(stack[d][Len(stack[d])], d)
  <2>0. PICK u : u = stack[d][Len(stack[d])]
    OBVIOUS
  <2>1. u \in Value /\ phase[u] = "swapped" /\ Release(u, d)
    BY <1>0, <1>3, <2>0 DEF Drop, TypeOK, StackTypes, StackOK
  <2>2. refs[u] >= 1 /\ Built(u)
    BY <1>0, <2>1, Held DEF ProviderRefs, Built
  <2> QED
    BY <1>0, <2>0, <2>1, <2>2 DEF Gives, CleanOK, Releaser
<1> QED
  BY <1>1, <1>2, <1>3

\* The release either starts the cleanup or only counts down.
LEMMA GivesEffect ==
  ASSUME TypeOK, NEW u, NEW a, Gives(u, a)
  PROVE  \/ UNCHANGED <<cleanup, next, caller>>
         \/ /\ cleanup' = [cleanup EXCEPT ![u] = "running"]
            /\ next' = [next EXCEPT ![u] = closers[u]]
            /\ caller' = [caller EXCEPT ![u] = a]
  BY DEF Gives, Release, FirstCleanup, cleanVars

-----------------------------------------------------------------------------
(* The order of cleanups.                                                  *)

\* The steps that leave both runAlls alone.
LEMMA OrderFrame ==
  LET same == UNCHANGED <<closers, next, cleanup, inside, done, forcing, fnext, finside>> IN
  /\ \A v \in Value : StartBuild(v) \/ Publish(v) \/ FinishBuild(v) => same
  /\ \A v \in Value : \A r \in Reader :
       Load(v, r) \/ Acquire(v, r) \/ AcquireFails(v, r) => same
  /\ \A l \in Lease : LeaseLoad(l) \/ LeaseAcquire(l) \/ LeaseAddLate(l) => same
  /\ \A d \in Dropper : InvalidateReturns(d) => same
  /\ \A d \in Dropper : \A v \in Value : SwapOut(d, v) => same
  /\ CloseBegins \/ CloseWaits \/ CloseReturns \/ DeadlineEnds \/ CloseTimesOut => same
  /\ UNCHANGED vars => same
<1> DEFINE same == UNCHANGED <<closers, next, cleanup, inside, done, forcing, fnext, finside>>
<1>1. ASSUME NEW v \in Value, StartBuild(v) \/ Publish(v) \/ FinishBuild(v) PROVE same
  BY <1>1 DEF StartBuild, Publish, FinishBuild, buildVars, cleanVars, runVars, forceVars
<1>2. ASSUME NEW v \in Value, NEW r \in Reader,
             Load(v, r) \/ Acquire(v, r) \/ AcquireFails(v, r)
      PROVE  same
  BY <1>2 DEF Load, Acquire, AcquireFails, cleanVars, runVars, forceVars
<1>3. ASSUME NEW l \in Lease, LeaseLoad(l) \/ LeaseAcquire(l) \/ LeaseAddLate(l)
      PROVE  same
  BY <1>3 DEF LeaseLoad, LeaseAcquire, LeaseAddLate, buildVars, cleanVars, runVars,
              forceVars
<1>4. ASSUME NEW d \in Dropper, InvalidateReturns(d) PROVE same
  BY <1>4 DEF InvalidateReturns, buildVars, cleanVars, runVars, forceVars
<1>5. ASSUME NEW d \in Dropper, NEW v \in Value, SwapOut(d, v) PROVE same
  BY <1>5 DEF SwapOut, buildVars, cleanVars, runVars, forceVars
<1>6. ASSUME CloseBegins \/ CloseWaits \/ CloseReturns \/ DeadlineEnds \/ CloseTimesOut
      PROVE  same
  BY <1>6 DEF CloseBegins, CloseWaits, CloseReturns, DeadlineEnds, CloseTimesOut,
              buildVars, cleanVars, runVars, forceVars
<1>7. ASSUME UNCHANGED vars PROVE same
  BY <1>7 DEF vars, buildVars, cleanVars, runVars, forceVars
<1> QED
  BY <1>1, <1>2, <1>3, <1>4, <1>5, <1>6, <1>7

\* A build runs no cleanup and is not forced.
LEMMA UnbuiltIdle ==
  ASSUME TypeOK, CleanOK, LiveOK, NEW v \in Value, phase[v] \in {"unborn", "building"}
  PROVE  cleanup[v] = "none" /\ ~inside[v] /\ done[v] = {} /\ forcing # v /\ v \notin forced
<1>1. v \notin forced
  BY DEF LiveOK, Built
<1>2. v # None
  BY ValuesAssumption DEF ValuesAssumption
<1> QED
  BY <1>1, <1>2 DEF CleanOK, TypeOK, ForceTypes

Ordered == OrderOK /\ ReverseOrder

\* A release, which may start runAll.
LEMMA GivesOrdered ==
  ASSUME TypeOK, Ordered, NEW u, NEW a, Gives(u, a),
         UNCHANGED <<closers, inside, done, forcing, fnext, finside>>
  PROVE  Ordered'
<1>1. CASE UNCHANGED <<cleanup, next>>
  BY <1>1 DEF Ordered, OrderOK, ReverseOrder
<1>2. CASE /\ cleanup' = [cleanup EXCEPT ![u] = "running"]
           /\ next' = [next EXCEPT ![u] = closers[u]]
  <2>1. u \in Value /\ ~inside[u] /\ closers[u] \in Nat
    BY DEF Gives, TypeOK, BuildTypes
  <2>2. \A w \in Value : w # u => cleanup'[w] = cleanup[w] /\ next'[w] = next[w]
    BY <1>2, <2>1 DEF TypeOK, CleanTypes
  <2>3. cleanup'[u] = "running" /\ next'[u] = closers[u]
    BY <1>2, <2>1 DEF TypeOK, CleanTypes
  <2>4. (next'[u] + 1)..closers[u] = {}
    BY <2>1, <2>3
  <2> QED
    BY <2>1, <2>2, <2>3, <2>4 DEF Ordered, OrderOK, ReverseOrder
<1> QED
  BY <1>1, <1>2, GivesEffect

LEMMA OrderStep == CloseInv /\ [Next]_vars => Ordered'
<1> SUFFICES ASSUME CloseInv PROVE [Next]_vars => Ordered'
  OBVIOUS
<1>0. IInv /\ TypeOK /\ CleanOK /\ ForceOK /\ LiveOK /\ Ordered
  BY DEF CloseInv, IInv, Ordered
<1>1. /\ \A w \in Value : closers[w] \in Nat /\ next[w] \in Nat
      /\ closers \in [Value -> 0..MaxClosers] /\ next \in [Value -> 0..MaxClosers]
      /\ cleanup \in [Value -> Cleanup] /\ inside \in [Value -> BOOLEAN]
      /\ done \in [Value -> SUBSET (1..MaxClosers)]
      /\ fnext \in Nat /\ MaxClosers \in Nat
  BY <1>0, ValuesAssumption DEF TypeOK, BuildTypes, CleanTypes, ForceTypes, ValuesAssumption
<1>2. ASSUME NEW v \in Value, OnClose(v) PROVE Ordered'
  <2>1. /\ closers' = [closers EXCEPT ![v] = @ + 1]
        /\ UNCHANGED <<next, cleanup, inside, done, forcing, fnext, finside>>
    BY <1>2 DEF OnClose, cleanVars, runVars, forceVars
  <2>2. cleanup[v] = "none" /\ ~inside[v] /\ done[v] = {} /\ forcing # v
    BY <1>0, <1>2, UnbuiltIdle DEF OnClose
  <2>3. closers'[v] = closers[v] + 1 /\ \A w \in Value : w # v => closers'[w] = closers[w]
    BY <1>1, <2>1
  <2>4. forcing # None => forcing \in Value
    BY <1>0 DEF TypeOK, ForceTypes
  <2> QED
    BY <1>0, <1>1, <2>1, <2>2, <2>3, <2>4 DEF Ordered, OrderOK, ReverseOrder
<1>3. ASSUME NEW v \in Value, Discard(v) PROVE Ordered'
  <2>1. /\ cleanup' = [cleanup EXCEPT ![v] = "running"]
        /\ next' = [next EXCEPT ![v] = closers[v]]
        /\ UNCHANGED <<closers, inside, done, forcing, fnext, finside>>
    BY <1>3 DEF Discard, FirstCleanup, buildVars, runVars, forceVars
  <2>2. ~inside[v] /\ done[v] = {}
    BY <1>0, <1>3, UnbuiltIdle DEF Discard, MayReturn
  <2>3. /\ cleanup'[v] = "running" /\ next'[v] = closers[v]
        /\ \A w \in Value : w # v => cleanup'[w] = cleanup[w] /\ next'[w] = next[w]
    BY <1>1, <2>1
  <2>4. (next'[v] + 1)..closers[v] = {}
    BY <1>1, <2>3
  <2> QED
    BY <1>0, <1>1, <2>1, <2>2, <2>3, <2>4 DEF Ordered, OrderOK, ReverseOrder
<1>4. ASSUME NEW v \in Value, RunCloser(v) PROVE Ordered'
  <2>1. /\ cleanup[v] = "running" /\ next[v] > 0 /\ ~inside[v]
        /\ UNCHANGED <<closers, cleanup, forcing, fnext, finside>>
    BY <1>4 DEF RunCloser, buildVars, forceVars
  <2>2. next[v] <= closers[v] /\ (next[v] + 1)..closers[v] \subseteq done[v]
    BY <1>0, <2>1 DEF Ordered, OrderOK
  <2>3. CASE next[v] \in done[v]
    <3>1. next' = [next EXCEPT ![v] = @ - 1] /\ UNCHANGED <<inside, done>>
      BY <1>4, <2>3 DEF RunCloser, CleanupAt
    <3>2. next'[v] = next[v] - 1 /\ \A w \in Value : w # v => next'[w] = next[w]
      BY <1>1, <3>1
    <3>3. (next'[v] + 1)..closers[v] \subseteq done[v]
      BY <1>1, <2>2, <2>3, <3>2
    <3> QED
      BY <1>0, <1>1, <2>1, <2>2, <3>1, <3>2, <3>3 DEF Ordered, OrderOK, ReverseOrder
  <2>4. CASE next[v] \notin done[v]
    <3>1. /\ done' = [done EXCEPT ![v] = @ \cup {next[v]}]
          /\ inside' = [inside EXCEPT ![v] = TRUE]
          /\ next' = next
      BY <1>4, <2>4 DEF RunCloser, CleanupAt
    <3>2. /\ done'[v] = done[v] \cup {next[v]} /\ inside'[v]
          /\ \A w \in Value : w # v => done'[w] = done[w] /\ inside'[w] = inside[w]
      BY <1>1, <3>1
    <3>3. next[v]..closers[v] \subseteq done'[v] /\ next[v] \in 1..closers[v]
      BY <1>1, <2>1, <2>2, <3>2
    <3>4. \A w \in Value : done[w] \subseteq done'[w]
      BY <3>2
    <3>5. forcing # None => forcing \in Value
      BY <1>0 DEF TypeOK, ForceTypes
    <3>6. ReverseOrder'
      BY <1>0, <2>1, <3>2, <3>3 DEF Ordered, ReverseOrder
    <3>7. OrderOK'
      BY <1>0, <1>1, <2>1, <2>2, <3>1, <3>2, <3>3, <3>4, <3>5 DEF Ordered, OrderOK
    <3> QED
      BY <3>6, <3>7 DEF Ordered
  <2> QED
    BY <2>3, <2>4
<1>5. ASSUME NEW v \in Value, CloserReturns(v) PROVE Ordered'
  <2>1. /\ inside[v] /\ cleanup[v] = "running" /\ next[v] > 0
        /\ inside' = [inside EXCEPT ![v] = FALSE]
        /\ next' = [next EXCEPT ![v] = @ - 1]
        /\ UNCHANGED <<closers, cleanup, done, forcing, fnext, finside>>
    BY <1>0, <1>5 DEF CloserReturns, CleanOK, buildVars, forceVars
  <2>2. /\ next[v] <= closers[v] /\ next[v] \in done[v]
        /\ (next[v] + 1)..closers[v] \subseteq done[v]
    BY <1>0, <2>1 DEF Ordered, OrderOK
  <2>3. /\ next'[v] = next[v] - 1 /\ ~inside'[v]
        /\ \A w \in Value : w # v => next'[w] = next[w] /\ inside'[w] = inside[w]
    BY <1>1, <2>1
  <2>4. (next'[v] + 1)..closers[v] \subseteq done[v]
    BY <1>1, <2>2, <2>3
  <2> QED
    BY <1>0, <1>1, <2>1, <2>2, <2>3, <2>4 DEF Ordered, OrderOK, ReverseOrder
<1>6. ASSUME NEW v \in Value, ReleaseDep(v) PROVE Ordered'
  <2>1. UNCHANGED <<closers, inside, done, forcing, fnext, finside>>
    BY <1>6 DEF ReleaseDep, runVars, forceVars
  <2> QED
    BY <1>0, <1>6, <2>1, ReleasesHeld, GivesOrdered
<1>7. ASSUME NEW v \in Value, ReleaseReturns(v) \/ DiscardReturns(v) PROVE Ordered'
  <2>1. /\ next[v] = 0 /\ ~inside[v] /\ cleanup[v] = "running"
        /\ cleanup' = [cleanup EXCEPT ![v] = "over"]
        /\ UNCHANGED <<closers, next, inside, done, forcing, fnext, finside>>
    BY <1>7 DEF ReleaseReturns, DiscardReturns, CleanupsRun, buildVars, runVars, forceVars
  <2>2. cleanup'[v] = "over" /\ \A w \in Value : w # v => cleanup'[w] = cleanup[w]
    BY <1>1, <2>1
  <2> QED
    BY <1>0, <1>1, <2>1, <2>2 DEF Ordered, OrderOK, ReverseOrder
<1>8. ASSUME NEW l \in Lease, LeaseRelease(l) PROVE Ordered'
  <2>1. UNCHANGED <<closers, inside, done, forcing, fnext, finside>>
    BY <1>8 DEF LeaseRelease, buildVars, runVars, forceVars
  <2> QED
    BY <1>0, <1>8, <2>1, ReleasesHeld, GivesOrdered
<1>9. ASSUME NEW d \in Dropper, Drop(d) PROVE Ordered'
  <2>1. UNCHANGED <<closers, inside, done, forcing, fnext, finside>>
    BY <1>9 DEF Drop, buildVars, runVars, forceVars
  <2> QED
    BY <1>0, <1>9, <2>1, ReleasesHeld, GivesOrdered
<1>10. ASSUME ForceNext \/ ForceEnds PROVE Ordered'
  <2>1. /\ UNCHANGED <<closers, next, cleanup, inside, done, finside>> /\ ~finside
        /\ forcing' # None => forcing' \in Value /\ fnext' = closers[forcing']
    BY <1>0, <1>10 DEF ForceNext, ForceEnds, ForceOK, TypeOK, ForceTypes, buildVars,
                       cleanVars, runVars
  <2> QED
    BY <1>0, <1>1, <2>1 DEF Ordered, OrderOK, ReverseOrder
<1>11. ASSUME ForceCloser \/ ForceCloserReturns PROVE Ordered'
  <2>0. /\ forcing \in Value /\ fnext > 0
        /\ fnext <= closers[forcing] /\ (fnext + 1)..closers[forcing] \subseteq done[forcing]
        /\ finside => fnext \in done[forcing]
        /\ UNCHANGED <<closers, next, cleanup, inside, forcing>>
    <3>1. forcing # None /\ fnext > 0 /\ UNCHANGED <<closers, next, cleanup, inside, forcing>>
      BY <1>0, <1>11 DEF ForceCloser, ForceCloserReturns, ForceOK, buildVars, cleanVars,
                         runVars
    <3> QED
      BY <1>0, <3>1 DEF Ordered, OrderOK, TypeOK, ForceTypes
  <2>1. CASE fnext \in done[forcing]
    <3>1. fnext' = fnext - 1 /\ done' = done /\ ~finside'
      BY <1>11, <2>1 DEF ForceCloser, ForceCloserReturns, runVars
    <3>2. (fnext' + 1)..closers[forcing] \subseteq done[forcing]
      BY <1>1, <2>0, <2>1, <3>1
    <3> QED
      BY <1>0, <1>1, <2>0, <3>1, <3>2 DEF Ordered, OrderOK, ReverseOrder
  <2>2. CASE fnext \notin done[forcing]
    <3>1. fnext' = fnext /\ done' = [done EXCEPT ![forcing] = @ \cup {fnext}]
      BY <1>11, <2>0, <2>2 DEF ForceCloser, ForceCloserReturns
    <3>2. /\ done'[forcing] = done[forcing] \cup {fnext}
          /\ \A w \in Value : w # forcing => done'[w] = done[w]
      BY <1>1, <2>0, <3>1
    <3>3. fnext..closers[forcing] \subseteq done'[forcing] /\ fnext \in 1..closers[forcing]
      BY <1>1, <2>0, <3>2
    <3>4. \A w \in Value : done[w] \subseteq done'[w]
      BY <3>2
    <3>5. ReverseOrder'
      BY <1>0, <2>0, <3>2, <3>3 DEF Ordered, ReverseOrder
    <3>6. OrderOK'
      BY <1>0, <1>1, <2>0, <3>1, <3>2, <3>3, <3>4 DEF Ordered, OrderOK
    <3> QED
      BY <3>5, <3>6 DEF Ordered
  <2> QED
    BY <2>1, <2>2
<1>12. ASSUME UNCHANGED <<closers, next, cleanup, inside, done, forcing, fnext, finside>>
       PROVE  Ordered'
  BY <1>0, <1>12 DEF Ordered, OrderOK, ReverseOrder
<1>13. ASSUME NEW v \in Value, Build(v) PROVE Ordered'
  BY <1>2, <1>3, <1>12, <1>13, OrderFrame DEF Build
<1>14. ASSUME NEW v \in Value, CleanUp(v) PROVE Ordered'
  BY <1>4, <1>5, <1>6, <1>7, <1>14 DEF CleanUp
<1>15. ASSUME NEW l \in Lease, UseLease(l) PROVE Ordered'
  BY <1>8, <1>12, <1>15, OrderFrame DEF UseLease
<1>16. ASSUME NEW d \in Dropper, DropValues(d) PROVE Ordered'
  BY <1>9, <1>12, <1>16, OrderFrame DEF DropValues
<1>17. ASSUME Close \/ UNCHANGED vars PROVE Ordered'
  BY <1>10, <1>11, <1>12, <1>17, OrderFrame DEF Close
<1> QED
  BY <1>13, <1>14, <1>15, <1>16, <1>17 DEF Next, Terminated

-----------------------------------------------------------------------------
(* What is live.                                                           *)

\* The steps that leave what LiveOK speaks of alone.
LEMMA LiveFrame ==
  LET same == UNCHANGED <<phase, closers, cleanup, done, live, drained, closing,
                          forced, forceLeft, forcing>> IN
  /\ \A v \in Value : \A r \in Reader :
       Load(v, r) \/ Acquire(v, r) \/ AcquireFails(v, r) => same
  /\ \A v \in Value : CloserReturns(v) => same
  /\ \A l \in Lease : LeaseLoad(l) \/ LeaseAcquire(l) \/ LeaseAddLate(l) => same
  /\ \A d \in Dropper : InvalidateReturns(d) => same
  /\ ForceCloserReturns => same
  /\ UNCHANGED vars => same
<1> DEFINE same == UNCHANGED <<phase, closers, cleanup, done, live, drained, closing,
                               forced, forceLeft, forcing>>
<1>1. ASSUME NEW v \in Value, NEW r \in Reader,
             Load(v, r) \/ Acquire(v, r) \/ AcquireFails(v, r)
      PROVE  same
  BY <1>1 DEF Load, Acquire, AcquireFails, cleanVars, runVars, forceVars, graphVars
<1>2. ASSUME NEW v \in Value, CloserReturns(v) PROVE same
  BY <1>2 DEF CloserReturns, buildVars, forceVars, graphVars
<1>3. ASSUME NEW l \in Lease, LeaseLoad(l) \/ LeaseAcquire(l) \/ LeaseAddLate(l)
      PROVE  same
  BY <1>3 DEF LeaseLoad, LeaseAcquire, LeaseAddLate, buildVars, cleanVars, runVars,
              forceVars, graphVars
<1>4. ASSUME NEW d \in Dropper, InvalidateReturns(d) PROVE same
  BY <1>4 DEF InvalidateReturns, buildVars, cleanVars, runVars, forceVars, graphVars
<1>5. ASSUME ForceCloserReturns PROVE same
  BY <1>5 DEF ForceCloserReturns, buildVars, cleanVars, runVars, graphVars
<1>6. ASSUME UNCHANGED vars PROVE same
  BY <1>6 DEF vars, buildVars, cleanVars, runVars, forceVars, graphVars
<1> QED
  BY <1>1, <1>2, <1>3, <1>4, <1>5, <1>6

\* A step that publishes nothing, and after which every value stays published
\* and cleaned up that was.
LEMMA LiveKept ==
  ASSUME TypeOK, LiveOK, OrderOK', UNCHANGED <<live, drained, closing, forced, forceLeft>>,
         forcing' = forcing \/ (forcing' = None /\ done[forcing] = 1..closers[forcing]),
         \A w \in Value : /\ Built(w)' <=> Built(w)
                          /\ cleanup[w] = "over" => cleanup'[w] = "over"
                          /\ done[w] \subseteq done'[w]
                          /\ Built(w) => closers'[w] = closers[w]
  PROVE  LiveOK'
<1>1. ASSUME NEW v \in forced, v \notin forceLeft, v # forcing'
      PROVE  done'[v] = 1..closers'[v]
  <2>1. v \in Value /\ Built(v)
    BY DEF LiveOK, TypeOK, ForceTypes
  <2>2. done[v] = 1..closers[v]
    BY <1>1 DEF LiveOK
  <2>3. done'[v] \subseteq 1..closers'[v]
    BY <2>1 DEF OrderOK
  <2> QED
    BY <2>1, <2>2, <2>3
<1>2. forcing = None => forcing' = None
  OBVIOUS
<1>3. \A v \in live \cup forced : v \in Value
  BY DEF TypeOK, ForceTypes, GraphTypes
<1>4. /\ \A v \in live' \cup forced' : Built(v)'
      /\ \A v \in Value : Built(v)' => v \in live' \/ cleanup'[v] = "over"
  BY <1>3 DEF LiveOK
<1>5. /\ drained' => live' = {} /\ closing' # "open"
      /\ closing' = "returned" => drained'
      /\ closing' \in {"forcing", "timedOut"} => live' \subseteq forced'
      /\ closing' = "timedOut" => forceLeft' = {} /\ forcing' = None
  BY <1>2 DEF LiveOK
<1> QED
  BY <1>1, <1>4, <1>5 DEF LiveOK

\* A release of a value that was not cleaned up.
LEMMA GivesLive ==
  ASSUME TypeOK, LiveOK, OrderOK', NEW u, NEW a, Gives(u, a),
         \A w \in Value : Built(w)' <=> Built(w),
         UNCHANGED <<closers, done, live, drained, closing, forced, forceLeft, forcing>>
  PROVE  LiveOK'
<1>1. \A w \in Value : cleanup[w] = "over" => cleanup'[w] = "over"
  <2>1. u \in Value /\ cleanup[u] = "none"
    BY DEF Gives
  <2> QED
    BY <2>1, GivesEffect DEF TypeOK, CleanTypes
<1> QED
  BY <1>1, LiveKept

LEMMA LiveStep == CloseInv /\ [Next]_vars => LiveOK'
<1> SUFFICES ASSUME CloseInv, [Next]_vars PROVE LiveOK'
  OBVIOUS
<1>0. IInv /\ TypeOK /\ UsesOK /\ StackOK /\ CleanOK /\ ForceOK /\ LiveOK /\ OrderOK /\ OrderOK'
  BY OrderStep DEF CloseInv, IInv, Ordered
<1>a. /\ phase \in [Value -> Phase] /\ cleanup \in [Value -> Cleanup]
      /\ done \in [Value -> SUBSET (1..MaxClosers)]
      /\ closers \in [Value -> 0..MaxClosers]
      /\ live \subseteq Value /\ forced \subseteq Value /\ forceLeft \subseteq forced
      /\ forcing \in forced \cup {None} /\ None \notin Value
  BY <1>0, ValuesAssumption
     DEF TypeOK, BuildTypes, CleanTypes, GraphTypes, ForceTypes, ValuesAssumption
<1>1. ASSUME NEW v \in Value, StartBuild(v) PROVE LiveOK'
  <2>1. /\ phase[v] = "unborn" /\ phase' = [phase EXCEPT ![v] = "building"]
        /\ UNCHANGED <<closers, cleanup, done, live, drained, closing, forced,
                       forceLeft, forcing>>
    BY <1>1 DEF StartBuild, buildVars, cleanVars, runVars, forceVars
  <2>2. \A w \in Value : Built(w)' <=> Built(w)
    BY <1>a, <2>1 DEF Built
  <2> QED
    BY <1>0, <2>1, <2>2, LiveKept
<1>2. ASSUME NEW v \in Value, OnClose(v) PROVE LiveOK'
  <2>1. /\ phase[v] = "building" /\ closers' = [closers EXCEPT ![v] = @ + 1]
        /\ UNCHANGED <<phase, cleanup, done, live, drained, closing, forced,
                       forceLeft, forcing>>
    BY <1>2 DEF OnClose, cleanVars, runVars, forceVars, graphVars
  <2>2. \A w \in Value : Built(w) => closers'[w] = closers[w]
    BY <1>a, <2>1 DEF Built
  <2>3. \A w \in Value : Built(w)' <=> Built(w)
    BY <2>1 DEF Built
  <2> QED
    BY <1>0, <2>1, <2>2, <2>3, LiveKept
<1>3. ASSUME NEW v \in Value, Publish(v) PROVE LiveOK'
  <2>1. /\ phase[v] = "building" /\ phase' = [phase EXCEPT ![v] = "current"]
        /\ closing = "open" /\ live' = live \cup {v}
        /\ UNCHANGED <<closers, cleanup, done, drained, closing, forced,
                       forceLeft, forcing>>
    BY <1>3 DEF Publish, MayReturn, buildVars, cleanVars, runVars, forceVars
  <2>2. Built(v)' /\ \A w \in Value : w # v => (Built(w)' <=> Built(w))
    BY <1>a, <2>1 DEF Built
  <2>3. ~drained /\ forced = {}
    BY <1>0, <2>1 DEF LiveOK, ForceOK
  <2> QED
    BY <1>0, <1>a, <2>1, <2>2, <2>3 DEF LiveOK
<1>4. ASSUME NEW v \in Value, Discard(v) PROVE LiveOK'
  <2>1. /\ phase[v] = "building" /\ phase' = [phase EXCEPT ![v] = "discarded"]
        /\ cleanup' = [cleanup EXCEPT ![v] = "running"]
        /\ UNCHANGED <<closers, done, live, drained, closing, forced,
                       forceLeft, forcing>>
    BY <1>4 DEF Discard, MayReturn, buildVars, runVars, forceVars, graphVars
  <2>2. \A w \in Value : Built(w)' <=> Built(w)
    BY <1>a, <2>1 DEF Built
  <2>3. cleanup[v] = "none"
    BY <1>0, <2>1 DEF CleanOK
  <2>4. \A w \in Value : cleanup[w] = "over" => cleanup'[w] = "over"
    BY <1>a, <2>1, <2>3
  <2> QED
    BY <1>0, <2>1, <2>2, <2>4, LiveKept
<1>5. ASSUME NEW v \in Value, FinishBuild(v) PROVE LiveOK'
  <2>1. /\ drained' => drained \/ (closing # "open" /\ live = {})
        /\ drained => drained'
        /\ UNCHANGED <<phase, closers, cleanup, done, live, closing, forced,
                       forceLeft, forcing>>
    BY <1>5 DEF FinishBuild, CheckDrained, buildVars, cleanVars, runVars, forceVars
  <2> QED
    BY <1>0, <2>1 DEF LiveOK, Built
<1>6. ASSUME NEW v \in Value, RunCloser(v) PROVE LiveOK'
  <2>1. UNCHANGED <<phase, closers, cleanup, live, drained, closing, forced,
                    forceLeft, forcing>>
    BY <1>6 DEF RunCloser, buildVars, forceVars, graphVars
  <2>2. \A w \in Value : done[w] \subseteq done'[w]
    BY <1>6, <1>a DEF RunCloser, CleanupAt
  <2>3. \A w \in Value : Built(w)' <=> Built(w)
    BY <2>1 DEF Built
  <2> QED
    BY <1>0, <2>1, <2>2, <2>3, LiveKept
<1>7. ASSUME NEW v \in Value, ReleaseDep(v) PROVE LiveOK'
  <2>1. UNCHANGED <<phase, closers, done, live, drained, closing, forced, forceLeft, forcing>>
    BY <1>7 DEF ReleaseDep, runVars, forceVars, graphVars
  <2>2. \A w \in Value : Built(w)' <=> Built(w)
    BY <2>1 DEF Built
  <2> QED
    BY <1>0, <1>7, <2>1, <2>2, ReleasesHeld, GivesLive
<1>8. ASSUME NEW v \in Value, ReleaseReturns(v) PROVE LiveOK'
  <2>1. /\ live' = live \ {v} /\ cleanup' = [cleanup EXCEPT ![v] = "over"]
        /\ drained' => drained \/ (closing # "open" /\ live' = {})
        /\ drained => drained'
        /\ UNCHANGED <<phase, closers, done, closing, forced, forceLeft, forcing>>
    BY <1>8 DEF ReleaseReturns, CheckDrained, buildVars, runVars, forceVars
  <2>2. \A w \in Value : Built(w)' <=> Built(w)
    BY <2>1 DEF Built
  <2>3. cleanup'[v] = "over" /\ \A w \in Value : w # v => cleanup'[w] = cleanup[w]
    BY <1>a, <2>1
  <2> QED
    BY <1>0, <1>a, <2>1, <2>2, <2>3 DEF LiveOK
<1>9. ASSUME NEW v \in Value, DiscardReturns(v) PROVE LiveOK'
  <2>1. /\ cleanup' = [cleanup EXCEPT ![v] = "over"]
        /\ UNCHANGED <<phase, closers, done, live, drained, closing, forced,
                       forceLeft, forcing>>
    BY <1>9 DEF DiscardReturns, buildVars, runVars, forceVars, graphVars
  <2>2. \A w \in Value : Built(w)' <=> Built(w)
    BY <2>1 DEF Built
  <2>3. \A w \in Value : cleanup[w] = "over" => cleanup'[w] = "over"
    BY <1>a, <2>1
  <2> QED
    BY <1>0, <2>1, <2>2, <2>3, LiveKept
<1>10. ASSUME NEW l \in Lease, LeaseRelease(l) PROVE LiveOK'
  <2>1. UNCHANGED <<phase, closers, done, live, drained, closing, forced, forceLeft, forcing>>
    BY <1>10 DEF LeaseRelease, buildVars, runVars, forceVars, graphVars
  <2>2. \A w \in Value : Built(w)' <=> Built(w)
    BY <2>1 DEF Built
  <2> QED
    BY <1>0, <1>10, <2>1, <2>2, ReleasesHeld, GivesLive
<1>11. ASSUME NEW d \in Dropper, NEW v \in Value, SwapOut(d, v) PROVE LiveOK'
  <2>1. /\ phase[v] = "current" /\ phase' = [phase EXCEPT ![v] = "swapped"]
        /\ UNCHANGED <<closers, cleanup, done, live, drained, closing, forced,
                       forceLeft, forcing>>
    BY <1>11 DEF SwapOut, buildVars, cleanVars, runVars, forceVars, graphVars
  <2>2. \A w \in Value : Built(w)' <=> Built(w)
    BY <1>a, <2>1 DEF Built
  <2> QED
    BY <1>0, <2>1, <2>2, LiveKept
<1>12. ASSUME NEW d \in Dropper, Drop(d) PROVE LiveOK'
  <2>0. PICK u : u = stack[d][Len(stack[d])]
    OBVIOUS
  <2>1. /\ phase' = [phase EXCEPT ![u] = "dropped"]
        /\ UNCHANGED <<closers, done, live, drained, closing, forced, forceLeft, forcing>>
    BY <1>12, <2>0 DEF Drop, buildVars, runVars, forceVars, graphVars
  <2>2. Gives(u, d)
    BY <1>0, <1>12, <2>0, ReleasesHeld
  <2>3. \A w \in Value : Built(w)' <=> Built(w)
    BY <1>a, <2>1, <2>2 DEF Gives, Built
  <2> QED
    BY <1>0, <2>1, <2>2, <2>3, GivesLive
<1>13. ASSUME CloseBegins \/ CloseWaits \/ CloseReturns PROVE LiveOK'
  <2>1. /\ UNCHANGED <<phase, closers, cleanup, done, live, forced, forceLeft, forcing>>
        /\ closing' # "open" /\ closing' \notin {"forcing", "timedOut"}
        /\ drained' => drained \/ live = {}
        /\ drained => drained'
        /\ closing' = "returned" => drained'
    <3>1. CASE CloseBegins
      BY <3>1 DEF CloseBegins, buildVars, cleanVars, runVars, forceVars, graphVars
    <3>2. CASE CloseWaits
      BY <3>2 DEF CloseWaits, CheckDrained, buildVars, cleanVars, runVars, forceVars
    <3>3. CASE CloseReturns
      BY <3>3 DEF CloseReturns, buildVars, cleanVars, runVars, forceVars, graphVars
    <3> QED
      BY <1>13, <3>1, <3>2, <3>3
  <2> QED
    BY <1>0, <2>1 DEF LiveOK, Built
<1>14. ASSUME DeadlineEnds PROVE LiveOK'
  <2>1. /\ UNCHANGED <<phase, closers, cleanup, done, live, drained, forcing>>
        /\ closing' = "forcing" /\ forced' = live /\ forceLeft' = live
    BY <1>14 DEF DeadlineEnds, buildVars, cleanVars, runVars, graphVars
  <2> QED
    BY <1>0, <2>1 DEF LiveOK, Built
<1>15. ASSUME ForceNext PROVE LiveOK'
  <2>1. PICK v \in forceLeft : forcing' = v /\ forceLeft' = forceLeft \ {v}
    BY <1>15 DEF ForceNext
  <2>2. /\ UNCHANGED <<phase, closers, cleanup, done, live, drained, closing, forced>>
        /\ forcing = None /\ closing = "forcing"
    BY <1>15 DEF ForceNext, buildVars, cleanVars, runVars, graphVars
  <2> QED
    BY <1>0, <1>a, <2>1, <2>2 DEF LiveOK, Built
<1>16. ASSUME ForceCloser PROVE LiveOK'
  <2>1. UNCHANGED <<phase, closers, cleanup, live, drained, closing, forced,
                    forceLeft, forcing>>
    BY <1>16 DEF ForceCloser, buildVars, cleanVars, graphVars
  <2>2. \A w \in Value : done[w] \subseteq done'[w]
    BY <1>16, <1>a DEF ForceCloser
  <2>3. \A w \in Value : Built(w)' <=> Built(w)
    BY <2>1 DEF Built
  <2> QED
    BY <1>0, <2>1, <2>2, <2>3, LiveKept
<1>17. ASSUME ForceEnds PROVE LiveOK'
  <2>1. /\ forcing \in Value /\ fnext = 0 /\ forcing # None /\ forcing' = None
        /\ UNCHANGED <<phase, closers, cleanup, done, live, drained, closing, forced,
                       forceLeft>>
    BY <1>17, <1>a DEF ForceEnds, buildVars, cleanVars, runVars, graphVars
  <2>2. done[forcing] = 1..closers[forcing]
    <3>1. done[forcing] \subseteq 1..closers[forcing]
      BY <1>0, <2>1 DEF OrderOK
    <3>2. (fnext + 1)..closers[forcing] \subseteq done[forcing]
      BY <1>0, <2>1 DEF OrderOK
    <3>3. fnext + 1 = 1
      BY <2>1
    <3> QED
      BY <3>1, <3>2, <3>3
  <2>3. \A w \in Value : Built(w)' <=> Built(w)
    BY <2>1 DEF Built
  <2> QED
    BY <1>0, <2>1, <2>2, <2>3, LiveKept
<1>18. ASSUME CloseTimesOut PROVE LiveOK'
  <2>1. /\ UNCHANGED <<phase, closers, cleanup, done, live, drained, forced, forceLeft,
                       forcing>>
        /\ closing = "forcing" /\ closing' = "timedOut" /\ forceLeft = {} /\ forcing = None
    BY <1>18 DEF CloseTimesOut, buildVars, cleanVars, runVars, graphVars, forceVars
  <2> QED
    BY <1>0, <2>1 DEF LiveOK, Built
<1>19. ASSUME UNCHANGED <<phase, closers, cleanup, done, live, drained, closing,
                          forced, forceLeft, forcing>>
       PROVE  LiveOK'
  BY <1>0, <1>19 DEF LiveOK, Built
<1>20. ASSUME NEW v \in Value, Build(v) PROVE LiveOK'
  BY <1>1, <1>2, <1>3, <1>4, <1>5, <1>19, <1>20, LiveFrame DEF Build
<1>21. ASSUME NEW v \in Value, CleanUp(v) PROVE LiveOK'
  BY <1>6, <1>7, <1>8, <1>9, <1>19, <1>21, LiveFrame DEF CleanUp
<1>22. ASSUME NEW l \in Lease, UseLease(l) PROVE LiveOK'
  BY <1>10, <1>19, <1>22, LiveFrame DEF UseLease
<1>23. ASSUME NEW d \in Dropper, DropValues(d) PROVE LiveOK'
  BY <1>11, <1>12, <1>19, <1>23, LiveFrame DEF DropValues
<1>24. ASSUME Close \/ UNCHANGED vars PROVE LiveOK'
  BY <1>13, <1>14, <1>15, <1>16, <1>17, <1>18, <1>19, <1>24, LiveFrame DEF Close
<1> QED
  BY <1>20, <1>21, <1>22, <1>23, <1>24 DEF Next, Terminated

-----------------------------------------------------------------------------
(* Who waits for a cleanup, and where its errors go.                       *)

\* The steps that neither start a cleanup nor publish a value.
LEMMA CallerFrame ==
  LET same == UNCHANGED <<cleanup, caller>> /\ \A w \in Value : Built(w)' => Built(w) IN
  /\ \A v \in Value : OnClose(v) \/ FinishBuild(v) => same
  /\ \A v \in Value : \A r \in Reader :
       Load(v, r) \/ Acquire(v, r) \/ AcquireFails(v, r) => same
  /\ \A v \in Value : RunCloser(v) \/ CloserReturns(v) => same
  /\ \A l \in Lease : LeaseLoad(l) \/ LeaseAcquire(l) \/ LeaseAddLate(l) => same
  /\ \A d \in Dropper : InvalidateReturns(d) => same
  /\ Close => same
  /\ UNCHANGED vars => same
<1> DEFINE same == UNCHANGED <<phase, cleanup, caller>>
<1>1. ASSUME NEW v \in Value, OnClose(v) \/ FinishBuild(v) PROVE same
  BY <1>1 DEF OnClose, FinishBuild, cleanVars
<1>2. ASSUME NEW v \in Value, NEW r \in Reader,
             Load(v, r) \/ Acquire(v, r) \/ AcquireFails(v, r)
      PROVE  same
  BY <1>2 DEF Load, Acquire, AcquireFails, cleanVars
<1>3. ASSUME NEW v \in Value, RunCloser(v) \/ CloserReturns(v) PROVE same
  BY <1>3 DEF RunCloser, CloserReturns
<1>4. ASSUME NEW l \in Lease, LeaseLoad(l) \/ LeaseAcquire(l) \/ LeaseAddLate(l)
      PROVE  same
  BY <1>4 DEF LeaseLoad, LeaseAcquire, LeaseAddLate, cleanVars
<1>5. ASSUME NEW d \in Dropper, InvalidateReturns(d) PROVE same
  BY <1>5 DEF InvalidateReturns, cleanVars
<1>6. ASSUME Close PROVE same
  BY <1>6 DEF Close, CloseBegins, CloseWaits, CloseReturns, DeadlineEnds, ForceNext,
              ForceCloser, ForceCloserReturns, ForceEnds, CloseTimesOut, cleanVars
<1>7. ASSUME UNCHANGED vars PROVE same
  BY <1>7 DEF vars, cleanVars
<1>8. same => \A w \in Value : Built(w)' => Built(w)
  BY DEF Built
<1> QED
  BY <1>1, <1>2, <1>3, <1>4, <1>5, <1>6, <1>7, <1>8

\* A release tells who waits for the cleanup it starts.
LEMMA GivesCaller ==
  ASSUME TypeOK, CallerOK, NEW u, NEW a, Gives(u, a),
         \A w \in Value : Built(w)' => Built(w)
  PROVE  CallerOK'
<1>1. u \in Value /\ a \in Releaser
  BY DEF Gives
<1>2. CASE UNCHANGED <<cleanup, caller>>
  BY <1>2 DEF CallerOK
<1>3. CASE /\ cleanup' = [cleanup EXCEPT ![u] = "running"]
           /\ caller' = [caller EXCEPT ![u] = a]
  BY <1>1, <1>3 DEF CallerOK, TypeOK, CleanTypes
<1> QED
  BY <1>2, <1>3, GivesEffect

LEMMA CallerStep == CloseInv /\ [Next]_vars => CallerOK'
<1> SUFFICES ASSUME CloseInv PROVE [Next]_vars => CallerOK'
  OBVIOUS
<1>0. IInv /\ TypeOK /\ StackOK /\ CleanOK /\ CallerOK
  BY DEF CloseInv, IInv
<1>a. phase \in [Value -> Phase] /\ cleanup \in [Value -> Cleanup]
  BY <1>0 DEF TypeOK, BuildTypes, CleanTypes
<1>1. ASSUME NEW v \in Value, StartBuild(v) PROVE CallerOK'
  BY <1>0, <1>a, <1>1 DEF StartBuild, CallerOK, Built, cleanVars
<1>2. ASSUME NEW v \in Value, Publish(v) PROVE CallerOK'
  <2>1. cleanup[v] = "none"
    BY <1>0, <1>2 DEF Publish, MayReturn, CleanOK
  <2> QED
    BY <1>0, <1>a, <1>2, <2>1 DEF Publish, CallerOK, Built, cleanVars
<1>3. ASSUME NEW v \in Value, Discard(v) PROVE CallerOK'
  <2>1. ~Built(v)' /\ \A w \in Value : w # v => /\ Built(w)' => Built(w)
                                                /\ cleanup'[w] = cleanup[w]
    BY <1>a, <1>3 DEF Discard, Built
  <2> QED
    BY <1>0, <1>3, <2>1 DEF Discard, CallerOK
<1>4. ASSUME NEW v \in Value, ReleaseDep(v) PROVE CallerOK'
  <2>1. \A w \in Value : Built(w)' => Built(w)
    BY <1>4 DEF ReleaseDep, Built
  <2> QED
    BY <1>0, <1>4, <2>1, ReleasesHeld, GivesCaller
<1>5. ASSUME NEW v \in Value, ReleaseReturns(v) \/ DiscardReturns(v) PROVE CallerOK'
  <2>1. /\ cleanup[v] = "running" /\ cleanup' = [cleanup EXCEPT ![v] = "over"]
        /\ UNCHANGED <<phase, caller>>
    BY <1>5 DEF ReleaseReturns, DiscardReturns, CleanupsRun
  <2> QED
    BY <1>0, <1>a, <2>1 DEF CallerOK, Built
<1>6. ASSUME NEW l \in Lease, LeaseRelease(l) PROVE CallerOK'
  <2>1. \A w \in Value : Built(w)' => Built(w)
    BY <1>6 DEF LeaseRelease, Built
  <2> QED
    BY <1>0, <1>6, <2>1, ReleasesHeld, GivesCaller
<1>7. ASSUME NEW d \in Dropper, NEW v \in Value, SwapOut(d, v) PROVE CallerOK'
  <2>1. UNCHANGED <<cleanup, caller>> /\ \A w \in Value : Built(w)' => Built(w)
    BY <1>a, <1>7 DEF SwapOut, Built, cleanVars
  <2> QED
    BY <1>0, <2>1 DEF CallerOK
<1>8. ASSUME NEW d \in Dropper, Drop(d) PROVE CallerOK'
  <2>0. PICK u : u = stack[d][Len(stack[d])]
    OBVIOUS
  <2>1. Gives(u, d) /\ phase' = [phase EXCEPT ![u] = "dropped"]
    BY <1>0, <1>8, <2>0, ReleasesHeld DEF Drop
  <2>2. \A w \in Value : Built(w)' => Built(w)
    BY <1>a, <2>1 DEF Gives, Built
  <2> QED
    BY <1>0, <2>1, <2>2, GivesCaller
<1>9. ASSUME UNCHANGED <<cleanup, caller>>, \A w \in Value : Built(w)' => Built(w)
      PROVE  CallerOK'
  BY <1>0, <1>9 DEF CallerOK
<1>10. ASSUME NEW v \in Value, Build(v) PROVE CallerOK'
  BY <1>1, <1>2, <1>3, <1>9, <1>10, CallerFrame DEF Build
<1>11. ASSUME NEW v \in Value, CleanUp(v) PROVE CallerOK'
  BY <1>4, <1>5, <1>9, <1>11, CallerFrame DEF CleanUp
<1>12. ASSUME NEW l \in Lease, UseLease(l) PROVE CallerOK'
  BY <1>6, <1>9, <1>12, CallerFrame DEF UseLease
<1>13. ASSUME NEW d \in Dropper, DropValues(d) PROVE CallerOK'
  BY <1>7, <1>8, <1>9, <1>13, CallerFrame DEF DropValues
<1>14. ASSUME Close \/ UNCHANGED vars PROVE CallerOK'
  BY <1>9, <1>14, CallerFrame
<1> QED
  BY <1>10, <1>11, <1>12, <1>13, <1>14 DEF Next, Terminated

\* ErrorsKept, error by error.
Accounted(e) == e \in late \/ e \in reported \/ \E a \in Releaser : e \in errs[a]
LEMMA ErrorsOneByOne == ErrorsKept <=> \A e : e \in failed <=> Accounted(e)
  BY DEF ErrorsKept, Accounted

\* The steps that leave the errors alone.
LEMMA ErrFrame ==
  /\ \A v \in Value : Build(v) => UNCHANGED errVars
  /\ \A v \in Value : RunCloser(v) \/ ReleaseDep(v) => UNCHANGED errVars
  /\ \A l \in Lease : LeaseLoad(l) \/ LeaseAcquire(l) \/ LeaseRelease(l)
                        => UNCHANGED errVars
  /\ \A d \in Dropper : Drop(d) => UNCHANGED errVars
  /\ \A d \in Dropper : \A v \in Value : SwapOut(d, v) => UNCHANGED errVars
  /\ \/ CloseBegins \/ CloseWaits \/ DeadlineEnds \/ ForceNext \/ ForceCloser \/ ForceEnds
     => UNCHANGED errVars
  /\ UNCHANGED vars => UNCHANGED errVars
<1>1. ASSUME NEW v \in Value, Build(v) PROVE UNCHANGED errVars
  BY <1>1 DEF Build, StartBuild, OnClose, Publish, Discard, FinishBuild, Load, Acquire,
              AcquireFails
<1>2. ASSUME NEW v \in Value, RunCloser(v) \/ ReleaseDep(v) PROVE UNCHANGED errVars
  BY <1>2 DEF RunCloser, ReleaseDep
<1>3. ASSUME NEW l \in Lease, LeaseLoad(l) \/ LeaseAcquire(l) \/ LeaseRelease(l)
      PROVE  UNCHANGED errVars
  BY <1>3 DEF LeaseLoad, LeaseAcquire, LeaseRelease
<1>4. ASSUME NEW d \in Dropper, Drop(d) PROVE UNCHANGED errVars
  BY <1>4 DEF Drop
<1>5. ASSUME NEW d \in Dropper, NEW v \in Value, SwapOut(d, v) PROVE UNCHANGED errVars
  BY <1>5 DEF SwapOut
<1>6. ASSUME \/ CloseBegins \/ CloseWaits \/ DeadlineEnds \/ ForceNext \/ ForceCloser
             \/ ForceEnds
      PROVE  UNCHANGED errVars
  BY <1>6 DEF CloseBegins, CloseWaits, DeadlineEnds, ForceNext, ForceCloser, ForceEnds
<1>7. ASSUME UNCHANGED vars PROVE UNCHANGED errVars
  BY <1>7 DEF vars
<1> QED
  BY <1>1, <1>2, <1>3, <1>4, <1>5, <1>6, <1>7

\* The errors of one goroutine go to late or to the one who called.
LEMMA ErrorsMove ==
  ASSUME ErrTypes, ErrorsKept, NEW a \in Releaser, NEW b \in Releaser,
         failed' = failed,
         \/ /\ errs' = [errs EXCEPT ![a] = {}, ![b] = @ \cup errs[a]]
            /\ UNCHANGED <<late, reported>>
         \/ /\ errs' = [errs EXCEPT ![a] = {}]
            /\ late' \cup reported' = late \cup reported \cup errs[a]
  PROVE  ErrorsKept'
<1>1. \A e : e \in failed <=> Accounted(e)
  BY ErrorsOneByOne
<1>2. CASE /\ errs' = [errs EXCEPT ![a] = {}, ![b] = @ \cup errs[a]]
           /\ UNCHANGED <<late, reported>>
  <2>1. /\ \A c \in Releaser : c # a /\ c # b => errs'[c] = errs[c]
        /\ a # b => errs'[a] = {} /\ errs'[b] = errs[b] \cup errs[a]
        /\ a = b => errs'[a] = errs[a]
    BY <1>2 DEF ErrTypes
  <2>2. \A e : (\E c \in Releaser : e \in errs'[c]) <=> \E c \in Releaser : e \in errs[c]
    BY <2>1
  <2>3. \A e : e \in failed' <=> Accounted(e)'
    BY <1>1, <1>2, <2>2 DEF Accounted
  <2> QED
    BY <2>3 DEF ErrorsKept, Accounted
<1>3. CASE /\ errs' = [errs EXCEPT ![a] = {}]
           /\ late' \cup reported' = late \cup reported \cup errs[a]
  <2>1. errs'[a] = {} /\ \A c \in Releaser : c # a => errs'[c] = errs[c]
    BY <1>3 DEF ErrTypes
  <2>2. \A e : (e \in late' \/ e \in reported') <=> (e \in late \/ e \in reported \/ e \in errs[a])
    BY <1>3
  <2>3. \A e : e \in failed' <=> Accounted(e)'
    BY <1>1, <2>1, <2>2 DEF Accounted
  <2> QED
    BY <2>3 DEF ErrorsKept, Accounted
<1> QED
  BY <1>2, <1>3

\* A cleanup returns an error, or does not.
LEMMA ErrorsGrow ==
  ASSUME ErrTypes, ErrorsKept, NEW a \in Releaser, NEW x,
         UNCHANGED <<late, reported>>,
         \/ UNCHANGED <<errs, failed>>
         \/ errs' = [errs EXCEPT ![a] = @ \cup {x}] /\ failed' = failed \cup {x}
  PROVE  ErrorsKept'
<1>1. \A e : e \in failed <=> Accounted(e)
  BY ErrorsOneByOne
<1>2. CASE UNCHANGED <<errs, failed>>
  BY <1>2 DEF ErrorsKept
<1>3. CASE errs' = [errs EXCEPT ![a] = @ \cup {x}] /\ failed' = failed \cup {x}
  <2>1. errs'[a] = errs[a] \cup {x} /\ \A c \in Releaser : c # a => errs'[c] = errs[c]
    BY <1>3 DEF ErrTypes
  <2>2. \A e : (\E c \in Releaser : e \in errs'[c]) <=>
               (e = x \/ \E c \in Releaser : e \in errs[c])
    BY <2>1
  <2>3. \A e : e \in failed' <=> Accounted(e)'
    BY <1>1, <1>3, <2>2 DEF Accounted
  <2> QED
    BY <2>3 DEF ErrorsKept, Accounted
<1> QED
  BY <1>2, <1>3

LEMMA ErrorsStep == CloseInv /\ [Next]_vars => ErrorsKept'
<1> SUFFICES ASSUME CloseInv PROVE [Next]_vars => ErrorsKept'
  OBVIOUS
<1>0. TypeOK /\ ErrTypes /\ CleanOK /\ CallerOK /\ ErrorsKept
  BY DEF CloseInv, IInv, TypeOK
<1>1. ASSUME NEW v \in Value, CloserReturns(v) PROVE ErrorsKept'
  BY <1>0, <1>1, ErrorsGrow DEF CloserReturns, Releaser
<1>2. ASSUME NEW v \in Value, ReleaseReturns(v) PROVE ErrorsKept'
  <2>1. cleanup[v] = "running" /\ phase[v] # "discarded"
    BY <1>2 DEF ReleaseReturns, CleanupsRun
  <2>2. Built(v)
    BY <1>0, <2>1 DEF CleanOK, Built, Phase, TypeOK, BuildTypes
  <2>3. caller[v] \in Releaser /\ v \in Releaser
    BY <1>0, <2>1, <2>2 DEF CallerOK, Releaser
  <2>4. /\ errs' = [errs EXCEPT ![v] = {}, ![caller[v]] = @ \cup errs[v]]
        /\ UNCHANGED <<failed, late, reported>>
    BY <1>2 DEF ReleaseReturns, JoinedErrors
  <2> QED
    BY <1>0, <2>3, <2>4, ErrorsMove
<1>3. ASSUME NEW v \in Value, DiscardReturns(v) PROVE ErrorsKept'
  BY <1>0, <1>3, ErrorsMove DEF DiscardReturns, Releaser
<1>4. ASSUME NEW l \in Lease, LeaseAddLate(l) PROVE ErrorsKept'
  BY <1>0, <1>4, ErrorsMove DEF LeaseAddLate, Releaser
<1>5. ASSUME NEW d \in Dropper, InvalidateReturns(d) PROVE ErrorsKept'
  BY <1>0, <1>5, ErrorsMove DEF InvalidateReturns, Releaser
<1>6. ASSUME CloseReturns \/ CloseTimesOut PROVE ErrorsKept'
  <2>1. CollectErrors /\ Closer \in Releaser
    BY <1>6 DEF CloseReturns, CloseTimesOut, Releaser, Dropper
  <2> QED
    BY <1>0, <2>1, ErrorsMove DEF CollectErrors
<1>7. ASSUME ForceCloserReturns PROVE ErrorsKept'
  BY <1>0, <1>7, ErrorsGrow DEF ForceCloserReturns, Releaser, Dropper
<1>8. ASSUME UNCHANGED errVars PROVE ErrorsKept'
  BY <1>0, <1>8 DEF ErrorsKept, errVars
<1>9. ASSUME NEW v \in Value, CleanUp(v) PROVE ErrorsKept'
  BY <1>1, <1>2, <1>3, <1>8, <1>9, ErrFrame DEF CleanUp
<1>10. ASSUME NEW l \in Lease, UseLease(l) PROVE ErrorsKept'
  BY <1>4, <1>8, <1>10, ErrFrame DEF UseLease
<1>11. ASSUME NEW d \in Dropper, DropValues(d) PROVE ErrorsKept'
  BY <1>5, <1>8, <1>11, ErrFrame DEF DropValues
<1>12. ASSUME Close \/ UNCHANGED vars PROVE ErrorsKept'
  BY <1>6, <1>7, <1>8, <1>12, ErrFrame DEF Close
<1> QED
  BY <1>8, <1>9, <1>10, <1>11, <1>12, ErrFrame DEF Next, Terminated

-----------------------------------------------------------------------------
(* The invariant, and what follows from it.                                *)

LEMMA CloseInit == Init => CloseInv
<1> SUFFICES ASSUME Init PROVE CloseInv
  OBVIOUS
<1>1. OrderOK /\ ReverseOrder
  <2>1. \A v \in Value : /\ next[v] = 0 /\ closers[v] = 0 /\ done[v] = {}
                         /\ cleanup[v] = "none" /\ ~inside[v]
    BY DEF Init
  <2>2. forcing = None /\ ~finside
    BY DEF Init
  <2> QED
    BY <2>1, <2>2 DEF OrderOK, ReverseOrder
<1>2. LiveOK /\ CallerOK
  BY DEF Init, LiveOK, CallerOK, Built
<1>3. ErrorsKept
  BY DEF Init, ErrorsKept
<1> QED
  BY <1>1, <1>2, <1>3, InitOK DEF CloseInv

\* The invariant with the order of cleanups and the state of CloseContext.
THEOREM CloseInvariant ==
  ASSUME Joins
  PROVE  Spec => []CloseInv
<1>1. Init => CloseInv
  BY CloseInit
<1>2. CloseInv /\ [Next]_vars => IInv'
  BY TypeStep, RoomStep, UsesStep, StackStep, CountStep, CleanStep, ForceStep
     DEF CloseInv, IInv
<1>3. CloseInv /\ [Next]_vars => CloseInv'
  BY <1>2, OrderStep, LiveStep, CallerStep, ErrorsStep DEF CloseInv, Ordered
<1> QED
  BY <1>1, <1>3, PTL DEF Spec

\* The steps that call no cleanup.
LEMMA CallsNone ==
  LET none == UNCHANGED done /\ (finside' => finside) /\ \A w \in Value : inside'[w] => inside[w]
  IN
  /\ \A v \in Value : Build(v) => none
  /\ \A v \in Value : ReleaseDep(v) \/ ReleaseReturns(v) \/ DiscardReturns(v) => none
  /\ \A l \in Lease : UseLease(l) => none
  /\ \A d \in Dropper : DropValues(d) => none
  /\ \/ CloseBegins \/ CloseWaits \/ CloseReturns \/ DeadlineEnds \/ ForceNext \/ ForceEnds
     \/ CloseTimesOut
     => none
  /\ UNCHANGED vars => none
<1> DEFINE none == UNCHANGED <<inside, done, finside>>
<1>1. ASSUME NEW v \in Value, Build(v) PROVE none
  BY <1>1 DEF Build, StartBuild, OnClose, Publish, Discard, FinishBuild, Load, Acquire,
              AcquireFails, runVars, forceVars
<1>2. ASSUME NEW v \in Value, ReleaseDep(v) \/ ReleaseReturns(v) \/ DiscardReturns(v)
      PROVE  none
  BY <1>2 DEF ReleaseDep, ReleaseReturns, DiscardReturns, runVars, forceVars
<1>3. ASSUME NEW l \in Lease, UseLease(l) PROVE none
  BY <1>3 DEF UseLease, LeaseLoad, LeaseAcquire, LeaseRelease, LeaseAddLate, runVars, forceVars
<1>4. ASSUME NEW d \in Dropper, DropValues(d) PROVE none
  BY <1>4 DEF DropValues, Drop, InvalidateReturns, SwapOut, runVars, forceVars
<1>5. ASSUME \/ CloseBegins \/ CloseWaits \/ CloseReturns \/ DeadlineEnds \/ ForceNext
             \/ ForceEnds \/ CloseTimesOut
      PROVE  none
  BY <1>5 DEF CloseBegins, CloseWaits, CloseReturns, DeadlineEnds, ForceNext, ForceEnds,
              CloseTimesOut, runVars, forceVars
<1>6. ASSUME UNCHANGED vars PROVE none
  BY <1>6 DEF vars, runVars, forceVars
<1> QED
  BY <1>1, <1>2, <1>3, <1>4, <1>5, <1>6

\* A runAll that comes to cleanup i has everything behind it started, and what
\* is started is an interval that ends with the last.
LEMMA CalledNext ==
  ASSUME TypeOK, OrderOK, ReverseOrder, NEW v \in Value, NEW i \in Nat, i > 0, i <= closers[v],
         (i + 1)..closers[v] \subseteq done[v], i \notin done[v]
  PROVE  done[v] = (i + 1)..closers[v] /\ done[v] \cup {i} = i..closers[v]
<1>1. closers[v] \in Nat /\ done[v] \subseteq 1..closers[v]
  BY ValuesAssumption DEF TypeOK, BuildTypes, OrderOK, ValuesAssumption
<1>2. \A j \in done[v] : j > i
  <2>1. \A j \in done[v] : j..closers[v] \subseteq done[v]
    BY DEF ReverseOrder
  <2> QED
    BY <1>1, <2>1
<1>3. done[v] = (i + 1)..closers[v]
  <2>1. \A j \in done[v] : j \in (i + 1)..closers[v]
    BY <1>1, <1>2
  <2> QED
    BY <2>1
<1>4. (i + 1)..closers[v] \cup {i} = i..closers[v]
  BY <1>1
<1> QED
  BY <1>3, <1>4

\* Each cleanup is called once, and in the reverse of the order they were
\* registered in, also where CloseContext calls them beside a release (graph.go:57).
THEOREM CleanupsReversed ==
  ASSUME Joins
  PROVE  Spec => CleanupsInOrder
<1> DEFINE Fine(v) == /\ done[v] \subseteq done'[v]
                      /\ \A i \in 1..MaxClosers : Starts(v, i) =>
                           done[v] = (i + 1)..closers[v] /\ done'[v] = i..closers[v]
<1>0. ASSUME CloseInv
      PROVE  /\ TypeOK /\ OrderOK /\ ReverseOrder /\ MaxClosers \in Nat
             /\ \A v \in Value : next[v] \in Nat /\ closers[v] \in Nat
             /\ done = [v \in Value |-> done[v]] /\ inside = [v \in Value |-> inside[v]]
             /\ fnext \in Nat /\ (forcing # None => forcing \in Value)
  BY <1>0, ValuesAssumption
     DEF CloseInv, IInv, TypeOK, BuildTypes, CleanTypes, ForceTypes, ValuesAssumption
<1>1. ASSUME UNCHANGED done, finside' => finside, \A w \in Value : inside'[w] => inside[w],
             NEW v \in Value
      PROVE  Fine(v)
  BY <1>1 DEF Starts
<1>2. ASSUME CloseInv, NEW u \in Value, RunCloser(u), NEW v \in Value PROVE Fine(v)
  <2>1. /\ cleanup[u] = "running" /\ next[u] > 0 /\ ~inside[u] /\ finside' = finside
        /\ next[u] <= closers[u] /\ (next[u] + 1)..closers[u] \subseteq done[u]
    BY <1>0, <1>2 DEF RunCloser, OrderOK, forceVars
  <2>2. CASE next[u] \in done[u]
    <3>1. UNCHANGED <<inside, done>>
      BY <1>2, <2>2 DEF RunCloser, CleanupAt
    <3> QED
      BY <1>1, <2>1, <3>1
  <2>3. CASE next[u] \notin done[u]
    <3>1. /\ done'[u] = done[u] \cup {next[u]}
          /\ \A w \in Value : w # u => done'[w] = done[w] /\ inside'[w] = inside[w]
      BY <1>0, <1>2, <2>3 DEF RunCloser, CleanupAt
    <3>2. done[u] = (next[u] + 1)..closers[u] /\ done'[u] = next[u]..closers[u]
      BY <1>0, <1>2, <2>1, <2>3, <3>1, CalledNext
    <3>3. \A i : Starts(v, i) => v = u /\ i = next[u]
      BY <2>1, <3>1 DEF Starts, CleanupAt
    <3> QED
      BY <3>1, <3>2, <3>3
  <2> QED
    BY <2>2, <2>3
<1>3. ASSUME CloseInv, NEW u \in Value, CloserReturns(u), NEW v \in Value PROVE Fine(v)
  <2>1. UNCHANGED <<done, finside>> /\ inside' = [inside EXCEPT ![u] = FALSE]
    BY <1>3 DEF CloserReturns, forceVars
  <2>2. \A w \in Value : inside'[w] => inside[w]
    BY <1>0, <1>3, <2>1
  <2> QED
    BY <1>1, <2>1, <2>2
<1>4. ASSUME CloseInv, ForceCloser, NEW v \in Value PROVE Fine(v)
  <2>1. /\ forcing \in Value /\ fnext > 0 /\ inside' = inside
        /\ fnext <= closers[forcing] /\ (fnext + 1)..closers[forcing] \subseteq done[forcing]
    BY <1>0, <1>4 DEF ForceCloser, OrderOK
  <2>2. CASE fnext \in done[forcing]
    <3>1. UNCHANGED <<finside, done>>
      BY <1>4, <2>2 DEF ForceCloser
    <3> QED
      BY <1>1, <2>1, <3>1
  <2>3. CASE fnext \notin done[forcing]
    <3>1. /\ done'[forcing] = done[forcing] \cup {fnext}
          /\ \A w \in Value : w # forcing => done'[w] = done[w]
      BY <1>0, <1>4, <2>1, <2>3 DEF ForceCloser
    <3>2. done[forcing] = (fnext + 1)..closers[forcing] /\ done'[forcing] = fnext..closers[forcing]
      BY <1>0, <1>4, <2>1, <2>3, <3>1, CalledNext
    <3>3. \A i : Starts(v, i) => v = forcing /\ i = fnext
      BY <2>1 DEF Starts
    <3> QED
      BY <3>1, <3>2, <3>3
  <2> QED
    BY <2>2, <2>3
<1>5. ASSUME ForceCloserReturns, NEW v \in Value PROVE Fine(v)
  BY <1>1, <1>5 DEF ForceCloserReturns, runVars
<1>6. ASSUME CloseInv, [Next]_vars, NEW v \in Value PROVE Fine(v)
  <2>1. CASE \E u \in Value : CleanUp(u)
    BY <1>1, <1>2, <1>3, <1>6, <2>1, CallsNone DEF CleanUp
  <2>2. CASE Close
    BY <1>1, <1>4, <1>5, <1>6, <2>2, CallsNone DEF Close
  <2>3. CASE (\E u \in Value : Build(u)) \/ UNCHANGED vars
    BY <1>1, <2>3, CallsNone
  <2>4. CASE (\E l \in Lease : UseLease(l)) \/ \E d \in Dropper : DropValues(d)
    BY <1>1, <2>4, CallsNone
  <2> QED
    BY <1>6, <2>1, <2>2, <2>3, <2>4 DEF Next, Terminated
<1>7. CloseInv /\ [Next]_vars =>
        [\A v \in Value :
           /\ done[v] \subseteq done'[v]
           /\ \A i \in 1..MaxClosers : Starts(v, i) =>
                done[v] = (i + 1)..closers[v] /\ done'[v] = i..closers[v]]_vars
  BY <1>6
<1> QED
  BY <1>7, CloseInvariant, PTL DEF Spec, CleanupsInOrder

\* Every cleanup error was returned, waits in late, or is held by a release
\* still under way (value.go:36, graph.go:76).
THEOREM ErrorsNeverDropped ==
  ASSUME Joins
  PROVE  Spec => []ErrorsKept
<1>1. CloseInv => ErrorsKept
  BY DEF CloseInv
<1> QED
  BY <1>1, CloseInvariant, PTL

\* When CloseContext returns, every cleanup of every published value was
\* started, and has returned unless it ran out of time (graph.go:93).
THEOREM CloseReturnsClean ==
  ASSUME Joins
  PROVE  Spec => []ReturnedIsClean
<1>1. ASSUME CloseInv, Returned, NEW v \in Value, Built(v)
      PROVE  /\ done[v] = 1..closers[v]
             /\ closing = "returned" => cleanup[v] = "over"
  <2>0. TypeOK /\ OrderOK /\ LiveOK
    BY <1>1 DEF CloseInv, IInv
  <2>1. ASSUME cleanup[v] = "over" PROVE done[v] = 1..closers[v]
    <3>1. next[v] = 0 /\ done[v] \subseteq 1..closers[v]
      BY <2>0, <2>1 DEF OrderOK
    <3>2. (next[v] + 1)..closers[v] \subseteq done[v]
      BY <2>0, <2>1 DEF OrderOK
    <3>3. next[v] + 1 = 1
      BY <3>1
    <3> QED
      BY <3>1, <3>2, <3>3
  <2>2. CASE closing = "returned"
    <3>1. cleanup[v] = "over"
      BY <1>1, <2>0, <2>2 DEF LiveOK
    <3> QED
      BY <2>1, <3>1
  <2>3. CASE closing = "timedOut"
    <3>1. v # None
      BY ValuesAssumption DEF ValuesAssumption
    <3>2. cleanup[v] = "over" \/ done[v] = 1..closers[v]
      BY <1>1, <2>0, <2>3, <3>1 DEF LiveOK
    <3> QED
      BY <2>1, <2>3, <3>2
  <2> QED
    BY <1>1, <2>2, <2>3 DEF Returned
<1>2. CloseInv => ReturnedIsClean
  BY <1>1 DEF ReturnedIsClean
<1> QED
  BY <1>2, CloseInvariant, PTL
=============================================================================
