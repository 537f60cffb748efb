--------------------------- MODULE ValuesProofs ---------------------------
(***************************************************************************)
(* What Values promises, proved for every number of builds, leases,        *)
(* invalidators, reads and cleanups.                                       *)
(***************************************************************************)
EXTENDS Values, FiniteSetTheorems, TLAPS

-----------------------------------------------------------------------------
(* Types.                                                                  *)

\* A group of variables a step leaves alone keeps its types.
LEMMA Frames ==
    /\ BuildTypes /\ UNCHANGED <<phase, buildVars>> => BuildTypes'
    /\ CleanTypes /\ UNCHANGED <<refs, cleanVars, runVars>> => CleanTypes'
    /\ LeaseTypes /\ UNCHANGED leaseVars => LeaseTypes'
    /\ StackTypes /\ UNCHANGED stack => StackTypes'
    /\ GraphTypes /\ UNCHANGED <<graphVars, closing>> => GraphTypes'
    /\ ForceTypes /\ UNCHANGED forceVars => ForceTypes'
    /\ ErrTypes /\ UNCHANGED errVars => ErrTypes'
  BY DEF BuildTypes, CleanTypes, LeaseTypes, StackTypes, GraphTypes, ForceTypes,
         ErrTypes, buildVars, cleanVars, runVars, leaseVars, graphVars, forceVars,
         errVars

\* gen.release keeps the types of what it changes.
LEMMA ReleaseTypes ==
  ASSUME BuildTypes, CleanTypes, NEW v \in Value, NEW a \in Releaser,
         Release(v, a), UNCHANGED runVars
  PROVE  CleanTypes'
<1>1. CASE LastReference(v)
  <2>1. refs' \in [Value -> Int]
    BY DEF CleanTypes, Release
  <2>2. cleanup' \in [Value -> Cleanup]
    BY <1>1 DEF CleanTypes, Release, Cleanup
  <2>3. next' \in [Value -> 0..MaxClosers]
    BY <1>1, ZenonT(30) DEF CleanTypes, BuildTypes, Release, FirstCleanup
  <2>4. caller' \in [Value -> Releaser \cup {None}]
    BY <1>1 DEF CleanTypes, Release
  <2> QED
    BY <2>1, <2>2, <2>3, <2>4 DEF CleanTypes, runVars
<1>2. CASE ~LastReference(v)
  BY <1>2 DEF CleanTypes, Release, cleanVars, runVars
<1> QED
  BY <1>1, <1>2

\* A reader that has loaded a box finds room in the scope for it.
LEMMA ReadFits ==
  ASSUME TypeOK, Room, NEW v \in Value, NEW r \in Reader, reading[v][r] # None
  PROVE  Len(deps[v]) < MaxReads
<1> DEFINE R == {s \in Reader : reading[v][s] # None}
<1>1. IsFiniteSet(R) /\ r \in R
  BY FS_Subset, ValuesAssumption DEF ValuesAssumption
<1>2. Cardinality(R) \in Nat /\ Cardinality(R) # 0
  BY <1>1, FS_CardinalityType, FS_EmptySet
<1>3. Len(deps[v]) \in Nat /\ Len(deps[v]) + Cardinality(R) <= MaxReads
  BY DEF TypeOK, BuildTypes, Room
<1> QED
  BY <1>2, <1>3, ValuesAssumption DEF ValuesAssumption

LEMMA TypeStep == IInv /\ [Next]_vars => TypeOK'
<1> SUFFICES ASSUME IInv PROVE [Next]_vars => TypeOK'
  OBVIOUS
<1>0. /\ TypeOK /\ Room /\ CleanOK /\ ForceOK
      /\ MaxReads \in Nat /\ MaxClosers \in Nat
  BY ValuesAssumption DEF IInv, ValuesAssumption
<1> USE <1>0 DEF TypeOK, Releaser, Dropper, Phase, Cleanup, Closing, LeaseState,
      buildVars, cleanVars, runVars, leaseVars, graphVars, forceVars, errVars
<1>1. ASSUME NEW v \in Value, StartBuild(v) PROVE TypeOK'
  <2>1. BuildTypes'
    BY <1>1 DEF BuildTypes, StartBuild
  <2>2. GraphTypes'
    BY <1>1 DEF GraphTypes, StartBuild
  <2> QED
    BY <1>1, <2>1, <2>2, Frames DEF StartBuild
<1>2. ASSUME NEW v \in Value, OnClose(v) PROVE TypeOK'
  <2>1. BuildTypes'
    BY <1>2 DEF BuildTypes, OnClose
  <2> QED
    BY <1>2, <2>1, Frames DEF OnClose
<1>3. ASSUME NEW v \in Value, Publish(v) PROVE TypeOK'
  <2>1. BuildTypes'
    BY <1>3 DEF BuildTypes, Publish, MayReturn
  <2>2. CleanTypes'
    BY <1>3 DEF CleanTypes, Publish, MayReturn
  <2>3. GraphTypes'
    BY <1>3 DEF GraphTypes, Publish, MayReturn
  <2> QED
    BY <1>3, <2>1, <2>2, <2>3, Frames DEF Publish
<1>4. ASSUME NEW v \in Value, Discard(v) PROVE TypeOK'
  <2>1. BuildTypes'
    BY <1>4 DEF BuildTypes, Discard, MayReturn, FirstCleanup
  <2>2. CleanTypes'
    BY <1>4 DEF CleanTypes, BuildTypes, Discard, MayReturn, FirstCleanup
  <2> QED
    BY <1>4, <2>1, <2>2, Frames DEF Discard
<1>5. ASSUME NEW v \in Value, FinishBuild(v) PROVE TypeOK'
  <2>1. GraphTypes'
    BY <1>5 DEF GraphTypes, FinishBuild, CheckDrained
  <2> QED
    BY <1>5, <2>1, Frames DEF FinishBuild
<1>6. ASSUME NEW v \in Value, NEW r \in Reader, Load(v, r) PROVE TypeOK'
  <2>1. BuildTypes'
    BY <1>6, SMTT(30) DEF BuildTypes, Load
  <2> QED
    BY <1>6, <2>1, Frames DEF Load
<1>7. ASSUME NEW v \in Value, NEW r \in Reader, Acquire(v, r) PROVE TypeOK'
  <2>1. BuildTypes'
    BY <1>7, ReadFits, SMTT(30) DEF BuildTypes, Acquire
  <2>2. CleanTypes'
    <3>1. reading[v][r] \in Value
      BY <1>7 DEF Acquire, BuildTypes
    <3>2. refs' \in [Value -> Int]
      BY <1>7, <3>1 DEF Acquire, CleanTypes
    <3> QED
      BY <1>7, <3>2 DEF Acquire, CleanTypes
  <2> QED
    BY <1>7, <2>1, <2>2, Frames DEF Acquire
<1>8. ASSUME NEW v \in Value, NEW r \in Reader, AcquireFails(v, r) PROVE TypeOK'
  <2>1. BuildTypes'
    BY <1>8 DEF BuildTypes, AcquireFails, Acquirable
  <2> QED
    BY <1>8, <2>1, Frames DEF AcquireFails
<1>9. ASSUME NEW v \in Value, RunCloser(v) PROVE TypeOK'
  <2>1. CleanTypes'
    <3>1. CASE next[v] \in done[v]
      BY <1>9, <3>1 DEF CleanTypes, RunCloser, CleanupAt
    <3>2. CASE next[v] \notin done[v]
      <4>1. next[v] \in 1..MaxClosers
        BY <1>9 DEF CleanTypes, RunCloser
      <4>2. done' \in [Value -> SUBSET (1..MaxClosers)]
        BY <1>9, <3>2, <4>1 DEF CleanTypes, RunCloser, CleanupAt
      <4> QED
        BY <1>9, <3>2, <4>2 DEF CleanTypes, RunCloser, CleanupAt
    <3> QED
      BY <3>1, <3>2
  <2> QED
    BY <1>9, <2>1, Frames DEF RunCloser
<1>10. ASSUME NEW v \in Value, CloserReturns(v) PROVE TypeOK'
  <2>1. CleanTypes'
    BY <1>10 DEF CleanTypes, CleanOK, CloserReturns, CleanupAt
  <2>2. ErrTypes'
    <3>1. <<v, next[v]>> \in Value \X (1..MaxClosers)
      BY <1>10 DEF CleanTypes, CleanOK, CloserReturns
    <3>2. v \in Releaser
      OBVIOUS
    <3> QED
      BY <1>10, <3>1, <3>2 DEF ErrTypes, CloserReturns, CleanupAt
  <2> QED
    BY <1>10, <2>1, <2>2, Frames DEF CloserReturns
<1>11. ASSUME NEW v \in Value, ReleaseDep(v) PROVE TypeOK'
  <2>1. BuildTypes'
    <3>1. left' \in [Value -> 0..MaxReads]
      BY <1>11, SMTT(30) DEF BuildTypes, ReleaseDep
    <3>2. \A w \in Value : left'[w] <= left[w]
      BY <1>11, SMTT(30) DEF BuildTypes, ReleaseDep
    <3> QED
      BY <1>11, <3>1, <3>2, SMTT(30) DEF BuildTypes, ReleaseDep
  <2>2. CleanTypes'
    BY <1>11, ReleaseTypes DEF BuildTypes, ReleaseDep
  <2> QED
    BY <1>11, <2>1, <2>2, Frames DEF ReleaseDep
<1>12. ASSUME NEW v \in Value, ReleaseReturns(v) PROVE TypeOK'
  <2>1. CleanTypes'
    BY <1>12 DEF CleanTypes, ReleaseReturns, CleanupsRun, CheckDrained, JoinedErrors
  <2>2. GraphTypes'
    BY <1>12 DEF GraphTypes, ReleaseReturns, CleanupsRun, CheckDrained, JoinedErrors
  <2>3. ErrTypes'
    BY <1>12 DEF ErrTypes, ReleaseReturns, CleanupsRun, CheckDrained, JoinedErrors
  <2> QED
    BY <1>12, <2>1, <2>2, <2>3, Frames DEF ReleaseReturns
<1>13. ASSUME NEW v \in Value, DiscardReturns(v) PROVE TypeOK'
  <2>1. CleanTypes'
    BY <1>13 DEF CleanTypes, DiscardReturns, CleanupsRun
  <2>2. ErrTypes'
    BY <1>13 DEF ErrTypes, DiscardReturns, CleanupsRun
  <2> QED
    BY <1>13, <2>1, <2>2, Frames DEF DiscardReturns
<1>14. ASSUME NEW l \in Lease, LeaseLoad(l) PROVE TypeOK'
  <2>1. LeaseTypes'
    BY <1>14 DEF LeaseTypes, LeaseLoad
  <2> QED
    BY <1>14, <2>1, Frames DEF LeaseLoad
<1>15. ASSUME NEW l \in Lease, LeaseAcquire(l) PROVE TypeOK'
  <2>1. CleanTypes'
    BY <1>15 DEF CleanTypes, LeaseTypes, LeaseAcquire, Acquirable
  <2>2. LeaseTypes'
    BY <1>15 DEF LeaseTypes, LeaseAcquire, Acquirable
  <2> QED
    BY <1>15, <2>1, <2>2, Frames DEF LeaseAcquire
<1>16. ASSUME NEW l \in Lease, LeaseRelease(l) PROVE TypeOK'
  <2>1. CleanTypes'
    BY <1>16, ReleaseTypes DEF LeaseTypes, LeaseRelease, MayRelease
  <2>2. LeaseTypes'
    BY <1>16 DEF LeaseTypes, LeaseRelease, MayRelease, Release, LastReference, FirstCleanup
  <2> QED
    BY <1>16, <2>1, <2>2, Frames DEF LeaseRelease
<1>17. ASSUME NEW l \in Lease, LeaseAddLate(l) PROVE TypeOK'
  <2>1. LeaseTypes'
    BY <1>17 DEF LeaseTypes, LeaseAddLate
  <2>2. ErrTypes'
    BY <1>17 DEF ErrTypes, LeaseAddLate
  <2> QED
    BY <1>17, <2>1, <2>2, Frames DEF LeaseAddLate
<1>18. ASSUME NEW d \in Dropper, NEW v \in Value, SwapOut(d, v) PROVE TypeOK'
  <2>1. BuildTypes'
    BY <1>18 DEF BuildTypes, SwapOut
  <2>2. StackTypes'
    BY <1>18 DEF StackTypes, SwapOut
  <2> QED
    BY <1>18, <2>1, <2>2, Frames DEF SwapOut
<1>19. ASSUME NEW d \in Dropper, Drop(d) PROVE TypeOK'
  <2>1. BuildTypes'
    BY <1>19 DEF BuildTypes, Drop, Release, LastReference, FirstCleanup
  <2>2. CleanTypes'
    BY <1>19, ReleaseTypes DEF StackTypes, Drop
  <2>3. StackTypes'
    BY <1>19 DEF StackTypes, Drop, Release, LastReference, FirstCleanup
  <2> QED
    BY <1>19, <2>1, <2>2, <2>3, Frames DEF Drop
<1>20. ASSUME NEW d \in Dropper, InvalidateReturns(d) PROVE TypeOK'
  <2>1. ErrTypes'
    BY <1>20 DEF ErrTypes, InvalidateReturns
  <2> QED
    BY <1>20, <2>1, Frames DEF InvalidateReturns
<1>21. ASSUME CloseBegins PROVE TypeOK'
  <2>1. GraphTypes'
    BY <1>21 DEF GraphTypes, CloseBegins
  <2> QED
    BY <1>21, <2>1, Frames DEF CloseBegins
<1>22. ASSUME CloseWaits PROVE TypeOK'
  <2>1. GraphTypes'
    BY <1>22 DEF GraphTypes, CloseWaits, CheckDrained
  <2> QED
    BY <1>22, <2>1, Frames DEF CloseWaits
<1>23. ASSUME CloseReturns PROVE TypeOK'
  <2>1. GraphTypes'
    BY <1>23 DEF GraphTypes, CloseReturns, CollectErrors
  <2>2. ErrTypes'
    BY <1>23 DEF ErrTypes, CloseReturns, CollectErrors
  <2> QED
    BY <1>23, <2>1, <2>2, Frames DEF CloseReturns, CollectErrors
<1>24. ASSUME DeadlineEnds PROVE TypeOK'
  <2>1. GraphTypes'
    BY <1>24 DEF GraphTypes, DeadlineEnds
  <2>2. ForceTypes'
    BY <1>24 DEF ForceTypes, GraphTypes, DeadlineEnds, ForceOK
  <2> QED
    BY <1>24, <2>1, <2>2, Frames DEF DeadlineEnds
<1>25. ASSUME ForceNext PROVE TypeOK'
  <2>1. ForceTypes'
    BY <1>25 DEF ForceTypes, BuildTypes, ForceNext
  <2> QED
    BY <1>25, <2>1, Frames DEF ForceNext
<1>26. ASSUME ForceCloser PROVE TypeOK'
  <2>1. CleanTypes'
    BY <1>26 DEF CleanTypes, ForceTypes, ForceCloser
  <2>2. ForceTypes'
    <3>1. CASE fnext \in done[forcing]
      BY <1>26, <3>1 DEF ForceTypes, ForceCloser
    <3>2. CASE fnext \notin done[forcing]
      BY <1>26, <3>2 DEF ForceTypes, ForceCloser
    <3> QED
      BY <3>1, <3>2
  <2> QED
    BY <1>26, <2>1, <2>2, Frames DEF ForceCloser
<1>27. ASSUME ForceCloserReturns PROVE TypeOK'
  <2>1. ForceTypes'
    <3>1. fnext' \in 0..MaxClosers
      BY <1>27 DEF ForceTypes, ForceOK, ForceCloserReturns
    <3> QED
      BY <1>27, <3>1 DEF ForceTypes, ForceCloserReturns
  <2>2. ErrTypes'
    <3>1. <<forcing, fnext>> \in Value \X (1..MaxClosers)
      BY <1>27 DEF ForceTypes, ForceOK, ForceCloserReturns
    <3>2. Closer \in Releaser
      OBVIOUS
    <3> QED
      BY <1>27, <3>1, <3>2 DEF ErrTypes, ForceCloserReturns
  <2> QED
    BY <1>27, <2>1, <2>2, Frames DEF ForceCloserReturns
<1>28. ASSUME ForceEnds PROVE TypeOK'
  <2>1. ForceTypes'
    BY <1>28 DEF ForceTypes, ForceEnds
  <2> QED
    BY <1>28, <2>1, Frames DEF ForceEnds
<1>29. ASSUME CloseTimesOut PROVE TypeOK'
  <2>1. GraphTypes'
    BY <1>29 DEF GraphTypes, CloseTimesOut, CollectErrors
  <2>2. ErrTypes'
    BY <1>29 DEF ErrTypes, CloseTimesOut, CollectErrors
  <2> QED
    BY <1>29, <2>1, <2>2, Frames DEF CloseTimesOut, CollectErrors
<1>30. CASE UNCHANGED vars
  BY <1>30, Frames DEF vars
<1> QED
  BY <1>1, <1>2, <1>3, <1>4, <1>5, <1>6, <1>7, <1>8, <1>9, <1>10, <1>11, <1>12, <1>13, <1>14, <1>15, <1>16, <1>17, <1>18, <1>19, <1>20, <1>21, <1>22, <1>23, <1>24, <1>25, <1>26, <1>27, <1>28, <1>29, <1>30
  DEF Next, vars, Build, CleanUp, UseLease, DropValues, Close, Terminated

-----------------------------------------------------------------------------
(* Reads, leases and the stacks of values swapped out.                     *)

\* The steps that leave the reads and the scopes alone.
LEMMA ReadFrame ==
  /\ \A v \in Value :
       \/ StartBuild(v) \/ OnClose(v) \/ Publish(v) \/ Discard(v) \/ FinishBuild(v)
       \/ CleanUp(v)
       => UNCHANGED <<reading, deps>>
  /\ \A l \in Lease : UseLease(l) => UNCHANGED <<reading, deps>>
  /\ \A d \in Dropper : DropValues(d) => UNCHANGED <<reading, deps>>
  /\ Close => UNCHANGED <<reading, deps>>
  /\ UNCHANGED vars => UNCHANGED <<reading, deps>>
<1>1. ASSUME NEW v \in Value,
             StartBuild(v) \/ OnClose(v) \/ Publish(v) \/ Discard(v) \/ FinishBuild(v)
      PROVE  UNCHANGED <<reading, deps>>
  BY <1>1 DEF StartBuild, OnClose, Publish, Discard, FinishBuild, buildVars
<1>2. ASSUME NEW v \in Value, CleanUp(v) PROVE UNCHANGED <<reading, deps>>
  BY <1>2 DEF CleanUp, RunCloser, CloserReturns, ReleaseDep, ReleaseReturns,
              DiscardReturns, buildVars
<1>3. ASSUME NEW l \in Lease, UseLease(l) PROVE UNCHANGED <<reading, deps>>
  BY <1>3 DEF UseLease, LeaseLoad, LeaseAcquire, LeaseRelease, LeaseAddLate, buildVars
<1>4. ASSUME NEW d \in Dropper, DropValues(d) PROVE UNCHANGED <<reading, deps>>
  BY <1>4 DEF DropValues, Drop, SwapOut, InvalidateReturns, buildVars
<1>5. ASSUME Close PROVE UNCHANGED <<reading, deps>>
  BY <1>5 DEF Close, CloseBegins, CloseWaits, CloseReturns, DeadlineEnds, ForceNext,
              ForceCloser, ForceCloserReturns, ForceEnds, CloseTimesOut, buildVars
<1>6. ASSUME UNCHANGED vars PROVE UNCHANGED <<reading, deps>>
  BY <1>6 DEF vars, buildVars
<1> QED
  BY <1>1, <1>2, <1>3, <1>4, <1>5, <1>6

LEMMA RoomStep == IInv /\ [Next]_vars => Room'
<1> SUFFICES ASSUME IInv PROVE [Next]_vars => Room'
  OBVIOUS
<1> DEFINE R(w) == {s \in Reader : reading[w][s] # None}
<1>0. /\ BuildTypes /\ Room
      /\ MaxReads \in Nat
      /\ \A w \in Value : IsFiniteSet(R(w)) /\ Cardinality(R(w)) \in Nat
  BY ValuesAssumption, FS_Subset, FS_CardinalityType
     DEF IInv, TypeOK, ValuesAssumption
<1>1. ASSUME NEW v \in Value, NEW r \in Reader, Load(v, r) PROVE Room'
  <2>1. PICK u \in Value : reading' = [reading EXCEPT ![v][r] = u]
    BY <1>1 DEF Load
  <2>2. /\ u # None /\ reading[v][r] = None /\ deps' = deps
        /\ Len(deps[v]) + Cardinality(R(v)) < MaxReads
    BY <1>1, ValuesAssumption DEF Load, ValuesAssumption
  <2>3. {s \in Reader : reading'[v][s] # None} = R(v) \cup {r} /\ r \notin R(v)
    BY <2>1, <2>2, <1>0 DEF BuildTypes
  <2>4. Cardinality({s \in Reader : reading'[v][s] # None}) = Cardinality(R(v)) + 1
    BY <2>3, <1>0, FS_AddElement
  <2>5. \A w \in Value : w # v => reading'[w] = reading[w]
    BY <2>1, <1>0 DEF BuildTypes
  <2> SUFFICES ASSUME NEW w \in Value
               PROVE  Len(deps'[w]) + Cardinality({s \in Reader : reading'[w][s] # None})
                        <= MaxReads
    BY DEF Room
  <2>a. CASE w = v
    <3>1. Len(deps[v]) \in Nat /\ Len(deps[v]) + Cardinality(R(v)) <= MaxReads
      BY <1>0 DEF Room, BuildTypes
    <3>2. Cardinality(R(v)) \in Nat
      BY <1>0
    <3> HIDE DEF R
    <3> QED
      BY <2>a, <3>1, <3>2, <2>2, <2>4, <1>0
  <2>b. CASE w # v
    <3>1. {s \in Reader : reading'[w][s] # None} = R(w)
      BY <2>b, <2>5
    <3> QED
      BY <2>b, <3>1, <2>5, <2>2, <1>0 DEF Room
  <2> QED
    BY <2>a, <2>b
<1>2. ASSUME NEW v \in Value, NEW r \in Reader, Acquire(v, r) PROVE Room'
  <2> DEFINE u == reading[v][r]
  <2>1. u \in Value /\ u # None
    BY <1>2, <1>0 DEF Acquire, BuildTypes
  <2>2. /\ deps' = [deps EXCEPT ![v] = Append(@, u)]
        /\ reading' = [reading EXCEPT ![v][r] = None]
    BY <1>2 DEF Acquire
  <2>3. {s \in Reader : reading'[v][s] # None} = R(v) \ {r} /\ r \in R(v)
    BY <2>1, <2>2, <1>0 DEF BuildTypes
  <2>4. Cardinality({s \in Reader : reading'[v][s] # None}) = Cardinality(R(v)) - 1
    BY <2>3, <1>0, FS_RemoveElement
  <2>5. Len(deps'[v]) = Len(deps[v]) + 1
    BY <2>1, <2>2, <1>0 DEF BuildTypes
  <2>6. \A w \in Value : w # v => reading'[w] = reading[w] /\ deps'[w] = deps[w]
    BY <2>2, <1>0 DEF BuildTypes
  <2> SUFFICES ASSUME NEW w \in Value
               PROVE  Len(deps'[w]) + Cardinality({s \in Reader : reading'[w][s] # None})
                        <= MaxReads
    BY DEF Room
  <2>a. CASE w = v
    <3>1. Len(deps[v]) \in Nat /\ Len(deps[v]) + Cardinality(R(v)) <= MaxReads
      BY <1>0 DEF Room, BuildTypes
    <3>2. Cardinality(R(v)) \in Nat
      BY <1>0
    <3> HIDE DEF R
    <3> QED
      BY <2>a, <3>1, <3>2, <2>4, <2>5, <1>0
  <2>b. CASE w # v
    <3>1. {s \in Reader : reading'[w][s] # None} = R(w)
      BY <2>b, <2>6
    <3> QED
      BY <2>b, <3>1, <2>6, <1>0 DEF Room
  <2> QED
    BY <2>a, <2>b
<1>3. ASSUME NEW v \in Value, NEW r \in Reader, AcquireFails(v, r) PROVE Room'
  <2>1. reading[v][r] # None /\ deps' = deps
    BY <1>3 DEF AcquireFails
  <2>2. reading' = [reading EXCEPT ![v][r] = None]
    BY <1>3 DEF AcquireFails
  <2>3. {s \in Reader : reading'[v][s] # None} = R(v) \ {r} /\ r \in R(v)
    BY <2>1, <2>2, <1>0 DEF BuildTypes
  <2>4. Cardinality({s \in Reader : reading'[v][s] # None}) = Cardinality(R(v)) - 1
    BY <2>3, <1>0, FS_RemoveElement
  <2>5. \A w \in Value : w # v => reading'[w] = reading[w]
    BY <2>2, <1>0 DEF BuildTypes
  <2> SUFFICES ASSUME NEW w \in Value
               PROVE  Len(deps'[w]) + Cardinality({s \in Reader : reading'[w][s] # None})
                        <= MaxReads
    BY DEF Room
  <2>a. CASE w = v
    <3>1. Len(deps[v]) \in Nat /\ Len(deps[v]) + Cardinality(R(v)) <= MaxReads
      BY <1>0 DEF Room, BuildTypes
    <3>2. Cardinality(R(v)) \in Nat
      BY <1>0
    <3> HIDE DEF R
    <3> QED
      BY <2>a, <3>1, <3>2, <2>1, <2>4, <1>0
  <2>b. CASE w # v
    <3>1. {s \in Reader : reading'[w][s] # None} = R(w)
      BY <2>b, <2>5
    <3> QED
      BY <2>b, <3>1, <2>5, <2>1, <1>0 DEF Room
  <2> QED
    BY <2>a, <2>b
<1>4. ASSUME UNCHANGED <<reading, deps>> PROVE Room'
  BY <1>4, <1>0 DEF Room
<1> QED
  BY <1>1, <1>2, <1>3, <1>4, ReadFrame DEF Next, Build, Terminated

\* The steps that leave the phases, the reads, the leases and the stacks alone.
LEMMA UseFrame ==
  LET same == UNCHANGED <<phase, reading, deps, lease, of, stack>> IN
  /\ \A v \in Value : OnClose(v) \/ FinishBuild(v) \/ CleanUp(v) => same
  /\ \A d \in Dropper : InvalidateReturns(d) => same
  /\ Close => same
  /\ UNCHANGED vars => same
<1>1. ASSUME NEW v \in Value, OnClose(v) \/ FinishBuild(v)
      PROVE  UNCHANGED <<phase, reading, deps, lease, of, stack>>
  BY <1>1 DEF OnClose, FinishBuild, buildVars, leaseVars
<1>2. ASSUME NEW v \in Value, CleanUp(v)
      PROVE  UNCHANGED <<phase, reading, deps, lease, of, stack>>
  BY <1>2 DEF CleanUp, RunCloser, CloserReturns, ReleaseDep, ReleaseReturns,
              DiscardReturns, buildVars, leaseVars
<1>3. ASSUME NEW d \in Dropper, InvalidateReturns(d)
      PROVE  UNCHANGED <<phase, reading, deps, lease, of, stack>>
  BY <1>3 DEF InvalidateReturns, buildVars, leaseVars
<1>4. ASSUME Close PROVE UNCHANGED <<phase, reading, deps, lease, of, stack>>
  BY <1>4 DEF Close, CloseBegins, CloseWaits, CloseReturns, DeadlineEnds, ForceNext,
              ForceCloser, ForceCloserReturns, ForceEnds, CloseTimesOut, buildVars,
              leaseVars
<1>5. ASSUME UNCHANGED vars PROVE UNCHANGED <<phase, reading, deps, lease, of, stack>>
  BY <1>5 DEF vars, buildVars, leaseVars
<1> QED
  BY <1>1, <1>2, <1>3, <1>4, <1>5

\* A step of a build or of its provider's reference that reads nothing.
LEMMA UsesKept ==
  ASSUME TypeOK, UsesOK, UNCHANGED <<reading, deps, lease, of>>,
         \A w \in Value : Built(w) => Built(w)',
         \A w \in Value : \A r \in Reader : reading[w][r] # None => phase'[w] = "building"
  PROVE  UsesOK'
<1>1. \A w \in Value :
        /\ deps[w] \in Seq(Value)
        /\ \A i \in 1..Len(deps[w]) : deps[w][i] \in Value
        /\ \A r \in Reader : reading[w][r] # None => reading[w][r] \in Value
  BY DEF TypeOK, BuildTypes
<1>2. \A l \in Lease : lease[l] # "idle" => of[l] \in Value
  BY DEF TypeOK, LeaseTypes
<1>3. \A w \in Value : \A r \in Reader :
        reading'[w][r] # None => phase'[w] = "building" /\ Built(reading[w][r])'
  <2>1. SUFFICES ASSUME NEW w \in Value, NEW r \in Reader, reading[w][r] # None
                 PROVE  phase'[w] = "building" /\ Built(reading[w][r])'
    OBVIOUS
  <2>2. reading[w][r] \in Value /\ Built(reading[w][r])
    BY <1>1, <2>1 DEF UsesOK
  <2> QED
    BY <2>1, <2>2 DEF Built
<1>4. \A w \in Value : \A i \in 1..Len(deps'[w]) : Built(deps[w][i])'
  BY <1>1 DEF UsesOK, Built
<1>5. \A l \in Lease : lease'[l] # "idle" => Built(of[l])'
  BY <1>2 DEF UsesOK, Built
<1> QED
  BY <1>3, <1>4, <1>5 DEF UsesOK

LEMMA UsesStep ==
  ASSUME Joins
  PROVE  IInv /\ [Next]_vars => UsesOK'
<1> SUFFICES ASSUME IInv PROVE [Next]_vars => UsesOK'
  OBVIOUS
<1>0. TypeOK /\ UsesOK /\ StackOK
  BY DEF IInv
<1> USE <1>0 DEF TypeOK
<1>1. ASSUME NEW v \in Value, StartBuild(v) PROVE UsesOK'
  BY <1>1, UsesKept DEF BuildTypes, StartBuild, UsesOK, Built, buildVars, leaseVars
<1>2. ASSUME NEW v \in Value, Publish(v) PROVE UsesOK'
  BY <1>2, UsesKept DEF BuildTypes, Publish, MayReturn, UsesOK, Built, buildVars, leaseVars
<1>3. ASSUME NEW v \in Value, Discard(v) PROVE UsesOK'
  BY <1>3, UsesKept DEF BuildTypes, Discard, MayReturn, UsesOK, Built, buildVars, leaseVars
<1>4. ASSUME NEW v \in Value, NEW r \in Reader, Load(v, r) PROVE UsesOK'
  <2>1. PICK u \in Value : phase[u] = "current" /\ reading' = [reading EXCEPT ![v][r] = u]
    BY <1>4 DEF Load
  <2>2. phase[v] = "building" /\ UNCHANGED <<phase, deps, lease, of>>
    BY <1>4 DEF Load, leaseVars
  <2>3. \A w \in Value : \A s \in Reader :
          reading'[w][s] = reading[w][s] \/ (w = v /\ reading'[w][s] = u)
    BY <2>1 DEF BuildTypes
  <2> QED
    BY <2>1, <2>2, <2>3 DEF UsesOK, Built
<1>5. ASSUME NEW v \in Value, NEW r \in Reader, Acquire(v, r) PROVE UsesOK'
  <2> DEFINE u == reading[v][r]
  <2>1. u \in Value /\ Built(u)
    BY <1>5 DEF Acquire, BuildTypes, UsesOK
  <2>2. UNCHANGED <<phase, lease, of>>
    BY <1>5 DEF Acquire, leaseVars
  <2>3. deps' = [deps EXCEPT ![v] = Append(@, u)]
    BY <1>5 DEF Acquire
  <2>4. ASSUME NEW w \in Value, NEW i \in 1..Len(deps'[w])
        PROVE  deps'[w][i] = u \/ (i \in 1..Len(deps[w]) /\ deps'[w][i] = deps[w][i])
    <3>1. CASE w # v
      BY <2>3, <3>1 DEF BuildTypes
    <3>2. CASE w = v
      BY <2>1, <2>3, <3>2, SMTT(30) DEF BuildTypes
    <3> QED
      BY <3>1, <3>2
  <2>5. \A w \in Value : \A s \in Reader :
          reading'[w][s] # None => reading'[w][s] = reading[w][s]
    BY <1>5 DEF Acquire, BuildTypes
  <2> QED
    BY <2>1, <2>2, <2>4, <2>5 DEF UsesOK, Built
<1>6. ASSUME NEW v \in Value, NEW r \in Reader, AcquireFails(v, r) PROVE UsesOK'
  BY <1>6 DEF BuildTypes, AcquireFails, UsesOK, Built, leaseVars
<1>7. ASSUME NEW l \in Lease, UseLease(l) PROVE UsesOK'
  BY <1>7 DEF LeaseTypes, UseLease, LeaseLoad, LeaseAcquire, LeaseRelease, MayRelease,
              LeaseAddLate, UsesOK, Built, buildVars
<1>8. ASSUME NEW d \in Dropper, NEW v \in Value, SwapOut(d, v) PROVE UsesOK'
  BY <1>8, UsesKept DEF BuildTypes, SwapOut, UsesOK, Built, buildVars, leaseVars
<1>9. ASSUME NEW d \in Dropper, Drop(d) PROVE UsesOK'
  <2> DEFINE v == stack[d][Len(stack[d])]
  <2>1. v \in Value /\ phase[v] = "swapped"
    BY <1>9 DEF Drop, StackTypes, StackOK
  <2>2. phase' = [phase EXCEPT ![v] = "dropped"] /\ UNCHANGED <<reading, deps, lease, of>>
    BY <1>9 DEF Drop, buildVars, leaseVars
  <2> HIDE DEF v
  <2> QED
    BY <2>1, <2>2, UsesKept DEF BuildTypes, UsesOK, Built
<1>10. ASSUME UNCHANGED <<phase, reading, deps, lease, of, stack>> PROVE UsesOK'
  BY <1>10 DEF UsesOK, Built
<1> QED
  BY <1>1, <1>2, <1>3, <1>4, <1>5, <1>6, <1>7, <1>8, <1>9, <1>10, UseFrame
     DEF Next, Build, DropValues, Terminated

LEMMA StackStep == IInv /\ [Next]_vars => StackOK'
<1> SUFFICES ASSUME IInv PROVE [Next]_vars => StackOK'
  OBVIOUS
<1>0. BuildTypes /\ StackTypes /\ StackOK
  BY DEF IInv, TypeOK
<1> USE <1>0 DEF StackOK
<1>1. ASSUME NEW v \in Value, StartBuild(v) \/ Publish(v) \/ Discard(v) PROVE StackOK'
  <2>1. stack' = stack /\ \A w \in Value : phase[w] = "swapped" => phase'[w] = "swapped"
    BY <1>1 DEF BuildTypes, StartBuild, Publish, Discard, MayReturn
  <2> QED
    BY <2>1 DEF StackTypes
<1>2. ASSUME NEW v \in Value, NEW r \in Reader,
             Load(v, r) \/ Acquire(v, r) \/ AcquireFails(v, r)
      PROVE  UNCHANGED <<phase, stack>>
  BY <1>2 DEF Load, Acquire, AcquireFails
<1>3. ASSUME NEW l \in Lease, UseLease(l) PROVE UNCHANGED <<phase, stack>>
  BY <1>3 DEF UseLease, LeaseLoad, LeaseAcquire, LeaseRelease, LeaseAddLate
<1>4. ASSUME NEW d \in Dropper, NEW v \in Value, SwapOut(d, v) PROVE StackOK'
  <2>1. phase' = [phase EXCEPT ![v] = "swapped"] /\ phase[v] = "current"
    BY <1>4 DEF SwapOut
  <2>2. stack' = [stack EXCEPT ![d] = Append(@, v)]
    BY <1>4 DEF SwapOut
  <2>3. \A e \in Dropper : \A i \in 1..Len(stack'[e]) :
          \/ i \in 1..Len(stack[e]) /\ stack'[e][i] = stack[e][i] /\ stack[e][i] # v
          \/ e = d /\ i = Len(stack[d]) + 1 /\ stack'[e][i] = v
    BY <2>1, <2>2 DEF StackTypes
  <2>4. \A w \in Value : phase[w] = "swapped" \/ w = v => phase'[w] = "swapped"
    BY <2>1 DEF BuildTypes
  <2>5. \A e \in Dropper : \A i \in 1..Len(stack[e]) : stack[e][i] \in Value
    BY DEF StackTypes
  <2>6. \A e \in Dropper : \A i \in 1..Len(stack'[e]) : phase'[stack'[e][i]] = "swapped"
    BY <2>3, <2>4, <2>5
  <2>7. \A e, f \in Dropper : \A i \in 1..Len(stack'[e]), j \in 1..Len(stack'[f]) :
          stack'[e][i] = stack'[f][j] => e = f /\ i = j
    BY <2>3
  <2> QED
    BY <2>6, <2>7
<1>5. ASSUME NEW d \in Dropper, Drop(d) PROVE StackOK'
  <2> DEFINE v == stack[d][Len(stack[d])]
  <2>1. /\ phase' = [phase EXCEPT ![v] = "dropped"]
        /\ stack' = [stack EXCEPT ![d] = SubSeq(@, 1, Len(@) - 1)]
        /\ stack[d] # <<>>
    BY <1>5 DEF Drop
  <2>2. Len(stack[d]) \in 1..Len(stack[d])
    BY <2>1 DEF StackTypes
  <2>3. \A e \in Dropper : \A i \in 1..Len(stack'[e]) :
          /\ i \in 1..Len(stack[e]) /\ stack'[e][i] = stack[e][i]
          /\ e = d => i # Len(stack[d])
    BY <2>1 DEF StackTypes
  <2>4. \A e \in Dropper : \A i \in 1..Len(stack'[e]) : stack'[e][i] # v
    BY <2>2, <2>3
  <2>5. \A e \in Dropper : \A i \in 1..Len(stack[e]) :
          stack[e][i] # v => phase'[stack[e][i]] = "swapped"
    BY <2>1 DEF BuildTypes, StackTypes
  <2>6. \A e \in Dropper : \A i \in 1..Len(stack'[e]) : phase'[stack'[e][i]] = "swapped"
    BY <2>3, <2>4, <2>5
  <2>7. \A e, f \in Dropper : \A i \in 1..Len(stack'[e]), j \in 1..Len(stack'[f]) :
          stack'[e][i] = stack'[f][j] => e = f /\ i = j
    BY <2>3
  <2> QED
    BY <2>6, <2>7
<1>6. ASSUME UNCHANGED <<phase, stack>> PROVE StackOK'
  BY <1>6
<1> QED
  BY <1>1, <1>2, <1>3, <1>4, <1>5, <1>6, UseFrame
     DEF Next, Build, DropValues, Terminated

-----------------------------------------------------------------------------
(* The reference counts.                                                   *)

LEMMA HoldersFinite ==
  ASSUME NEW v \in Value
  PROVE  /\ IsFiniteSet(LeasesOn(v)) /\ Cardinality(LeasesOn(v)) \in Nat
         /\ IsFiniteSet(DepsOn(v)) /\ Cardinality(DepsOn(v)) \in Nat
<1>1. IsFiniteSet(Lease) /\ LeasesOn(v) \subseteq Lease
  BY ValuesAssumption DEF ValuesAssumption, LeasesOn
<1>2. IsFiniteSet(1..MaxReads)
  BY FS_Interval, ValuesAssumption DEF ValuesAssumption
<1>3. IsFiniteSet(Value \X (1..MaxReads)) /\ DepsOn(v) \subseteq Value \X (1..MaxReads)
  BY <1>2, FS_Product, ValuesAssumption DEF ValuesAssumption, DepsOn
<1> QED
  BY <1>1, <1>3, FS_Subset, FS_CardinalityType

\* The steps that leave the counts and their holders alone.
LEMMA CountFrame ==
  LET same == UNCHANGED <<phase, refs, deps, left, lease, of>> IN
  /\ \A v \in Value :
       \/ OnClose(v) \/ FinishBuild(v) \/ RunCloser(v) \/ CloserReturns(v)
       \/ ReleaseReturns(v) \/ DiscardReturns(v)
       => same
  /\ \A v \in Value : \A r \in Reader : Load(v, r) \/ AcquireFails(v, r) => same
  /\ \A d \in Dropper : InvalidateReturns(d) => same
  /\ Close => same
  /\ UNCHANGED vars => same
<1>1. ASSUME NEW v \in Value,
             \/ OnClose(v) \/ FinishBuild(v) \/ RunCloser(v) \/ CloserReturns(v)
             \/ ReleaseReturns(v) \/ DiscardReturns(v)
      PROVE  UNCHANGED <<phase, refs, deps, left, lease, of>>
  BY <1>1 DEF OnClose, FinishBuild, RunCloser, CloserReturns, ReleaseReturns,
              DiscardReturns, buildVars, leaseVars
<1>2. ASSUME NEW v \in Value, NEW r \in Reader, Load(v, r) \/ AcquireFails(v, r)
      PROVE  UNCHANGED <<phase, refs, deps, left, lease, of>>
  BY <1>2 DEF Load, AcquireFails, leaseVars
<1>3. ASSUME NEW d \in Dropper, InvalidateReturns(d)
      PROVE  UNCHANGED <<phase, refs, deps, left, lease, of>>
  BY <1>3 DEF InvalidateReturns, buildVars, leaseVars
<1>4. ASSUME Close PROVE UNCHANGED <<phase, refs, deps, left, lease, of>>
  BY <1>4 DEF Close, CloseBegins, CloseWaits, CloseReturns, DeadlineEnds, ForceNext,
              ForceCloser, ForceCloserReturns, ForceEnds, CloseTimesOut, buildVars,
              leaseVars
<1>5. ASSUME UNCHANGED vars PROVE UNCHANGED <<phase, refs, deps, left, lease, of>>
  BY <1>5 DEF vars, buildVars, leaseVars
<1> QED
  BY <1>1, <1>2, <1>3, <1>4, <1>5

\* A step that changes neither the counts nor who holds what.
LEMMA CountKept ==
  ASSUME CountIsHolders, refs' = refs,
         \A v \in Value : /\ ProviderRefs(v)' = ProviderRefs(v)
                          /\ LeasesOn(v)' = LeasesOn(v)
                          /\ DepsOn(v)' = DepsOn(v)
  PROVE  CountIsHolders'
  BY DEF CountIsHolders

\* A step that takes or gives back references to u.
LEMMA CountMoves ==
  ASSUME CountIsHolders, NEW u \in Value, NEW k \in Int,
         refs'[u] = refs[u] + k,
         ProviderRefs(u)' + Cardinality(LeasesOn(u)') + Cardinality(DepsOn(u)')
           = ProviderRefs(u) + Cardinality(LeasesOn(u)) + Cardinality(DepsOn(u)) + k,
         \A w \in Value \ {u} : /\ refs'[w] = refs[w]
                                /\ ProviderRefs(w)' = ProviderRefs(w)
                                /\ LeasesOn(w)' = LeasesOn(w)
                                /\ DepsOn(w)' = DepsOn(w)
  PROVE  CountIsHolders'
<1>1. refs'[u] = ProviderRefs(u)' + Cardinality(LeasesOn(u)') + Cardinality(DepsOn(u)')
  BY DEF CountIsHolders
<1>2. \A w \in Value \ {u} :
        refs'[w] = ProviderRefs(w)' + Cardinality(LeasesOn(w)') + Cardinality(DepsOn(w)')
  BY DEF CountIsHolders
<1> QED
  BY <1>1, <1>2 DEF CountIsHolders

\* A value that is not published yet has no holder.
LEMMA UnbuiltUnheld ==
  ASSUME TypeOK, UsesOK, NEW v \in Value, ~Built(v)
  PROVE  LeasesOn(v) = {} /\ DepsOn(v) = {}
<1>1. LeasesOn(v) = {}
  BY DEF LeasesOn, UsesOK
<1>2. ASSUME NEW p \in DepsOn(v) PROVE FALSE
  <2>1. /\ p[1] \in Value /\ p[2] \in 1..MaxReads
        /\ p[2] <= left[p[1]] /\ deps[p[1]][p[2]] = v
    BY DEF DepsOn
  <2>2. p[2] \in 1..Len(deps[p[1]])
    <3>1. left[p[1]] \in Int /\ Len(deps[p[1]]) \in Nat /\ left[p[1]] <= Len(deps[p[1]])
      BY <2>1 DEF TypeOK, BuildTypes
    <3> QED
      BY <2>1, <3>1
  <2> QED
    BY <2>1, <2>2 DEF UsesOK
<1> QED
  BY <1>1, <1>2

\* A read adds one dependency, on what it had loaded.
LEMMA DepTaken ==
  ASSUME IInv, NEW v \in Value, NEW r \in Reader, Acquire(v, r),
         NEW u, u = reading[v][r], NEW p, p = <<v, left[v] + 1>>
  PROVE  /\ u \in Value /\ phase[v] = "building" /\ p \in Value \X (1..MaxReads)
         /\ \A w \in Value : w # u => DepsOn(w)' = DepsOn(w)
         /\ DepsOn(u)' = DepsOn(u) \cup {p} /\ p \notin DepsOn(u)
<1>0. /\ TypeOK /\ Room /\ UsesOK /\ CleanOK /\ MaxReads \in Nat
  BY ValuesAssumption DEF IInv, ValuesAssumption
<1>1. /\ u \in Value /\ u # None /\ phase[v] = "building"
      /\ deps' = [deps EXCEPT ![v] = Append(@, u)]
      /\ left' = [left EXCEPT ![v] = @ + 1]
  <2>1. u # None /\ phase[v] = "building"
    BY <1>0 DEF Acquire, UsesOK
  <2>2. u \in Value
    BY <1>0, <2>1 DEF TypeOK, BuildTypes
  <2> QED
    BY <2>1, <2>2 DEF Acquire
<1>2. left[v] = Len(deps[v]) /\ left[v] \in Nat /\ left[v] + 1 \in 1..MaxReads
  <2>1. cleanup[v] = "none"
    BY <1>0, <1>1 DEF CleanOK
  <2>2. ~(left[v] < Len(deps[v]))
    BY <1>0, <2>1 DEF CleanOK, CleanupsOver
  <2> QED
    BY <1>0, <1>1, <2>2, ReadFits, SMTT(30) DEF TypeOK, BuildTypes
<1>3. ASSUME NEW q \in Value \X (1..MaxReads), NEW w \in Value
      PROVE  q \in DepsOn(w)' <=> q \in DepsOn(w) \/ (q = p /\ w = u)
  <2>1. CASE q[1] # v
    <3>1. deps'[q[1]] = deps[q[1]] /\ left'[q[1]] = left[q[1]] /\ q # p
      BY <1>0, <1>1, <2>1 DEF TypeOK, BuildTypes
    <3> QED
      BY <3>1 DEF DepsOn
  <2>2. CASE q[1] = v
    <3>1. /\ deps[v] \in Seq(Value)
          /\ left'[v] = left[v] + 1 /\ deps'[v] = Append(deps[v], u)
          /\ q = p <=> q[2] = left[v] + 1
      BY <1>0, <1>1, <2>2 DEF TypeOK, BuildTypes
    <3>2. /\ q[2] <= left[v] => deps'[v][q[2]] = deps[v][q[2]]
          /\ q[2] = left[v] + 1 => deps'[v][q[2]] = u
      BY <1>1, <1>2, <3>1
    <3>3. q[2] <= left'[v] <=> q[2] <= left[v] \/ q[2] = left[v] + 1
      BY <1>2, <3>1
    <3> QED
      BY <1>2, <2>2, <3>1, <3>2, <3>3 DEF DepsOn
  <2> QED
    BY <2>1, <2>2
<1>4. \A w \in Value : w # u => DepsOn(w)' = DepsOn(w)
  BY <1>3 DEF DepsOn
<1>5. DepsOn(u)' = DepsOn(u) \cup {p} /\ p \notin DepsOn(u)
  <2>1. p \in Value \X (1..MaxReads) /\ p \notin DepsOn(u)
    BY <1>2 DEF DepsOn
  <2>2. DepsOn(u)' \subseteq Value \X (1..MaxReads)
    BY DEF DepsOn
  <2>3. DepsOn(u) \subseteq Value \X (1..MaxReads)
    BY DEF DepsOn
  <2> QED
    BY <1>1, <1>3, <2>1, <2>2, <2>3
<1> QED
  BY <1>1, <1>2, <1>4, <1>5

\* releaseAll gives one dependency back.
LEMMA DepGiven ==
  ASSUME IInv, NEW v \in Value, ReleaseDep(v),
         NEW u, u = deps[v][left[v]], NEW p, p = <<v, left[v]>>
  PROVE  /\ u \in Value /\ p \in Value \X (1..MaxReads)
         /\ \A w \in Value : w # u => DepsOn(w)' = DepsOn(w)
         /\ DepsOn(u)' = DepsOn(u) \ {p} /\ p \in DepsOn(u)
<1>0. TypeOK /\ MaxReads \in Nat
  BY ValuesAssumption DEF IInv, ValuesAssumption
<1>1. /\ left[v] \in 1..MaxReads /\ left[v] \in 1..Len(deps[v]) /\ u \in Value
      /\ left' = [left EXCEPT ![v] = @ - 1]
      /\ UNCHANGED deps
  BY <1>0 DEF ReleaseDep, TypeOK, BuildTypes
<1>2. ASSUME NEW q \in Value \X (1..MaxReads), NEW w \in Value
      PROVE  q \in DepsOn(w)' <=> q \in DepsOn(w) /\ q # p
  <2>1. CASE q[1] # v
    BY <1>0, <1>1, <2>1 DEF TypeOK, BuildTypes, DepsOn
  <2>2. CASE q[1] = v
    <3>1. left'[v] = left[v] - 1 /\ left[v] \in Int /\ (q = p <=> q[2] = left[v])
      BY <1>0, <1>1, <2>2 DEF TypeOK, BuildTypes
    <3> QED
      BY <1>1, <2>2, <3>1 DEF DepsOn
  <2> QED
    BY <2>1, <2>2
<1>3. \A w \in Value : w # u => p \notin DepsOn(w)
  BY <1>1 DEF DepsOn
<1>4. \A w \in Value : /\ DepsOn(w) \subseteq Value \X (1..MaxReads)
                       /\ DepsOn(w)' \subseteq Value \X (1..MaxReads)
  BY DEF DepsOn
<1>5. \A w \in Value : w # u => DepsOn(w)' = DepsOn(w)
  BY <1>2, <1>3, <1>4
<1>6. DepsOn(u)' = DepsOn(u) \ {p} /\ p \in DepsOn(u)
  <2>1. p \in DepsOn(u)
    BY <1>1 DEF DepsOn
  <2> QED
    BY <1>1, <1>2, <1>4, <2>1
<1> QED
  BY <1>1, <1>5, <1>6

LEMMA CountStep ==
  ASSUME Joins
  PROVE  IInv /\ [Next]_vars => CountIsHolders'
<1> SUFFICES ASSUME IInv PROVE [Next]_vars => CountIsHolders'
  OBVIOUS
<1>0. /\ TypeOK /\ Room /\ UsesOK /\ StackOK /\ CleanOK /\ CountIsHolders
      /\ MaxReads \in Nat
  BY ValuesAssumption DEF IInv, ValuesAssumption
<1>1. ASSUME NEW v \in Value, StartBuild(v) \/ Discard(v) PROVE CountIsHolders'
  <2>1. \A w \in Value : ProviderRefs(w)' = ProviderRefs(w)
    BY <1>0, <1>1 DEF TypeOK, BuildTypes, StartBuild, Discard, MayReturn, ProviderRefs
  <2>2. UNCHANGED <<refs, deps, left, lease, of>>
    BY <1>1 DEF StartBuild, Discard, buildVars, leaseVars
  <2> QED
    BY <1>0, <2>1, <2>2, CountKept DEF LeasesOn, DepsOn
<1>2. ASSUME NEW v \in Value, Publish(v) PROVE CountIsHolders'
  <2>1. /\ phase' = [phase EXCEPT ![v] = "current"] /\ phase[v] = "building"
        /\ refs' = [refs EXCEPT ![v] = 1]
        /\ UNCHANGED <<deps, left, lease, of>>
    BY <1>2 DEF Publish, MayReturn, buildVars, leaseVars
  <2>2. \A w \in Value : LeasesOn(w)' = LeasesOn(w) /\ DepsOn(w)' = DepsOn(w)
    BY <2>1 DEF LeasesOn, DepsOn
  <2>3. LeasesOn(v) = {} /\ DepsOn(v) = {}
    BY <1>0, <2>1, UnbuiltUnheld DEF Built
  <2>4. refs'[v] = 1 /\ ProviderRefs(v)' = 1
    BY <1>0, <2>1 DEF TypeOK, BuildTypes, CleanTypes, ProviderRefs
  <2>5. \A w \in Value : w # v => refs'[w] = refs[w] /\ ProviderRefs(w)' = ProviderRefs(w)
    BY <1>0, <2>1 DEF TypeOK, BuildTypes, CleanTypes, ProviderRefs
  <2>6. SUFFICES ASSUME NEW w \in Value
                 PROVE  refs'[w] = ProviderRefs(w)' + Cardinality(LeasesOn(w)')
                                   + Cardinality(DepsOn(w)')
    BY DEF CountIsHolders
  <2>7. CASE w = v
    BY <2>2, <2>3, <2>4, <2>7, FS_EmptySet
  <2>8. CASE w # v
    BY <1>0, <2>2, <2>5, <2>8 DEF CountIsHolders
  <2> QED
    BY <2>7, <2>8
<1>3. ASSUME NEW v \in Value, NEW r \in Reader, Acquire(v, r) PROVE CountIsHolders'
  <2>0. PICK u, p : u = reading[v][r] /\ p = <<v, left[v] + 1>>
    OBVIOUS
  <2>1. /\ u \in Value
        /\ \A w \in Value : w # u => DepsOn(w)' = DepsOn(w)
        /\ DepsOn(u)' = DepsOn(u) \cup {p} /\ p \notin DepsOn(u)
    BY <1>3, <2>0, DepTaken
  <2>2. refs' = [refs EXCEPT ![u] = @ + 1] /\ UNCHANGED <<phase, lease, of>>
    BY <1>3, <2>0 DEF Acquire, leaseVars
  <2>3. \A w \in Value : LeasesOn(w)' = LeasesOn(w) /\ ProviderRefs(w)' = ProviderRefs(w)
    BY <2>2 DEF LeasesOn, ProviderRefs
  <2>4. Cardinality(DepsOn(u)') = Cardinality(DepsOn(u)) + 1
    BY <2>1, HoldersFinite, FS_AddElement
  <2>5. refs'[u] = refs[u] + 1 /\ \A w \in Value : w # u => refs'[w] = refs[w]
    BY <1>0, <2>1, <2>2 DEF TypeOK, CleanTypes
  <2>6. /\ ProviderRefs(u) \in Int /\ Cardinality(LeasesOn(u)) \in Nat
        /\ Cardinality(DepsOn(u)) \in Nat
    BY <2>1, HoldersFinite DEF ProviderRefs
  <2>7. ProviderRefs(u)' + Cardinality(LeasesOn(u)') + Cardinality(DepsOn(u)')
          = ProviderRefs(u) + Cardinality(LeasesOn(u)) + Cardinality(DepsOn(u)) + 1
    BY <2>1, <2>3, <2>4, <2>6
  <2> QED
    BY <1>0, <2>1, <2>3, <2>5, <2>7, CountMoves
<1>4. ASSUME NEW v \in Value, ReleaseDep(v) PROVE CountIsHolders'
  <2>0. PICK u, p : u = deps[v][left[v]] /\ p = <<v, left[v]>>
    OBVIOUS
  <2>1. /\ u \in Value
        /\ \A w \in Value : w # u => DepsOn(w)' = DepsOn(w)
        /\ DepsOn(u)' = DepsOn(u) \ {p} /\ p \in DepsOn(u)
    BY <1>4, <2>0, DepGiven
  <2>2. refs' = [refs EXCEPT ![u] = @ - 1] /\ UNCHANGED <<phase, lease, of>>
    BY <1>4, <2>0 DEF ReleaseDep, Release, leaseVars
  <2>3. \A w \in Value : LeasesOn(w)' = LeasesOn(w) /\ ProviderRefs(w)' = ProviderRefs(w)
    BY <2>2 DEF LeasesOn, ProviderRefs
  <2>4. Cardinality(DepsOn(u)') = Cardinality(DepsOn(u)) - 1
    BY <2>1, HoldersFinite, FS_RemoveElement
  <2>5. refs'[u] = refs[u] - 1 /\ \A w \in Value : w # u => refs'[w] = refs[w]
    BY <1>0, <2>1, <2>2 DEF TypeOK, CleanTypes
  <2>6. /\ ProviderRefs(u) \in Int /\ Cardinality(LeasesOn(u)) \in Nat
        /\ Cardinality(DepsOn(u)) \in Nat /\ refs[u] \in Int
    BY <1>0, <2>1, HoldersFinite DEF ProviderRefs, TypeOK, CleanTypes
  <2>7. ProviderRefs(u)' + Cardinality(LeasesOn(u)') + Cardinality(DepsOn(u)')
          = ProviderRefs(u) + Cardinality(LeasesOn(u)) + Cardinality(DepsOn(u)) + (-1)
    BY <2>1, <2>3, <2>4, <2>6
  <2>8. refs'[u] = refs[u] + (-1)
    BY <2>5, <2>6
  <2> QED
    BY <1>0, <2>1, <2>3, <2>5, <2>7, <2>8, CountMoves
<1>5. ASSUME NEW l \in Lease, LeaseLoad(l) \/ LeaseAddLate(l) PROVE CountIsHolders'
  <2>1. UNCHANGED <<phase, refs, deps, left>>
    BY <1>5 DEF LeaseLoad, LeaseAddLate, buildVars
  <2>2. \A w \in Value : LeasesOn(w)' = LeasesOn(w)
    BY <1>0, <1>5 DEF LeaseLoad, LeaseAddLate, TypeOK, LeaseTypes, LeasesOn
  <2> QED
    BY <1>0, <2>1, <2>2, CountKept DEF DepsOn, ProviderRefs
<1>6. ASSUME NEW l \in Lease, LeaseAcquire(l) PROVE CountIsHolders'
  <2>0. PICK u : u = of[l]
    OBVIOUS
  <2>1. /\ u \in Value /\ lease[l] = "loaded"
        /\ UNCHANGED <<phase, deps, left, of>>
    BY <1>0, <1>6, <2>0 DEF LeaseAcquire, TypeOK, LeaseTypes, buildVars
  <2>2. \A w \in Value : DepsOn(w)' = DepsOn(w) /\ ProviderRefs(w)' = ProviderRefs(w)
    BY <2>1 DEF DepsOn, ProviderRefs
  <2>3. CASE Acquirable(u)
    <3>1. lease' = [lease EXCEPT ![l] = "held"] /\ refs' = [refs EXCEPT ![u] = @ + 1]
      BY <1>6, <2>0, <2>3 DEF LeaseAcquire
    <3>2. LeasesOn(u)' = LeasesOn(u) \cup {l} /\ l \notin LeasesOn(u)
      BY <1>0, <2>0, <2>1, <3>1 DEF TypeOK, LeaseTypes, LeasesOn
    <3>3. \A w \in Value : w # u => LeasesOn(w)' = LeasesOn(w)
      BY <1>0, <2>0, <2>1, <3>1 DEF TypeOK, LeaseTypes, LeasesOn
    <3>4. Cardinality(LeasesOn(u)') = Cardinality(LeasesOn(u)) + 1
      BY <2>1, <3>2, HoldersFinite, FS_AddElement
    <3>5. refs'[u] = refs[u] + 1 /\ \A w \in Value : w # u => refs'[w] = refs[w]
      BY <1>0, <2>1, <3>1 DEF TypeOK, CleanTypes
    <3>6. /\ ProviderRefs(u) \in Int /\ Cardinality(LeasesOn(u)) \in Nat
          /\ Cardinality(DepsOn(u)) \in Nat
      BY <2>1, HoldersFinite DEF ProviderRefs
    <3>7. ProviderRefs(u)' + Cardinality(LeasesOn(u)') + Cardinality(DepsOn(u)')
            = ProviderRefs(u) + Cardinality(LeasesOn(u)) + Cardinality(DepsOn(u)) + 1
      BY <2>1, <2>2, <3>4, <3>6
    <3> QED
      BY <1>0, <2>1, <2>2, <3>3, <3>5, <3>7, CountMoves
  <2>4. CASE ~Acquirable(u)
    <3>1. refs' = refs /\ lease' = [lease EXCEPT ![l] = "idle"]
      BY <1>6, <2>0, <2>4 DEF LeaseAcquire
    <3>2. \A w \in Value : LeasesOn(w)' = LeasesOn(w)
      BY <1>0, <2>1, <3>1 DEF TypeOK, LeaseTypes, LeasesOn
    <3> QED
      BY <1>0, <2>2, <3>1, <3>2, CountKept
  <2> QED
    BY <2>3, <2>4
<1>7. ASSUME NEW l \in Lease, LeaseRelease(l) PROVE CountIsHolders'
  <2>0. PICK u : u = of[l]
    OBVIOUS
  <2>1. /\ u \in Value /\ lease[l] = "held"
        /\ lease' = [lease EXCEPT ![l] = "releasing"]
        /\ refs' = [refs EXCEPT ![u] = @ - 1]
        /\ UNCHANGED <<phase, deps, left, of>>
    BY <1>0, <1>7, <2>0 DEF LeaseRelease, MayRelease, Release, TypeOK, LeaseTypes,
                            buildVars
  <2>2. \A w \in Value : DepsOn(w)' = DepsOn(w) /\ ProviderRefs(w)' = ProviderRefs(w)
    BY <2>1 DEF DepsOn, ProviderRefs
  <2>3. LeasesOn(u)' = LeasesOn(u) \ {l} /\ l \in LeasesOn(u)
    BY <1>0, <2>0, <2>1 DEF TypeOK, LeaseTypes, LeasesOn
  <2>4. \A w \in Value : w # u => LeasesOn(w)' = LeasesOn(w)
    BY <1>0, <2>0, <2>1 DEF TypeOK, LeaseTypes, LeasesOn
  <2>5. Cardinality(LeasesOn(u)') = Cardinality(LeasesOn(u)) - 1
    BY <2>1, <2>3, HoldersFinite, FS_RemoveElement
  <2>6. refs'[u] = refs[u] - 1 /\ \A w \in Value : w # u => refs'[w] = refs[w]
    BY <1>0, <2>1 DEF TypeOK, CleanTypes
  <2>7. /\ ProviderRefs(u) \in Int /\ Cardinality(LeasesOn(u)) \in Nat
        /\ Cardinality(DepsOn(u)) \in Nat /\ refs[u] \in Int
    BY <1>0, <2>1, HoldersFinite DEF ProviderRefs, TypeOK, CleanTypes
  <2>8. ProviderRefs(u)' + Cardinality(LeasesOn(u)') + Cardinality(DepsOn(u)')
          = ProviderRefs(u) + Cardinality(LeasesOn(u)) + Cardinality(DepsOn(u)) + (-1)
    BY <2>1, <2>2, <2>5, <2>7
  <2>9. refs'[u] = refs[u] + (-1)
    BY <2>6, <2>7
  <2> QED
    BY <1>0, <2>1, <2>2, <2>4, <2>6, <2>8, <2>9, CountMoves
<1>8. ASSUME NEW d \in Dropper, NEW v \in Value, SwapOut(d, v) PROVE CountIsHolders'
  <2>1. UNCHANGED <<refs, deps, left, lease, of>>
    BY <1>8 DEF SwapOut, buildVars, leaseVars
  <2>2. \A w \in Value : ProviderRefs(w)' = ProviderRefs(w)
    BY <1>0, <1>8 DEF SwapOut, ProviderRefs, TypeOK, BuildTypes
  <2> QED
    BY <1>0, <2>1, <2>2, CountKept DEF LeasesOn, DepsOn
<1>9. ASSUME NEW d \in Dropper, Drop(d) PROVE CountIsHolders'
  <2>0. PICK u : u = stack[d][Len(stack[d])]
    OBVIOUS
  <2>1. /\ stack[d] # <<>>
        /\ phase' = [phase EXCEPT ![u] = "dropped"]
        /\ refs' = [refs EXCEPT ![u] = @ - 1]
        /\ UNCHANGED <<deps, left, lease, of>>
    BY <1>9, <2>0 DEF Drop, Release, buildVars, leaseVars
  <2>2. u \in Value /\ phase[u] = "swapped"
    BY <1>0, <2>0, <2>1 DEF TypeOK, StackTypes, StackOK
  <2>3. \A w \in Value : DepsOn(w)' = DepsOn(w) /\ LeasesOn(w)' = LeasesOn(w)
    BY <2>1 DEF DepsOn, LeasesOn
  <2>4. ProviderRefs(u) = 1 /\ ProviderRefs(u)' = 0
    BY <1>0, <2>1, <2>2 DEF ProviderRefs, TypeOK, BuildTypes
  <2>5. \A w \in Value : w # u => ProviderRefs(w)' = ProviderRefs(w)
    BY <1>0, <2>1, <2>2 DEF ProviderRefs, TypeOK, BuildTypes
  <2>6. refs'[u] = refs[u] + (-1) /\ \A w \in Value : w # u => refs'[w] = refs[w]
    BY <1>0, <2>1, <2>2 DEF TypeOK, CleanTypes
  <2>7. ProviderRefs(u)' + Cardinality(LeasesOn(u)') + Cardinality(DepsOn(u)')
          = ProviderRefs(u) + Cardinality(LeasesOn(u)) + Cardinality(DepsOn(u)) + (-1)
    BY <2>2, <2>3, <2>4, HoldersFinite
  <2> QED
    BY <1>0, <2>2, <2>3, <2>5, <2>6, <2>7, CountMoves
<1>10. ASSUME UNCHANGED <<phase, refs, deps, left, lease, of>> PROVE CountIsHolders'
  BY <1>0, <1>10, CountKept DEF ProviderRefs, LeasesOn, DepsOn
<1>11. ASSUME NEW v \in Value, Build(v) PROVE CountIsHolders'
  BY <1>1, <1>2, <1>3, <1>10, <1>11, CountFrame DEF Build
<1>12. ASSUME NEW v \in Value, CleanUp(v) PROVE CountIsHolders'
  BY <1>4, <1>10, <1>12, CountFrame DEF CleanUp
<1>13. ASSUME NEW l \in Lease, UseLease(l) PROVE CountIsHolders'
  BY <1>5, <1>6, <1>7, <1>13 DEF UseLease
<1>14. ASSUME NEW d \in Dropper, DropValues(d) PROVE CountIsHolders'
  BY <1>8, <1>9, <1>10, <1>14, CountFrame DEF DropValues
<1>15. ASSUME Close \/ UNCHANGED vars PROVE CountIsHolders'
  BY <1>10, <1>15, CountFrame
<1> QED
  BY <1>11, <1>12, <1>13, <1>14, <1>15 DEF Next, Terminated

-----------------------------------------------------------------------------
(* Cleanups.                                                               *)

\* A value with a holder has a positive count.
LEMMA Held ==
  ASSUME CountIsHolders, NEW v \in Value,
         ProviderRefs(v) = 1 \/ LeasesOn(v) # {} \/ DepsOn(v) # {}
  PROVE  refs[v] >= 1
<1>1. /\ Cardinality(LeasesOn(v)) \in Nat /\ Cardinality(DepsOn(v)) \in Nat
      /\ LeasesOn(v) # {} => Cardinality(LeasesOn(v)) # 0
      /\ DepsOn(v) # {} => Cardinality(DepsOn(v)) # 0
  BY HoldersFinite, FS_EmptySet
<1>2. ProviderRefs(v) \in {0, 1}
  BY DEF ProviderRefs
<1> QED
  BY <1>1, <1>2 DEF CountIsHolders

\* A step that leaves alone what CleanOK speaks of.
LEMMA CleanFrame ==
  LET same == UNCHANGED <<phase, cleanup, refs, inside, next, left, deps, done, forced>> IN
  /\ \A v \in Value : OnClose(v) \/ FinishBuild(v) => same
  /\ \A v \in Value : \A r \in Reader : Load(v, r) \/ AcquireFails(v, r) => same
  /\ \A l \in Lease : LeaseLoad(l) \/ LeaseAddLate(l) => same
  /\ \A d \in Dropper : InvalidateReturns(d) => same
  /\ \/ CloseBegins \/ CloseWaits \/ CloseReturns \/ ForceNext
     \/ ForceCloserReturns \/ ForceEnds \/ CloseTimesOut
     => same
  /\ UNCHANGED vars => same
<1> DEFINE same == UNCHANGED <<phase, cleanup, refs, inside, next, left, deps, done, forced>>
<1>1. ASSUME NEW v \in Value, OnClose(v) \/ FinishBuild(v) PROVE same
  BY <1>1 DEF OnClose, FinishBuild, buildVars, cleanVars, runVars, forceVars
<1>2. ASSUME NEW v \in Value, NEW r \in Reader, Load(v, r) \/ AcquireFails(v, r)
      PROVE  same
  BY <1>2 DEF Load, AcquireFails, cleanVars, runVars, forceVars
<1>3. ASSUME NEW l \in Lease, LeaseLoad(l) \/ LeaseAddLate(l) PROVE same
  BY <1>3 DEF LeaseLoad, LeaseAddLate, buildVars, cleanVars, runVars, forceVars
<1>4. ASSUME NEW d \in Dropper, InvalidateReturns(d) PROVE same
  BY <1>4 DEF InvalidateReturns, buildVars, cleanVars, runVars, forceVars
<1>5. ASSUME \/ CloseBegins \/ CloseWaits \/ CloseReturns \/ ForceNext
             \/ ForceCloserReturns \/ ForceEnds \/ CloseTimesOut
      PROVE  same
  BY <1>5 DEF CloseBegins, CloseWaits, CloseReturns, ForceNext, ForceCloserReturns,
              ForceEnds, CloseTimesOut, buildVars, cleanVars, runVars, forceVars
<1>6. ASSUME UNCHANGED vars PROVE same
  BY <1>6 DEF vars, buildVars, cleanVars, runVars, forceVars
<1> QED
  BY <1>1, <1>2, <1>3, <1>4, <1>5, <1>6

\* The release of a held value: it starts the cleanup exactly when it brings
\* the count to zero.  The dependencies of others may be given back with it,
\* where their cleanups are over.
LEMMA ReleaseClean ==
  ASSUME TypeOK, CleanOK, NEW u \in Value, NEW a \in Releaser, Release(u, a),
         Built(u), refs[u] >= 1, \A w \in Value : Built(w)' <=> Built(w),
         \A w \in Value : phase'[w] = phase[w] \/ (Built(w) /\ Built(w)'),
         UNCHANGED <<inside, done, forced, deps>>, left'[u] = left[u],
         \A w \in Value : left'[w] = left[w] \/ CleanupsOver(w)
  PROVE  CleanOK'
<1>1. cleanup[u] = "none" /\ ~inside[u] /\ left[u] = Len(deps[u])
  <2>1. cleanup[u] = "none"
    BY DEF CleanOK
  <2>2. ~(left[u] < Len(deps[u])) /\ ~inside[u]
    BY <2>1 DEF CleanOK, CleanupsOver
  <2>3. left[u] \in Int /\ Len(deps[u]) \in Nat /\ left[u] <= Len(deps[u])
    BY DEF TypeOK, BuildTypes
  <2> QED
    BY <2>1, <2>2, <2>3
<1>2. \A w \in Value : w # u => /\ cleanup'[w] = cleanup[w] /\ next'[w] = next[w]
                                /\ refs'[w] = refs[w]
  BY DEF Release, TypeOK, CleanTypes, cleanVars
<1>3. refs'[u] = refs[u] - 1 /\ refs[u] \in Int
  BY DEF Release, TypeOK, CleanTypes
<1>4. /\ refs[u] = 1 => cleanup'[u] = "running"
      /\ refs[u] # 1 => cleanup'[u] = "none"
  BY <1>1 DEF Release, TypeOK, CleanTypes, LastReference, cleanVars
<1>5. ASSUME NEW w \in Value, w # u
      PROVE  /\ phase'[w] \in {"unborn", "building"} => cleanup'[w] = "none"
             /\ phase'[w] = "discarded" => cleanup'[w] # "none"
             /\ Built(w)' => (cleanup'[w] = "none" <=> refs'[w] >= 1)
             /\ inside'[w] => cleanup'[w] = "running" /\ next'[w] > 0
             /\ done'[w] # {} => cleanup'[w] # "none" \/ w \in forced'
  BY <1>2, <1>5 DEF CleanOK, Built
<1>6. ASSUME NEW w \in Value, w # u, left'[w] < Len(deps'[w]) PROVE CleanupsOver(w)'
  <2>1. CleanupsOver(w)
    BY <1>6 DEF CleanOK
  <2> QED
    BY <1>2, <1>6, <2>1 DEF CleanupsOver
<1>7. /\ phase'[u] \notin {"unborn", "building", "discarded"}
      /\ cleanup'[u] = "none" <=> refs'[u] >= 1
      /\ ~inside'[u]
      /\ ~(left'[u] < Len(deps'[u]))
      /\ done'[u] # {} => cleanup'[u] # "none" \/ u \in forced'
  <2>1. phase'[u] \notin {"unborn", "building", "discarded"}
    BY DEF Built
  <2>2. cleanup'[u] = "none" <=> refs'[u] >= 1
    BY <1>3, <1>4
  <2>3. ~inside'[u] /\ left'[u] = Len(deps'[u])
    BY <1>1
  <2>4. done'[u] # {} => u \in forced'
    BY <1>1 DEF CleanOK
  <2>5. left[u] \in Int /\ left'[u] = left[u]
    BY DEF TypeOK, BuildTypes
  <2>6. ~(left'[u] < Len(deps'[u]))
    BY <2>3, <2>5
  <2> QED
    BY <2>1, <2>2, <2>3, <2>4, <2>6
<1> QED
  BY <1>5, <1>6, <1>7 DEF CleanOK

LEMMA CleanStep ==
  ASSUME Joins
  PROVE  IInv /\ [Next]_vars => CleanOK'
<1> SUFFICES ASSUME IInv PROVE [Next]_vars => CleanOK'
  OBVIOUS
<1>0. TypeOK /\ Room /\ UsesOK /\ StackOK /\ CleanOK /\ CountIsHolders /\ ForceOK
  BY DEF IInv
<1>1. ASSUME NEW v \in Value, StartBuild(v) PROVE CleanOK'
  BY <1>0, <1>1 DEF StartBuild, TypeOK, BuildTypes, CleanOK, Built, CleanupsOver,
                    buildVars, cleanVars, runVars, forceVars
<1>2. ASSUME NEW v \in Value, Publish(v) PROVE CleanOK'
  BY <1>0, <1>2 DEF Publish, MayReturn, TypeOK, BuildTypes, CleanTypes, CleanOK, Built,
                    CleanupsOver, buildVars, cleanVars, runVars, forceVars
<1>3. ASSUME NEW v \in Value, Discard(v) PROVE CleanOK'
  BY <1>0, <1>3 DEF Discard, MayReturn, TypeOK, BuildTypes, CleanTypes, CleanOK, Built,
                    CleanupsOver, buildVars, cleanVars, runVars, forceVars
<1>4. ASSUME NEW v \in Value, NEW r \in Reader, Acquire(v, r) PROVE CleanOK'
  <2>0. PICK u : u = reading[v][r]
    OBVIOUS
  <2>1. /\ u # None /\ phase[v] = "building" /\ refs[u] > 0
        /\ refs' = [refs EXCEPT ![u] = @ + 1]
        /\ deps' = [deps EXCEPT ![v] = Append(@, u)]
        /\ left' = [left EXCEPT ![v] = @ + 1]
        /\ UNCHANGED <<phase, cleanup, next, inside, done, forced>>
    BY <1>0, <1>4, <2>0 DEF Acquire, Acquirable, UsesOK, cleanVars, runVars, forceVars
  <2>2. u \in Value /\ Built(u)
    BY <1>0, <2>0, <2>1 DEF UsesOK, TypeOK, BuildTypes
  <2>3. \A w \in Value : left'[w] < Len(deps'[w]) => left[w] < Len(deps[w])
    <3>1. left[v] \in Int /\ deps[v] \in Seq(Value)
      BY <1>0 DEF TypeOK, BuildTypes
    <3>2. left'[v] = left[v] + 1 /\ Len(deps'[v]) = Len(deps[v]) + 1
      BY <1>0, <2>1, <2>2, <3>1 DEF TypeOK, BuildTypes
    <3>3. \A w \in Value : w # v => left'[w] = left[w] /\ deps'[w] = deps[w]
      BY <1>0, <2>1 DEF TypeOK, BuildTypes
    <3> QED
      BY <3>1, <3>2, <3>3
  <2>4. \A w \in Value : refs[w] >= 1 <=> refs'[w] >= 1
    <3>1. \A w \in Value : refs[w] \in Int /\ (w # u => refs'[w] = refs[w])
      BY <1>0, <2>1, <2>2 DEF TypeOK, CleanTypes
    <3>2. refs'[u] = refs[u] + 1 /\ refs[u] \in Int
      BY <1>0, <2>1, <2>2 DEF TypeOK, CleanTypes
    <3> QED
      BY <2>1, <3>1, <3>2
  <2> QED
    BY <1>0, <2>1, <2>3, <2>4 DEF CleanOK, Built, CleanupsOver
<1>5. ASSUME NEW v \in Value, RunCloser(v) \/ CloserReturns(v) PROVE CleanOK'
  <2>1. cleanup[v] = "running" /\ next[v] > 0 /\ ~(left[v] < Len(deps[v]))
    <3>1. cleanup[v] = "running" /\ next[v] > 0
      BY <1>0, <1>5 DEF RunCloser, CloserReturns, CleanOK
    <3>2. ~CleanupsOver(v)
      BY <1>0, <3>1 DEF CleanupsOver, TypeOK, CleanTypes
    <3> QED
      BY <1>0, <3>1, <3>2 DEF CleanOK
  <2>2. UNCHANGED <<phase, cleanup, refs, left, deps, forced>>
    BY <1>5 DEF RunCloser, CloserReturns, buildVars, forceVars
  <2>3. inside'[v] => next'[v] > 0
    BY <1>0, <1>5 DEF RunCloser, CloserReturns, TypeOK, CleanTypes
  <2>4. \A w \in Value : w # v => /\ inside'[w] = inside[w] /\ next'[w] = next[w]
                                  /\ done'[w] = done[w]
    BY <1>0, <1>5 DEF RunCloser, CloserReturns, TypeOK, CleanTypes
  <2> QED
    BY <1>0, <2>1, <2>2, <2>3, <2>4 DEF CleanOK, Built, CleanupsOver
<1>6. ASSUME NEW v \in Value, ReleaseDep(v) PROVE CleanOK'
  <2>0. PICK u, p : u = deps[v][left[v]] /\ p = <<v, left[v]>>
    OBVIOUS
  <2>1. /\ left[v] \in 1..MaxReads /\ left[v] \in 1..Len(deps[v]) /\ u \in Value
        /\ left' = [left EXCEPT ![v] = @ - 1]
        /\ Release(u, v) /\ CleanupsRun(v)
        /\ UNCHANGED <<phase, inside, done, forced, deps>>
    BY <1>0, <1>6, <2>0 DEF ReleaseDep, TypeOK, BuildTypes, runVars, forceVars
  <2>2. p \in DepsOn(u)
    BY <2>0, <2>1 DEF DepsOn
  <2>3. refs[u] >= 1 /\ Built(u)
    BY <1>0, <2>0, <2>1, <2>2, Held DEF UsesOK
  <2>4. u # v
    BY <1>0, <2>1, <2>3 DEF CleanOK, CleanupsRun
  <2>5. CleanupsOver(v)
    BY <2>1 DEF CleanupsRun, CleanupsOver
  <2>6. \A w \in Value : left'[w] = left[w] \/ CleanupsOver(w)
    BY <1>0, <2>1, <2>5 DEF TypeOK, BuildTypes
  <2>7. left'[u] = left[u]
    BY <1>0, <2>1, <2>4 DEF TypeOK, BuildTypes
  <2>8. v \in Releaser /\ \A w \in Value : Built(w)' <=> Built(w)
    BY <2>1 DEF Releaser, Built
  <2> QED
    BY <1>0, <2>1, <2>3, <2>6, <2>7, <2>8, ReleaseClean
<1>7. ASSUME NEW v \in Value, ReleaseReturns(v) \/ DiscardReturns(v) PROVE CleanOK'
  <2>1. /\ cleanup[v] = "running" /\ ~inside[v]
        /\ cleanup' = [cleanup EXCEPT ![v] = "over"]
        /\ UNCHANGED <<phase, refs, inside, next, left, deps, done, forced>>
    BY <1>7 DEF ReleaseReturns, DiscardReturns, CleanupsRun, buildVars, runVars,
                forceVars
  <2> QED
    BY <1>0, <2>1 DEF CleanOK, Built, CleanupsOver, TypeOK, CleanTypes
<1>8. ASSUME NEW l \in Lease, LeaseAcquire(l) PROVE CleanOK'
  <2>0. PICK u : u = of[l]
    OBVIOUS
  <2>1. /\ u \in Value
        /\ UNCHANGED <<phase, cleanup, next, inside, left, deps, done, forced>>
    BY <1>0, <1>8, <2>0 DEF LeaseAcquire, TypeOK, LeaseTypes, buildVars, cleanVars,
                            runVars, forceVars
  <2>2. \A w \in Value : refs[w] >= 1 <=> refs'[w] >= 1
    <3>1. refs' = refs \/ (refs[u] > 0 /\ refs' = [refs EXCEPT ![u] = @ + 1])
      BY <1>8, <2>0 DEF LeaseAcquire, Acquirable
    <3>2. refs \in [Value -> Int]
      BY <1>0 DEF TypeOK, CleanTypes
    <3>3. CASE refs' = refs
      BY <3>3
    <3>4. CASE refs[u] > 0 /\ refs' = [refs EXCEPT ![u] = @ + 1]
      <4>1. refs'[u] = refs[u] + 1 /\ refs[u] \in Int
        BY <2>1, <3>2, <3>4
      <4>2. \A w \in Value : w # u => refs'[w] = refs[w]
        BY <2>1, <3>2, <3>4
      <4> QED
        BY <3>4, <4>1, <4>2
    <3> QED
      BY <3>1, <3>3, <3>4
  <2> QED
    BY <1>0, <2>1, <2>2 DEF CleanOK, Built, CleanupsOver
<1>9. ASSUME NEW l \in Lease, LeaseRelease(l) PROVE CleanOK'
  <2>0. PICK u : u = of[l]
    OBVIOUS
  <2>1. /\ u \in Value /\ lease[l] = "held" /\ l \in Releaser /\ Built(u)
        /\ Release(u, l)
        /\ UNCHANGED <<phase, left, inside, done, forced, deps>>
    BY <1>0, <1>9, <2>0 DEF LeaseRelease, MayRelease, TypeOK, LeaseTypes, UsesOK,
                            Releaser, buildVars, runVars, forceVars
  <2>2. l \in LeasesOn(u)
    BY <2>0, <2>1 DEF LeasesOn
  <2>3. refs[u] >= 1
    BY <1>0, <2>1, <2>2, Held
  <2>4. \A w \in Value : Built(w)' <=> Built(w)
    BY <2>1 DEF Built
  <2> QED
    BY <1>0, <2>1, <2>3, <2>4, ReleaseClean
<1>10. ASSUME NEW d \in Dropper, NEW v \in Value, SwapOut(d, v) PROVE CleanOK'
  BY <1>0, <1>10 DEF SwapOut, TypeOK, BuildTypes, CleanOK, Built, CleanupsOver,
                     buildVars, cleanVars, runVars, forceVars
<1>11. ASSUME NEW d \in Dropper, Drop(d) PROVE CleanOK'
  <2>0. PICK u : u = stack[d][Len(stack[d])]
    OBVIOUS
  <2>1. /\ stack[d] # <<>> /\ d \in Releaser
        /\ phase' = [phase EXCEPT ![u] = "dropped"]
        /\ Release(u, d)
        /\ UNCHANGED <<left, inside, done, forced, deps>>
    BY <1>11, <2>0 DEF Drop, Releaser, Dropper, buildVars, runVars, forceVars
  <2>2. u \in Value /\ phase[u] = "swapped"
    BY <1>0, <2>0, <2>1 DEF TypeOK, StackTypes, StackOK
  <2>3. refs[u] >= 1 /\ Built(u)
    BY <1>0, <2>2, Held DEF ProviderRefs, Built
  <2>4. \A w \in Value : /\ Built(w)' <=> Built(w)
                         /\ phase'[w] = phase[w] \/ (Built(w) /\ Built(w)')
    BY <1>0, <2>1, <2>2 DEF Built, TypeOK, BuildTypes
  <2> QED
    BY <1>0, <2>1, <2>2, <2>3, <2>4, ReleaseClean
<1>12. ASSUME DeadlineEnds PROVE CleanOK'
  <2>1. /\ forced = {}
        /\ UNCHANGED <<phase, cleanup, refs, inside, next, left, deps, done>>
    BY <1>0, <1>12 DEF DeadlineEnds, ForceOK, buildVars, cleanVars, runVars
  <2> QED
    BY <1>0, <2>1 DEF CleanOK, Built, CleanupsOver
<1>13. ASSUME ForceCloser PROVE CleanOK'
  <2>1. /\ forcing \in forced
        /\ done' = done \/ done' = [done EXCEPT ![forcing] = @ \cup {fnext}]
        /\ UNCHANGED <<phase, cleanup, refs, inside, next, left, deps, forced>>
    BY <1>0, <1>13 DEF ForceCloser, TypeOK, ForceTypes, buildVars, cleanVars
  <2>2. \A w \in Value : done'[w] # {} => done[w] # {} \/ w \in forced
    BY <1>0, <2>1 DEF TypeOK, CleanTypes
  <2> QED
    BY <1>0, <2>1, <2>2 DEF CleanOK, Built, CleanupsOver
<1>14. ASSUME UNCHANGED <<phase, cleanup, refs, inside, next, left, deps, done, forced>>
       PROVE  CleanOK'
  BY <1>0, <1>14 DEF CleanOK, Built, CleanupsOver
<1>15. ASSUME NEW v \in Value, Build(v) PROVE CleanOK'
  BY <1>1, <1>2, <1>3, <1>4, <1>14, <1>15, CleanFrame DEF Build
<1>16. ASSUME NEW v \in Value, CleanUp(v) PROVE CleanOK'
  BY <1>5, <1>6, <1>7, <1>16 DEF CleanUp
<1>17. ASSUME NEW l \in Lease, UseLease(l) PROVE CleanOK'
  BY <1>8, <1>9, <1>14, <1>17, CleanFrame DEF UseLease
<1>18. ASSUME NEW d \in Dropper, DropValues(d) PROVE CleanOK'
  BY <1>10, <1>11, <1>14, <1>18, CleanFrame DEF DropValues
<1>19. ASSUME Close \/ UNCHANGED vars PROVE CleanOK'
  BY <1>12, <1>13, <1>14, <1>19, CleanFrame DEF Close
<1> QED
  BY <1>15, <1>16, <1>17, <1>18, <1>19 DEF Next, Terminated

LEMMA ForceStep == IInv /\ [Next]_vars => ForceOK'
<1> SUFFICES ASSUME IInv PROVE [Next]_vars => ForceOK'
  OBVIOUS
<1>0. TypeOK /\ ForceOK
  BY DEF IInv
<1>1. ASSUME UNCHANGED <<closing, forceVars>> PROVE ForceOK'
  BY <1>0, <1>1 DEF ForceOK, forceVars
<1>2. ASSUME NEW v \in Value, Build(v) \/ CleanUp(v) PROVE UNCHANGED <<closing, forceVars>>
  <2>1. CASE StartBuild(v) \/ OnClose(v) \/ Publish(v) \/ Discard(v) \/ FinishBuild(v)
    BY <2>1 DEF StartBuild, OnClose, Publish, Discard, FinishBuild, graphVars
  <2>2. ASSUME NEW r \in Reader, Load(v, r) \/ Acquire(v, r) \/ AcquireFails(v, r)
        PROVE  UNCHANGED <<closing, forceVars>>
    BY <2>2 DEF Load, Acquire, AcquireFails
  <2>3. CASE CleanUp(v)
    BY <2>3 DEF CleanUp, RunCloser, CloserReturns, ReleaseDep, ReleaseReturns,
                DiscardReturns
  <2> QED
    BY <1>2, <2>1, <2>2, <2>3 DEF Build
<1>3. ASSUME NEW l \in Lease, UseLease(l) PROVE UNCHANGED <<closing, forceVars>>
  BY <1>3 DEF UseLease, LeaseLoad, LeaseAcquire, LeaseRelease, LeaseAddLate
<1>4. ASSUME NEW d \in Dropper, DropValues(d) PROVE UNCHANGED <<closing, forceVars>>
  BY <1>4 DEF DropValues, Drop, InvalidateReturns, SwapOut
<1>5. ASSUME CloseBegins \/ CloseWaits \/ CloseReturns \/ DeadlineEnds PROVE ForceOK'
  BY <1>0, <1>5 DEF CloseBegins, CloseWaits, CloseReturns, DeadlineEnds, ForceOK,
                    forceVars
<1>6. ASSUME ForceNext \/ ForceEnds \/ CloseTimesOut PROVE ForceOK'
  BY <1>0, <1>6 DEF ForceNext, ForceEnds, CloseTimesOut, ForceOK, forceVars
<1>7. ASSUME ForceCloser \/ ForceCloserReturns PROVE ForceOK'
  BY <1>0, <1>7 DEF ForceCloser, ForceCloserReturns, ForceOK
<1>8. ASSUME UNCHANGED vars PROVE UNCHANGED <<closing, forceVars>>
  BY <1>8 DEF vars
<1> QED
  BY <1>1, <1>2, <1>3, <1>4, <1>5, <1>6, <1>7, <1>8 DEF Next, Close, Terminated

-----------------------------------------------------------------------------
(* The invariant, and what follows from it.                                *)

LEMMA InitOK == Init => IInv
<1> SUFFICES ASSUME Init PROVE IInv
  OBVIOUS
<1>1. TypeOK
  <2>1. BuildTypes
    BY ValuesAssumption DEF Init, BuildTypes, Phase, ValuesAssumption
  <2>2. CleanTypes
    BY ValuesAssumption DEF Init, CleanTypes, Cleanup, ValuesAssumption
  <2>3. LeaseTypes
    BY DEF Init, LeaseTypes, LeaseState
  <2>4. StackTypes
    BY DEF Init, StackTypes
  <2>5. GraphTypes
    BY DEF Init, GraphTypes, Closing
  <2>6. ForceTypes
    <3>1. finside \in BOOLEAN
      BY DEF Init
    <3>2. fnext \in 0..MaxClosers
      BY ValuesAssumption DEF Init, ValuesAssumption
    <3>3. forced \subseteq Value /\ forceLeft \subseteq forced /\ forcing = None
      BY DEF Init
    <3> QED
      BY <3>1, <3>2, <3>3 DEF ForceTypes
  <2>7. ErrTypes
    BY DEF Init, ErrTypes
  <2> QED
    BY <2>1, <2>2, <2>3, <2>4, <2>5, <2>6, <2>7 DEF TypeOK
<1>2. Room
  <2>1. \A v \in Value : {r \in Reader : reading[v][r] # None} = {} /\ deps[v] = <<>>
    BY DEF Init
  <2>2. Len(<<>>) + Cardinality({}) <= MaxReads
    BY FS_EmptySet, ValuesAssumption DEF ValuesAssumption
  <2> QED
    BY <2>1, <2>2 DEF Room
<1>3. UsesOK /\ StackOK
  BY DEF Init, UsesOK, StackOK
<1>4. CountIsHolders
  <2>1. \A v \in Value : LeasesOn(v) = {} /\ DepsOn(v) = {}
    BY DEF Init, LeasesOn, DepsOn
  <2>2. \A v \in Value : refs[v] = 0 /\ ProviderRefs(v) = 0
    BY DEF Init, ProviderRefs
  <2> QED
    BY <2>1, <2>2, FS_EmptySet DEF CountIsHolders
<1>5. CleanOK /\ ForceOK
  BY DEF Init, CleanOK, ForceOK, Built
<1> QED
  BY <1>1, <1>2, <1>3, <1>4, <1>5 DEF IInv

\* The invariant is inductive for builders that join the goroutines they read
\* in, whatever else runs.
THEOREM Invariant ==
  ASSUME Joins
  PROVE  Spec => []IInv
<1>1. Init => IInv
  BY InitOK
<1>2. IInv /\ [Next]_vars => IInv'
  BY TypeStep, RoomStep, UsesStep, StackStep, CountStep, CleanStep, ForceStep DEF IInv
<1> QED
  BY <1>1, <1>2, PTL DEF Spec

\* The state of values, leases and the graph stays within its types.
THEOREM TypeCorrect ==
  ASSUME Joins
  PROVE  Spec => []TypeOK
<1>1. IInv => TypeOK
  BY DEF IInv
<1> QED
  BY <1>1, Invariant, PTL

\* gen.refs counts the holders of a value exactly (value.go:8): no reference
\* is lost and none is given back twice, however goroutines interleave.
THEOREM CountsExact ==
  ASSUME Joins
  PROVE  Spec => []CountIsHolders
<1>1. IInv => CountIsHolders
  BY DEF IInv
<1> QED
  BY <1>1, Invariant, PTL

\* While a value's own cleanups are not over, it holds all it read.
LEMMA HoldsDeps ==
  ASSUME IInv, NEW v \in Value, ~CleanupsOver(v), NEW i \in 1..Len(deps[v])
  PROVE  /\ deps[v][i] \in Value /\ Built(deps[v][i])
         /\ cleanup[deps[v][i]] = "none"
<1>1. left[v] \in 0..MaxReads /\ deps[v] \in Seq(Value) /\ left[v] <= Len(deps[v])
  BY DEF IInv, TypeOK, BuildTypes
<1>2. left[v] = Len(deps[v])
  BY <1>1 DEF IInv, CleanOK
<1>3. deps[v][i] \in Value /\ Built(deps[v][i])
  BY <1>1 DEF IInv, UsesOK
<1>4. <<v, i>> \in DepsOn(deps[v][i])
  BY <1>1, <1>2, ValuesAssumption DEF DepsOn, ValuesAssumption
<1>5. refs[deps[v][i]] >= 1
  BY <1>3, <1>4, Held DEF IInv
<1> QED
  BY <1>3, <1>5 DEF IInv, CleanOK

\* A held lease keeps its value and everything that was built from open,
\* however deep (provider.go:67).
THEOREM LeasesKeepTrees ==
  ASSUME Joins
  PROVE  Spec => []LeaseKeepsTree
<1>1. ASSUME IInv, NEW l \in Lease, lease[l] = "held", NEW u \in BuiltFrom(of[l])
      PROVE  done[u] = {} \/ u \in forced
  <2> DEFINE S == {w \in Value : Built(w) /\ cleanup[w] = "none"}
  <2>1. of[l] \in Value /\ Built(of[l])
    BY <1>1 DEF IInv, TypeOK, LeaseTypes, UsesOK
  <2>2. l \in LeasesOn(of[l])
    BY <1>1 DEF LeasesOn
  <2>3. refs[of[l]] >= 1
    BY <1>1, <2>1, <2>2, Held DEF IInv
  <2>4. of[l] \in S
    BY <1>1, <2>1, <2>3 DEF IInv, CleanOK
  <2>5. ASSUME NEW w \in S, NEW i \in 1..Len(deps[w]) PROVE deps[w][i] \in S
    <3>1. ~CleanupsOver(w)
      BY DEF CleanupsOver
    <3> QED
      BY <1>1, <3>1, HoldsDeps
  <2>6. S \in SUBSET Value /\ \A w \in S : \A i \in 1..Len(deps[w]) : deps[w][i] \in S
    BY <2>5
  <2>7. u \in S
    BY <1>1, <2>4, <2>6 DEF BuiltFrom
  <2> QED
    BY <1>1, <2>7 DEF IInv, CleanOK
<1>2. IInv => LeaseKeepsTree
  BY <1>1 DEF LeaseKeepsTree
<1> QED
  BY <1>2, Invariant, PTL

\* Dependents are cleaned up before their dependencies (graph.go:92).
THEOREM DependentsCleanFirst ==
  ASSUME Joins
  PROVE  Spec => []DependentsFirst
<1>1. ASSUME IInv, NEW v \in Value, NEW i \in 1..Len(deps[v]), ~CleanupsOver(v)
      PROVE  done[deps[v][i]] = {} \/ deps[v][i] \in forced
  BY <1>1, HoldsDeps DEF IInv, CleanOK
<1>2. IInv => DependentsFirst
  BY <1>1 DEF DependentsFirst
<1> QED
  BY <1>2, Invariant, PTL

\* The last holder of a value cleans it up (README.md:97).
THEOREM LastHolderCleansUp ==
  ASSUME Joins
  PROVE  Spec => []LastHolderCleans
<1>1. ASSUME IInv, NEW v \in Value, Built(v), ProviderRefs(v) = 0,
             LeasesOn(v) = {}, DepsOn(v) = {}
      PROVE  cleanup[v] # "none"
  <2>1. refs[v] = 0
    BY <1>1, FS_EmptySet DEF IInv, CountIsHolders
  <2> QED
    BY <1>1, <2>1 DEF IInv, CleanOK
<1>2. IInv => LastHolderCleans
  BY <1>1 DEF LastHolderCleans
<1> QED
  BY <1>2, Invariant, PTL
=============================================================================
