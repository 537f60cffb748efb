----------------------------- MODULE NodeProofs -----------------------------
(***************************************************************************)
(* What Node promises of builds, waits and cycles, proved for every number *)
(* of providers, callers, goroutines, builds and reads, whatever may read  *)
(* what.                                                                   *)
(***************************************************************************)
EXTENDS Node, FiniteSetTheorems, SequenceTheorems, TLAPS

-----------------------------------------------------------------------------
(* Types.                                                                  *)

\* A group of variables a step leaves alone keeps its types.
LEMMA TypeFrames ==
    /\ NodeTypes /\ UNCHANGED <<nodeVars, dependents>> => NodeTypes'
    /\ AttemptTypes /\ UNCHANGED <<phase, builtVars>> => AttemptTypes'
    /\ WaitTypes /\ UNCHANGED waits => WaitTypes'
    /\ ScopeTypes /\ UNCHANGED scopeVars => ScopeTypes'
    /\ GetTypes /\ UNCHANGED <<target, box, att, mine, outcome>> => GetTypes'
    /\ CallTypes /\ UNCHANGED <<at, result>> => CallTypes'
    /\ InvalTypes /\ UNCHANGED invalVars => InvalTypes'
    /\ CloseTypes /\ UNCHANGED <<dropped, closeVars>> => CloseTypes'
  BY DEF NodeTypes, AttemptTypes, WaitTypes, ScopeTypes, GetTypes, CallTypes,
         InvalTypes, CloseTypes, nodeVars, builtVars, scopeVars, invalVars, closeVars

\* get returns.
LEMMA ReturnTypes ==
  ASSUME CallTypes, ScopeTypes, NEW g \in Goroutine, NEW v \in Attempt,
         Returns(g, v), at[g] # "over", UNCHANGED asked
  PROVE  CallTypes' /\ ScopeTypes'
<1>1. CASE g \in Caller
  BY <1>1 DEF CallTypes, ScopeTypes, Returns, Goto, Places, Errors, Goroutine
<1>2. CASE g \notin Caller
  <2>1. g[1] \in Attempt
    BY <1>2 DEF Goroutine
  <2>2. ScopeTypes'
    BY <1>2, <2>1 DEF ScopeTypes, Returns
  <2>3. CallTypes'
    BY <1>2, <2>1 DEF CallTypes, Returns, Goto, Places, Errors, Goroutine
  <2> QED
    BY <2>2, <2>3
<1> QED
  BY <1>1, <1>2

\* get fails.
LEMMA FailTypes ==
  ASSUME CallTypes, ScopeTypes, NEW g \in Goroutine, NEW e \in Errors \cup {"none"},
         g \in Caller => e # "none", Fails(g, e), at[g] # "over", UNCHANGED asked
  PROVE  CallTypes' /\ ScopeTypes'
<1>1. CASE g \in Caller
  BY <1>1 DEF CallTypes, ScopeTypes, Fails, Goto, Places, Errors, Goroutine
<1>2. CASE g \notin Caller
  <2>1. g[1] \in Attempt
    BY <1>2 DEF Goroutine
  <2>2. ScopeTypes'
    BY <1>2, <2>1 DEF ScopeTypes, Fails
  <2>3. CallTypes'
    BY <1>2, <2>1 DEF CallTypes, Fails, Goto, Places, Errors, Goroutine
  <2> QED
    BY <2>2, <2>3
<1> QED
  BY <1>1, <1>2

\* get goes on.
LEMMA GotoTypes ==
  ASSUME CallTypes, NEW g \in Goroutine, NEW p \in Places \ {"over"}, Goto(g, p),
         at[g] # "over", UNCHANGED result
  PROVE  CallTypes'
  BY DEF CallTypes, Goto, Places, Goroutine

LEMMA ResumeTypes ==
  ASSUME CallTypes, ScopeTypes, AttemptTypes, NEW g \in Goroutine,
         NEW o \in Errors \cup {"none", "done"}, g \in Caller => o # "none",
         att[g] \in Attempt, Resume(g, o), at[g] # "over", UNCHANGED asked
  PROVE  CallTypes' /\ ScopeTypes'
<1>1. CASE o # "done"
  BY <1>1, FailTypes DEF Resume
<1>2. CASE o = "done" /\ ~stale[att[g]] /\ err[att[g]] # "none"
  BY <1>2, FailTypes DEF Resume, AttemptTypes
<1>3. CASE o = "done" /\ ~(~stale[att[g]] /\ err[att[g]] # "none")
  BY <1>3, GotoTypes, TypeFrames DEF Resume, Places, scopeVars
<1> QED
  BY <1>1, <1>2, <1>3

\* One at a time the actions keep the types.
LEMMA CallTypesKept ==
  ASSUME TypeOK, NEW c \in Caller, NEW n \in Provider, Call(c, n)
  PROVE  TypeOK'
<1>1. CallTypes'
  BY GotoTypes DEF TypeOK, Call, Goroutine, Places, getVars
<1>2. GetTypes'
  BY DEF TypeOK, GetTypes, Call, Goroutine
<1> QED
  BY <1>1, <1>2, TypeFrames DEF TypeOK, Call

LEMMA FromTypes ==
  ASSUME TypeOK, NEW g \in Builders, NEW n \in Provider, From(g, n), PlaceOK
  PROVE  TypeOK'
<1>1. g \in Goroutine /\ g[1] \in Attempt /\ g[2] \in Slot
  BY DEF Goroutine, Builders
<1>2. CallTypes'
  BY <1>1, GotoTypes DEF TypeOK, From, Asks, Places
<1>3. GetTypes'
  BY <1>1 DEF TypeOK, GetTypes, From
<1>4. ScopeTypes'
  BY <1>1 DEF TypeOK, ScopeTypes, From, Asks
<1>5. of[g[1]] \in Provider
  BY <1>1 DEF TypeOK, AttemptTypes, From, Asks
<1>6. NodeTypes'
  BY <1>5 DEF TypeOK, NodeTypes, From, AddDependent, nodeVars
<1> QED
  BY <1>2, <1>3, <1>4, <1>6, TypeFrames DEF TypeOK, From

LEMMA GetTypesKept ==
  ASSUME TypeOK, PlaceOK, NEW g \in Goroutine, Get(g) \/ Leaves(g)
  PROVE  TypeOK'
<1>1. ASSUME Load(g) PROVE TypeOK'
  <2>1. target[g] \in Provider /\ val[target[g]] \in Attempt \cup {None}
    BY <1>1 DEF Load, PlaceOK, TypeOK, NodeTypes
  <2>2. CallTypes' /\ ScopeTypes'
    <3>1. CASE val[target[g]] = None
      BY <1>1, <3>1, GotoTypes, TypeFrames DEF Load, TypeOK, Places, scopeVars
    <3>2. CASE val[target[g]] # None /\ TakesRef(g)
      BY <1>1, <3>2, GotoTypes, TypeFrames DEF Load, TypeOK, Places, scopeVars
    <3>3. CASE val[target[g]] # None /\ ~TakesRef(g)
      BY <1>1, <2>1, <3>3, ReturnTypes DEF Load, TypeOK
    <3> QED
      BY <3>1, <3>2, <3>3
  <2>3. GetTypes'
    BY <1>1, <2>1 DEF Load, TypeOK, GetTypes
  <2> QED
    BY <1>1, <2>2, <2>3, TypeFrames DEF Load, TypeOK
<1>2. ASSUME Acquired(g) PROVE TypeOK'
  <2>1. CallTypes' /\ ScopeTypes'
    BY <1>2, ReturnTypes DEF Acquired, TypeOK, PlaceOK
  <2> QED
    BY <1>2, <2>1, TypeFrames DEF Acquired, TypeOK
<1>3. ASSUME AcquireFails(g) PROVE TypeOK'
  <2>1. CallTypes'
    BY <1>3, GotoTypes DEF AcquireFails, TypeOK, Places, getVars
  <2> QED
    BY <1>3, <2>1, TypeFrames DEF AcquireFails, TypeOK, getVars
<1>4. ASSUME EnterClosed(g) PROVE TypeOK'
  <2>1. CallTypes' /\ ScopeTypes'
    BY <1>4, FailTypes DEF EnterClosed, TypeOK, Errors
  <2> QED
    BY <1>4, <2>1, TypeFrames DEF EnterClosed, TypeOK
<1>5. ASSUME EnterAgain(g) PROVE TypeOK'
  <2>1. CallTypes'
    BY <1>5, GotoTypes DEF EnterAgain, TypeOK, Places, getVars
  <2> QED
    BY <1>5, <2>1, TypeFrames DEF EnterAgain, TypeOK, getVars
<1>6. ASSUME EnterJoins(g) PROVE TypeOK'
  <2>1. CallTypes'
    BY <1>6, GotoTypes DEF EnterJoins, TypeOK, Places
  <2>2. target[g] \in Provider /\ cur[target[g]] \in Attempt
    BY <1>6 DEF EnterJoins, PlaceOK, TypeOK, NodeTypes
  <2>3. GetTypes'
    BY <1>6, <2>2 DEF EnterJoins, TypeOK, GetTypes
  <2> QED
    BY <1>6, <2>1, <2>3, TypeFrames DEF EnterJoins, TypeOK
<1>7. ASSUME EnterStarts(g) PROVE TypeOK'
  <2>1. CallTypes'
    BY <1>7, GotoTypes DEF EnterStarts, TypeOK, Places
  <2>2. target[g] \in Provider
    BY <1>7 DEF EnterStarts, PlaceOK
  <2>3. PICK a \in Attempt :
          /\ cur' = [cur EXCEPT ![target[g]] = a]
          /\ phase' = [phase EXCEPT ![a] = IF g \in Caller THEN "running" ELSE "created"]
          /\ of' = [of EXCEPT ![a] = target[g]]
          /\ began' = [began EXCEPT ![a] = epoch[target[g]]]
          /\ att' = [att EXCEPT ![g] = a]
    BY <1>7 DEF EnterStarts
  <2>4. GetTypes'
    BY <1>7, <2>3 DEF EnterStarts, TypeOK, GetTypes
  <2>5. NodeTypes'
    BY <1>7, <2>3 DEF EnterStarts, TypeOK, NodeTypes
  <2>6. AttemptTypes'
    BY <1>7, <2>2, <2>3 DEF EnterStarts, TypeOK, AttemptTypes, NodeTypes
  <2> QED
    BY <1>7, <2>1, <2>4, <2>5, <2>6, TypeFrames DEF EnterStarts, TypeOK
<1>8. ASSUME NEW o \in {"done", "canceled", "closed"}, WaitEnds(g, o) PROVE TypeOK'
  <2>1. CallTypes' /\ ScopeTypes'
    <3>1. CASE g \in Caller
      BY <1>8, <3>1, ResumeTypes DEF WaitEnds, TypeOK, PlaceOK, Errors
    <3>2. CASE g \notin Caller
      BY <1>8, <3>2, GotoTypes, TypeFrames DEF WaitEnds, TypeOK, Places, scopeVars
    <3> QED
      BY <3>1, <3>2
  <2>2. GetTypes'
    BY <1>8 DEF WaitEnds, TypeOK, GetTypes, Errors
  <2> QED
    BY <1>8, <2>1, <2>2, TypeFrames DEF WaitEnds, TypeOK
<1> QED
  BY <1>1, <1>2, <1>3, <1>4, <1>5, <1>6, <1>7, <1>8 DEF Get, Wakes, SeesClose, Leaves

-----------------------------------------------------------------------------
(* How a goroutine goes through get, as far as the other invariants mind.  *)

\* It goes to a place where it holds nothing, and leaves the rest alone.
Hops(g) ==
    /\ at[g] \in {"load", "acquire", "lock", "wait"}
    /\ at[g] = "wait" => g \in Caller
    /\ \E p \in {"load", "lock", "out", "over"} :
         Goto(g, p) /\ (p = "out" => g \notin Caller) /\ (p = "over" => g \in Caller)
    /\ UNCHANGED <<nodeVars, dependents, phase, builtVars, waits, asked, got, target,
                   box, att, mine, outcome, invalVars, dropped, closeVars>>
\* It loads a value.
Grabs(g) ==
    /\ at[g] = "load" /\ val[target[g]] # None
    /\ Goto(g, "acquire")
    /\ box' = [box EXCEPT ![g] = val[target[g]]]
    /\ UNCHANGED <<nodeVars, dependents, phase, builtVars, waits, asked, got, target,
                   att, mine, outcome, invalVars, dropped, closeVars>>
\* The value it loaded goes into the scope of its builder.
Gains(g) ==
    /\ at[g] = "acquire" /\ g \notin Caller
    /\ Goto(g, "out")
    /\ got' = [got EXCEPT ![g[1]] = @ \cup {box[g]}]
    /\ UNCHANGED <<nodeVars, dependents, phase, builtVars, waits, asked, target, box,
                   att, mine, outcome, invalVars, dropped, closeVars>>
\* Its wait ended, and it has to call stopWaiting.
Parks(g) ==
    /\ at[g] = "wait" /\ g \notin Caller
    /\ phase[att[g]] = "done" \/ closing = "cancelled"
    /\ Goto(g, "unlink")
    /\ UNCHANGED <<nodeVars, dependents, phase, builtVars, waits, asked, got, target,
                   box, att, mine, invalVars, dropped, closeVars>>
Moves(g) ==
    Hops(g) \/ Grabs(g) \/ Gains(g) \/ Parks(g) \/ EnterJoins(g) \/ EnterStarts(g)

LEMMA GetMoves ==
  ASSUME NEW g \in Goroutine, Get(g) \/ Leaves(g)
  PROVE  Moves(g)
<1> USE DEF Moves
<1>1. ASSUME Load(g) PROVE Moves(g)
  <2>1. CASE val[target[g]] = None
    BY <1>1, <2>1 DEF Load, Hops, getVars
  <2>2. CASE val[target[g]] # None /\ TakesRef(g)
    BY <1>1, <2>2 DEF Load, Grabs
  <2>3. CASE val[target[g]] # None /\ ~TakesRef(g)
    BY <1>1, <2>3 DEF Load, Returns, TakesRef, Hops
  <2> QED
    BY <2>1, <2>2, <2>3
<1>2. ASSUME Acquired(g) PROVE Moves(g)
  BY <1>2 DEF Acquired, Returns, Hops, Gains
<1>3. ASSUME AcquireFails(g) PROVE Moves(g)
  BY <1>3 DEF AcquireFails, Hops, getVars, scopeVars
<1>4. ASSUME EnterClosed(g) PROVE Moves(g)
  BY <1>4 DEF EnterClosed, Fails, Hops
<1>5. ASSUME EnterAgain(g) PROVE Moves(g)
  BY <1>5 DEF EnterAgain, Hops, getVars, scopeVars
<1>6. ASSUME NEW o \in {"done", "canceled", "closed"}, WaitEnds(g, o),
             g \notin Caller => phase[att[g]] = "done" \/ closing = "cancelled"
      PROVE  Moves(g)
  <2>1. CASE g \in Caller
    BY <1>6, <2>1 DEF WaitEnds, Resume, Fails, Hops
  <2>2. CASE g \notin Caller
    BY <1>6, <2>2 DEF WaitEnds, Parks
  <2> QED
    BY <2>1, <2>2
<1> QED
  BY <1>1, <1>2, <1>3, <1>4, <1>5, <1>6 DEF Get, Wakes, SeesClose, Leaves

-----------------------------------------------------------------------------
(* The wait-for graph counts exactly.                                      *)

\* Who waits for whom changes only as goroutines of builders begin or stop.
LEMMA WaitingFrame ==
  ASSUME \A h \in Builders :
            /\ at'[h] \in {"wait", "unlink"} <=> at[h] \in {"wait", "unlink"}
            /\ at[h] \in {"wait", "unlink"} => att'[h] = att[h]
  PROVE  \A a, b \in Attempt : Waiting(a, b)' = Waiting(a, b)
<1>1. \A a \in Attempt, s \in Slot : <<a, s>> \in Builders
  BY DEF Builders
<1> QED
  BY <1>1 DEF Waiting

LEMMA WaitsFrame ==
  ASSUME WaitsExact, UNCHANGED waits,
         \A h \in Builders :
            /\ at'[h] \in {"wait", "unlink"} <=> at[h] \in {"wait", "unlink"}
            /\ at[h] \in {"wait", "unlink"} => att'[h] = att[h]
  PROVE  WaitsExact'
  BY WaitingFrame DEF WaitsExact

\* A builder is not a caller; both run goroutines.
LEMMA BuilderFacts ==
  \A g \in Builders : /\ g \in Goroutine /\ g \notin Caller
                      /\ g[1] \in Attempt /\ g[2] \in Slot /\ g = <<g[1], g[2]>>
  BY NodeAssumption DEF Goroutine, Builders, NodeAssumption

LEMMA MovesWaits ==
  ASSUME TypeOK, WaitsExact, NEW g \in Goroutine, Moves(g)
  PROVE  WaitsExact'
<1>1. UNCHANGED waits
  BY DEF Moves, Hops, Grabs, Gains, Parks, EnterJoins, EnterStarts
<1>2. \A h \in Builders :
        /\ at'[h] \in {"wait", "unlink"} <=> at[h] \in {"wait", "unlink"}
        /\ at[h] \in {"wait", "unlink"} => att'[h] = att[h]
  <2>1. CASE Hops(g)
    BY <2>1, BuilderFacts DEF Hops, TypeOK, CallTypes, Goto
  <2>2. CASE Grabs(g)
    BY <2>2, BuilderFacts DEF Grabs, TypeOK, CallTypes, Goto
  <2>3. CASE Gains(g)
    BY <2>3, BuilderFacts DEF Gains, TypeOK, CallTypes, Goto
  <2>4. CASE Parks(g)
    BY <2>4, BuilderFacts DEF Parks, TypeOK, CallTypes, Goto
  <2>5. CASE EnterJoins(g)
    BY <2>5, BuilderFacts DEF EnterJoins, TypeOK, CallTypes, GetTypes, Goto
  <2>6. CASE EnterStarts(g)
    BY <2>6, BuilderFacts DEF EnterStarts, TypeOK, CallTypes, GetTypes, Goto
  <2> QED
    BY <2>1, <2>2, <2>3, <2>4, <2>5, <2>6 DEF Moves
<1> QED
  BY <1>1, <1>2, WaitsFrame

LEMMA WaitingFinite ==
  ASSUME NEW a \in Attempt, NEW b \in Attempt
  PROVE  /\ IsFiniteSet(Waiting(a, b)) /\ IsFiniteSet(Slot)
         /\ Cardinality(Waiting(a, b)) \in 0..Cardinality(Slot)
<1>1. Waiting(a, b) \subseteq Slot /\ IsFiniteSet(Slot)
  BY NodeAssumption DEF Waiting, NodeAssumption
<1>2. IsFiniteSet(Waiting(a, b)) /\ Cardinality(Waiting(a, b)) <= Cardinality(Slot)
  BY <1>1, FS_Subset
<1> QED
  BY <1>1, <1>2, FS_CardinalityType

LEMMA LinkWaits ==
  ASSUME TypeOK, PlaceOK, WaitsExact, NEW g \in Builders, Link(g)
  PROVE  WaitsExact'
<1>1. PICK x \in Attempt, s \in Slot, y \in Attempt :
        g = <<x, s>> /\ g[1] = x /\ g \in Goroutine /\ att[g] = y
  BY BuilderFacts DEF Link, PlaceOK
<1>2. /\ waits' = [waits EXCEPT ![x][y] = @ + 1]
      /\ at' = [at EXCEPT ![g] = "wait"] /\ att' = att /\ at[g] = "link"
  BY <1>1 DEF Link, Goto, getVars
<1>3. s \notin Waiting(x, y) /\ Waiting(x, y)' = Waiting(x, y) \cup {s}
  BY <1>1, <1>2 DEF Waiting, TypeOK, CallTypes, Goroutine
<1>4. ASSUME NEW a \in Attempt, NEW b \in Attempt, a # x \/ b # y
      PROVE  Waiting(a, b)' = Waiting(a, b)
  BY <1>1, <1>2, <1>4 DEF Waiting, TypeOK, CallTypes, Goroutine
<1>5. Cardinality(Waiting(x, y)') = Cardinality(Waiting(x, y)) + 1
  <2> DEFINE W == Waiting(x, y)
  <2>1. IsFiniteSet(W) /\ s \notin W
    BY <1>1, <1>3, WaitingFinite
  <2>2. Waiting(x, y)' = W \cup {s}
    BY <1>3
  <2> HIDE DEF W
  <2>3. Cardinality(W \cup {s}) = Cardinality(W) + 1
    BY <2>1, FS_AddElement
  <2>4. Cardinality(Waiting(x, y)') = Cardinality(W) + 1
    BY <2>2, <2>3
  <2> QED
    BY <2>4 DEF W
<1>6. ASSUME NEW a \in Attempt, NEW b \in Attempt
      PROVE  waits'[a][b] = IF a = x /\ b = y THEN waits[a][b] + 1 ELSE waits[a][b]
  BY <1>1, <1>2 DEF TypeOK, WaitTypes
<1>7. ASSUME NEW a \in Attempt, NEW b \in Attempt
      PROVE  waits'[a][b] = Cardinality(Waiting(a, b)')
  BY <1>1, <1>4, <1>5, <1>6 DEF WaitsExact
<1> QED
  BY <1>7 DEF WaitsExact

LEMMA UnlinkWaits ==
  ASSUME TypeOK, PlaceOK, WaitsExact, NEW g \in Builders, Unlink(g)
  PROVE  WaitsExact'
<1>1. PICK x \in Attempt, s \in Slot, y \in Attempt :
        g = <<x, s>> /\ g[1] = x /\ g \in Goroutine /\ att[g] = y
  BY BuilderFacts DEF Unlink, PlaceOK
<1>2. /\ waits' = [waits EXCEPT ![x][y] = waits[x][y] - 1]
      /\ att' = att /\ at[g] = "unlink"
  BY <1>1 DEF Unlink, OneWaitLess
<1>3. PICK p \in {"out", "load"} : at' = [at EXCEPT ![g] = p]
  BY BuilderFacts DEF Unlink, Resume, Fails, Goto
<1>4. s \in Waiting(x, y) /\ Waiting(x, y)' = Waiting(x, y) \ {s}
  BY <1>1, <1>2, <1>3 DEF Waiting, TypeOK, CallTypes, Goroutine
<1>5. ASSUME NEW a \in Attempt, NEW b \in Attempt, a # x \/ b # y
      PROVE  Waiting(a, b)' = Waiting(a, b)
  BY <1>1, <1>2, <1>3, <1>5 DEF Waiting, TypeOK, CallTypes, Goroutine
<1>6. Cardinality(Waiting(x, y)') = Cardinality(Waiting(x, y)) - 1
  <2>1. IsFiniteSet(Waiting(x, y)) /\ Cardinality(Waiting(x, y)) \in Nat
    BY WaitingFinite
  <2> QED
    BY <1>4, <2>1, FS_RemoveElement
<1>7. ASSUME NEW a \in Attempt, NEW b \in Attempt
      PROVE  waits'[a][b] = IF a = x /\ b = y THEN waits[a][b] - 1 ELSE waits[a][b]
  BY <1>1, <1>2 DEF TypeOK, WaitTypes
<1>8. ASSUME NEW a \in Attempt, NEW b \in Attempt
      PROVE  waits'[a][b] = Cardinality(Waiting(a, b)')
  BY <1>1, <1>5, <1>6, <1>7 DEF WaitsExact
<1> QED
  BY <1>8 DEF WaitsExact

-----------------------------------------------------------------------------
(* Nobody waits in a circle.                                               *)

\* Fewer waits make no circle.
LEMMA FewerWaits ==
  ASSUME NoWaitCycle, \A a \in Attempt : WaitsOn(a)' \subseteq WaitsOn(a)
  PROVE  NoWaitCycle'
<1> SUFFICES ASSUME NEW S \in (SUBSET Attempt) \ {{}}
             PROVE  \E a \in S : WaitsOn(a)' \cap S = {}
  BY DEF NoWaitCycle
<1>1. PICK a \in S : WaitsOn(a) \cap S = {}
  BY DEF NoWaitCycle
<1> QED
  BY <1>1

\* Nor does the wait waitFor allows: where it leads, closed under waits, has a
\* member that waits on no other of it, and the new waiter is outside.
LEMMA LinkWaitsForOne ==
  ASSUME TypeOK, PlaceOK, NEW g \in Builders, Link(g)
  PROVE  /\ g[1] \in Attempt /\ att[g] \in Attempt
         /\ \A a \in Attempt : WaitsOn(a)' = IF a = g[1] THEN WaitsOn(a) \cup {att[g]}
                                                       ELSE WaitsOn(a)
<1>1. PICK x \in Attempt, y \in Attempt : g[1] = x /\ att[g] = y
  BY BuilderFacts DEF Link, PlaceOK
<1>2. waits' = [waits EXCEPT ![x][y] = @ + 1]
  BY <1>1 DEF Link
<1>3. \A a, b \in Attempt : waits[a][b] \in Nat
  BY WaitingFinite DEF TypeOK, WaitTypes
<1>4. \A a, b \in Attempt :
        waits'[a][b] = IF a = x /\ b = y THEN waits[a][b] + 1 ELSE waits[a][b]
  BY <1>2 DEF TypeOK, WaitTypes
<1> QED
  BY <1>1, <1>3, <1>4 DEF WaitsOn

LEMMA LinkAcyclic ==
  ASSUME TypeOK, PlaceOK, NoWaitCycle, NEW g \in Builders, Link(g)
  PROVE  NoWaitCycle'
<1>1. PICK x \in Attempt, y \in Attempt : g[1] = x /\ att[g] = y
  BY LinkWaitsForOne
<1>2. PICK T \in SUBSET Attempt :
        y \in T /\ x \notin T /\ \A a \in T : WaitsOn(a) \subseteq T
  BY <1>1 DEF Link, Reach
<1>3. \A a \in Attempt : WaitsOn(a)' = IF a = x THEN WaitsOn(a) \cup {y} ELSE WaitsOn(a)
  BY <1>1, LinkWaitsForOne
<1> SUFFICES ASSUME NEW S \in (SUBSET Attempt) \ {{}}
             PROVE  \E a \in S : WaitsOn(a)' \cap S = {}
  BY DEF NoWaitCycle
<1>4. CASE S \cap T # {}
  <2>1. PICK a \in S \cap T : WaitsOn(a) \cap (S \cap T) = {}
    BY <1>4 DEF NoWaitCycle
  <2> QED
    BY <1>2, <1>3, <2>1
<1>5. CASE S \cap T = {}
  <2>1. PICK a \in S : WaitsOn(a) \cap S = {}
    BY DEF NoWaitCycle
  <2> QED
    BY <1>2, <1>3, <1>5, <2>1
<1> QED
  BY <1>4, <1>5

LEMMA UnlinkAcyclic ==
  ASSUME TypeOK, PlaceOK, NoWaitCycle, NEW g \in Builders, Unlink(g)
  PROVE  NoWaitCycle'
<1>1. PICK x \in Attempt, y \in Attempt : g[1] = x /\ att[g] = y
  BY BuilderFacts DEF Unlink, PlaceOK
<1>2. waits' = [waits EXCEPT ![x][y] = waits[x][y] - 1]
  BY <1>1 DEF Unlink, OneWaitLess
<1>3. \A a, b \in Attempt : waits[a][b] \in Nat
  BY WaitingFinite DEF TypeOK, WaitTypes
<1>4. \A a, b \in Attempt :
        waits'[a][b] = IF a = x /\ b = y THEN waits[a][b] - 1 ELSE waits[a][b]
  BY <1>2 DEF TypeOK, WaitTypes
<1>5. \A a \in Attempt : WaitsOn(a)' \subseteq WaitsOn(a)
  BY <1>3, <1>4 DEF WaitsOn
<1> QED
  BY <1>5, FewerWaits

\* Nothing waits through an attempt whose builder does not run, so waitFor
\* refuses no attempt that its caller created (node.go:131).
LEMMA IdleWaitsOnNothing ==
  ASSUME TypeOK, PlaceOK, WaitsExact, NEW a \in Attempt, phase[a] # "running"
  PROVE  WaitsOn(a) = {}
<1>1. ASSUME NEW b \in Attempt PROVE waits[a][b] = 0
  <2>1. Waiting(a, b) = {}
    BY BuilderFacts DEF Waiting, PlaceOK, Builders
  <2> QED
    BY <2>1, FS_EmptySet DEF WaitsExact
<1> QED
  BY <1>1 DEF WaitsOn

LEMMA NewBuildsNeverRefused ==
  ASSUME TypeOK, PlaceOK, StarterOK, WaitsExact, NEW g \in Builders,
         at[g] = "link", mine[g]
  PROVE  ~Reach(att[g], g[1])
<1>1. PICK a \in Attempt : att[g] = a /\ phase[a] = "created"
  BY BuilderFacts DEF PlaceOK, StarterOK
<1>2. WaitsOn(a) = {}
  BY <1>1, IdleWaitsOnNothing
<1>3. g[1] # a
  BY <1>1 DEF PlaceOK
<1>4. {a} \in SUBSET Attempt /\ a \in {a} /\ \A b \in {a} : WaitsOn(b) \subseteq {a}
  BY <1>2
<1> QED
  BY <1>1, <1>3, <1>4 DEF Reach

-----------------------------------------------------------------------------
(* Places.                                                                 *)

\* What the steps of Invalidate and CloseContext, and a stutter, leave alone.
LEMMA ApartKeeps ==
  ASSUME \/ \E i \in Invalidator : Recurse(i) \/ \E n \in Provider : InvalidateCalled(i, n)
         \/ CloseBegins \/ Cancel \/ Shut \/ UNCHANGED vars
  PROVE  /\ UNCHANGED <<cur, phase, builtVars, waits, scopeVars, at, getVars>>
         /\ closing = "cancelled" => closing' = "cancelled"
  BY DEF Recurse, InvalidateCalled, InvalidateDependent, Invalidate, ReleaseOld,
         CloseBegins, Cancel, Shut, vars, nodeVars, closeVars

\* A new attempt is nobody's yet.
LEMMA StartFacts ==
  ASSUME TypeOK, PlaceOK, NEW g \in Goroutine, EnterStarts(g)
  PROVE  \E a \in Attempt, n \in Provider :
            /\ target[g] = n /\ val[n] = None /\ cur[n] = None /\ phase[a] = "unused"
            /\ cur' = [cur EXCEPT ![n] = a]
            /\ phase' = [phase EXCEPT ![a] = IF g \in Caller THEN "running" ELSE "created"]
            /\ of' = [of EXCEPT ![a] = n]
            /\ began' = [began EXCEPT ![a] = epoch[n]]
            /\ att' = [att EXCEPT ![g] = a]
            /\ mine' = [mine EXCEPT ![g] = TRUE]
            /\ at[g] = "lock"
            /\ at' = [at EXCEPT ![g] = IF g \in Caller THEN "wait" ELSE "link"]
  BY DEF EnterStarts, PlaceOK, NoValue, Fresh, Goto

LEMMA MovesPlaces ==
  ASSUME TypeOK, PlaceOK, EpochOK, SingleFlight, NEW g \in Goroutine, Moves(g)
  PROVE  PlaceOK'
<1> USE BuilderFacts DEF PlaceOK
<1>1. CASE Hops(g)
  BY <1>1 DEF Hops, TypeOK, CallTypes, Goto, builtVars, Goroutine, Builders
<1>2. CASE Grabs(g)
  BY <1>2 DEF Grabs, TypeOK, CallTypes, GetTypes, NodeTypes, EpochOK, Goto, builtVars
<1>3. CASE Gains(g)
  BY <1>3 DEF Gains, TypeOK, CallTypes, Goto, builtVars
<1>4. CASE Parks(g)
  BY <1>4 DEF Parks, TypeOK, CallTypes, Goto, builtVars
<1>5. CASE EnterJoins(g)
  <2>1. cur[target[g]] \in Attempt /\ phase[cur[target[g]]] # "unused"
    BY <1>5 DEF EnterJoins, TypeOK, NodeTypes, SingleFlight, InFlight
  <2> QED
    BY <1>5, <2>1 DEF EnterJoins, TypeOK, CallTypes, GetTypes, Goto, builtVars
<1>6. CASE EnterStarts(g)
  <2>1. PICK a \in Attempt, n \in Provider :
            /\ target[g] = n /\ phase[a] = "unused"
            /\ phase' = [phase EXCEPT ![a] = IF g \in Caller THEN "running" ELSE "created"]
            /\ of' = [of EXCEPT ![a] = n]
            /\ att' = [att EXCEPT ![g] = a]
            /\ at[g] = "lock"
            /\ at' = [at EXCEPT ![g] = IF g \in Caller THEN "wait" ELSE "link"]
    BY <1>6, StartFacts
  <2>2. UNCHANGED <<target, box>>
    BY <1>6 DEF EnterStarts
  <2> QED
    BY <2>1, <2>2 DEF TypeOK, CallTypes, GetTypes, AttemptTypes
<1> QED
  BY <1>1, <1>2, <1>3, <1>4, <1>5, <1>6 DEF Moves

\* An attempt that g created runs now, and is never refused.
LEMMA ReadPlaces ==
  ASSUME TypeOK, PlaceOK, StarterOK, WaitsExact, NEW g \in Builders, Read(g)
  PROVE  PlaceOK'
<1> USE BuilderFacts DEF PlaceOK
<1>1. CASE Link(g)
  <2>1. att[g] \in Attempt /\ (mine[g] => phase[att[g]] = "created")
    BY <1>1 DEF Link, StarterOK
  <2> QED
    BY <1>1, <2>1 DEF Link, TypeOK, CallTypes, AttemptTypes, Goto, builtVars, getVars
<1>2. CASE FindsCycle(g)
  <2>1. ~mine[g]
    BY <1>2, NewBuildsNeverRefused DEF FindsCycle
  <2>2. at' = [at EXCEPT ![g] = "out"]
    BY <1>2 DEF FindsCycle, Fails, Goto
  <2> QED
    BY <1>2, <2>1, <2>2 DEF FindsCycle, TypeOK, CallTypes
<1>3. CASE Unlink(g)
  <2>1. PICK p \in {"out", "load"} : at' = [at EXCEPT ![g] = p]
    BY <1>3 DEF Unlink, Resume, Fails, Goto
  <2> QED
    BY <1>3, <2>1 DEF Unlink, TypeOK, CallTypes, builtVars
<1> QED
  BY <1>1, <1>2, <1>3 DEF Read

LEMMA RunPlaces ==
  ASSUME TypeOK, PlaceOK, NEW a \in Attempt, Finish(a) \/ CloseDone(a)
  PROVE  PlaceOK'
<1> USE BuilderFacts DEF PlaceOK
<1>1. CASE Finish(a)
  <2>1. phase' = [phase EXCEPT ![a] = "finished"] /\ phase[a] = "running"
    BY <1>1 DEF Finish, BuilderReturns
  <2>2. \A g \in Builders : at[g] # "out" => g[1] # a
    BY <1>1 DEF Finish, BuilderReturns
  <2>3. UNCHANGED <<at, target, box, att, of>>
    BY <1>1 DEF Finish, getVars
  <2> QED
    BY <2>1, <2>2, <2>3 DEF TypeOK, AttemptTypes
<1>2. CASE CloseDone(a)
  BY <1>2 DEF CloseDone, TypeOK, AttemptTypes, getVars, builtVars
<1> QED
  BY <1>1, <1>2

LEMMA PlaceStep ==
  ASSUME TypeOK, PlaceOK, StarterOK, SingleFlight, WaitsExact, EpochOK, [Next]_vars
  PROVE  PlaceOK'
<1>1. ASSUME NEW c \in Caller, NEW n \in Provider, Call(c, n) PROVE PlaceOK'
  BY <1>1, NodeAssumption, BuilderFacts
     DEF Call, PlaceOK, TypeOK, CallTypes, GetTypes, Goto, Goroutine, builtVars
<1>2. ASSUME NEW g \in Builders, NEW n \in Provider, From(g, n) PROVE PlaceOK'
  BY <1>2, BuilderFacts
     DEF From, Asks, PlaceOK, TypeOK, CallTypes, GetTypes, Goto, builtVars
<1>3. ASSUME UNCHANGED <<phase, builtVars, at, getVars>> PROVE PlaceOK'
  BY <1>3 DEF PlaceOK, builtVars, getVars
<1> QED
  BY <1>1, <1>2, <1>3, GetMoves, MovesPlaces, ReadPlaces, RunPlaces, ApartKeeps
     DEF Next, Terminated

-----------------------------------------------------------------------------
(* Single flight.                                                          *)

LEMMA MovesStarters ==
  ASSUME TypeOK, PlaceOK, StarterOK, NEW g \in Goroutine, Moves(g)
  PROVE  StarterOK'
<1> USE BuilderFacts DEF StarterOK
<1>1. CASE Hops(g)
  BY <1>1 DEF Hops, TypeOK, CallTypes, Goto
<1>2. CASE Grabs(g)
  BY <1>2 DEF Grabs, TypeOK, CallTypes, Goto
<1>3. CASE Gains(g)
  BY <1>3 DEF Gains, TypeOK, CallTypes, Goto
<1>4. CASE Parks(g)
  BY <1>4 DEF Parks, TypeOK, CallTypes, Goto
<1>5. CASE EnterJoins(g)
  BY <1>5 DEF EnterJoins, TypeOK, CallTypes, GetTypes, Goto
<1>6. CASE EnterStarts(g)
  <2>1. PICK a \in Attempt :
            /\ phase[a] = "unused"
            /\ phase' = [phase EXCEPT ![a] = IF g \in Caller THEN "running" ELSE "created"]
            /\ att' = [att EXCEPT ![g] = a]
            /\ mine' = [mine EXCEPT ![g] = TRUE]
            /\ at' = [at EXCEPT ![g] = IF g \in Caller THEN "wait" ELSE "link"]
    BY <1>6, StartFacts
  <2>2. \A h \in Builders : at[h] = "link" => att[h] \in Attempt /\ att[h] # a
    BY <2>1 DEF PlaceOK
  <2> QED
    BY <2>1, <2>2 DEF TypeOK, CallTypes, GetTypes, AttemptTypes
<1> QED
  BY <1>1, <1>2, <1>3, <1>4, <1>5, <1>6 DEF Moves

LEMMA ReadStarters ==
  ASSUME TypeOK, PlaceOK, StarterOK, WaitsExact, NEW g \in Builders, Read(g)
  PROVE  StarterOK'
<1> USE BuilderFacts DEF StarterOK
<1>1. CASE Link(g)
  <2>1. \A h \in Builders : at[h] = "link" => att[h] \in Attempt
    BY DEF PlaceOK
  <2> QED
    BY <1>1, <2>1 DEF Link, TypeOK, CallTypes, AttemptTypes, Goto, getVars
<1>2. CASE FindsCycle(g)
  <2>1. ~mine[g]
    BY <1>2, NewBuildsNeverRefused DEF FindsCycle
  <2>2. at' = [at EXCEPT ![g] = "out"]
    BY <1>2 DEF FindsCycle, Fails, Goto
  <2> QED
    BY <1>2, <2>1, <2>2 DEF FindsCycle, TypeOK, CallTypes
<1>3. CASE Unlink(g)
  <2>1. PICK p \in {"out", "load"} : at' = [at EXCEPT ![g] = p]
    BY <1>3 DEF Unlink, Resume, Fails, Goto
  <2> QED
    BY <1>3, <2>1 DEF Unlink, TypeOK, CallTypes
<1> QED
  BY <1>1, <1>2, <1>3 DEF Read

LEMMA StarterStep ==
  ASSUME TypeOK, PlaceOK, StarterOK, WaitsExact, [Next]_vars
  PROVE  StarterOK'
<1>1. ASSUME NEW g \in Goroutine, Goto(g, "load"), UNCHANGED <<phase, att, mine>>
      PROVE  StarterOK'
  BY <1>1, BuilderFacts DEF StarterOK, TypeOK, CallTypes, Goto
<1>2. ASSUME NEW c \in Caller, NEW n \in Provider, Call(c, n) PROVE StarterOK'
  BY <1>1, <1>2 DEF Call, Goroutine
<1>3. ASSUME NEW g \in Builders, NEW n \in Provider, From(g, n) PROVE StarterOK'
  BY <1>1, <1>3, BuilderFacts DEF From
<1>4. ASSUME NEW a \in Attempt, Finish(a) \/ CloseDone(a) PROVE StarterOK'
  <2>1. \A h \in Builders : at[h] = "link" => att[h] \in Attempt
    BY BuilderFacts DEF PlaceOK
  <2>2. /\ phase[a] # "created" /\ UNCHANGED <<at, getVars>>
        /\ \E p \in {"finished", "done"} : phase' = [phase EXCEPT ![a] = p]
    BY <1>4 DEF Finish, BuilderReturns, CloseDone
  <2> QED
    BY <2>1, <2>2 DEF StarterOK, TypeOK, AttemptTypes, getVars
<1>5. ASSUME UNCHANGED <<phase, builtVars, at, getVars>> PROVE StarterOK'
  BY <1>5 DEF StarterOK, getVars
<1> QED
  BY <1>2, <1>3, <1>4, <1>5, GetMoves, MovesStarters, ReadStarters, ApartKeeps
     DEF Next, Terminated

\* Steps that neither begin nor end a build.
LEMMA FlightFrame ==
  ASSUME SingleFlight, UNCHANGED <<cur, of>>,
         \A n \in Provider : val'[n] \in {val[n], None},
         \A a \in Attempt : phase'[a] \in {"created", "running"}
                              <=> phase[a] \in {"created", "running"}
  PROVE  SingleFlight'
  BY DEF SingleFlight, InFlight

\* The step starts and ends builds of Deferred providers only.
BuildsDeferred ==
    /\ \A g \in Goroutine : EnterStarts(g) => target[g] \notin Eager
    /\ \A a \in Attempt : phase[a] = "running" /\ of[a] \in Eager => phase'[a] = "running"

LEMMA MovesFlight ==
  ASSUME TypeOK, PlaceOK, SingleFlight, NEW g \in Goroutine, Moves(g), BuildsDeferred
  PROVE  SingleFlight'
<1>1. CASE ~EnterStarts(g)
  BY <1>1, FlightFrame
     DEF Moves, Hops, Grabs, Gains, Parks, EnterJoins, nodeVars, builtVars
<1>2. CASE EnterStarts(g)
  <2>1. PICK a \in Attempt, n \in Provider :
            /\ n \notin Eager /\ val[n] = None /\ cur[n] = None /\ phase[a] = "unused"
            /\ cur' = [cur EXCEPT ![n] = a]
            /\ phase' = [phase EXCEPT ![a] = IF g \in Caller THEN "running" ELSE "created"]
            /\ of' = [of EXCEPT ![a] = n]
    BY <1>2, StartFacts DEF BuildsDeferred
  <2>2. val' = val
    BY <1>2 DEF EnterStarts
  <2>3. a # None
    BY NodeAssumption DEF NodeAssumption, Attempt, None
  <2>4. ASSUME NEW m \in Provider
        PROVE  InFlight(m)' = IF m = n THEN InFlight(m) \cup {a} ELSE InFlight(m)
    BY <2>1 DEF InFlight, TypeOK, AttemptTypes
  <2>5. ASSUME NEW m \in Provider
        PROVE  cur'[m] = IF m = n THEN a ELSE cur[m]
    BY <2>1 DEF TypeOK, NodeTypes
  <2> QED
    BY <2>1, <2>2, <2>3, <2>4, <2>5 DEF SingleFlight
<1> QED
  BY <1>1, <1>2

\* The end of a build frees its provider for the next.
LEMMA FinishFlight ==
  ASSUME TypeOK, SingleFlight, NEW a \in Attempt, Finish(a), BuildsDeferred
  PROVE  SingleFlight'
<1>1. PICK n \in Provider \ Eager : of[a] = n
  BY DEF Finish, BuilderReturns, TypeOK, AttemptTypes, BuildsDeferred
<1>2. /\ phase[a] = "running" /\ phase' = [phase EXCEPT ![a] = "finished"]
      /\ cur' = [cur EXCEPT ![n] = None] /\ of' = of
      /\ val' = val \/ val' = [val EXCEPT ![n] = a]
  BY <1>1 DEF Finish, BuilderReturns
<1>3. a \in InFlight(n)
  BY <1>1, <1>2 DEF InFlight
<1>4. InFlight(n)' = {}
  BY <1>2, <1>3 DEF InFlight, SingleFlight, TypeOK, AttemptTypes
<1>5. ASSUME NEW m \in Provider, m # n
      PROVE  InFlight(m)' = InFlight(m) /\ cur'[m] = cur[m] /\ val'[m] = val[m]
  BY <1>1, <1>2, <1>5 DEF InFlight, TypeOK, AttemptTypes, NodeTypes
<1>6. cur'[n] = None
  BY <1>2 DEF TypeOK, NodeTypes
<1> QED
  BY <1>4, <1>5, <1>6 DEF SingleFlight

LEMMA FlightStep ==
  ASSUME TypeOK, PlaceOK, StarterOK, SingleFlight, WaitsExact, [Next]_vars,
         BuildsDeferred
  PROVE  SingleFlight'
<1>1. ASSUME NEW c \in Caller, NEW n \in Provider, Call(c, n) PROVE SingleFlight'
  BY <1>1, FlightFrame DEF Call, nodeVars, builtVars
<1>2. ASSUME NEW g \in Builders, NEW n \in Provider, From(g, n) PROVE SingleFlight'
  BY <1>2, FlightFrame DEF From, nodeVars, builtVars
<1>3. ASSUME NEW g \in Builders, Read(g) PROVE SingleFlight'
  <2>1. CASE Link(g)
    <3>1. att[g] \in Attempt /\ (mine[g] => phase[att[g]] = "created")
      BY <2>1, BuilderFacts DEF Link, StarterOK, PlaceOK
    <3> QED
      BY <2>1, <3>1, FlightFrame DEF Link, nodeVars, builtVars, TypeOK, AttemptTypes
  <2>2. CASE FindsCycle(g)
    BY <2>2, NewBuildsNeverRefused, FlightFrame DEF FindsCycle
  <2>3. CASE Unlink(g)
    BY <2>3, FlightFrame DEF Unlink, nodeVars, builtVars
  <2> QED
    BY <1>3, <2>1, <2>2, <2>3 DEF Read
<1>4. ASSUME NEW a \in Attempt, CloseDone(a) PROVE SingleFlight'
  BY <1>4, FlightFrame DEF CloseDone, nodeVars, builtVars, TypeOK, AttemptTypes
<1>5. ASSUME UNCHANGED <<cur, phase, builtVars>>,
             \A n \in Provider : val'[n] \in {val[n], None}
      PROVE  SingleFlight'
  BY <1>5, FlightFrame DEF builtVars
<1>6. ASSUME \/ \E i \in Invalidator : Recurse(i) \/ \E n \in Provider : InvalidateCalled(i, n)
             \/ CloseBegins \/ Cancel \/ Shut \/ UNCHANGED vars
      PROVE  \A n \in Provider : val'[n] \in {val[n], None}
  BY <1>6 DEF Recurse, InvalidateCalled, InvalidateDependent, Invalidate, ReleaseOld,
         CloseBegins, Cancel, Shut, vars, nodeVars, TypeOK, NodeTypes
<1> QED
  BY <1>1, <1>2, <1>3, <1>4, <1>5, <1>6, GetMoves, MovesFlight, FinishFlight,
     ApartKeeps DEF Next, Terminated

-----------------------------------------------------------------------------
(* The graph of waits, step by step.                                       *)

LEMMA WaitsStep ==
  ASSUME TypeOK, PlaceOK, StarterOK, WaitsExact, [Next]_vars
  PROVE  WaitsExact'
<1>1. ASSUME NEW g \in Goroutine, at[g] = "out", Goto(g, "load"), UNCHANGED <<waits, att>>
      PROVE  WaitsExact'
  BY <1>1, WaitsFrame, BuilderFacts DEF TypeOK, CallTypes, Goto
<1>2. ASSUME NEW c \in Caller, NEW n \in Provider, Call(c, n) PROVE WaitsExact'
  BY <1>1, <1>2 DEF Call, Goroutine
<1>3. ASSUME NEW g \in Builders, NEW n \in Provider, From(g, n) PROVE WaitsExact'
  BY <1>1, <1>3, BuilderFacts DEF From, Asks
<1>4. ASSUME NEW g \in Builders, FindsCycle(g) PROVE WaitsExact'
  <2>1. at' = [at EXCEPT ![g] = "out"] /\ at[g] = "link" /\ UNCHANGED <<waits, att>>
    BY <1>4, BuilderFacts DEF FindsCycle, Fails, Goto
  <2> QED
    BY <2>1, WaitsFrame, BuilderFacts DEF TypeOK, CallTypes
<1>5. ASSUME UNCHANGED <<waits, at, getVars>> PROVE WaitsExact'
  BY <1>5, WaitsFrame DEF getVars
<1>6. ASSUME NEW a \in Attempt, Finish(a) \/ CloseDone(a) PROVE WaitsExact'
  BY <1>5, <1>6 DEF Finish, CloseDone
<1> QED
  BY <1>2, <1>3, <1>4, <1>5, <1>6, GetMoves, MovesWaits, LinkWaits, UnlinkWaits,
     ApartKeeps DEF Next, Terminated, Read

LEMMA AcyclicStep ==
  ASSUME TypeOK, PlaceOK, NoWaitCycle, [Next]_vars
  PROVE  NoWaitCycle'
<1>1. ASSUME UNCHANGED waits PROVE NoWaitCycle'
  BY <1>1, FewerWaits DEF WaitsOn
<1>2. ASSUME NEW g \in Goroutine, Moves(g) PROVE UNCHANGED waits
  BY <1>2 DEF Moves, Hops, Grabs, Gains, Parks, EnterJoins, EnterStarts
<1>3. ASSUME NEW g \in Builders, FindsCycle(g) PROVE UNCHANGED waits
  BY <1>3 DEF FindsCycle
<1>4. ASSUME NEW c \in Caller, NEW n \in Provider, Call(c, n) PROVE UNCHANGED waits
  BY <1>4 DEF Call
<1>5. ASSUME NEW g \in Builders, NEW n \in Provider, From(g, n) PROVE UNCHANGED waits
  BY <1>5 DEF From
<1>6. ASSUME NEW a \in Attempt, Finish(a) \/ CloseDone(a) PROVE UNCHANGED waits
  BY <1>6 DEF Finish, CloseDone
<1> QED
  BY <1>1, <1>2, <1>3, <1>4, <1>5, <1>6, GetMoves, LinkAcyclic, UnlinkAcyclic,
     ApartKeeps DEF Next, Terminated, Read

LEMMA UnlinkStep ==
  ASSUME TypeOK, PlaceOK, StarterOK, UnlinkOK, [Next]_vars
  PROVE  UnlinkOK'
<1> USE BuilderFacts DEF UnlinkOK
<1>1. ASSUME NEW g \in Goroutine, NEW p \in {"out", "load", "acquire", "lock", "link", "wait", "over"},
             at' = [at EXCEPT ![g] = p], UNCHANGED closing,
             \A h \in Builders : at[h] = "unlink" /\ phase[att[h]] = "done" =>
                /\ h # g => att'[h] = att[h]
                /\ phase'[att[h]] = "done"
      PROVE  UnlinkOK'
  BY <1>1 DEF TypeOK, CallTypes
<1>2. ASSUME NEW g \in Goroutine, Moves(g), ~EnterStarts(g) PROVE UnlinkOK'
  <2>1. CASE Parks(g)
    BY <2>1 DEF Parks, Goto, TypeOK, CallTypes, closeVars
  <2>2. CASE Hops(g)
    BY <1>1, <2>2 DEF Hops, Goto, closeVars
  <2>3. CASE Grabs(g)
    BY <1>1, <2>3 DEF Grabs, Goto, closeVars
  <2>4. CASE Gains(g)
    BY <1>1, <2>4 DEF Gains, Goto, closeVars
  <2>5. CASE EnterJoins(g)
    BY <1>1, <2>5 DEF EnterJoins, Goto, closeVars, TypeOK, GetTypes
  <2> QED
    BY <1>2, <2>1, <2>2, <2>3, <2>4, <2>5 DEF Moves
<1>3. ASSUME NEW g \in Goroutine, EnterStarts(g) PROVE UnlinkOK'
  <2>1. PICK a \in Attempt :
            /\ phase[a] = "unused"
            /\ phase' = [phase EXCEPT ![a] = IF g \in Caller THEN "running" ELSE "created"]
            /\ att' = [att EXCEPT ![g] = a]
            /\ at' = [at EXCEPT ![g] = IF g \in Caller THEN "wait" ELSE "link"]
    BY <1>3, StartFacts
  <2>2. \A h \in Builders : at[h] = "unlink" => att[h] \in Attempt /\ att[h] # a
    BY <2>1 DEF PlaceOK
  <2>3. UNCHANGED closing
    BY <1>3 DEF EnterStarts, closeVars
  <2> QED
    BY <2>1, <2>2, <2>3 DEF TypeOK, CallTypes, GetTypes, AttemptTypes
<1>4. ASSUME NEW c \in Caller, NEW n \in Provider, Call(c, n) PROVE UnlinkOK'
  BY <1>1, <1>4 DEF Call, Goto, Goroutine, closeVars
<1>5. ASSUME NEW g \in Builders, NEW n \in Provider, From(g, n) PROVE UnlinkOK'
  BY <1>1, <1>5 DEF From, Goto, closeVars
<1>6. ASSUME NEW g \in Builders, Read(g) PROVE UnlinkOK'
  <2>1. \A h \in Builders : at[h] \in {"link", "unlink"} => att[h] \in Attempt
    BY DEF PlaceOK
  <2>2. CASE Link(g)
    <3>1. \A h \in Builders : phase[att[h]] = "done" /\ at[h] = "unlink" =>
             phase'[att[h]] = "done"
      BY <1>6, <2>1, <2>2 DEF Link, StarterOK, TypeOK, AttemptTypes
    <3> QED
      BY <1>1, <2>2, <3>1 DEF Link, Goto, closeVars, getVars
  <2>3. CASE FindsCycle(g)
    <3>1. \A h \in Builders : phase[att[h]] = "done" /\ at[h] = "unlink" =>
             phase'[att[h]] = "done"
      BY <1>6, <2>1, <2>3 DEF FindsCycle, StarterOK, TypeOK, AttemptTypes
    <3> QED
      BY <1>1, <2>3, <3>1 DEF FindsCycle, Fails, Goto, closeVars
  <2>4. CASE Unlink(g)
    BY <1>1, <2>4 DEF Unlink, Resume, Fails, Goto, closeVars
  <2> QED
    BY <1>6, <2>2, <2>3, <2>4 DEF Read
<1>7. ASSUME NEW a \in Attempt, Finish(a) \/ CloseDone(a) PROVE UnlinkOK'
  <2>1. \A h \in Builders : at[h] = "unlink" => att[h] \in Attempt
    BY DEF PlaceOK
  <2>2. /\ UNCHANGED <<at, getVars, closing>> /\ phase[a] # "done"
        /\ \E p \in {"finished", "done"} : phase' = [phase EXCEPT ![a] = p]
    BY <1>7 DEF Finish, BuilderReturns, CloseDone, closeVars
  <2> QED
    BY <2>1, <2>2 DEF TypeOK, AttemptTypes, getVars
<1>8. ASSUME UNCHANGED <<phase, at, getVars>>, closing = "cancelled" => closing' = "cancelled"
      PROVE  UnlinkOK'
  BY <1>8 DEF getVars
<1> QED
  BY <1>2, <1>3, <1>4, <1>5, <1>6, <1>7, <1>8, GetMoves, ApartKeeps
     DEF Next, Terminated

\* Unless Close ends the waits, a is blocked on what it waits on, or that has
\* ended.
LEMMA WaitsAreBlocked ==
  ASSUME TypeOK, PlaceOK, WaitsExact, UnlinkOK, closing # "cancelled",
         NEW a \in Attempt, NEW b \in WaitsOn(a)
  PROVE  b \in BlockedOn(a) \/ phase[b] \in {"finished", "done"}
<1>1. b \in Attempt /\ waits[a][b] > 0
  BY DEF WaitsOn
<1>2. Waiting(a, b) # {}
  <2>1. Cardinality(Waiting(a, b)) # 0
    BY <1>1 DEF WaitsExact
  <2> QED
    BY <2>1, FS_EmptySet
<1>3. PICK s \in Slot : at[<<a, s>>] \in {"wait", "unlink"} /\ att[<<a, s>>] = b
  BY <1>2 DEF Waiting
<1>4. <<a, s>> \in Builders /\ <<a, s>> \in Goroutine
  BY DEF Builders, Goroutine
<1>5. phase[b] # "unused"
  BY <1>3, <1>4 DEF PlaceOK
<1> QED
  BY <1>1, <1>3, <1>4, <1>5 DEF UnlinkOK, BlockedOn, TypeOK, AttemptTypes

\* When waitFor refuses, those it would wait for are blocked, in a row, on the
\* builder itself: an attempt that has ended leads nowhere.
LEMMA RefusedIsBlocked ==
  ASSUME TypeOK, PlaceOK, WaitsExact, UnlinkOK
  PROVE  CycleIsReal
<1> SUFFICES ASSUME closing # "cancelled", NEW g \in Builders, at[g] = "link",
                    Reach(att[g], g[1]), NEW S \in SUBSET Attempt, att[g] \in S,
                    \A a \in S : BlockedOn(a) \subseteq S
             PROVE  g[1] \in S
  BY DEF CycleIsReal
<1> DEFINE T == S \cup {b \in Attempt : phase[b] \in {"finished", "done"}}
<1>1. ASSUME NEW a \in T PROVE WaitsOn(a) \subseteq T
  <2>1. CASE phase[a] \in {"finished", "done"}
    BY <2>1, IdleWaitsOnNothing
  <2>2. CASE a \in S
    BY <2>2, WaitsAreBlocked DEF WaitsOn
  <2> QED
    BY <2>1, <2>2
<1>2. g[1] \in T
  BY <1>1 DEF Reach
<1>3. phase[g[1]] = "running"
  BY DEF PlaceOK
<1> QED
  BY <1>2, <1>3

-----------------------------------------------------------------------------
(* Epochs.                                                                 *)

\* Steps that change no epoch, and end no attempt of use to anybody.
LEMMA EpochFrame ==
  ASSUME EpochOK, TypeOK, UNCHANGED <<val, epoch, of, began, got, since>>,
         \A a \in Attempt : phase'[a] = phase[a]
            \/ (phase[a] # "unused" /\ phase'[a] \in {"finished", "done"})
            \/ (phase[a] = "created" /\ phase'[a] = "running")
  PROVE  EpochOK'
<1>1. \A n \in Provider : val[n] # None => val[n] \in Attempt
  BY DEF TypeOK, NodeTypes
<1>2. \A a \in Attempt : got[a] \subseteq Attempt
  BY DEF TypeOK, ScopeTypes
<1>3. (\A a \in Attempt : phase[a] # "unused" => began[a] <= epoch[of[a]])'
  BY DEF EpochOK
<1>4. (\A n \in Provider : val[n] # None =>
        of[val[n]] = n /\ phase[val[n]] \in {"finished", "done"} /\ UpToDate(val[n]))'
  BY <1>1 DEF EpochOK, UpToDate
<1>5. (\A a \in Attempt : phase[a] \in {"unused", "created"} => got[a] = {})'
  BY DEF EpochOK
<1>6. (\A a \in Attempt : \A u \in got[a] : phase[u] \in {"finished", "done"})'
  BY <1>2 DEF EpochOK
<1>7. (\A i \in Invalidator : since[i] # <<>> => since[i][2] <= epoch[since[i][1]])'
  BY DEF EpochOK
<1> QED
  BY <1>3, <1>4, <1>5, <1>6, <1>7 DEF EpochOK

LEMMA MovesEpochs ==
  ASSUME TypeOK, PlaceOK, EpochOK, NEW g \in Goroutine, Moves(g)
  PROVE  EpochOK'
<1>1. CASE Gains(g)
  <2>1. PICK a \in Attempt, u \in Attempt :
          /\ phase[a] = "running" /\ phase[u] \in {"finished", "done"}
          /\ got' = [got EXCEPT ![a] = @ \cup {u}]
    BY <1>1 DEF Gains, PlaceOK, Goroutine, Builders
  <2>2. UNCHANGED <<val, epoch, of, began, phase, since>>
    BY <1>1 DEF Gains, nodeVars, builtVars, invalVars
  <2>3. /\ \A b \in Attempt : phase[b] \in {"unused", "created"} => got'[b] = {}
        /\ \A b \in Attempt : \A w \in got'[b] : phase[w] \in {"finished", "done"}
    BY <2>1 DEF EpochOK, TypeOK, ScopeTypes
  <2> QED
    BY <2>2, <2>3 DEF EpochOK, UpToDate
<1>2. CASE EnterStarts(g)
  <2>1. PICK a \in Attempt, n \in Provider :
          /\ phase[a] = "unused"
          /\ phase' = [phase EXCEPT ![a] = IF g \in Caller THEN "running" ELSE "created"]
          /\ of' = [of EXCEPT ![a] = n]
          /\ began' = [began EXCEPT ![a] = epoch[n]]
    BY <1>2, StartFacts
  <2>2. UNCHANGED <<val, epoch, got, since>>
    BY <1>2 DEF EnterStarts, scopeVars, invalVars
  <2>3. \A b \in Attempt : b # a => phase'[b] = phase[b] /\ of'[b] = of[b]
                                   /\ began'[b] = began[b]
    BY <2>1 DEF TypeOK, AttemptTypes
  <2>4. phase'[a] # "unused" /\ of'[a] = n /\ began'[a] = epoch[n] /\ epoch[n] \in Nat
    BY <2>1 DEF TypeOK, AttemptTypes, NodeTypes
  <2>5. \A b \in Attempt : phase'[b] # "unused" => began'[b] <= epoch[of'[b]]
    BY <2>3, <2>4 DEF EpochOK
  <2>6. \A m \in Provider : val[m] # None =>
           of'[val[m]] = m /\ phase'[val[m]] \in {"finished", "done"}
           /\ began'[val[m]] = epoch[m]
    <3> SUFFICES ASSUME NEW m \in Provider, val[m] # None
                 PROVE  of'[val[m]] = m /\ phase'[val[m]] \in {"finished", "done"}
                        /\ began'[val[m]] = epoch[m]
      OBVIOUS
    <3>1. val[m] \in Attempt /\ val[m] # a
      BY <2>1 DEF EpochOK, TypeOK, NodeTypes
    <3> QED
      BY <2>3, <3>1 DEF EpochOK, UpToDate
  <2>7. \A b \in Attempt : phase'[b] \in {"unused", "created"} => got[b] = {}
    BY <2>1, <2>3 DEF EpochOK
  <2>8. \A b \in Attempt : \A u \in got[b] : phase'[u] \in {"finished", "done"}
    BY <2>1, <2>3 DEF EpochOK, TypeOK, ScopeTypes
  <2> QED
    BY <2>2, <2>5, <2>6, <2>7, <2>8 DEF EpochOK, UpToDate
<1>3. CASE ~Gains(g) /\ ~EnterStarts(g)
  BY <1>3, EpochFrame
     DEF Moves, Hops, Grabs, Parks, EnterJoins, nodeVars, builtVars, scopeVars, invalVars
<1> QED
  BY <1>1, <1>2, <1>3

\* finish publishes what is not out of date.
LEMMA FinishEpochs ==
  ASSUME TypeOK, EpochOK, NEW a \in Attempt, Finish(a)
  PROVE  EpochOK'
<1>1. PICK n \in Provider : of[a] = n
  BY DEF Finish, BuilderReturns, TypeOK, AttemptTypes
<1>2. /\ phase[a] = "running" /\ phase' = [phase EXCEPT ![a] = "finished"]
      /\ UNCHANGED <<epoch, of, began, got, since>>
      /\ val' = val \/ (val' = [val EXCEPT ![n] = a] /\ began[a] = epoch[n])
  BY <1>1 DEF Finish, BuilderReturns, Publishes, scopeVars, invalVars
<1>3. CASE val' = val
  BY <1>2, <1>3, EpochFrame DEF TypeOK, AttemptTypes
<1>4. CASE val' = [val EXCEPT ![n] = a] /\ began[a] = epoch[n]
  <2>1. \A b \in Attempt : b # a => phase'[b] = phase[b]
    BY <1>2 DEF TypeOK, AttemptTypes
  <2>2. phase'[a] = "finished"
    BY <1>2 DEF TypeOK, AttemptTypes
  <2>3. \A m \in Provider : val'[m] # None =>
           of[val'[m]] = m /\ phase'[val'[m]] \in {"finished", "done"}
           /\ began[val'[m]] = epoch[m]
    <3> SUFFICES ASSUME NEW m \in Provider, val'[m] # None
                 PROVE  of[val'[m]] = m /\ phase'[val'[m]] \in {"finished", "done"}
                        /\ began[val'[m]] = epoch[m]
      OBVIOUS
    <3>1. CASE m = n
      BY <1>1, <1>4, <2>2, <3>1 DEF TypeOK, NodeTypes
    <3>2. CASE m # n
      BY <1>4, <2>1, <2>2, <3>2 DEF TypeOK, NodeTypes, EpochOK, UpToDate
    <3> QED
      BY <3>1, <3>2
  <2>4. \A b \in Attempt : phase'[b] \in {"unused", "created"} => got[b] = {}
    BY <2>1, <2>2 DEF EpochOK
  <2>5. \A b \in Attempt : \A u \in got[b] : phase'[u] \in {"finished", "done"}
    BY <2>1, <2>2 DEF EpochOK, TypeOK, ScopeTypes
  <2>6. \A b \in Attempt : phase'[b] # "unused" => began[b] <= epoch[of[b]]
    BY <1>2, <2>1 DEF EpochOK
  <2> QED
    BY <1>2, <2>3, <2>4, <2>5, <2>6 DEF EpochOK, UpToDate
<1> QED
  BY <1>2, <1>3, <1>4

\* invalidate leaves its provider without a value, and what it was building out
\* of date.
LEMMA InvalidateEpochs ==
  ASSUME TypeOK, EpochOK, NEW n \in Provider, UNCHANGED <<phase, of, began, got>>,
         epoch' = [epoch EXCEPT ![n] = NextEpoch(n)], val' = [val EXCEPT ![n] = None],
         \A i \in Invalidator : since'[i] = since[i] \/ since'[i] = <<n, epoch[n] + 1>>
  PROVE  EpochOK'
<1>1. \A m \in Provider : epoch[m] \in Nat /\ epoch'[m] = IF m = n THEN epoch[m] + 1 ELSE epoch[m]
  BY DEF TypeOK, NodeTypes, NextEpoch
<1>2. \A a \in Attempt : phase[a] # "unused" => of[a] \in Provider /\ began[a] \in Nat
  BY DEF TypeOK, AttemptTypes
<1>3. \A a \in Attempt : phase[a] # "unused" => began[a] <= epoch'[of[a]]
  BY <1>1, <1>2 DEF EpochOK
<1>4. \A m \in Provider : val'[m] = IF m = n THEN None ELSE val[m]
  BY DEF TypeOK, NodeTypes
<1>5. \A m \in Provider : val'[m] # None =>
         of[val'[m]] = m /\ phase[val'[m]] \in {"finished", "done"} /\ began[val'[m]] = epoch'[m]
  BY <1>1, <1>4 DEF EpochOK, UpToDate
<1>6. \A i \in Invalidator : since'[i] # <<>> => since'[i][2] <= epoch'[since'[i][1]]
  <2> SUFFICES ASSUME NEW i \in Invalidator, since'[i] # <<>>
               PROVE  since'[i][2] <= epoch'[since'[i][1]]
    OBVIOUS
  <2>1. CASE since'[i] = <<n, epoch[n] + 1>>
    BY <1>1, <2>1
  <2>2. CASE since'[i] = since[i]
    <3>1. since[i][1] \in Provider /\ since[i][2] \in Nat /\ since[i][2] <= epoch[since[i][1]]
      BY <2>2 DEF TypeOK, InvalTypes, EpochOK
    <3> QED
      BY <1>1, <2>2, <3>1
  <2> QED
    BY <2>1, <2>2
<1> QED
  BY <1>3, <1>5, <1>6 DEF EpochOK, UpToDate

LEMMA EpochStep ==
  ASSUME TypeOK, PlaceOK, StarterOK, WaitsExact, EpochOK, [Next]_vars
  PROVE  EpochOK'
<1>1. ASSUME NEW c \in Caller, NEW n \in Provider, Call(c, n) PROVE EpochOK'
  BY <1>1, EpochFrame DEF Call, nodeVars, builtVars, scopeVars, invalVars
<1>2. ASSUME NEW g \in Builders, NEW n \in Provider, From(g, n) PROVE EpochOK'
  BY <1>2, EpochFrame DEF From, nodeVars, builtVars, invalVars
<1>3. ASSUME NEW g \in Builders, Read(g) PROVE EpochOK'
  <2>1. CASE Link(g)
    <3>1. att[g] \in Attempt /\ (mine[g] => phase[att[g]] = "created")
      BY <2>1, BuilderFacts DEF Link, StarterOK, PlaceOK
    <3> QED
      BY <2>1, <3>1, EpochFrame
         DEF Link, nodeVars, builtVars, scopeVars, invalVars, TypeOK, AttemptTypes
  <2>2. CASE FindsCycle(g)
    <3>1. ~mine[g] /\ UNCHANGED got
      BY <2>2, NewBuildsNeverRefused DEF FindsCycle, Fails
    <3> QED
      BY <2>2, <3>1, EpochFrame DEF FindsCycle, invalVars
  <2>3. CASE Unlink(g)
    <3>1. UNCHANGED got
      BY <2>3 DEF Unlink, Resume, Fails
    <3> QED
      BY <2>3, <3>1, EpochFrame DEF Unlink, nodeVars, builtVars, invalVars
  <2> QED
    BY <1>3, <2>1, <2>2, <2>3 DEF Read
<1>4. ASSUME NEW a \in Attempt, CloseDone(a) PROVE EpochOK'
  BY <1>4, EpochFrame
     DEF CloseDone, nodeVars, builtVars, scopeVars, invalVars, TypeOK, AttemptTypes
<1>5. ASSUME NEW i \in Invalidator, NEW n \in Provider,
             InvalidateCalled(i, n) \/ InvalidateDependent(i, n)
      PROVE  EpochOK'
  <2>1. /\ UNCHANGED <<phase, of, began, got>>
        /\ epoch' = [epoch EXCEPT ![n] = NextEpoch(n)]
        /\ val' = [val EXCEPT ![n] = None]
    BY <1>5 DEF InvalidateCalled, InvalidateDependent, Invalidate, builtVars, scopeVars
  <2>2. \A j \in Invalidator : since'[j] = since[j] \/ since'[j] = <<n, epoch[n] + 1>>
    BY <1>5 DEF InvalidateCalled, InvalidateDependent, TypeOK, InvalTypes
  <2> QED
    BY <2>1, <2>2, InvalidateEpochs
<1>6. ASSUME NEW i \in Invalidator, ReleaseOld(i) PROVE EpochOK'
  BY <1>6, EpochFrame DEF ReleaseOld, nodeVars, builtVars, scopeVars
<1>7. ASSUME CloseBegins \/ Cancel \/ UNCHANGED vars PROVE EpochOK'
  BY <1>7, EpochFrame
     DEF CloseBegins, Cancel, vars, nodeVars, builtVars, scopeVars, invalVars
<1>8. ASSUME Shut PROVE EpochOK'
  <2>1. \A n \in Provider : val'[n] \in {val[n], None}
    BY <1>8 DEF Shut, TypeOK, NodeTypes
  <2>2. UNCHANGED <<phase, epoch, of, began, got, since>>
    BY <1>8 DEF Shut, builtVars, scopeVars, invalVars
  <2> QED
    BY <2>1, <2>2 DEF EpochOK, UpToDate
<1> QED
  BY <1>1, <1>2, <1>3, <1>4, <1>5, <1>6, <1>7, <1>8, GetMoves, MovesEpochs,
     FinishEpochs DEF Next, Terminated, Recurse

-----------------------------------------------------------------------------
(* Types, concluded.                                                       *)

LEMMA WaitTypesKept ==
  ASSUME TypeOK, PlaceOK, WaitsExact', NEW g \in Builders, Link(g) \/ Unlink(g)
  PROVE  WaitTypes'
<1>1. PICK x \in Attempt, y \in Attempt : g[1] = x /\ att[g] = y
  BY BuilderFacts DEF Link, Unlink, PlaceOK
<1>2. \E k \in {1, -1} : waits' = [waits EXCEPT ![x][y] = waits[x][y] + k]
  BY <1>1 DEF Link, Unlink, OneWaitLess, TypeOK, WaitTypes
<1>3. waits' \in [Attempt -> [Attempt -> Int]]
  BY <1>2, WaitingFinite DEF TypeOK, WaitTypes
<1>4. \A a, b \in Attempt : Cardinality(Waiting(a, b)') \in 0..Cardinality(Slot)
  <2> SUFFICES ASSUME NEW a \in Attempt, NEW b \in Attempt
               PROVE  Cardinality(Waiting(a, b)') \in 0..Cardinality(Slot)
    OBVIOUS
  <2>1. Waiting(a, b)' \subseteq Slot
    BY DEF Waiting
  <2> QED
    BY <2>1, NodeAssumption, FS_Subset, FS_CardinalityType DEF NodeAssumption
<1>5. \A a, b \in Attempt : waits'[a][b] \in 0..Cardinality(Slot)
  BY <1>4 DEF WaitsExact
<1> QED
  BY <1>3, <1>5 DEF WaitTypes

LEMMA ReadTypes ==
  ASSUME TypeOK, PlaceOK, StarterOK, WaitsExact, WaitsExact', NEW g \in Builders, Read(g)
  PROVE  TypeOK'
<1>1. g \in Goroutine /\ g \notin Caller
  BY BuilderFacts
<1>2. ASSUME Link(g) PROVE TypeOK'
  <2>1. CallTypes'
    BY <1>1, <1>2, GotoTypes DEF Link, TypeOK, Places, getVars
  <2>2. att[g] \in Attempt /\ phase[att[g]] # "unused"
    BY <1>1, <1>2 DEF Link, PlaceOK
  <2>3. AttemptTypes'
    BY <1>2, <2>2 DEF Link, TypeOK, AttemptTypes, builtVars
  <2>4. WaitTypes'
    BY <1>2, WaitTypesKept
  <2> QED
    BY <1>2, <2>1, <2>3, <2>4, TypeFrames DEF Link, TypeOK, getVars
<1>3. ASSUME FindsCycle(g) PROVE TypeOK'
  <2>1. CallTypes' /\ ScopeTypes'
    BY <1>1, <1>3, FailTypes DEF FindsCycle, TypeOK, Errors
  <2>2. UNCHANGED <<cur, err, phase>>
    BY <1>3, NewBuildsNeverRefused DEF FindsCycle
  <2> QED
    BY <1>3, <2>1, <2>2, TypeFrames DEF FindsCycle, TypeOK, nodeVars, builtVars
<1>4. ASSUME Unlink(g) PROVE TypeOK'
  <2>1. att[g] \in Attempt /\ outcome[g] \in Errors \cup {"none", "done"}
    BY <1>1, <1>4 DEF Unlink, PlaceOK, TypeOK, GetTypes
  <2>2. CallTypes' /\ ScopeTypes'
    BY <1>1, <1>4, <2>1, ResumeTypes DEF Unlink, TypeOK
  <2>3. WaitTypes'
    BY <1>4, WaitTypesKept
  <2> QED
    BY <1>4, <2>2, <2>3, TypeFrames DEF Unlink, TypeOK
<1> QED
  BY <1>2, <1>3, <1>4 DEF Read

LEMMA RunTypes ==
  ASSUME TypeOK, NEW a \in Attempt, Finish(a) \/ CloseDone(a)
  PROVE  TypeOK'
<1>1. CASE Finish(a)
  <2>1. PICK n \in Provider, e \in Errors \cup {"none"} :
          /\ of[a] = n
          /\ phase' = [phase EXCEPT ![a] = "finished"]
          /\ err' = [err EXCEPT ![a] = e]
          /\ stale' = [stale EXCEPT ![a] = e = "none" /\ ~Publishes(a)]
          /\ cur' = [cur EXCEPT ![n] = None]
          /\ val' = val \/ val' = [val EXCEPT ![n] = a]
          /\ phase[a] = "running"
    BY <1>1 DEF Finish, BuilderReturns, TypeOK, AttemptTypes
  <2>2. NodeTypes'
    BY <1>1, <2>1 DEF Finish, TypeOK, NodeTypes
  <2>3. (e = "none" /\ ~Publishes(a)) \in BOOLEAN
    OBVIOUS
  <2>4. AttemptTypes'
    BY <1>1, <2>1, <2>3 DEF Finish, TypeOK, AttemptTypes
  <2> QED
    BY <1>1, <2>2, <2>4, TypeFrames DEF Finish, TypeOK, getVars
<1>2. CASE CloseDone(a)
  <2>1. AttemptTypes'
    BY <1>2 DEF CloseDone, TypeOK, AttemptTypes, builtVars
  <2> QED
    BY <1>2, <2>1, TypeFrames DEF CloseDone, TypeOK, getVars
<1> QED
  BY <1>1, <1>2

Frame == [todo : SUBSET Provider, old : Attempt \cup {None}]

LEMMA InvalidateTypes ==
  ASSUME TypeOK, NEW i \in Invalidator, NEW n \in Provider, NEW below \in Seq(Frame),
         Invalidate(i, n, below),
         since' = since \/ since' = [since EXCEPT ![i] = <<n, epoch[n] + 1>>]
  PROVE  TypeOK'
<1>1. NodeTypes'
  BY DEF Invalidate, NextEpoch, TakeDependents, TypeOK, NodeTypes
<1>2. [todo |-> dependents[n], old |-> val[n]] \in Frame
  BY DEF TypeOK, NodeTypes, Frame
<1>3. Append(below, [todo |-> dependents[n], old |-> val[n]]) \in Seq(Frame)
  BY <1>2
<1>4. frames' \in [Invalidator -> Seq(Frame)]
  BY <1>3 DEF Invalidate, TypeOK, InvalTypes, Frame
<1>5. since' \in [Invalidator -> (Provider \X Nat) \cup {<<>>}]
  <2>1. <<n, epoch[n] + 1>> \in Provider \X Nat
    BY DEF TypeOK, NodeTypes
  <2> QED
    BY <2>1 DEF TypeOK, InvalTypes
<1>6. InvalTypes'
  BY <1>4, <1>5 DEF InvalTypes, Frame
<1> QED
  BY <1>1, <1>6, TypeFrames DEF Invalidate, TypeOK, getVars

LEMMA ApartTypes ==
  ASSUME TypeOK,
         \/ \E i \in Invalidator : Recurse(i) \/ \E n \in Provider : InvalidateCalled(i, n)
         \/ CloseBegins \/ Cancel \/ Shut
  PROVE  TypeOK'
<1>1. ASSUME NEW i \in Invalidator, NEW n \in Provider, InvalidateCalled(i, n)
      PROVE  TypeOK'
  <2>1. <<>> \in Seq(Frame)
    OBVIOUS
  <2> QED
    BY <1>1, <2>1, InvalidateTypes DEF InvalidateCalled
<1>2. ASSUME NEW i \in Invalidator, frames[i] # <<>>
      PROVE  /\ frames[i] \in Seq(Frame) /\ Len(frames[i]) \in Nat \ {0}
             /\ Top(i) \in Frame
  <2>1. frames[i] \in Seq(Frame)
    BY DEF TypeOK, InvalTypes, Frame
  <2> QED
    BY <1>2, <2>1 DEF Top
<1>3. ASSUME NEW i \in Invalidator, NEW m \in Provider, InvalidateDependent(i, m)
      PROVE  TypeOK'
  <2> DEFINE top == [todo |-> Top(i).todo \ {m}, old |-> Top(i).old]
             below == [frames[i] EXCEPT ![Len(frames[i])] = top]
  <2>1. frames[i] \in Seq(Frame) /\ Top(i) \in Frame
    BY <1>2, <1>3 DEF InvalidateDependent
  <2>2. top \in Frame
    BY <2>1 DEF Frame
  <2> HIDE DEF top
  <2>3. Len(frames[i]) \in 1..Len(frames[i])
    BY <1>2, <1>3 DEF InvalidateDependent
  <2>4. below \in Seq(Frame)
    BY <2>1, <2>2, <2>3, ExceptSeq
  <2> QED
    BY <1>3, <2>4, InvalidateTypes DEF InvalidateDependent, top
<1>4. ASSUME NEW i \in Invalidator, ReleaseOld(i) PROVE TypeOK'
  <2>1. SubSeq(frames[i], 1, Len(frames[i]) - 1) \in Seq(Frame)
    BY <1>2, <1>4 DEF ReleaseOld
  <2>2. InvalTypes'
    BY <1>4, <2>1 DEF ReleaseOld, TypeOK, InvalTypes, Frame
  <2>3. Top(i).old \in Attempt \cup {None}
    BY <1>2, <1>4 DEF ReleaseOld, Frame
  <2>4. CloseTypes'
    BY <1>4, <2>3 DEF ReleaseOld, TypeOK, CloseTypes, closeVars
  <2> QED
    BY <1>4, <2>2, <2>4, TypeFrames DEF ReleaseOld, TypeOK, getVars
<1>5. ASSUME CloseBegins \/ Cancel PROVE TypeOK'
  <2>1. CloseTypes'
    BY <1>5 DEF CloseBegins, Cancel, TypeOK, CloseTypes
  <2> QED
    BY <1>5, <2>1, TypeFrames DEF CloseBegins, Cancel, TypeOK, getVars
<1>6. ASSUME Shut PROVE TypeOK'
  <2>1. toShut[Len(toShut)] \in Provider /\ SubSeq(toShut, 1, Len(toShut) - 1) \in Seq(Provider)
    BY <1>6 DEF Shut, TypeOK, CloseTypes
  <2>2. NodeTypes'
    BY <1>6, <2>1 DEF Shut, ShutCloses, TypeOK, NodeTypes
  <2>3. CloseTypes'
    BY <1>6, <2>1 DEF Shut, TypeOK, CloseTypes, NodeTypes
  <2> QED
    BY <1>6, <2>2, <2>3, TypeFrames DEF Shut, TypeOK, getVars
<1> QED
  BY <1>1, <1>3, <1>4, <1>5, <1>6 DEF Recurse

LEMMA TypeStep ==
  ASSUME TypeOK, PlaceOK, StarterOK, WaitsExact, [Next]_vars
  PROVE  TypeOK'
<1>1. WaitsExact'
  BY WaitsStep
<1>2. ASSUME UNCHANGED vars PROVE TypeOK'
  BY <1>2, TypeFrames DEF vars, getVars, TypeOK
<1> QED
  BY <1>1, <1>2, CallTypesKept, FromTypes, GetTypesKept, ReadTypes, RunTypes,
     ApartTypes DEF Next, Terminated

-----------------------------------------------------------------------------
(* The recursion of invalidate, as a step of it changes it.                *)

LEMMA FramesFacts ==
  ASSUME TypeOK, NEW i \in Invalidator
  PROVE  /\ frames[i] \in Seq(Frame) /\ Len(frames[i]) \in Nat
         /\ \A k \in 1..Len(frames[i]) : frames[i][k] \in Frame
         /\ frames[i] # <<>> => Len(frames[i]) >= 1 /\ Top(i) = frames[i][Len(frames[i])]
<1>1. frames[i] \in Seq(Frame)
  BY DEF TypeOK, InvalTypes, Frame
<1> QED
  BY <1>1 DEF Top

\* A step of invalidate on n: the recursion as it becomes.
LEMMA InvalidateFrames ==
  ASSUME TypeOK, NEW i \in Invalidator, NEW n \in Provider,
         since[i] = <<>> => frames[i] = <<>>,
         InvalidateCalled(i, n) \/ InvalidateDependent(i, n)
  PROVE  LET L == Len(frames[i]) IN
         /\ Len(frames'[i]) = L + 1
         /\ frames'[i][L + 1].todo = dependents[n] /\ frames'[i][L + 1].old = val[n]
         /\ \A k \in 1..L : /\ frames'[i][k].todo = IF k = L THEN frames[i][k].todo \ {n}
                                                            ELSE frames[i][k].todo
                            /\ frames'[i][k].old = frames[i][k].old
         /\ L # 0 => n \in frames[i][L].todo
         /\ \A j \in Invalidator : j # i => frames'[j] = frames[j]
<1> DEFINE L == Len(frames[i])
           new == [todo |-> dependents[n], old |-> val[n]]
<1>1. new \in Frame /\ new.todo = dependents[n] /\ new.old = val[n]
  BY DEF Frame, TypeOK, NodeTypes
<1>2. frames[i] \in Seq(Frame) /\ L \in Nat
  BY FramesFacts
<1> HIDE DEF new
<1>3. CASE InvalidateCalled(i, n)
  <2>1. frames[i] = <<>> /\ frames' = [frames EXCEPT ![i] = Append(<<>>, new)]
    BY <1>3 DEF InvalidateCalled, Invalidate, new
  <2>2. frames'[i] = <<new>> /\ \A j \in Invalidator : j # i => frames'[j] = frames[j]
    BY <2>1 DEF TypeOK, InvalTypes
  <2> QED
    BY <1>1, <2>1, <2>2
<1>4. CASE InvalidateDependent(i, n)
  <2> DEFINE top == [todo |-> Top(i).todo \ {n}, old |-> Top(i).old]
             below == [frames[i] EXCEPT ![L] = top]
  <2>1. /\ L \in 1..L /\ Top(i) \in Frame /\ Top(i) = frames[i][L]
        /\ n \in frames[i][L].todo
    BY <1>4, FramesFacts DEF InvalidateDependent
  <2>2. top \in Frame /\ top.todo = frames[i][L].todo \ {n} /\ top.old = frames[i][L].old
    BY <2>1 DEF Frame
  <2>3. frames' = [frames EXCEPT ![i] = Append(below, new)]
    BY <1>4 DEF InvalidateDependent, Invalidate, new
  <2> HIDE DEF top
  <2>4. /\ below \in Seq(Frame) /\ Len(below) = L
        /\ \A k \in 1..L : below[k] = IF k = L THEN top ELSE frames[i][k]
    BY <1>2, <2>1, <2>2, ExceptSeq
  <2> HIDE DEF below
  <2>5. frames'[i] = Append(below, new) /\ \A j \in Invalidator : j # i => frames'[j] = frames[j]
    BY <2>3 DEF TypeOK, InvalTypes
  <2>6. /\ Len(frames'[i]) = L + 1 /\ frames'[i][L + 1] = new
        /\ \A k \in 1..L : frames'[i][k] = below[k]
    BY <1>1, <1>2, <2>4, <2>5
  <2> QED
    BY <1>1, <2>1, <2>2, <2>4, <2>5, <2>6, ZenonT(30)
<1> QED
  BY <1>3, <1>4

LEMMA ReleaseFrames ==
  ASSUME TypeOK, NEW i \in Invalidator, ReleaseOld(i)
  PROVE  /\ Len(frames[i]) >= 1 /\ Len(frames'[i]) = Len(frames[i]) - 1
         /\ frames[i][Len(frames[i])].todo = {}
         /\ \A k \in 1..(Len(frames[i]) - 1) : frames'[i][k] = frames[i][k]
         /\ \A j \in Invalidator : j # i => frames'[j] = frames[j]
<1>1. /\ frames[i] \in Seq(Frame) /\ Len(frames[i]) >= 1 /\ Len(frames[i]) \in Nat
      /\ frames[i][Len(frames[i])].todo = {}
  BY FramesFacts DEF ReleaseOld
<1>2. /\ frames'[i] = SubSeq(frames[i], 1, Len(frames[i]) - 1)
      /\ \A j \in Invalidator : j # i => frames'[j] = frames[j]
  BY DEF ReleaseOld, TypeOK, InvalTypes
<1> QED
  BY <1>1, <1>2

-----------------------------------------------------------------------------
(* The invariant of builds and waits, and what follows from it.            *)

LEMMA BuildInit == Start /\ members \in Seq(Provider) => BuildInv
<1> SUFFICES ASSUME Start, members \in Seq(Provider) PROVE BuildInv
  OBVIOUS
<1> USE NodeAssumption DEF Start, NodeAssumption
<1>1. TypeOK
  <2>1. 0 \in 0..Cardinality(Slot)
    BY FS_CardinalityType
  <2> QED
    BY <2>1 DEF TypeOK, NodeTypes, AttemptTypes, WaitTypes, ScopeTypes, GetTypes,
                CallTypes, InvalTypes, CloseTypes, Places, Goroutine
<1>2. PlaceOK /\ StarterOK /\ UnlinkOK
  BY BuilderFacts DEF PlaceOK, StarterOK, UnlinkOK
<1>3. SingleFlight
  BY DEF SingleFlight, InFlight
<1>4. WaitsExact
  <2>1. \A a, b \in Attempt : Waiting(a, b) = {}
    BY BuilderFacts DEF Waiting, Builders
  <2> QED
    BY <2>1, FS_EmptySet DEF WaitsExact
<1>5. NoWaitCycle
  BY DEF NoWaitCycle, WaitsOn
<1>6. EpochOK
  BY DEF EpochOK
<1> QED
  BY <1>1, <1>2, <1>3, <1>4, <1>5, <1>6 DEF BuildInv

LEMMA BuildStep == BuildInv /\ [Next]_vars /\ BuildsDeferred => BuildInv'
<1> SUFFICES ASSUME BuildInv, [Next]_vars, BuildsDeferred PROVE BuildInv'
  OBVIOUS
<1> USE DEF BuildInv
<1>1. TypeOK'
  BY TypeStep
<1>2. PlaceOK'
  BY PlaceStep
<1>3. StarterOK' /\ SingleFlight'
  BY StarterStep, FlightStep
<1>4. WaitsExact' /\ NoWaitCycle' /\ UnlinkOK'
  BY WaitsStep, AcyclicStep, UnlinkStep
<1>5. EpochOK'
  BY EpochStep
<1> QED
  BY <1>1, <1>2, <1>3, <1>4, <1>5

\* The invariant of builds and waits holds in every state the providers reach.
THEOREM BuildInvariant == Spec => []BuildInv
<1>1. Init => Eager = {} /\ BuildInv
  BY BuildInit, NodeAssumption DEF Init, NodeAssumption
<1>2. (Eager = {} /\ BuildInv) /\ [Next]_vars => (Eager = {} /\ BuildInv)'
  BY BuildStep DEF BuildsDeferred
<1> QED
  BY <1>1, <1>2, PTL DEF Spec

\* The variables keep their types, and a call that is over has one result.
THEOREM TypesKept == Spec => []TypeOK
<1>1. BuildInv => TypeOK
  BY DEF BuildInv
<1> QED
  BY <1>1, BuildInvariant, PTL

\* One build at a time, which is the one callers find, and none while there is
\* a value, however callers, builders, invalidations and Close interleave.
THEOREM FlightsAreSingle == Spec => []SingleFlight
<1>1. BuildInv => SingleFlight
  BY DEF BuildInv
<1> QED
  BY <1>1, BuildInvariant, PTL

\* The wait-for graph counts exactly the goroutines that wait.
THEOREM WaitsAreCounted == Spec => []WaitsExact
<1>1. BuildInv => WaitsExact
  BY DEF BuildInv
<1> QED
  BY <1>1, BuildInvariant, PTL

\* No builds wait on each other in a circle, whatever the providers read.
THEOREM NobodyWaitsInACircle == Spec => []NoWaitCycle
<1>1. BuildInv => NoWaitCycle
  BY DEF BuildInv
<1> QED
  BY <1>1, BuildInvariant, PTL

\* ErrCycle is never a false alarm: when waitFor refuses, waiting would have
\* closed a circle of blocked builds.
THEOREM CyclesAreReal == Spec => []CycleIsReal
<1>1. BuildInv => CycleIsReal
  BY RefusedIsBlocked DEF BuildInv
<1> QED
  BY <1>1, BuildInvariant, PTL

\* The error path of get that would finish an attempt before it ran
\* (node.go:131) is never taken: waitFor refuses no attempt of its caller's.
THEOREM CreatedIsRun ==
  Spec => [](\A g \in Builders : at[g] = "link" /\ mine[g] => ~Reach(att[g], g[1]))
<1>1. BuildInv => \A g \in Builders : at[g] = "link" /\ mine[g] => ~Reach(att[g], g[1])
  BY NewBuildsNeverRefused DEF BuildInv
<1> QED
  BY <1>1, BuildInvariant, PTL

-----------------------------------------------------------------------------
(* Builds go on.                                                           *)

\* The goroutine that created an attempt is about to run it, until it does.
LEMMA StepsStep ==
  ASSUME BuildInv, StepsOK, [Next]_vars
  PROVE  StepsOK'
<1> USE BuilderFacts
<1>1. ASSUME NEW g \in Goroutine, NEW p, at' = [at EXCEPT ![g] = p],
             p = "over" => g \in Caller, at[g] = "link" => ~mine[g],
             UNCHANGED <<phase, err, closing, closed>>,
             \A h \in Builders : h # g => att'[h] = att[h] /\ mine'[h] = mine[h]
      PROVE  StepsOK'
  BY <1>1 DEF StepsOK, BuildInv, TypeOK, CallTypes
<1>2. ASSUME NEW c \in Caller, NEW n \in Provider, Call(c, n) PROVE StepsOK'
  BY <1>1, <1>2 DEF Call, Goto, Goroutine, builtVars, closeVars, nodeVars
<1>3. ASSUME NEW g \in Builders, NEW n \in Provider, From(g, n) PROVE StepsOK'
  BY <1>1, <1>3 DEF From, Asks, Goto, builtVars, closeVars, nodeVars
<1>4. ASSUME NEW g \in Goroutine, Moves(g), ~EnterStarts(g) PROVE StepsOK'
  <2>1. CASE Hops(g)
    BY <1>1, <2>1 DEF Hops, Goto, builtVars, closeVars, nodeVars
  <2>2. CASE Grabs(g)
    BY <1>1, <2>2 DEF Grabs, Goto, builtVars, closeVars, nodeVars
  <2>3. CASE Gains(g)
    BY <1>1, <2>3 DEF Gains, Goto, builtVars, closeVars, nodeVars
  <2>4. CASE Parks(g)
    BY <1>1, <2>4 DEF Parks, Goto, builtVars, closeVars, nodeVars
  <2>5. CASE EnterJoins(g)
    <3>1. \A h \in Builders : h # g => att'[h] = att[h] /\ mine'[h] = mine[h]
      BY <2>5 DEF EnterJoins, BuildInv, TypeOK, GetTypes
    <3> QED
      BY <1>1, <2>5, <3>1 DEF EnterJoins, Goto, builtVars, closeVars, nodeVars
  <2> QED
    BY <1>4, <2>1, <2>2, <2>3, <2>4, <2>5 DEF Moves
<1>5. ASSUME NEW g \in Goroutine, EnterStarts(g) PROVE StepsOK'
  <2>1. PICK a \in Attempt :
            /\ phase[a] = "unused"
            /\ phase' = [phase EXCEPT ![a] = IF g \in Caller THEN "running" ELSE "created"]
            /\ att' = [att EXCEPT ![g] = a] /\ mine' = [mine EXCEPT ![g] = TRUE]
            /\ at[g] = "lock"
            /\ at' = [at EXCEPT ![g] = IF g \in Caller THEN "wait" ELSE "link"]
    BY <1>5, StartFacts DEF BuildInv
  <2>2. UNCHANGED <<err, closing, closed>>
    BY <1>5 DEF EnterStarts, closeVars
  <2>3. /\ \A h \in Builders : h # g => at'[h] = at[h] /\ att'[h] = att[h] /\ mine'[h] = mine[h]
        /\ at'[g] = (IF g \in Caller THEN "wait" ELSE "link") /\ att'[g] = a /\ mine'[g]
    BY <2>1 DEF BuildInv, TypeOK, CallTypes, GetTypes
  <2>4. /\ \A b \in Attempt : b # a => phase'[b] = phase[b]
        /\ phase'[a] = IF g \in Caller THEN "running" ELSE "created"
    BY <2>1 DEF BuildInv, TypeOK, AttemptTypes
  <2>5. g \notin Caller => g \in Builders
    BY DEF Goroutine, Builders
  <2> QED
    BY <2>1, <2>2, <2>3, <2>4, <2>5 DEF StepsOK
<1>6. ASSUME NEW g \in Builders, Read(g) PROVE StepsOK'
  <2>1. CASE Link(g)
    <3>1. /\ att[g] \in Attempt /\ (mine[g] => phase[att[g]] = "created")
          /\ at[g] = "link" /\ at' = [at EXCEPT ![g] = "wait"]
          /\ phase' = IF mine[g] THEN [phase EXCEPT ![att[g]] = "running"] ELSE phase
          /\ UNCHANGED <<err, closing, closed, att, mine>>
      BY <2>1 DEF BuildInv, Link, StarterOK, PlaceOK, Goto, getVars, builtVars, closeVars, nodeVars
    <3> QED
      BY <3>1 DEF StepsOK, BuildInv, TypeOK, CallTypes, AttemptTypes
  <2>2. CASE FindsCycle(g)
    <3>1. ~mine[g]
      BY <2>2, NewBuildsNeverRefused DEF FindsCycle, BuildInv
    <3> QED
      BY <1>1, <2>2, <3>1 DEF FindsCycle, Fails, Goto, closeVars
  <2>3. CASE Unlink(g)
    BY <1>1, <2>3 DEF Unlink, Resume, Fails, Goto, builtVars, closeVars, nodeVars
  <2> QED
    BY <1>6, <2>1, <2>2, <2>3 DEF Read
<1>7. ASSUME NEW a \in Attempt, Finish(a) \/ CloseDone(a) PROVE StepsOK'
  <2>1. /\ phase[a] \in {"running", "finished"} /\ UNCHANGED <<at, att, mine, closing, closed>>
        /\ \E p \in {"finished", "done"} : phase' = [phase EXCEPT ![a] = p]
        /\ err' = err \/ \E e : err' = [err EXCEPT ![a] = e]
    BY <1>7 DEF Finish, BuilderReturns, CloseDone, getVars, builtVars, closeVars, nodeVars
  <2> QED
    BY <2>1 DEF StepsOK, BuildInv, TypeOK, AttemptTypes
<1>8. ASSUME \/ \E i \in Invalidator : Recurse(i) \/ \E n \in Provider : InvalidateCalled(i, n)
             \/ CloseBegins \/ Cancel \/ Shut \/ UNCHANGED vars
      PROVE  StepsOK'
  <2>1. UNCHANGED <<phase, err, at, att, mine>>
    BY <1>8, ApartKeeps DEF builtVars, getVars
  <2>2. closing' = "open" => closing = "open" /\ closed' = closed
    BY <1>8 DEF Recurse, InvalidateCalled, InvalidateDependent, Invalidate, ReleaseOld,
           CloseBegins, Cancel, Shut, vars, nodeVars, closeVars
  <2> QED
    BY <2>1, <2>2 DEF StepsOK
<1> QED
  BY <1>2, <1>3, <1>4, <1>5, <1>6, <1>7, <1>8, GetMoves DEF Next, Terminated

\* What a waits for and is not over is in the graph of waits.
LEMMA HeldUpWaits ==
  ASSUME WaitsExact, NEW a \in Attempt, NEW b \in HeldUpBy(a)
  PROVE  b \in WaitsOn(a)
<1>1. b \in Attempt /\ Waiting(a, b) # {}
  BY DEF HeldUpBy, Waiting
<1>2. Cardinality(Waiting(a, b)) > 0
  BY <1>1, WaitingFinite, FS_EmptySet
<1> QED
  BY <1>1, <1>2 DEF WaitsExact, WaitsOn

\* A build under way goes on, or one of its goroutines waits for another.
LEMMA WaitsOrGoes ==
  ASSUME BuildInv, StepsOK, NEW a \in Attempt, phase[a] \notin {"unused", "done"},
         ~CanGo(a)
  PROVE  HeldUpBy(a) # {}
<1>1. phase[a] = "running"
  BY DEF BuildInv, TypeOK, AttemptTypes, StepsOK, CanGo
<1>2. PICK s \in Slot : at[<<a, s>>] # "out"
  BY <1>1 DEF CanGo
<1>3. <<a, s>> \in Builders /\ <<a, s>> \in Goroutine
  BY DEF Builders, Goroutine
<1>4. at[<<a, s>>] = "wait" /\ phase[att[<<a, s>>]] # "done"
  BY <1>1, <1>2, <1>3 DEF CanGo, StepsOK
<1>5. att[<<a, s>>] \in Attempt
  BY <1>3, <1>4 DEF BuildInv, PlaceOK
<1> QED
  BY <1>4, <1>5 DEF HeldUpBy

LEMMA SomebodyGoesOn ==
  ASSUME BuildInv, StepsOK
  PROVE  NobodyStuck
<1> SUFFICES ASSUME NEW a \in Attempt, phase[a] \notin {"unused", "done"},
                    \A b \in Awaited(a) : ~CanGo(b)
             PROVE  FALSE
  BY DEF NobodyStuck
<1>1. a \in Awaited(a) /\ Awaited(a) \subseteq Attempt
  BY DEF Awaited
<1>2. \A b \in Awaited(a) : HeldUpBy(b) \subseteq Awaited(a)
  BY DEF Awaited, HeldUpBy
<1>3. \A b \in Awaited(a) : phase[b] \notin {"unused", "done"}
  <2> DEFINE S == {b \in Attempt : phase[b] \notin {"unused", "done"}}
  <2>1. \A b \in S : HeldUpBy(b) \subseteq S
    <3> SUFFICES ASSUME NEW b \in S, NEW c \in HeldUpBy(b) PROVE phase[c] # "unused"
      BY DEF HeldUpBy
    <3>1. PICK s \in Slot : at[<<b, s>>] = "wait" /\ att[<<b, s>>] = c
      BY DEF HeldUpBy
    <3> QED
      BY <3>1 DEF BuildInv, PlaceOK, Goroutine
  <2>2. a \in S /\ S \in SUBSET Attempt
    OBVIOUS
  <2> QED
    BY <2>1, <2>2 DEF Awaited
<1>4. PICK b \in Awaited(a) : WaitsOn(b) \cap Awaited(a) = {}
  BY <1>1 DEF BuildInv, NoWaitCycle
<1>5. b \in Attempt /\ HeldUpBy(b) # {}
  BY <1>1, <1>3, WaitsOrGoes
<1>6. HeldUpBy(b) \subseteq WaitsOn(b)
  BY <1>5, HeldUpWaits DEF BuildInv
<1> QED
  BY <1>2, <1>4, <1>5, <1>6

\* Both parts of the invariant together.
LEMMA BuildsGoOn == Spec => [](BuildInv /\ StepsOK)
<1>1. Init => StepsOK
  BY BuilderFacts DEF Init, Start, StepsOK
<1>2. BuildInv /\ StepsOK /\ [Next]_vars => StepsOK'
  BY StepsStep
<1> QED
  BY <1>1, <1>2, BuildInvariant, PTL DEF Spec

\* Builders do not deadlock: whatever a build waits for, it comes down to one
\* that can go on, whatever the providers read, on however many goroutines.
THEOREM NobodyIsStuck == Spec => []NobodyStuck
<1>1. BuildInv /\ StepsOK => NobodyStuck
  BY SomebodyGoesOn
<1> QED
  BY <1>1, BuildsGoOn, PTL
=============================================================================
