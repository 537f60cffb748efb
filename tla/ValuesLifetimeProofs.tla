------------------------ MODULE ValuesLifetimeProofs ------------------------
(***************************************************************************)
(* The reference counts of Values implement the ownership of Lifetime, for *)
(* every instance.                                                         *)
(***************************************************************************)
EXTENDS ValuesOrderProofs

-----------------------------------------------------------------------------
(* The mapping.                                                            *)

\* w looks the same to Lifetime.
Same(w) ==
    /\ Life(w)' = Life(w) /\ Owners(w)' = Owners(w)
    /\ done'[w] # {} <=> done[w] # {}

LEMMA Stutters ==
  ASSUME \A w \in Value : Same(w), forced' = forced
  PROVE  UNCHANGED Ownership!vars
<1>1. [w \in Value |-> Life(w)]' = [w \in Value |-> Life(w)]
  BY DEF Same
<1>2. [w \in Value |-> Owners(w)]' = [w \in Value |-> Owners(w)]
  BY DEF Same
<1>3. {w \in Value : done[w] # {}}' = {w \in Value : done[w] # {}}
  BY DEF Same
<1> QED
  BY <1>1, <1>2, <1>3 DEF Ownership!vars

\* o is the last owner of u exactly when u's count is one.
LEMMA LastOwner ==
  ASSUME TypeOK, CountIsHolders, NEW u \in Value, NEW o \in Owners(u)
  PROVE  refs[u] = 1 <=> Owners(u) = {o}
<1> DEFINE P == {<<None, 0>> : i \in 1..ProviderRefs(u)}
           L == LeasesOn(u)
           D == DepsOn(u)
<1>1. /\ IsFiniteSet(L) /\ Cardinality(L) \in Nat /\ IsFiniteSet(D) /\ Cardinality(D) \in Nat
      /\ Cardinality(L) = 0 <=> L = {}
      /\ Cardinality(D) = 0 <=> D = {}
  BY HoldersFinite, FS_EmptySet
<1>2. \/ ProviderRefs(u) = 0 /\ P = {}
      \/ ProviderRefs(u) = 1 /\ P = {<<None, 0>>}
  BY DEF ProviderRefs
<1>3. refs[u] = ProviderRefs(u) + Cardinality(L) + Cardinality(D)
  BY DEF CountIsHolders
<1>4. Owners(u) = P \cup (L \X {0}) \cup D
  BY DEF Owners
<1>5. /\ D \subseteq Value \X (1..MaxReads)
      /\ \A d \in D : d[2] # 0
      /\ \A l \in L : l # None
  BY ValuesAssumption DEF DepsOn, LeasesOn, ValuesAssumption
<1> HIDE DEF P, L, D
<1>6. CASE o = <<None, 0>> /\ P = {o}
  <2>1. refs[u] = 1 <=> L = {} /\ D = {}
    BY <1>1, <1>2, <1>3, <1>6
  <2>2. Owners(u) = {o} <=> L = {} /\ D = {}
    <3>1. \A k \in L : <<k, 0>> # o /\ <<k, 0>> \in Owners(u)
      BY <1>4, <1>5, <1>6
    <3>2. o \notin D
      BY <1>5, <1>6
    <3> QED
      BY <1>4, <1>6, <3>1, <3>2
  <2> QED
    BY <2>1, <2>2
<1>7. ASSUME NEW l \in L, o = <<l, 0>> PROVE refs[u] = 1 <=> Owners(u) = {o}
  <2>1. Cardinality(L) # 0 /\ (Cardinality(L) = 1 <=> L = {l})
    <3>1. Cardinality(L) # 0
      BY <1>1, <1>7
    <3>2. ASSUME Cardinality(L) = 1 PROVE L = {l}
      <4>1. PICK x : L = {x}
        BY <1>1, <3>2, FS_Singleton
      <4> QED
        BY <1>7, <4>1
    <3>3. ASSUME L = {l} PROVE Cardinality(L) = 1
      BY <3>3, FS_Singleton
    <3> QED
      BY <3>1, <3>2, <3>3
  <2>2. refs[u] = 1 <=> P = {} /\ L = {l} /\ D = {}
    <3>1. refs[u] = 1 <=> ProviderRefs(u) = 0 /\ Cardinality(L) = 1 /\ Cardinality(D) = 0
      BY <1>1, <1>2, <1>3, <2>1
    <3> QED
      BY <1>1, <1>2, <2>1, <3>1
  <2>3. Owners(u) = {o} <=> P = {} /\ L = {l} /\ D = {}
    <3>1. <<None, 0>> # o /\ o \notin D /\ \A k \in L : <<k, 0>> = o <=> k = l
      BY <1>5, <1>7
    <3>2. o \in Owners(u) /\ \A k \in L : <<k, 0>> \in Owners(u)
      BY <1>4, <1>7
    <3>3. ASSUME Owners(u) = {o} PROVE P = {} /\ L = {l} /\ D = {}
      <4>1. P \subseteq {o} /\ D \subseteq {o}
        BY <1>4, <3>3
      <4>2. \A k \in L : k = l
        BY <3>1, <3>2, <3>3
      <4> QED
        BY <1>2, <1>7, <3>1, <4>1, <4>2
    <3>4. P = {} /\ L = {l} /\ D = {} => Owners(u) = {o}
      BY <1>4, <1>7
    <3> QED
      BY <3>3, <3>4
  <2> QED
    BY <2>2, <2>3
<1>8. CASE o \in D
  <2>1. Cardinality(D) # 0 /\ (Cardinality(D) = 1 <=> D = {o})
    BY <1>1, <1>8, FS_Singleton
  <2>2. refs[u] = 1 <=> P = {} /\ L = {} /\ D = {o}
    <3>1. refs[u] = 1 <=> ProviderRefs(u) = 0 /\ Cardinality(L) = 0 /\ Cardinality(D) = 1
      BY <1>1, <1>2, <1>3, <2>1
    <3> QED
      BY <1>1, <1>2, <2>1, <3>1
  <2>3. Owners(u) = {o} <=> P = {} /\ L = {} /\ D = {o}
    <3>1. <<None, 0>> # o /\ \A k \in L : <<k, 0>> # o
      BY <1>5, <1>8
    <3>2. \A k \in L : <<k, 0>> \in Owners(u)
      BY <1>4
    <3> QED
      BY <1>2, <1>4, <1>8, <3>1, <3>2
  <2> QED
    BY <2>2, <2>3
<1> QED
  BY <1>2, <1>4, <1>6, <1>7, <1>8

\* Where a value is in its life, told by its cleanup.
LifeFits(v) ==
    /\ Life(v) = "absent" <=> phase[v] \in {"unborn", "building"}
    /\ Life(v) = "open" <=> Built(v) /\ cleanup[v] = "none"
    /\ Life(v) = "closed" <=> CleanupsOver(v)
    /\ Life(v) = "closing" <=> cleanup[v] = "running" /\ ~CleanupsOver(v)

LEMMA LifeIs == TypeOK /\ CleanOK => \A v \in Value : LifeFits(v)
<1> SUFFICES ASSUME TypeOK, CleanOK, NEW v \in Value PROVE LifeFits(v)
  OBVIOUS
<1>1. phase[v] \in Phase /\ cleanup[v] \in Cleanup
  BY DEF TypeOK, BuildTypes, CleanTypes
<1>2. CleanupsOver(v) => cleanup[v] # "none"
  BY DEF CleanupsOver
<1>3. /\ phase[v] \in {"unborn", "building"} => cleanup[v] = "none"
      /\ phase[v] = "discarded" => cleanup[v] # "none"
  BY DEF CleanOK
<1>4. CASE phase[v] \in {"unborn", "building"}
  BY <1>2, <1>3, <1>4 DEF LifeFits, Life, Built
<1>5. CASE Built(v) /\ cleanup[v] = "none"
  BY <1>2, <1>5 DEF LifeFits, Life, Built
<1>6. CASE cleanup[v] # "none" /\ CleanupsOver(v)
  BY <1>3, <1>6 DEF LifeFits, Life, Built
<1>7. CASE cleanup[v] # "none" /\ ~CleanupsOver(v)
  <2>1. cleanup[v] = "running"
    BY <1>1, <1>7 DEF Cleanup, CleanupsOver
  <2> QED
    BY <1>3, <1>7, <2>1 DEF LifeFits, Life, Built
<1> QED
  BY <1>1, <1>3, <1>4, <1>5, <1>6, <1>7 DEF Phase, Built

LEMMA LifeIsNext == TypeOK' /\ CleanOK' => (\A v \in Value : LifeFits(v))'
  BY LifeIs, PTL

\* A step that does not touch w.
LEMMA SameFrame ==
  ASSUME NEW w \in Value,
         phase'[w] = phase[w], cleanup'[w] = cleanup[w], next'[w] = next[w],
         inside'[w] = inside[w], done'[w] = done[w],
         LeasesOn(w)' = LeasesOn(w), DepsOn(w)' = DepsOn(w)
  PROVE  Same(w)
<1>1. Life(w)' = Life(w)
  BY DEF Life, Built, CleanupsOver
<1>2. Owners(w)' = Owners(w)
  BY DEF Owners, ProviderRefs
<1> QED
  BY <1>1, <1>2 DEF Same

\* The steps of ownership.  w is any other value than the one they are about.
LEMMA MapPublish ==
  ASSUME NEW v \in Value, Life(v) = "absent", Life(v)' = "open",
         Owners(v)' = {<<None, 0>>}, done'[v] # {} <=> done[v] # {},
         \A w \in Value \ {v} : Same(w), forced' = forced
  PROVE  Ownership!Next
<1>1. Ownership!Publish(v)
  BY DEF Ownership!Publish, Ownership!TheProvider, Same
<1> QED
  BY <1>1 DEF Ownership!Next

LEMMA MapDiscard ==
  ASSUME NEW v \in Value, Life(v) = "absent", Life(v)' \in {"closing", "closed"},
         Owners(v)' = Owners(v), done'[v] # {} <=> done[v] # {},
         \A w \in Value \ {v} : Same(w), forced' = forced
  PROVE  Ownership!Next
<1>1. Ownership!Discard(v)
  BY DEF Ownership!Discard, Ownership!Ends, Same
<1> QED
  BY <1>1 DEF Ownership!Next

LEMMA MapTake ==
  ASSUME NEW u \in Value, NEW o \in Ownership!Owner,
         Life(u) = "open", o # <<None, 0>>, o \notin Owners(u),
         o[2] > 0 => o[1] \in Value /\ Life(o[1]) = "absent",
         Life(u)' = Life(u), Owners(u)' = Owners(u) \cup {o},
         done'[u] # {} <=> done[u] # {},
         \A w \in Value \ {u} : Same(w), forced' = forced
  PROVE  Ownership!Next
<1>1. Ownership!Take(o, u)
  BY DEF Ownership!Take, Ownership!TheProvider, Same
<1> QED
  BY <1>1 DEF Ownership!Next

LEMMA MapGive ==
  ASSUME NEW u \in Value, NEW o \in Ownership!Owner, o \in Owners(u),
         o[2] > 0 => o[1] \in Value /\ Life(o[1]) = "closed",
         Owners(u)' = Owners(u) \ {o},
         Owners(u) = {o} => Life(u)' \in {"closing", "closed"},
         Owners(u) # {o} => Life(u)' = Life(u),
         done'[u] # {} <=> done[u] # {},
         \A w \in Value \ {u} : Same(w), forced' = forced
  PROVE  Ownership!Next
<1>1. Ownership!Give(o, u)
  BY DEF Ownership!Give, Ownership!Ends, Same
<1> QED
  BY <1>1 DEF Ownership!Next

LEMMA MapStart ==
  ASSUME NEW v \in Value, Life(v) = "closing" \/ v \in forced, done'[v] # {},
         Life(v)' = Life(v), Owners(v)' = Owners(v),
         \A w \in Value \ {v} : Same(w), forced' = forced
  PROVE  Ownership!Next
<1>1. Ownership!Start(v)
  BY DEF Ownership!Start, Same
<1> QED
  BY <1>1 DEF Ownership!Next

LEMMA MapFinish ==
  ASSUME NEW v \in Value, Life(v) = "closing", done[v] # {}, Life(v)' = "closed",
         Owners(v)' = Owners(v), done' = done,
         \A w \in Value \ {v} : Same(w), forced' = forced
  PROVE  Ownership!Next
<1>1. Ownership!Finish(v)
  BY DEF Ownership!Finish, Same
<1> QED
  BY <1>1 DEF Ownership!Next

LEMMA MapExpire ==
  ASSUME forced = {}, forced' \subseteq Value, \A v \in forced' : Life(v) # "absent",
         \A w \in Value : Same(w)
  PROVE  Ownership!Next
<1>1. Ownership!Expire(forced')
  BY DEF Ownership!Expire, Same
<1> QED
  BY <1>1 DEF Ownership!Next

-----------------------------------------------------------------------------
(* The steps of Values.                                                    *)

\* The steps that change nothing that Lifetime knows of.
LEMMA LifeFrame ==
  LET same == UNCHANGED <<phase, cleanup, next, inside, done, lease, of, left, deps,
                          forced>> IN
  /\ \A v \in Value : OnClose(v) \/ FinishBuild(v) => same
  /\ \A v \in Value : \A r \in Reader : Load(v, r) \/ AcquireFails(v, r) => same
  /\ \A d \in Dropper : InvalidateReturns(d) => same
  /\ \/ CloseBegins \/ CloseWaits \/ CloseReturns \/ ForceNext \/ ForceCloserReturns
     \/ ForceEnds \/ CloseTimesOut
     => same
  /\ UNCHANGED vars => same
<1> DEFINE same == UNCHANGED <<phase, cleanup, next, inside, done, lease, of, left, deps,
                               forced>>
<1>1. ASSUME NEW v \in Value, OnClose(v) \/ FinishBuild(v) PROVE same
  BY <1>1 DEF OnClose, FinishBuild, buildVars, cleanVars, runVars, leaseVars, forceVars
<1>2. ASSUME NEW v \in Value, NEW r \in Reader, Load(v, r) \/ AcquireFails(v, r)
      PROVE  same
  BY <1>2 DEF Load, AcquireFails, cleanVars, runVars, leaseVars, forceVars
<1>3. ASSUME NEW d \in Dropper, InvalidateReturns(d) PROVE same
  BY <1>3 DEF InvalidateReturns, buildVars, cleanVars, runVars, leaseVars, forceVars
<1>4. ASSUME \/ CloseBegins \/ CloseWaits \/ CloseReturns \/ ForceNext
             \/ ForceCloserReturns \/ ForceEnds \/ CloseTimesOut
      PROVE  same
  BY <1>4 DEF CloseBegins, CloseWaits, CloseReturns, ForceNext, ForceCloserReturns,
              ForceEnds, CloseTimesOut, buildVars, cleanVars, runVars, leaseVars, forceVars
<1>5. ASSUME UNCHANGED vars PROVE same
  BY <1>5 DEF vars, buildVars, cleanVars, runVars, leaseVars, forceVars
<1> QED
  BY <1>1, <1>2, <1>3, <1>4, <1>5

\* What both states of a step satisfy.
BothFit ==
    /\ CloseInv /\ CloseInv'
    /\ IInv /\ TypeOK /\ CleanOK /\ UsesOK /\ StackOK /\ CountIsHolders
    /\ \A v \in Value : LifeFits(v) /\ LifeFits(v)'

LEMMA FitBoth == CloseInv /\ CloseInv' => BothFit
<1> SUFFICES ASSUME CloseInv, CloseInv' PROVE BothFit
  OBVIOUS
<1>1. IInv /\ TypeOK /\ CleanOK /\ UsesOK /\ StackOK /\ CountIsHolders
  BY DEF CloseInv, IInv
<1>2. TypeOK' /\ CleanOK'
  BY DEF CloseInv, IInv
<1>3. \A v \in Value : LifeFits(v)
  BY <1>1, LifeIs
<1>4. \A v \in Value : LifeFits(v)'
  BY <1>2, LifeIsNext
<1> QED
  BY <1>1, <1>3, <1>4 DEF BothFit

\* A release gives up one owner, and starts the cleanup when it was the last.
LEMMA GivesMap ==
  ASSUME BothFit, NEW u, NEW a, Gives(u, a), NEW o \in Ownership!Owner, o \in Owners(u),
         o[2] > 0 => o[1] \in Value /\ Life(o[1]) = "closed",
         Owners(u)' = Owners(u) \ {o}, Built(u)',
         \A w \in Value \ {u} : /\ phase'[w] = phase[w]
                                /\ LeasesOn(w)' = LeasesOn(w) /\ DepsOn(w)' = DepsOn(w),
         UNCHANGED <<inside, done, forced>>
  PROVE  Ownership!Next
<1>1. u \in Value /\ Built(u) /\ cleanup[u] = "none"
  BY DEF Gives
<1>2. ASSUME NEW w \in Value \ {u} PROVE Same(w)
  <2>1. cleanup'[w] = cleanup[w] /\ next'[w] = next[w]
    BY <1>1, <1>2, GivesEffect DEF BothFit, TypeOK, CleanTypes
  <2> QED
    BY <2>1, SameFrame
<1>3. refs[u] = 1 <=> Owners(u) = {o}
  BY <1>1, LastOwner DEF BothFit
<1>4. ASSUME Owners(u) = {o} PROVE Life(u)' \in {"closing", "closed"}
  <2>1. cleanup'[u] = "running"
    BY <1>1, <1>3, <1>4 DEF BothFit, Gives, Release, LastReference, TypeOK, CleanTypes
  <2> QED
    BY <1>1, <2>1 DEF BothFit, LifeFits
<1>5. ASSUME Owners(u) # {o} PROVE Life(u)' = Life(u)
  <2>1. cleanup'[u] = "none"
    BY <1>1, <1>3, <1>5 DEF Gives, Release, LastReference, cleanVars
  <2> QED
    BY <1>1, <2>1 DEF BothFit, LifeFits
<1> QED
  BY <1>1, <1>2, <1>4, <1>5, MapGive

\* A build.
LEMMA BuildMaps ==
  ASSUME BothFit, NEW v \in Value, Build(v)
  PROVE  Ownership!Next \/ UNCHANGED Ownership!vars
<1>0. /\ phase \in [Value -> Phase] /\ cleanup \in [Value -> Cleanup]
      /\ next \in [Value -> 0..MaxClosers]
  BY DEF BothFit, TypeOK, BuildTypes, CleanTypes
<1>1. CASE StartBuild(v)
  <2>1. /\ phase[v] = "unborn" /\ phase' = [phase EXCEPT ![v] = "building"]
        /\ UNCHANGED <<cleanup, next, inside, done, lease, of, left, deps, forced>>
    BY <1>1 DEF StartBuild, buildVars, cleanVars, runVars, leaseVars, forceVars
  <2>2. \A w \in Value : LeasesOn(w)' = LeasesOn(w) /\ DepsOn(w)' = DepsOn(w)
    BY <2>1 DEF LeasesOn, DepsOn
  <2>3. ASSUME NEW w \in Value, w # v PROVE Same(w)
    BY <1>0, <2>1, <2>2, <2>3, SameFrame
  <2>4. Same(v)
    <3>1. Life(v) = "absent" /\ Life(v)' = "absent"
      BY <1>0, <2>1 DEF BothFit, LifeFits
    <3>2. ProviderRefs(v)' = ProviderRefs(v)
      BY <1>0, <2>1 DEF ProviderRefs
    <3> QED
      BY <2>1, <2>2, <3>1, <3>2 DEF Same, Owners
  <2> QED
    BY <2>1, <2>3, <2>4, Stutters
<1>2. CASE Publish(v)
  <2>1. /\ phase[v] = "building" /\ phase' = [phase EXCEPT ![v] = "current"]
        /\ UNCHANGED <<cleanup, next, inside, done, lease, of, left, deps, forced>>
    BY <1>2 DEF Publish, MayReturn, buildVars, cleanVars, runVars, leaseVars, forceVars
  <2>2. \A w \in Value : LeasesOn(w)' = LeasesOn(w) /\ DepsOn(w)' = DepsOn(w)
    BY <2>1 DEF LeasesOn, DepsOn
  <2>3. ASSUME NEW w \in Value, w # v PROVE Same(w)
    BY <1>0, <2>1, <2>2, <2>3, SameFrame
  <2>4. cleanup[v] = "none" /\ LeasesOn(v) = {} /\ DepsOn(v) = {}
    BY <2>1, UnbuiltUnheld DEF BothFit, CleanOK, Built
  <2>5. Life(v) = "absent" /\ Life(v)' = "open"
    BY <1>0, <2>1, <2>4 DEF BothFit, LifeFits, Built
  <2>6. ProviderRefs(v)' = 1
    BY <1>0, <2>1 DEF ProviderRefs
  <2>7. Owners(v)' = {<<None, 0>>}
    BY <2>2, <2>4, <2>6 DEF Owners
  <2> QED
    BY <2>1, <2>3, <2>5, <2>7, MapPublish
<1>3. CASE Discard(v)
  <2>1. /\ phase[v] = "building" /\ phase' = [phase EXCEPT ![v] = "discarded"]
        /\ cleanup' = [cleanup EXCEPT ![v] = "running"]
        /\ next' = [next EXCEPT ![v] = closers[v]]
        /\ UNCHANGED <<inside, done, lease, of, left, deps, forced>>
    BY <1>3 DEF Discard, MayReturn, FirstCleanup, buildVars, runVars, leaseVars, forceVars
  <2>2. \A w \in Value : LeasesOn(w)' = LeasesOn(w) /\ DepsOn(w)' = DepsOn(w)
    BY <2>1 DEF LeasesOn, DepsOn
  <2>3. ASSUME NEW w \in Value, w # v PROVE Same(w)
    BY <1>0, <2>1, <2>2, <2>3, SameFrame
  <2>4. cleanup'[v] = "running"
    BY <1>0, <2>1
  <2>5. Life(v) = "absent" /\ Life(v)' \in {"closing", "closed"}
    BY <2>1, <2>4 DEF BothFit, LifeFits
  <2>6. ProviderRefs(v)' = ProviderRefs(v)
    BY <1>0, <2>1 DEF ProviderRefs
  <2>7. Owners(v)' = Owners(v)
    BY <2>2, <2>6 DEF Owners
  <2> QED
    BY <2>1, <2>3, <2>5, <2>7, MapDiscard
<1>4. ASSUME NEW r \in Reader, Acquire(v, r) PROVE Ownership!Next
  <2>0. PICK u, p : u = reading[v][r] /\ p = <<v, left[v] + 1>>
    OBVIOUS
  <2>1. /\ u \in Value /\ phase[v] = "building" /\ p \in Value \X (1..MaxReads)
        /\ \A w \in Value : w # u => DepsOn(w)' = DepsOn(w)
        /\ DepsOn(u)' = DepsOn(u) \cup {p} /\ p \notin DepsOn(u)
    BY <1>4, <2>0, DepTaken DEF BothFit
  <2>2. /\ refs[u] > 0 /\ u # None
        /\ UNCHANGED <<phase, cleanup, next, inside, done, lease, of, forced>>
    BY <1>4, <2>0 DEF Acquire, Acquirable, cleanVars, runVars, leaseVars, forceVars
  <2>3. \A w \in Value : LeasesOn(w)' = LeasesOn(w)
    BY <2>2 DEF LeasesOn
  <2>4. ASSUME NEW w \in Value \ {u} PROVE Same(w)
    BY <2>1, <2>2, <2>3, <2>4, SameFrame
  <2>5. Built(u) /\ refs[u] \in Int
    BY <2>0, <2>1, <2>2 DEF BothFit, UsesOK, TypeOK, CleanTypes
  <2>6. cleanup[u] = "none"
    BY <2>1, <2>2, <2>5 DEF BothFit, CleanOK
  <2>7. Life(u) = "open" /\ Life(u)' = "open" /\ Life(v) = "absent"
    BY <2>1, <2>2, <2>5, <2>6 DEF BothFit, LifeFits, Built
  <2>8. Owners(u)' = Owners(u) \cup {p}
    BY <2>1, <2>2, <2>3 DEF Owners, ProviderRefs
  <2>9. p[2] # 0 /\ p[1] = v /\ p \in Ownership!Owner
    BY <2>0, <2>1 DEF Ownership!Owner
  <2>10. p \notin Owners(u) /\ p # <<None, 0>>
    BY <2>1, <2>9 DEF Owners
  <2> QED
    BY <2>1, <2>2, <2>4, <2>7, <2>8, <2>9, <2>10, MapTake
<1>5. ASSUME UNCHANGED <<phase, cleanup, next, inside, done, lease, of, left, deps, forced>>
      PROVE  UNCHANGED Ownership!vars
  BY <1>5, SameFrame, Stutters DEF LeasesOn, DepsOn
<1> QED
  BY <1>1, <1>2, <1>3, <1>4, <1>5, LifeFrame DEF Build

\* The cleanup of one value.
LEMMA CleanUpMaps ==
  ASSUME BothFit, NEW v \in Value, CleanUp(v)
  PROVE  Ownership!Next \/ UNCHANGED Ownership!vars
<1>0. /\ cleanup \in [Value -> Cleanup] /\ next \in [Value -> 0..MaxClosers]
      /\ inside \in [Value -> BOOLEAN] /\ done \in [Value -> SUBSET (1..MaxClosers)]
      /\ OrderOK
  BY DEF BothFit, CloseInv, TypeOK, CleanTypes
<1>1. CASE RunCloser(v) \/ CloserReturns(v)
  <2>1. /\ cleanup[v] = "running" /\ next[v] > 0
        /\ UNCHANGED <<phase, cleanup, lease, of, left, deps, forced>>
    BY <1>1 DEF RunCloser, CloserReturns, BothFit, CleanOK, buildVars, leaseVars, forceVars
  <2>2. \A w \in Value : LeasesOn(w)' = LeasesOn(w) /\ DepsOn(w)' = DepsOn(w)
    BY <2>1 DEF LeasesOn, DepsOn
  <2>3. \A w \in Value : w # v => /\ next'[w] = next[w] /\ inside'[w] = inside[w]
                                  /\ done'[w] = done[w]
    BY <1>0, <1>1 DEF RunCloser, CloserReturns
  <2>4. \A w \in Value : w # v => Same(w)
    BY <2>1, <2>2, <2>3, SameFrame
  <2>5. Owners(v)' = Owners(v)
    BY <2>1, <2>2 DEF Owners, ProviderRefs
  <2>6. Life(v) = "closing"
    BY <2>1 DEF BothFit, LifeFits, CleanupsOver
  <2>7. CASE done' = done /\ next[v] \in done[v]
    <3>1. Life(v)' \in {"closing", "closed"}
      BY <2>1 DEF BothFit, LifeFits
    <3>2. CASE Life(v)' = "closed"
      BY <2>1, <2>4, <2>5, <2>6, <2>7, <3>2, MapFinish
    <3>3. CASE Life(v)' = "closing"
      BY <2>1, <2>4, <2>5, <2>6, <2>7, <3>3, Stutters DEF Same
    <3> QED
      BY <3>1, <3>2, <3>3
  <2>8. CASE ~(done' = done /\ next[v] \in done[v])
    <3>1. RunCloser(v) /\ next[v] \notin done[v]
      <4>1. CloserReturns(v) => done' = done /\ next[v] \in done[v]
        BY <1>0 DEF CloserReturns, OrderOK
      <4>2. RunCloser(v) /\ next[v] \in done[v] => done' = done
        BY DEF RunCloser, CleanupAt
      <4> QED
        BY <1>1, <2>8, <4>1, <4>2
    <3>2. next' = next /\ next[v] \in done'[v]
      BY <1>0, <3>1 DEF RunCloser, CleanupAt
    <3>3. inside'[v]
      BY <1>0, <3>1 DEF RunCloser, CleanupAt
    <3>4. Life(v)' = "closing"
      BY <2>1, <3>2, <3>3 DEF BothFit, LifeFits, CleanupsOver
    <3> QED
      BY <2>1, <2>4, <2>5, <2>6, <3>2, <3>4, MapStart
  <2> QED
    BY <2>7, <2>8
<1>2. CASE ReleaseDep(v)
  <2>0. PICK u, p : u = deps[v][left[v]] /\ p = <<v, left[v]>>
    OBVIOUS
  <2>1. /\ u \in Value /\ p \in Value \X (1..MaxReads)
        /\ \A w \in Value : w # u => DepsOn(w)' = DepsOn(w)
        /\ DepsOn(u)' = DepsOn(u) \ {p} /\ p \in DepsOn(u)
    BY <1>2, <2>0, DepGiven DEF BothFit
  <2>2. UNCHANGED <<phase, inside, done, lease, of, forced>> /\ CleanupsRun(v)
    BY <1>2 DEF ReleaseDep, runVars, leaseVars, forceVars
  <2>3. \A w \in Value : LeasesOn(w)' = LeasesOn(w)
    BY <2>2 DEF LeasesOn
  <2>4. Gives(u, v)
    BY <1>2, <2>0, ReleasesHeld DEF BothFit
  <2>5. Life(v) = "closed" /\ p[1] = v
    BY <2>0, <2>2 DEF BothFit, LifeFits, CleanupsOver, CleanupsRun
  <2>6. p \in Ownership!Owner /\ p \in Owners(u) /\ p[2] # 0 /\ p \in Value \X (1..MaxReads)
    BY <2>1 DEF Ownership!Owner, Owners
  <2>7. Owners(u)' = Owners(u) \ {p}
    <3>1. \A i \in 1..ProviderRefs(u) : <<None, 0>> # p
      BY <2>6
    <3>2. \A l \in LeasesOn(u) : <<l, 0>> # p
      BY <2>6
    <3> QED
      BY <2>1, <2>2, <2>3, <3>1, <3>2 DEF Owners, ProviderRefs
  <2>8. Built(u)'
    BY <2>2, <2>4 DEF Gives, Built
  <2> QED
    BY <2>1, <2>2, <2>3, <2>4, <2>5, <2>6, <2>7, <2>8, GivesMap
<1>3. CASE ReleaseReturns(v) \/ DiscardReturns(v)
  <2>1. /\ CleanupsRun(v) /\ cleanup' = [cleanup EXCEPT ![v] = "over"]
        /\ UNCHANGED <<phase, next, inside, done, lease, of, left, deps, forced>>
    BY <1>3 DEF ReleaseReturns, DiscardReturns, buildVars, runVars, leaseVars, forceVars
  <2>2. \A w \in Value : LeasesOn(w)' = LeasesOn(w) /\ DepsOn(w)' = DepsOn(w)
    BY <2>1 DEF LeasesOn, DepsOn
  <2>3. ASSUME NEW w \in Value, w # v PROVE Same(w)
    BY <1>0, <2>1, <2>2, <2>3, SameFrame
  <2>4. Same(v)
    <3>1. CleanupsOver(v) /\ CleanupsOver(v)'
      BY <1>0, <2>1 DEF CleanupsRun, CleanupsOver
    <3>2. Life(v) = "closed" /\ Life(v)' = "closed"
      BY <3>1 DEF BothFit, LifeFits
    <3> QED
      BY <2>1, <2>2, <3>2 DEF Same, Owners, ProviderRefs
  <2> QED
    BY <2>1, <2>3, <2>4, Stutters
<1> QED
  BY <1>1, <1>2, <1>3 DEF CleanUp

\* A lease.
LEMMA LeaseMaps ==
  ASSUME BothFit, NEW l \in Lease, UseLease(l)
  PROVE  Ownership!Next \/ UNCHANGED Ownership!vars
<1>0. /\ lease \in [Lease -> LeaseState] /\ of \in [Lease -> Value \cup {None}]
      /\ lease[l] # "idle" => of[l] \in Value /\ Built(of[l])
  BY DEF BothFit, TypeOK, LeaseTypes, UsesOK
<1>1. ASSUME UNCHANGED <<phase, cleanup, next, inside, done, left, deps, forced>>,
             \A w \in Value : LeasesOn(w)' = LeasesOn(w)
      PROVE  UNCHANGED Ownership!vars
  <2>1. \A w \in Value : DepsOn(w)' = DepsOn(w)
    BY <1>1 DEF DepsOn
  <2> QED
    BY <1>1, <2>1, SameFrame, Stutters
<1>2. CASE LeaseLoad(l) \/ LeaseAddLate(l)
  <2>1. UNCHANGED <<phase, cleanup, next, inside, done, left, deps, forced>>
    BY <1>2 DEF LeaseLoad, LeaseAddLate, buildVars, cleanVars, runVars, forceVars
  <2>2. \A w \in Value : LeasesOn(w)' = LeasesOn(w)
    BY <1>0, <1>2 DEF LeaseLoad, LeaseAddLate, LeasesOn
  <2> QED
    BY <1>1, <2>1, <2>2
<1>3. CASE LeaseAcquire(l)
  <2>0. PICK u, o : u = of[l] /\ o = <<l, 0>>
    OBVIOUS
  <2>1. /\ u \in Value /\ Built(u) /\ lease[l] = "loaded" /\ of' = of
        /\ UNCHANGED <<phase, cleanup, next, inside, done, left, deps, forced>>
    BY <1>0, <1>3, <2>0 DEF LeaseAcquire, buildVars, cleanVars, runVars, forceVars
  <2>2. CASE ~Acquirable(u)
    <3>1. lease' = [lease EXCEPT ![l] = "idle"]
      BY <1>3, <2>0, <2>2 DEF LeaseAcquire
    <3>2. \A w \in Value : LeasesOn(w)' = LeasesOn(w)
      BY <1>0, <2>1, <3>1 DEF LeasesOn
    <3> QED
      BY <1>1, <2>1, <3>2
  <2>3. CASE Acquirable(u)
    <3>1. lease' = [lease EXCEPT ![l] = "held"] /\ refs[u] > 0 /\ refs[u] \in Int
      BY <1>3, <2>0, <2>1, <2>3 DEF LeaseAcquire, Acquirable, BothFit, TypeOK, CleanTypes
    <3>2. /\ LeasesOn(u)' = LeasesOn(u) \cup {l} /\ l \notin LeasesOn(u)
          /\ \A w \in Value : w # u => LeasesOn(w)' = LeasesOn(w)
      BY <1>0, <2>0, <2>1, <3>1 DEF LeasesOn
    <3>3. \A w \in Value : DepsOn(w)' = DepsOn(w)
      BY <2>1 DEF DepsOn
    <3>4. ASSUME NEW w \in Value \ {u} PROVE Same(w)
      BY <2>1, <3>2, <3>3, <3>4, SameFrame
    <3>5. cleanup[u] = "none"
      BY <2>1, <3>1 DEF BothFit, CleanOK
    <3>6. Life(u) = "open" /\ Life(u)' = "open"
      BY <2>1, <3>5 DEF BothFit, LifeFits, Built
    <3>7. Owners(u)' = Owners(u) \cup {o}
      BY <2>0, <2>1, <3>2, <3>3 DEF Owners, ProviderRefs
    <3>8. o[2] = 0 /\ o \in Ownership!Owner /\ o # <<None, 0>>
      BY <2>0, ValuesAssumption DEF Ownership!Owner, ValuesAssumption
    <3>9. o \notin Owners(u)
      <4>1. \A p \in DepsOn(u) : p[2] # 0
        BY DEF DepsOn
      <4> QED
        BY <2>0, <3>2, <3>8, <4>1 DEF Owners
    <3> QED
      BY <2>1, <3>4, <3>6, <3>7, <3>8, <3>9, MapTake
  <2> QED
    BY <2>2, <2>3
<1>4. CASE LeaseRelease(l)
  <2>0. PICK u, o : u = of[l] /\ o = <<l, 0>>
    OBVIOUS
  <2>1. /\ u \in Value /\ lease[l] = "held" /\ of' = of
        /\ lease' = [lease EXCEPT ![l] = "releasing"]
        /\ UNCHANGED <<phase, inside, done, left, deps, forced>>
    BY <1>0, <1>4, <2>0 DEF LeaseRelease, MayRelease, buildVars, runVars, forceVars
  <2>2. /\ LeasesOn(u)' = LeasesOn(u) \ {l} /\ l \in LeasesOn(u)
        /\ \A w \in Value : w # u => LeasesOn(w)' = LeasesOn(w)
    BY <1>0, <2>0, <2>1 DEF LeasesOn
  <2>3. \A w \in Value : DepsOn(w)' = DepsOn(w)
    BY <2>1 DEF DepsOn
  <2>4. Gives(u, l)
    BY <1>4, <2>0, ReleasesHeld DEF BothFit
  <2>5. o[2] = 0 /\ o \in Ownership!Owner /\ o # <<None, 0>>
    BY <2>0, ValuesAssumption DEF Ownership!Owner, ValuesAssumption
  <2>6. o \in Owners(u)
    BY <2>0, <2>2 DEF Owners
  <2>7. Owners(u)' = Owners(u) \ {o}
    <3>1. \A p \in DepsOn(u) : p # o
      BY <2>5 DEF DepsOn
    <3>2. \A k : k # l => <<k, 0>> # o
      BY <2>0
    <3> QED
      BY <2>0, <2>1, <2>2, <2>3, <2>5, <3>1, <3>2 DEF Owners, ProviderRefs
  <2>8. Built(u)'
    BY <2>1, <2>4 DEF Gives, Built
  <2> QED
    BY <2>1, <2>2, <2>3, <2>4, <2>5, <2>6, <2>7, <2>8, GivesMap
<1> QED
  BY <1>2, <1>3, <1>4 DEF UseLease

\* Invalidate and the shut loop of CloseContext.
LEMMA DropMaps ==
  ASSUME BothFit, NEW d \in Dropper, DropValues(d)
  PROVE  Ownership!Next \/ UNCHANGED Ownership!vars
<1>0. phase \in [Value -> Phase]
  BY DEF BothFit, TypeOK, BuildTypes
<1>1. ASSUME NEW v \in Value, SwapOut(d, v) PROVE UNCHANGED Ownership!vars
  <2>1. /\ phase[v] = "current" /\ phase' = [phase EXCEPT ![v] = "swapped"]
        /\ UNCHANGED <<cleanup, next, inside, done, lease, of, left, deps, forced>>
    BY <1>1 DEF SwapOut, buildVars, cleanVars, runVars, leaseVars, forceVars
  <2>2. \A w \in Value : LeasesOn(w)' = LeasesOn(w) /\ DepsOn(w)' = DepsOn(w)
    BY <2>1 DEF LeasesOn, DepsOn
  <2>3. ASSUME NEW w \in Value, w # v PROVE Same(w)
    BY <1>0, <2>1, <2>2, <2>3, SameFrame
  <2>4. Built(v) /\ Built(v)' /\ phase'[v] = "swapped"
    BY <1>0, <2>1 DEF Built
  <2>5. Life(v)' = Life(v)
    BY <2>1, <2>4 DEF Life, CleanupsOver
  <2>6. ProviderRefs(v)' = ProviderRefs(v)
    BY <2>1, <2>4 DEF ProviderRefs
  <2>7. Same(v)
    BY <2>1, <2>2, <2>5, <2>6 DEF Same, Owners
  <2> QED
    BY <2>1, <2>3, <2>7, Stutters
<1>2. CASE Drop(d)
  <2>0. PICK u, o : u = stack[d][Len(stack[d])] /\ o = <<None, 0>>
    OBVIOUS
  <2>1. /\ phase' = [phase EXCEPT ![u] = "dropped"]
        /\ UNCHANGED <<inside, done, lease, of, left, deps, forced>>
    BY <1>2, <2>0 DEF Drop, buildVars, runVars, leaseVars, forceVars
  <2>2. Gives(u, d) /\ u \in Value
    BY <1>2, <2>0, ReleasesHeld DEF BothFit, Gives
  <2>3. phase[u] = "swapped"
    BY <1>2, <2>0 DEF Drop, BothFit, TypeOK, StackTypes, StackOK
  <2>4. \A w \in Value : LeasesOn(w)' = LeasesOn(w) /\ DepsOn(w)' = DepsOn(w)
    BY <2>1 DEF LeasesOn, DepsOn
  <2>5. ProviderRefs(u) = 1 /\ ProviderRefs(u)' = 0 /\ Built(u)'
    BY <1>0, <2>1, <2>2, <2>3 DEF ProviderRefs, Built
  <2>6. \A w \in Value \ {u} : phase'[w] = phase[w]
    BY <1>0, <2>1, <2>2
  <2>7. o \in Owners(u) /\ o[2] = 0 /\ o \in Ownership!Owner
    BY <2>0, <2>5 DEF Owners, Ownership!Owner, Ownership!TheProvider
  <2>8. Owners(u)' = Owners(u) \ {o}
    <3>1. \A p \in DepsOn(u) : p # o
      BY <2>7 DEF DepsOn
    <3>2. \A l \in LeasesOn(u) : <<l, 0>> # o
      BY <2>0, ValuesAssumption DEF LeasesOn, ValuesAssumption
    <3>3. Owners(u) = {o} \cup (LeasesOn(u) \X {0}) \cup DepsOn(u)
      BY <2>0, <2>5 DEF Owners
    <3>4. Owners(u)' = (LeasesOn(u) \X {0}) \cup DepsOn(u)
      <4>1. Owners(u)' = {<<None, 0>> : i \in 1..ProviderRefs(u)'}
                           \cup (LeasesOn(u)' \X {0}) \cup DepsOn(u)'
        BY DEF Owners
      <4>2. {<<None, 0>> : i \in 1..ProviderRefs(u)'} = {}
        BY <2>5
      <4>3. LeasesOn(u)' = LeasesOn(u) /\ DepsOn(u)' = DepsOn(u)
        BY <2>2, <2>4
      <4> QED
        BY <4>1, <4>2, <4>3
    <3>5. o \notin (LeasesOn(u) \X {0}) \cup DepsOn(u)
      BY <3>1, <3>2
    <3> QED
      BY <3>3, <3>4, <3>5
  <2> QED
    BY <2>1, <2>2, <2>4, <2>5, <2>6, <2>7, <2>8, GivesMap
<1>3. CASE InvalidateReturns(d)
  BY <1>3, LifeFrame, SameFrame, Stutters DEF LeasesOn, DepsOn
<1> QED
  BY <1>1, <1>2, <1>3 DEF DropValues

\* The rest of CloseContext.
LEMMA CloseMaps ==
  ASSUME BothFit, Close
  PROVE  Ownership!Next \/ UNCHANGED Ownership!vars
<1>1. CASE DeadlineEnds
  <2>1. /\ forced' = live /\ forced = {} /\ live \subseteq Value
        /\ UNCHANGED <<phase, cleanup, next, inside, done, lease, of, left, deps>>
    BY <1>1 DEF DeadlineEnds, BothFit, IInv, ForceOK, TypeOK, GraphTypes, buildVars,
                cleanVars, runVars, leaseVars
  <2>2. \A v \in live : Life(v) # "absent"
    BY <2>1 DEF BothFit, LifeFits, CloseInv, LiveOK, Built
  <2> QED
    BY <2>1, <2>2, SameFrame, MapExpire DEF LeasesOn, DepsOn
<1>2. CASE ForceCloser
  <2>0. PICK f : f = forcing
    OBVIOUS
  <2>1. /\ f \in Value /\ f \in forced
        /\ done' = done \/ done' = [done EXCEPT ![f] = @ \cup {fnext}]
        /\ UNCHANGED <<phase, cleanup, next, inside, lease, of, left, deps, forced>>
    BY <1>2, <2>0 DEF ForceCloser, BothFit, TypeOK, ForceTypes, buildVars, cleanVars, leaseVars
  <2>2. done \in [Value -> SUBSET (1..MaxClosers)]
    BY DEF BothFit, TypeOK, CleanTypes
  <2>3. \A w \in Value : LeasesOn(w)' = LeasesOn(w) /\ DepsOn(w)' = DepsOn(w)
    BY <2>1 DEF LeasesOn, DepsOn
  <2>4. \A w \in Value \ {f} : Same(w)
    <3>1. SUFFICES ASSUME NEW w \in Value \ {f} PROVE Same(w)
      OBVIOUS
    <3>2. done'[w] = done[w]
      BY <2>1, <2>2
    <3> QED
      BY <2>1, <2>3, <3>2, SameFrame
  <2>5. Life(f)' = Life(f)
    BY <2>1 DEF Life, Built, CleanupsOver
  <2>6. Owners(f)' = Owners(f)
    BY <2>1, <2>3 DEF Owners, ProviderRefs
  <2>7. CASE done' = done
    <3>1. \A w \in Value : Same(w)
      BY <2>4, <2>5, <2>6, <2>7 DEF Same
    <3> QED
      BY <2>1, <3>1, Stutters
  <2>8. CASE done' = [done EXCEPT ![f] = @ \cup {fnext}]
    <3>1. done'[f] # {}
      BY <2>1, <2>2, <2>8
    <3> QED
      BY <2>1, <2>4, <2>5, <2>6, <3>1, MapStart
  <2> QED
    BY <2>1, <2>7, <2>8
<1>3. CASE \/ CloseBegins \/ CloseWaits \/ CloseReturns \/ ForceNext
           \/ ForceCloserReturns \/ ForceEnds \/ CloseTimesOut
  BY <1>3, LifeFrame, SameFrame, Stutters DEF LeasesOn, DepsOn
<1> QED
  BY <1>1, <1>2, <1>3 DEF Close

-----------------------------------------------------------------------------
(* The refinement.                                                         *)

LEMMA InitMaps == Init => Ownership!Init
<1> SUFFICES ASSUME Init PROVE Ownership!Init
  OBVIOUS
<1>1. \A v \in Value : Life(v) = "absent"
  <2>1. TypeOK /\ CleanOK
    BY InitOK DEF IInv
  <2> QED
    BY <2>1, LifeIs DEF Init, LifeFits
<1>2. \A v \in Value : Owners(v) = {}
  BY DEF Init, Owners, ProviderRefs, LeasesOn, DepsOn
<1>3. {v \in Value : done[v] # {}} = {} /\ forced = {}
  BY DEF Init
<1> QED
  BY <1>1, <1>2, <1>3 DEF Ownership!Init

LEMMA StepMaps ==
  CloseInv /\ CloseInv' /\ [Next]_vars => [Ownership!Next]_(Ownership!vars)
<1> SUFFICES ASSUME CloseInv, CloseInv', [Next]_vars
             PROVE  Ownership!Next \/ UNCHANGED Ownership!vars
  OBVIOUS
<1>1. BothFit
  BY FitBoth
<1>2. ASSUME UNCHANGED vars PROVE UNCHANGED Ownership!vars
  BY <1>2, LifeFrame, SameFrame, Stutters DEF LeasesOn, DepsOn
<1> QED
  BY <1>1, <1>2, BuildMaps, CleanUpMaps, LeaseMaps, DropMaps, CloseMaps
     DEF Next, Terminated

\* Every behaviour of the counts is a behaviour of ownership (value.go:8).
THEOREM CountsImplementOwnership ==
  ASSUME Joins
  PROVE  Spec => OwnershipKept
<1>1. Init => Ownership!Init
  BY InitMaps
<1>2. CloseInv /\ CloseInv' /\ [Next]_vars => [Ownership!Next]_(Ownership!vars)
  BY StepMaps
<1> QED
  BY <1>1, <1>2, CloseInvariant, PTL DEF Spec, OwnershipKept, Ownership!Spec
=============================================================================
