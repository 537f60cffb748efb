------------------------------- MODULE VetProofs -------------------------------
(***************************************************************************)
(* What the analyzer finds and reports, for every program, every set of    *)
(* packages and every order in which the fixpoint visits their functions.  *)
(***************************************************************************)
EXTENDS Vet, FiniteSetTheorems, SequenceTheorems, TLAPS

-----------------------------------------------------------------------------
(* First and last places.                                                  *)

\* A nonempty set of places has a first and a last one.
LEMMA FirstPlace ==
  ASSUME NEW n \in Nat, NEW T \in SUBSET (1..n), T # {}
  PROVE  \E m \in T : \A j \in T : m <= j
<1> DEFINE UpTo(x) == {y \in T : y <= x}
           Sets == {UpTo(x) : x \in T}
<1>1. IsFiniteSet(T)
  <2>1. IsFiniteSet(1..n)
    BY FS_Interval
  <2> QED
    BY <2>1, FS_Subset
<1>2. Sets \subseteq FiniteSubsetsOf(T) /\ Sets # {}
  <2>1. ASSUME NEW x \in T PROVE UpTo(x) \in FiniteSubsetsOf(T)
    BY <1>1, FS_FiniteSubsetsOfFinite
  <2> QED
    BY <2>1
<1>3. PICK S \in Sets : \A R \in Sets : <<R, S>> \notin StrictSubsetOrdering(T)
  BY <1>2, FS_StrictSubsetOrderingWellFounded, WFMin
<1>4. PICK m \in T : S = UpTo(m)
  BY <1>3
<1>5. ASSUME NEW j \in T, j < m PROVE FALSE
  <2>0. T \subseteq Int
    OBVIOUS
  <2>1. UpTo(j) \subseteq UpTo(m) /\ m \in UpTo(m) /\ m \notin UpTo(j)
    <3>1. \A y \in T : y <= j => y <= m
      BY <1>5, <2>0
    <3>2. m \in Int /\ m <= m /\ ~(m <= j)
      BY <1>5, <2>0
    <3> QED
      BY <3>1, <3>2
  <2>2. <<UpTo(j), S>> \in StrictSubsetOrdering(T)
    <3>1. UpTo(j) \in SUBSET T /\ S \in SUBSET T /\ UpTo(j) # S
      BY <1>4, <2>1
    <3> QED
      BY <1>4, <2>1, <3>1 DEF StrictSubsetOrdering
  <2> QED
    BY <1>3, <2>2
<1> QED
  BY <1>5

LEMMA LastPlace ==
  ASSUME NEW n \in Nat, NEW T \in SUBSET (1..n), T # {}
  PROVE  \E m \in T : \A j \in T : j <= m
<1> DEFINE R == {n + 1 - j : j \in T}
<1>1. R \in SUBSET (1..n) /\ R # {}
  OBVIOUS
<1>2. PICK r \in R : \A j \in R : r <= j
  BY <1>1, FirstPlace
<1>3. PICK m \in T : r = n + 1 - m
  BY <1>2
<1>4. ASSUME NEW j \in T PROVE j <= m
  <2>1. n + 1 - j \in R
    OBVIOUS
  <2> QED
    BY <1>2, <1>3, <2>1
<1> QED
  BY <1>4

-----------------------------------------------------------------------------
(* Programs.                                                               *)

LEMMA FunctionFacts ==
  /\ Len(Packages) \in Nat \ {0}
  /\ \A k \in 1..Len(Packages) : Packages[k] \subseteq Function
  /\ \A f \in Function : \E k \in 1..Len(Packages) : f \in Packages[k]
BY VetAssumption DEF VetAssumption, Function

\* What VetAssumption says of the events of a function.
LEMMA EventFacts ==
  ASSUME TypeOK, NEW f \in Function
  PROVE  /\ Len(program[f]) \in Nat
         /\ \A i \in 1..Len(program[f]) :
              LET e == program[f][i] IN
              /\ e.does \in Deeds
              /\ e.does = "get" => e.on \notin Function
              /\ e.does = "call" => e.on \in Function
              /\ e.on \in Named
              /\ Len(e.within) \in Nat
              /\ \A k \in 1..Len(e.within) :
                   /\ e.within[k] \in Literal /\ Home[e.within[k]] = f
                   /\ Use[e.within[k]] \in Uses
              /\ \A j, k \in 1..Len(e.within) : e.within[j] = e.within[k] => j = k
<1>1. PICK k \in 1..Len(Packages) : f \in Packages[k]
  BY FunctionFacts
<1>2. /\ Len(program[f]) \in Nat
      /\ \A i \in 1..Len(program[f]) : IsEvent(program[f][i], f, k)
  BY <1>1, VetAssumption DEF VetAssumption, TypeOK
<1>3. ASSUME NEW i \in 1..Len(program[f]) PROVE program[f][i].on \in Named
  BY <1>3 DEF Named
<1>4. ASSUME NEW i \in 1..Len(program[f]), program[f][i].does = "call"
      PROVE  program[f][i].on \in Function
  <2>1. PICK j \in 1..k : program[f][i].on \in Packages[j]
    BY <1>2, <1>4 DEF IsEvent
  <2> QED
    BY <2>1, FunctionFacts
<1>5. ASSUME NEW i \in 1..Len(program[f]), NEW j \in 1..Len(program[f][i].within)
      PROVE  /\ Len(program[f][i].within) \in Nat
             /\ program[f][i].within[j] \in Literal /\ Home[program[f][i].within[j]] = f
             /\ Use[program[f][i].within[j]] \in Uses
  <2>1. program[f][i].within \in Seq({l \in Literal : Home[l] = f})
    BY <1>2 DEF IsEvent
  <2>2. program[f][i].within[j] \in {l \in Literal : Home[l] = f}
    BY <2>1
  <2> QED
    BY <2>1, <2>2, VetAssumption DEF VetAssumption
<1>6. ASSUME NEW i \in 1..Len(program[f]) PROVE Len(program[f][i].within) \in Nat
  BY <1>2 DEF IsEvent
<1> QED
  BY <1>2, <1>3, <1>4, <1>5, <1>6 DEF IsEvent

\* Imports have no cycles: a function calls those of its package and of past ones.
LEMMA CallsFollowImports ==
  ASSUME TypeOK, NEW k \in 1..Len(Packages), NEW f \in Packages[k],
         NEW i \in 1..Len(program[f]), program[f][i].does = "call"
  PROVE  \E j \in 1..k : program[f][i].on \in Packages[j]
<1>1. IsEvent(program[f][i], f, k)
  BY VetAssumption DEF VetAssumption, TypeOK
<1> QED
  BY <1>1 DEF IsEvent

LEMMA ExecutesFacts ==
  ASSUME TypeOK, NEW f \in Function, NEW e \in Executes(f)
  PROVE  /\ e.on \in Named
         /\ e.does = "get" => e.on \notin Function
         /\ e.does = "call" => e.on \in Function
<1>1. PICK i \in 1..Len(program[f]) : e = program[f][i]
  BY DEF Executes, Reached
<1> QED
  BY <1>1, EventFacts

\* A function is of one package.
LEMMA PackagesApart ==
  ASSUME NEW j \in 1..Len(Packages), NEW k \in 1..Len(Packages),
         NEW f \in Packages[j], f \in Packages[k]
  PROVE  j = k
BY VetAssumption DEF VetAssumption

-----------------------------------------------------------------------------
(* The functions that force a provider: the least set closed under calls.  *)

Causes(g, S) == \E e \in Executes(g) : e.does = "get" \/ (e.does = "call" /\ e.on \in S)

LEMMA ForcingIsLeast ==
  ASSUME NEW S \in SUBSET Function, \A g \in Function : Causes(g, S) => g \in S
  PROVE  Forcing \subseteq S
BY DEF Forcing, Causes

LEMMA ForcingIsClosed ==
  ASSUME NEW g \in Function, Causes(g, Forcing)
  PROVE  g \in Forcing
<1>1. ASSUME NEW S \in SUBSET Function, \A h \in Function : Causes(h, S) => h \in S
      PROVE  g \in S
  <2>1. Causes(g, S)
    BY <1>1, ForcingIsLeast DEF Causes
  <2> QED
    BY <1>1, <2>1
<1> QED
  BY <1>1 DEF Forcing, Causes

\* ... so whoever forces has a cause.
LEMMA ForcingIsCaused ==
  ASSUME NEW f \in Forcing
  PROVE  Causes(f, Forcing)
<1> SUFFICES ASSUME ~Causes(f, Forcing) PROVE FALSE
  OBVIOUS
<1>1. Forcing \ {f} \in SUBSET Function
  BY DEF Forcing
<1>2. ASSUME NEW g \in Function, Causes(g, Forcing \ {f}) PROVE g \in Forcing \ {f}
  <2>1. Causes(g, Forcing)
    BY <1>2 DEF Causes
  <2> QED
    BY <2>1, ForcingIsClosed
<1>3. Forcing \subseteq Forcing \ {f}
  BY <1>1, <1>2, ForcingIsLeast
<1> QED
  BY <1>3

-----------------------------------------------------------------------------
(* The first site that forces.                                             *)

\* firstForce finds nothing exactly if nothing that executes forces, as far as is
\* known, and a site that does otherwise (analyzer.go:287).
LEMMA FirstForceFacts ==
  ASSUME TypeOK, NEW f \in Function
  PROVE  \/ FirstForce(f) = <<>> /\ \A e \in Executes(f) : ~Forced(e)
         \/ \E e \in Executes(f) :
              /\ Forced(e)
              /\ FirstForce(f) = IF e.does = "get" THEN <<e.on>>
                                 ELSE <<e.on>> \o ForcesVia(e.on)
<1> DEFINE sites == ImmediateSites(f, None, TRUE)
           hits == {i \in sites : Forced(program[f][i])}
<1>1. OnTheSpot \cup (IF TRUE THEN {"eager"} ELSE {}) = RunsNow
  BY DEF OnTheSpot, RunsNow
<1>2. sites = {i \in Reached(f, None, RunsNow) :
                   program[f][i].does \in {"get", "ready", "call"}}
  BY <1>1 DEF ImmediateSites
<1>3. Reached(f, None, RunsNow) \subseteq 1..Len(program[f]) /\ Len(program[f]) \in Nat
  BY EventFacts DEF Reached
<1>4. CASE hits = {}
  <2>1. ASSUME NEW e \in Executes(f), Forced(e) PROVE FALSE
    <3>1. PICK i \in Reached(f, None, RunsNow) : e = program[f][i]
      BY DEF Executes
    <3>2. i \in hits
      BY <1>2, <2>1, <3>1 DEF Forced
    <3> QED
      BY <1>4, <3>2
  <2> QED
    BY <1>4, <2>1 DEF FirstForce
<1>5. CASE hits # {}
  <2> DEFINE first == CHOOSE i \in hits : \A j \in hits : i <= j
             e == program[f][first]
  <2>1. \E i \in hits : \A j \in hits : i <= j
    BY <1>2, <1>3, <1>5, FirstPlace
  <2>2. first \in hits
    BY <2>1
  <2>3. e \in Executes(f) /\ Forced(e)
    BY <1>2, <2>2 DEF Executes
  <2>4. FirstForce(f) = IF e.does = "get" THEN <<e.on>> ELSE <<e.on>> \o ForcesVia(e.on)
    <3>1. FirstForce(f) = CASE hits = {} -> <<>>
                            [] hits # {} /\ e.does = "get" -> <<e.on>>
                            [] OTHER -> <<e.on>> \o ForcesVia(e.on)
      BY Zenon DEF FirstForce
    <3> HIDE DEF hits, e
    <3> QED
      BY <1>5, <3>1
  <2> QED
    BY <2>3, <2>4
<1> QED
  BY <1>4, <1>5

\* What is known of a function is what was found or imported.
LEMMA ViaFacts ==
  ASSUME TypeOK, NEW g \in Function
  PROVE  /\ ForcesVia(g) \in Seq(Named)
         /\ ForcesVia(g) # <<>> =>
              \/ g \in Found /\ ForcesVia(g) = forces[g]
              \/ g \in Exporting /\ ForcesVia(g) = facts[g]
<1>1. forces[g] \in Seq(Named) /\ facts[g] \in Seq(Named)
  BY DEF TypeOK
<1>2. CASE g \in Packages[pkg]
  BY <1>1, <1>2 DEF ForcesVia, Found
<1>3. CASE g \notin Packages[pkg]
  BY <1>1, <1>3 DEF ForcesVia, Exporting
<1> QED
  BY <1>2, <1>3

-----------------------------------------------------------------------------
(* The steps of the loop.                                                  *)

\* The program under analysis does not change, nor what executing it does.
LEMMA ProgramKept ==
  ASSUME program' = program
  PROVE  /\ Named' = Named /\ Forcing' = Forcing
         /\ \A f : Executes(f)' = Executes(f)
<1>1. \A f : Executes(f)' = Executes(f)
  BY DEF Executes, Reached, Contains, Between
<1> QED
  BY <1>1 DEF Named, Forcing

\* Visit finds nothing, or the path that starts with e.
Finds(f, e, via) ==
    /\ f \notin Found /\ Forced(e)
    /\ via = IF e.does = "get" THEN <<e.on>> ELSE <<e.on>> \o ForcesVia(e.on)
    /\ via # <<>>
    /\ forces' = [forces EXCEPT ![f] = via] /\ changed' = TRUE

LEMMA VisitFacts ==
  ASSUME TypeOK, NEW f \in Function, Visit(f)
  PROVE  /\ stage = "fixpoint" /\ f \in todo /\ f \in Packages[pkg] /\ pkg \in 1..Len(Packages)
         /\ todo' = todo \ {f} /\ UNCHANGED <<program, pkg, stage, facts, reports>>
         /\ \/ /\ forces' = forces /\ changed' = changed
               /\ f \in Found \/ \A e \in Executes(f) : ~Forced(e)
            \/ \E e \in Executes(f) : \E via \in Seq(Named) : Finds(f, e, via)
<1>1. /\ stage = "fixpoint" /\ f \in todo /\ f \in Packages[pkg] /\ pkg \in 1..Len(Packages)
      /\ todo' = todo \ {f} /\ UNCHANGED <<program, pkg, stage, facts, reports>>
  BY FunctionFacts DEF Visit, TypeOK
<1>2. CASE Known(f) \/ FirstForce(f) = <<>>
  <2>1. f \in Found \/ \A e \in Executes(f) : ~Forced(e)
    <3>1. CASE Known(f)
      BY <3>1 DEF Known, Found
    <3>2. CASE FirstForce(f) = <<>>
      <4>1. ASSUME NEW e \in Executes(f), Forced(e),
                   FirstForce(f) = IF e.does = "get" THEN <<e.on>> ELSE <<e.on>> \o ForcesVia(e.on)
            PROVE  FALSE
        <5>1. e.on \in Named /\ (e.does = "get" \/ (e.does = "call" /\ e.on \in Function))
          BY <4>1, ExecutesFacts DEF Forced
        <5>2. CASE e.does = "get"
          BY <3>2, <4>1, <5>2
        <5>3. CASE e.does = "call" /\ e.on \in Function
          <6>1. ForcesVia(e.on) \in Seq(Named)
            BY <5>3, ViaFacts
          <6>2. Len(<<e.on>> \o ForcesVia(e.on)) > 0
            BY <5>1, <6>1
          <6> QED
            BY <3>2, <4>1, <5>3, <6>2
        <5> QED
          BY <5>1, <5>2, <5>3
      <4> QED
        BY <3>2, <4>1, FirstForceFacts
    <3> QED
      BY <1>2, <3>1, <3>2
  <2> QED
    BY <1>1, <1>2, <2>1 DEF Visit
<1>3. CASE ~Known(f) /\ FirstForce(f) # <<>>
  <2>1. PICK e \in Executes(f) :
          /\ Forced(e)
          /\ FirstForce(f) = IF e.does = "get" THEN <<e.on>> ELSE <<e.on>> \o ForcesVia(e.on)
    BY <1>3, FirstForceFacts
  <2>2. FirstForce(f) \in Seq(Named)
    <3>1. e.on \in Named /\ (e.does = "get" \/ (e.does = "call" /\ e.on \in Function))
      BY <2>1, ExecutesFacts DEF Forced
    <3>2. CASE e.does = "get"
      BY <2>1, <3>1, <3>2
    <3>3. CASE e.does = "call" /\ e.on \in Function
      BY <2>1, <3>1, <3>3, ViaFacts
    <3> QED
      BY <3>1, <3>2, <3>3
  <2>3. Finds(f, e, FirstForce(f))
    BY <1>3, <2>1 DEF Finds, Visit, Known, Found
  <2> QED
    BY <1>1, <2>2, <2>3
<1> QED
  BY <1>1, <1>2, <1>3

\* ... which makes f one of those found.
LEMMA FindsFacts ==
  ASSUME TypeOK, NEW f \in Function, NEW e, NEW via \in Seq(Named), Finds(f, e, via)
  PROVE  /\ forces' \in [Function -> Seq(Named)] /\ forces'[f] = via
         /\ Found' = Found \cup {f}
         /\ \A g \in Found : forces'[g] = forces[g]
BY DEF Finds, TypeOK, Found

LEMMA TypesStep ==
  ASSUME TypeOK, [Next]_vars
  PROVE  TypeOK'
<1>1. program' = program => Named' = Named
  BY ProgramKept
<1>2. ASSUME NEW f \in Function, Visit(f) PROVE TypeOK'
  <2>1. forces' \in [Function -> Seq(Named)] /\ changed' \in BOOLEAN
    <3>1. CASE forces' = forces /\ changed' = changed
      BY <3>1 DEF TypeOK
    <3>2. ASSUME NEW e \in Executes(f), NEW via \in Seq(Named), Finds(f, e, via)
          PROVE  forces' \in [Function -> Seq(Named)] /\ changed' \in BOOLEAN
      BY <3>2, FindsFacts DEF Finds
    <3> QED
      BY <1>2, <3>1, <3>2, VisitFacts
  <2>2. UNCHANGED <<program, pkg, stage, facts>> /\ todo' \subseteq todo
    BY <1>2, VisitFacts
  <2> QED
    BY <1>1, <2>1, <2>2 DEF TypeOK
<1>3. CASE Again
  BY <1>1, <1>3 DEF Again, TypeOK
<1>4. CASE Export
  <2>1. facts' \in [Function -> Seq(Named)]
    BY <1>4 DEF Export, Exported, TypeOK
  <2> QED
    BY <1>1, <1>4, <2>1 DEF Export, TypeOK
<1>5. CASE Report
  <2>1. forces' \in [Function -> Seq(Named)]
    <3>1. <<>> \in Seq(Named)
      OBVIOUS
    <3> QED
      BY <1>5, <3>1 DEF Report
  <2>2. /\ UNCHANGED <<program, facts, changed>> /\ pkg' = pkg + 1
        /\ pkg \in 1..Len(Packages) /\ Len(Packages) \in Nat /\ todo \subseteq Function
    BY <1>5, FunctionFacts DEF Report, TypeOK
  <2>3. CASE pkg < Len(Packages)
    BY <1>1, <1>5, <2>1, <2>2, <2>3 DEF Report, TypeOK
  <2>4. CASE ~(pkg < Len(Packages))
    BY <1>1, <1>5, <2>1, <2>2, <2>4 DEF Report, TypeOK
  <2> QED
    BY <2>3, <2>4
<1>6. CASE UNCHANGED vars
  BY <1>1, <1>6 DEF vars, TypeOK
<1> QED
  BY <1>2, <1>3, <1>4, <1>5, <1>6 DEF Next, Analyzed

\* The packages of which something is known.
LEMMA PastFacts ==
  ASSUME TypeOK
  PROVE  /\ Past \subseteq Function
         /\ stage # "over" => pkg \in 1..Len(Packages) /\ Past \cap Packages[pkg] = {}
<1>1. \A k \in 1..(pkg - 1) : k \in 1..Len(Packages)
  BY FunctionFacts DEF TypeOK
<1>2. stage # "over" => pkg \in 1..Len(Packages)
  BY FunctionFacts DEF TypeOK
<1>3. ASSUME stage # "over", NEW f \in Past, f \in Packages[pkg] PROVE FALSE
  <2>1. PICK k \in 1..(pkg - 1) : f \in Packages[k]
    BY DEF Past
  <2>2. pkg \in Nat
    BY DEF TypeOK
  <2> QED
    BY <1>1, <1>2, <1>3, <2>1, <2>2, PackagesApart
<1> QED
  BY <1>1, <1>2, <1>3, FunctionFacts DEF Past

LEMMA PastGrows ==
  ASSUME TypeOK, Report
  PROVE  Past' = Past \cup Packages[pkg]
<1>1. pkg \in Nat \ {0} /\ pkg' = pkg + 1
  BY DEF TypeOK, Report
<1>2. 1..(pkg' - 1) = 1..(pkg - 1) \cup {pkg}
  BY <1>1
<1> QED
  BY <1>2 DEF Past

LEMMA KnownStep ==
  ASSUME TypeOK, KnownOK, [Next]_vars
  PROVE  KnownOK'
<1>1. ASSUME NEW f \in Function, Visit(f) PROVE KnownOK'
  <2>1. /\ UNCHANGED <<pkg, stage, facts>> /\ stage = "fixpoint" /\ f \in Packages[pkg]
    BY <1>1, VisitFacts
  <2>2. Found' \subseteq Found \cup {f}
    <3>1. CASE forces' = forces
      BY <3>1 DEF Found
    <3>2. ASSUME NEW e \in Executes(f), NEW via \in Seq(Named), Finds(f, e, via)
          PROVE  Found' \subseteq Found \cup {f}
      BY <3>2, FindsFacts
    <3> QED
      BY <1>1, <3>1, <3>2, VisitFacts
  <2>3. Past' = Past
    BY <2>1 DEF Past
  <2> QED
    BY <2>1, <2>2, <2>3 DEF KnownOK
<1>2. CASE Again \/ UNCHANGED vars
  BY <1>2 DEF Again, vars, KnownOK, Found, Past
<1>3. CASE Export
  <2>1. /\ UNCHANGED <<pkg, forces>> /\ stage = "fixpoint" /\ stage' = "report"
        /\ facts' = [f \in Function |-> IF f \in Packages[pkg] THEN forces[f] ELSE facts[f]]
    BY <1>3 DEF Export, Exported
  <2>2. Past' = Past /\ Found' = Found /\ Packages[pkg] \subseteq Function
    BY <2>1, PastFacts, FunctionFacts DEF Past, Found
  <2> QED
    BY <2>1, <2>2 DEF KnownOK
<1>4. CASE Report
  <2>1. /\ facts' = facts /\ Found' = {} /\ stage = "report" /\ stage' \in {"fixpoint", "over"}
    BY <1>4 DEF Report, Found
  <2> QED
    BY <1>4, <2>1, PastGrows DEF KnownOK
<1> QED
  BY <1>1, <1>2, <1>3, <1>4 DEF Next, Analyzed

LEMMA SoundStep ==
  ASSUME TypeOK, SoundOK, [Next]_vars
  PROVE  SoundOK'
<1>1. program' = program => Forcing' = Forcing
  BY ProgramKept
<1>2. ASSUME NEW f \in Function, Visit(f) PROVE SoundOK'
  <2>1. UNCHANGED <<program, facts>>
    BY <1>2, VisitFacts
  <2>2. CASE forces' = forces
    BY <1>1, <2>1, <2>2 DEF SoundOK
  <2>3. ASSUME NEW e \in Executes(f), NEW via \in Seq(Named), Finds(f, e, via)
        PROVE  SoundOK'
    <3>1. Causes(f, Forcing)
      <4>1. e.does = "get" \/ (e.does = "call" /\ ForcesVia(e.on) # <<>> /\ e.on \in Function)
        BY <2>3, ExecutesFacts DEF Finds, Forced
      <4>2. CASE e.does = "get"
        BY <4>2 DEF Causes
      <4>3. CASE e.does = "call" /\ ForcesVia(e.on) # <<>> /\ e.on \in Function
        BY <4>3, ViaFacts DEF SoundOK, Causes, Found, Exporting
      <4> QED
        BY <4>1, <4>2, <4>3
    <3>2. f \in Forcing
      BY <3>1, ForcingIsClosed
    <3>3. \A g \in Function : g # f => forces'[g] = forces[g]
      BY <2>3 DEF Finds, TypeOK
    <3> QED
      BY <1>1, <2>1, <3>2, <3>3 DEF SoundOK
  <2> QED
    BY <1>2, <2>2, <2>3, VisitFacts
<1>3. CASE Again \/ UNCHANGED vars
  BY <1>1, <1>3 DEF Again, vars, SoundOK
<1>4. CASE Export
  BY <1>1, <1>4 DEF Export, Exported, SoundOK
<1>5. CASE Report
  BY <1>1, <1>5 DEF Report, SoundOK
<1> QED
  BY <1>2, <1>3, <1>4, <1>5 DEF Next, Analyzed

LEMMA PassedStep ==
  ASSUME TypeOK, PassedOK, [Next]_vars
  PROVE  PassedOK'
<1>1. ASSUME NEW f \in Function, Visit(f) PROVE PassedOK'
  <2>1. /\ UNCHANGED <<program, pkg, stage, facts>> /\ todo' = todo \ {f}
    BY <1>1, VisitFacts
  <2>2. CASE /\ forces' = forces /\ changed' = changed
             /\ f \in Found \/ \A e \in Executes(f) : ~Forced(e)
    <3>1. Found' = Found /\ \A e : Forced(e)' = Forced(e)
      BY <2>1, <2>2 DEF Found, Forced, ForcesVia
    <3>2. \A h : Executes(h)' = Executes(h)
      BY <2>1, ProgramKept
    <3> QED
      BY <2>1, <2>2, <3>1, <3>2 DEF PassedOK
  <2>3. CASE changed' = TRUE
    BY <2>3 DEF PassedOK
  <2> QED
    BY <1>1, <2>2, <2>3, VisitFacts DEF Finds
<1>2. CASE Again
  BY <1>2 DEF Again, PassedOK
<1>3. CASE UNCHANGED vars
  <2>1. Found' = Found /\ \A e : Forced(e)' = Forced(e)
    BY <1>3 DEF Found, Forced, ForcesVia, vars
  <2>2. \A h : Executes(h)' = Executes(h)
    BY <1>3, ProgramKept DEF vars
  <2> QED
    BY <1>3, <2>1, <2>2 DEF vars, PassedOK
<1>4. CASE Export
  BY <1>4 DEF Export, PassedOK
<1>5. CASE Report
  <2>1. stage' = "fixpoint" => todo' = Packages[pkg']
    BY <1>5 DEF Report
  <2> QED
    BY <2>1 DEF PassedOK
<1> QED
  BY <1>1, <1>2, <1>3, <1>4, <1>5 DEF Next, Analyzed

-----------------------------------------------------------------------------
(* The facts.                                                              *)

\* When the loop ends, it has found every function of the package that forces.
LEMMA LoopFindsAll ==
  ASSUME TypeOK, KnownOK, SoundOK, PassedOK, FactsExact, Export,
         NEW f \in Packages[pkg], f \in Forcing
  PROVE  f \in Found
<1> DEFINE S == {g \in Function : (g \in Past => g \in Exporting)
                                 /\ (g \in Packages[pkg] => g \in Found)}
<1>0. /\ stage = "fixpoint" /\ todo = {} /\ ~changed /\ pkg \in 1..Len(Packages)
      /\ Past \cap Packages[pkg] = {} /\ Past \subseteq Function
  BY PastFacts DEF Export
<1>2. /\ S \in SUBSET Function
      /\ \A g : g \in S <=>
           /\ g \in Function
           /\ g \in Past => g \in Exporting
           /\ g \in Packages[pkg] => g \in Found
  OBVIOUS
<1> HIDE DEF S
<1>1. ASSUME NEW g \in Function, Causes(g, S) PROVE g \in S
  <2>1. PICK e \in Executes(g) : e.does = "get" \/ (e.does = "call" /\ e.on \in S)
    BY <1>1 DEF Causes
  <2>2. PICK i \in 1..Len(program[g]) : e = program[g][i]
    BY DEF Executes, Reached
  <2>3. ASSUME g \in Past PROVE g \in Exporting
    <3>1. PICK k \in 1..(pkg - 1) : g \in Packages[k]
      BY <2>3 DEF Past
    <3>2. k \in 1..Len(Packages) /\ k < pkg
      BY <1>0, <3>1, FunctionFacts
    <3>3. Causes(g, Forcing)
      <4>1. CASE e.does = "get"
        BY <4>1 DEF Causes
      <4>2. CASE e.does = "call" /\ e.on \in S
        <5>1. PICK j \in 1..k : e.on \in Packages[j]
          BY <2>2, <3>1, <3>2, <4>2, CallsFollowImports
        <5>2. e.on \in Past
          <6>1. j \in 1..(pkg - 1)
            BY <1>0, <3>2
          <6> QED
            BY <5>1, <6>1 DEF Past
        <5>3. e.on \in Forcing
          BY <1>2, <4>2, <5>2 DEF SoundOK, Exporting
        <5> QED
          BY <4>2, <5>3 DEF Causes
      <4> QED
        BY <2>1, <4>1, <4>2
    <3>4. g \in Forcing
      BY <3>3, ForcingIsClosed
    <3> QED
      BY <3>1, <3>2, <3>4 DEF FactsExact, Exporting
  <2>4. ASSUME g \in Packages[pkg] PROVE g \in Found
    <3>1. CASE e.does = "get"
      <4>1. Forced(e)
        BY <3>1 DEF Forced
      <4> QED
        BY <1>0, <2>4, <4>1 DEF PassedOK
    <3>2. CASE e.does = "call" /\ e.on \in S
      <4>1. PICK j \in 1..pkg : e.on \in Packages[j]
        BY <1>0, <2>2, <2>4, <3>2, CallsFollowImports
      <4>2. ForcesVia(e.on) # <<>>
        <5>1. CASE j = pkg
          BY <1>2, <3>2, <4>1, <5>1 DEF ForcesVia, Found
        <5>2. CASE j # pkg
          <6>1. e.on \in Past
            <7>1. j \in 1..(pkg - 1)
              BY <1>0, <4>1, <5>2
            <7> QED
              BY <4>1, <7>1 DEF Past
          <6> QED
            BY <1>0, <1>2, <3>2, <6>1 DEF ForcesVia, Exporting
        <5> QED
          BY <5>1, <5>2
      <4>3. Forced(e)
        BY <3>2, <4>2 DEF Forced
      <4> QED
        BY <1>0, <2>4, <4>3 DEF PassedOK
    <3> QED
      BY <2>1, <3>1, <3>2
  <2> QED
    BY <1>2, <2>3, <2>4
<1>3. Forcing \subseteq S
  BY <1>1, <1>2, ForcingIsLeast
<1> QED
  BY <1>2, <1>3

LEMMA FactsStep ==
  ASSUME TypeOK, KnownOK, SoundOK, PassedOK, FactsExact, [Next]_vars
  PROVE  FactsExact'
<1>1. program' = program => Forcing' = Forcing
  BY ProgramKept
<1>2. ASSUME NEW f \in Function, Visit(f) PROVE FactsExact'
  <2>1. UNCHANGED <<program, pkg, stage, facts>>
    BY <1>2, VisitFacts
  <2> QED
    BY <1>1, <2>1 DEF FactsExact
<1>3. CASE Again \/ UNCHANGED vars
  BY <1>1, <1>3 DEF Again, vars, FactsExact
<1>4. CASE Export
  <2>1. /\ UNCHANGED <<program, pkg, forces>> /\ stage = "fixpoint" /\ pkg \in 1..Len(Packages)
        /\ facts' = [f \in Function |-> IF f \in Packages[pkg] THEN forces[f] ELSE facts[f]]
    BY <1>4, PastFacts DEF Export, Exported
  <2>2. ASSUME NEW k \in 1..Len(Packages), k < pkg, NEW f \in Packages[k]
        PROVE  facts'[f] # <<>> <=> f \in Forcing
    <3>1. f \in Function /\ f \notin Packages[pkg]
      BY <2>1, <2>2, PackagesApart, FunctionFacts
    <3> QED
      BY <2>1, <2>2, <3>1 DEF FactsExact
  <2>3. ASSUME NEW f \in Packages[pkg] PROVE facts'[f] # <<>> <=> f \in Forcing
    <3>1. f \in Function /\ facts'[f] = forces[f]
      BY <2>1, FunctionFacts
    <3> QED
      BY <1>4, <3>1, LoopFindsAll DEF SoundOK, Found
  <2> QED
    BY <1>1, <2>1, <2>2, <2>3 DEF FactsExact, TypeOK
<1>5. CASE Report
  <2>1. /\ UNCHANGED <<program, facts>> /\ pkg' = pkg + 1 /\ stage = "report"
        /\ pkg \in Nat /\ (stage' = "fixpoint" \/ (stage' = "over" /\ ~(pkg < Len(Packages))))
    BY <1>5 DEF Report, TypeOK
  <2>2. ASSUME NEW k \in 1..Len(Packages), k < pkg' \/ (k = pkg' /\ stage' # "fixpoint")
        PROVE  k < pkg \/ k = pkg
    BY <2>1, <2>2, FunctionFacts
  <2> QED
    BY <1>1, <2>1, <2>2 DEF FactsExact
<1> QED
  BY <1>2, <1>3, <1>4, <1>5 DEF Next, Analyzed

-----------------------------------------------------------------------------
(* The paths.                                                              *)

\* The end of a path is a provider, and all before it functions of S.
LEMMA PathFacts ==
  ASSUME TypeOK, NEW g \in Function, NEW via \in Seq(Named), via # <<>>,
         NEW S \in SUBSET Function, Leads(g, via, S)
  PROVE  /\ Len(via) \in Nat \ {0} /\ g \in S
         /\ \A k \in 1..Len(via) :
              via[k] \in IF k = Len(via) THEN Named \ Function ELSE S
<1> DEFINE path == <<g>> \o via
<1>1. /\ Len(via) \in Nat \ {0} /\ Len(path) = Len(via) + 1
      /\ path[1] = g /\ \A k \in 1..Len(via) : path[k + 1] = via[k]
  <2>1. <<g>> \in Seq(Function \cup Named) /\ via \in Seq(Function \cup Named)
    OBVIOUS
  <2> QED
    BY <2>1
<1>2. \A k \in 1..Len(via) :
        /\ path[k] \in S
        /\ \E e \in Executes(path[k]) :
             e.on = path[k + 1] /\ e.does = IF k = Len(via) THEN "get" ELSE "call"
  <2>1. Len(path) - 1 = Len(via)
    BY <1>1
  <2> QED
    BY <2>1 DEF Leads
<1> HIDE DEF path
<1>3. g \in S
  BY <1>1, <1>2
<1>4. ASSUME NEW k \in 1..Len(via), k # Len(via) PROVE via[k] \in S
  <2>1. k + 1 \in 1..Len(via)
    BY <1>1, <1>4
  <2> QED
    BY <1>1, <1>2, <2>1
<1>5. via[Len(via)] \in Named \ Function
  <2>1. Len(via) \in 1..Len(via)
    BY <1>1
  <2>2. PICK e \in Executes(path[Len(via)]) : e.on = path[Len(via) + 1] /\ e.does = "get"
    BY <1>2, <2>1
  <2>3. path[Len(via)] \in Function
    BY <1>2, <2>1
  <2>4. e.on \in Named \ Function
    BY <2>2, <2>3, ExecutesFacts
  <2> QED
    BY <1>1, <2>1, <2>2, <2>4
<1> QED
  BY <1>1, <1>3, <1>4, <1>5

\* A call of a function that is not on its path makes the path longer.
LEMMA LeadsFurther ==
  ASSUME TypeOK, NEW f \in Function, NEW g \in Function, NEW via \in Seq(Named), via # <<>>,
         NEW S \in SUBSET Function, Leads(g, via, S), f \notin S,
         NEW e \in Executes(f), e.does = "call", e.on = g, g \in Named
  PROVE  Leads(f, <<g>> \o via, S \cup {f})
<1> DEFINE path == <<g>> \o via
           long == <<f>> \o path
           last == Len(via) + 1
<1>0. /\ Len(via) \in Nat \ {0} /\ Len(path) = last /\ Len(long) = last + 1
      /\ path[1] = g /\ \A k \in 1..Len(via) : path[k + 1] = via[k]
      /\ long[1] = f /\ \A k \in 1..last : long[k + 1] = path[k]
  <2>1. /\ <<g>> \in Seq(Function \cup Named) /\ via \in Seq(Function \cup Named)
        /\ <<f>> \in Seq(Function \cup Named) /\ path \in Seq(Function \cup Named)
    OBVIOUS
  <2>2. Len(via) \in Nat \ {0} /\ Len(path) = Len(via) + 1
        /\ path[1] = g /\ \A k \in 1..Len(via) : path[k + 1] = via[k]
    BY <2>1
  <2> HIDE DEF path
  <2> QED
    BY <2>1, <2>2
<1>1. /\ \A j, k \in 1..last : path[j] = path[k] => j = k
      /\ \A k \in 1..Len(via) :
           /\ path[k] \in S
           /\ \E d \in Executes(path[k]) :
                d.on = path[k + 1] /\ d.does = IF k = Len(via) THEN "get" ELSE "call"
  <2>1. Len(path) = last /\ Len(path) - 1 = Len(via)
    BY <1>0
  <2>2. \A j, k \in 1..Len(path) : path[j] = path[k] => j = k
    BY DEF Leads
  <2>3. \A k \in 1..(Len(path) - 1) :
          /\ path[k] \in S
          /\ \E d \in Executes(path[k]) :
               d.on = path[k + 1] /\ d.does = IF k = Len(path) - 1 THEN "get" ELSE "call"
    BY DEF Leads
  <2> HIDE DEF path, last
  <2> QED
    BY <2>1, <2>2, <2>3
<1>2. \A k \in 1..last : path[k] # f
  <2>1. \A k \in 1..Len(via) : path[k] # f
    BY <1>1
  <2>2. path[last] # f
    <3>1. via[Len(via)] \in Named \ Function /\ Len(via) \in 1..Len(via)
      BY <1>0, PathFacts
    <3> QED
      BY <1>0, <3>1
  <2> QED
    BY <1>0, <2>1, <2>2
<1> HIDE DEF path, long
<1>3. ASSUME NEW j \in 1..(last + 1), NEW k \in 1..(last + 1), long[j] = long[k] PROVE j = k
  <2>1. \A i \in 1..(last + 1) : i = 1 \/ (i - 1 \in 1..last /\ long[i] = path[i - 1])
    BY <1>0
  <2> QED
    BY <1>0, <1>1, <1>2, <1>3, <2>1
<1>4. ASSUME NEW k \in 1..last
      PROVE  /\ long[k] \in S \cup {f}
             /\ \E d \in Executes(long[k]) :
                  d.on = long[k + 1] /\ d.does = IF k = last THEN "get" ELSE "call"
  <2>1. CASE k = 1
    BY <1>0, <2>1
  <2>2. CASE k # 1
    <3>1. k - 1 \in 1..Len(via) /\ long[k] = path[k - 1] /\ long[k + 1] = path[k]
      BY <1>0, <2>2
    <3>2. (k - 1) + 1 = k /\ (k - 1 = Len(via) <=> k = last)
      BY <1>0
    <3> QED
      BY <1>1, <3>1, <3>2
  <2> QED
    BY <2>1, <2>2
<1>5. Len(long) = last + 1 /\ Len(long) - 1 = last
  BY <1>0
<1> HIDE DEF last
<1>6. /\ \A j, k \in 1..Len(long) : long[j] = long[k] => j = k
      /\ \A k \in 1..(Len(long) - 1) :
           /\ long[k] \in S \cup {f}
           /\ \E d \in Executes(long[k]) :
                d.on = long[k + 1] /\ d.does = IF k = Len(long) - 1 THEN "get" ELSE "call"
  BY <1>3, <1>4, <1>5
<1>7. Leads(f, path, S \cup {f})
  BY <1>6 DEF Leads, long
<1> QED
  BY <1>7 DEF path

\* A read of a provider is the shortest path.
LEMMA LeadsAtOnce ==
  ASSUME TypeOK, NEW f \in Function, NEW e \in Executes(f), e.does = "get"
  PROVE  Leads(f, <<e.on>>, {f})
<1> DEFINE path == <<f>> \o <<e.on>>
<1>1. e.on \notin Function
  BY ExecutesFacts
<1>2. Len(path) = 2 /\ path[1] = f /\ path[2] = e.on
  OBVIOUS
<1> HIDE DEF path
<1> QED
  BY <1>1, <1>2 DEF Leads, path

LEMMA LeadsMore ==
  ASSUME NEW f, NEW via, NEW S, NEW T, Leads(f, via, S), S \subseteq T
  PROVE  Leads(f, via, T)
BY DEF Leads

LEMMA LeadsKept ==
  ASSUME program' = program, NEW f, NEW via, NEW S, Leads(f, via, S)
  PROVE  Leads(f, via, S)'
<1>1. \A g : Executes(g)' = Executes(g)
  BY ProgramKept
<1> QED
  BY <1>1 DEF Leads

LEMMA ViaStep ==
  ASSUME TypeOK, KnownOK, ViaOK, [Next]_vars
  PROVE  ViaOK'
<1>0. program' = program
  BY VisitFacts DEF Next, Analyzed, Again, Export, Report, vars
<1>1. ASSUME NEW f \in Function, Visit(f) PROVE ViaOK'
  <2>1. facts' = facts /\ Exporting' = Exporting /\ stage = "fixpoint" /\ f \in Packages[pkg]
    BY <1>1, VisitFacts DEF Exporting
  <2>2. CASE forces' = forces
    BY <1>0, <2>1, <2>2, LeadsKept DEF ViaOK, Found
  <2>3. ASSUME NEW e \in Executes(f), NEW via \in Seq(Named), Finds(f, e, via) PROVE ViaOK'
    <3>1. /\ forces'[f] = via /\ Found' = Found \cup {f}
          /\ \A g \in Found : forces'[g] = forces[g]
          /\ Found \cup Exporting \subseteq Function
      BY <2>3, FindsFacts DEF Found, Exporting
    <3>2. f \notin Found \cup Exporting
      BY <2>1, <2>3, PastFacts DEF KnownOK, Finds, Exporting
    <3>3. Leads(f, via, Found \cup Exporting \cup {f})
      <4>1. e.does = "get" \/ (e.does = "call" /\ ForcesVia(e.on) # <<>> /\ e.on \in Function)
        BY <2>3, ExecutesFacts DEF Finds, Forced
      <4>2. CASE e.does = "get"
        BY <2>3, <4>2, LeadsAtOnce, LeadsMore DEF Finds
      <4>3. CASE e.does = "call" /\ ForcesVia(e.on) # <<>> /\ e.on \in Function
        <5>1. PICK g \in Function : g = e.on
          BY <4>3
        <5>2. PICK rest \in Seq(Named) : rest = ForcesVia(g)
          BY <5>1, ViaFacts
        <5>3. Leads(g, rest, Found \cup Exporting)
          <6>1. CASE g \in Found /\ rest = forces[g]
            BY <6>1 DEF ViaOK
          <6>2. CASE g \in Exporting /\ rest = facts[g]
            BY <6>2, LeadsMore DEF ViaOK
          <6> QED
            BY <4>3, <5>1, <5>2, <6>1, <6>2, ViaFacts
        <5>4. g \in Named /\ via = <<g>> \o rest
          BY <2>3, <4>3, <5>1, <5>2, ExecutesFacts DEF Finds
        <5>5. rest # <<>> /\ e.does = "call" /\ e.on = g
          BY <4>3, <5>1, <5>2
        <5>6. PICK T \in SUBSET Function : T = Found \cup Exporting
          BY <3>1
        <5>7. Leads(f, <<g>> \o rest, T \cup {f})
          BY <3>2, <5>3, <5>4, <5>5, <5>6, LeadsFurther
        <5> QED
          BY <5>4, <5>6, <5>7
      <4> QED
        BY <4>1, <4>2, <4>3
    <3>4. ASSUME NEW h \in Found' PROVE Leads(h, forces[h], Found \cup Exporting)'
      <4>1. PICK v : v = forces'[h]
        OBVIOUS
      <4>2. PICK T : T = Found \cup Exporting \cup {f}
        OBVIOUS
      <4>3. Leads(h, v, T)
        BY <3>1, <3>3, <4>1, <4>2, LeadsMore DEF ViaOK
      <4>4. Leads(h, v, T)' /\ T = (Found \cup Exporting)'
        BY <1>0, <2>1, <3>1, <4>2, <4>3, LeadsKept
      <4> QED
        BY <4>1, <4>4
    <3>5. ASSUME NEW h \in Exporting' PROVE Leads(h, facts[h], Exporting)'
      <4>1. Leads(h, facts[h], Exporting)
        BY <2>1, <3>5 DEF ViaOK
      <4> QED
        BY <1>0, <2>1, <4>1, LeadsKept
    <3> QED
      BY <3>4, <3>5 DEF ViaOK
  <2> QED
    BY <1>1, <2>2, <2>3, VisitFacts
<1>2. CASE Again \/ UNCHANGED vars
  <2>1. UNCHANGED <<forces, facts, Found, Exporting>>
    BY <1>2 DEF Again, vars, Found, Exporting
  <2> QED
    BY <1>0, <2>1, LeadsKept DEF ViaOK
<1>3. CASE Export
  <2>1. /\ forces' = forces /\ stage = "fixpoint"
        /\ facts' = [f \in Function |-> IF f \in Packages[pkg] THEN forces[f] ELSE facts[f]]
    BY <1>3 DEF Export, Exported
  <2>2. /\ Found' = Found /\ Exporting' = Found \cup Exporting
        /\ \A f \in Found : facts'[f] = forces[f]
        /\ \A f \in Exporting : facts'[f] = facts[f]
    BY <2>1, PastFacts DEF KnownOK, Found, Exporting
  <2>3. ASSUME NEW h \in Found' PROVE Leads(h, forces[h], Found \cup Exporting)'
    <3>1. Leads(h, forces[h], Found \cup Exporting)
      BY <2>2, <2>3 DEF ViaOK
    <3>2. (Found \cup Exporting)' = Found \cup Exporting
      BY <2>2
    <3> QED
      BY <1>0, <2>1, <3>1, <3>2, LeadsKept
  <2>4. ASSUME NEW h \in Exporting' PROVE Leads(h, facts[h], Exporting)'
    <3>1. Leads(h, facts'[h], Found \cup Exporting)
      BY <2>2, <2>4, LeadsMore DEF ViaOK
    <3> QED
      BY <1>0, <2>2, <3>1, LeadsKept
  <2> QED
    BY <2>3, <2>4 DEF ViaOK
<1>4. CASE Report
  <2>1. Found' = {} /\ facts' = facts /\ Exporting' = Exporting
    BY <1>4 DEF Report, Found, Exporting
  <2> QED
    BY <1>0, <2>1, LeadsKept DEF ViaOK
<1> QED
  BY <1>1, <1>2, <1>3, <1>4 DEF Next, Analyzed

-----------------------------------------------------------------------------
(* The reports.                                                            *)

\* Once the facts of a package are known, what forces a provider, as far as the
\* analyzer knows, is what does.
LEMMA ForcedIsWaits ==
  ASSUME TypeOK, KnownOK, FactsExact, stage = "report",
         NEW f \in Packages[pkg], NEW i \in 1..Len(program[f])
  PROVE  Forced(program[f][i]) <=> Waits(program[f][i])
<1>1. pkg \in 1..Len(Packages)
  BY PastFacts
<1>2. CASE program[f][i].does = "call"
  <2>1. PICK j \in 1..pkg : program[f][i].on \in Packages[j]
    BY <1>1, <1>2, CallsFollowImports
  <2>2. PICK g \in Packages[j] : g = program[f][i].on
    BY <2>1
  <2>3. j \in 1..Len(Packages)
    BY <1>1, FunctionFacts
  <2>4. facts[g] # <<>> <=> g \in Forcing
    <3>1. j < pkg \/ (j = pkg /\ stage # "fixpoint")
      BY <1>1, FunctionFacts
    <3> QED
      BY <2>3, <3>1 DEF FactsExact
  <2>5. ForcesVia(g) # <<>> <=> facts[g] # <<>>
    BY DEF ForcesVia, KnownOK
  <2> QED
    BY <1>2, <2>2, <2>4, <2>5 DEF Forced, Waits
<1>3. CASE program[f][i].does # "call"
  BY <1>3 DEF Forced, Waits
<1> QED
  BY <1>2, <1>3

LEMMA ReportsAreDue ==
  ASSUME TypeOK, KnownOK, FactsExact, stage = "report", NEW f \in Packages[pkg]
  PROVE  ReportsIn(f) = Due(f)
<1>1. ASSUME NEW root, NEW i \in ImmediateSites(f, root, FALSE)
      PROVE  Forced(program[f][i]) <=> Waits(program[f][i])
  BY ForcedIsWaits DEF ImmediateSites, Reached
<1>2. \A root : ReportEager(f, root) = DueEager(f, root)
  BY <1>1 DEF ReportEager, DueEager
<1>3. \A l : Inside(f, l) = DueInside(f, l)
  BY <1>1 DEF Inside, DueInside
<1> QED
  BY <1>2, <1>3 DEF ReportsIn, Due

LEMMA ReportsStep ==
  ASSUME TypeOK, KnownOK, FactsExact, ReportsOK, [Next]_vars
  PROVE  ReportsOK'
<1>0. program' = program
  BY VisitFacts DEF Next, Analyzed, Again, Export, Report, vars
<1>1. \A f : Due(f)' = Due(f)
  <2>1. \A f : FromNil(f)' = FromNil(f)
    BY <1>0 DEF FromNil
  <2>2. \A f, root, uses : Reached(f, root, uses)' = Reached(f, root, uses)
    BY <1>0 DEF Reached, Contains, Between
  <2>3. \A f, root, into : ImmediateSites(f, root, into)' = ImmediateSites(f, root, into)
    BY <1>0, <2>2 DEF ImmediateSites
  <2>4. /\ \A f, root : DueEager(f, root)' = DueEager(f, root)
        /\ \A f, l : DueInside(f, l)' = DueInside(f, l)
    BY <1>0, <2>3, ProgramKept DEF DueEager, DueInside, Waits
  <2>5. /\ \A f, l : ReportScopeEscape(f, l)' = ReportScopeEscape(f, l)
        /\ \A f, l : ReportScopeStored(f, l)' = ReportScopeStored(f, l)
        /\ \A f, l : BackgroundContexts(f, l)' = BackgroundContexts(f, l)
    BY <1>0, <2>2 DEF ReportScopeEscape, ReportScopeStored, BackgroundContexts, OfScope
  <2> QED
    BY <2>1, <2>4, <2>5 DEF Due
<1>2. CASE Report
  <2>1. {ReportsIn(f) : f \in Packages[pkg]} = {Due(f) : f \in Packages[pkg]}
    BY <1>2, ReportsAreDue DEF Report
  <2>2. reports' = (UNION {Due(f) : f \in Past}) \cup (UNION {Due(f) : f \in Packages[pkg]})
    BY <1>2, <2>1 DEF Report, ReportsOK
  <2>3. reports' = UNION {Due(f) : f \in Past'}
    BY <1>2, <2>2, PastGrows
  <2> QED
    BY <1>1, <2>3 DEF ReportsOK
<1>3. ASSUME reports' = reports, pkg' = pkg PROVE ReportsOK'
  BY <1>1, <1>3 DEF ReportsOK, Past
<1> QED
  BY <1>2, <1>3, VisitFacts DEF Next, Analyzed, Again, Export, vars

-----------------------------------------------------------------------------
(* The invariant.                                                          *)

LEMMA VetStarts ==
  ASSUME Init
  PROVE  VetInv
<1>1. /\ program \in Programs /\ pkg = 1 /\ stage = "fixpoint" /\ todo = Packages[1]
      /\ changed = FALSE /\ reports = {} /\ Len(Packages) \in Nat \ {0}
      /\ \A f \in Function : forces[f] = <<>> /\ facts[f] = <<>>
  BY FunctionFacts DEF Init
<1>2. Found = {} /\ Exporting = {} /\ Past = {}
  <2>1. 1..(pkg - 1) = {}
    BY <1>1
  <2> QED
    BY <1>1, <2>1 DEF Found, Exporting, Past
<1>3. TypeOK
  <2>1. <<>> \in Seq(Named)
    OBVIOUS
  <2>2. forces \in [Function -> Seq(Named)] /\ facts \in [Function -> Seq(Named)]
    BY <2>1 DEF Init
  <2>3. pkg \in 1..(Len(Packages) + 1) /\ ~(pkg > Len(Packages))
    BY <1>1
  <2>4. todo \subseteq IF stage = "over" THEN Function ELSE Packages[pkg]
    BY <1>1
  <2>5. stage \in {"fixpoint", "report", "over"} /\ stage # "over" /\ changed \in BOOLEAN
    BY <1>1
  <2> QED
    BY <1>1, <2>2, <2>3, <2>4, <2>5 DEF TypeOK
<1>4. FactsExact
  BY <1>1 DEF FactsExact
<1> QED
  BY <1>1, <1>2, <1>3, <1>4 DEF VetInv, KnownOK, SoundOK, PassedOK, ViaOK, ReportsOK

\* The analyzer keeps its invariant: what it has found forces a provider and by
\* which path, what it has passed does not as far as is known, the facts of the
\* packages it has left are exact, and so are the reports (analyzer.go:52).
THEOREM VetInvariant == Spec => []VetInv
<1>1. Init => VetInv
  BY VetStarts
<1>2. VetInv /\ [Next]_vars => VetInv'
  BY TypesStep, KnownStep, SoundStep, PassedStep, FactsStep, ViaStep, ReportsStep DEF VetInv
<1> QED
  BY <1>1, <1>2, PTL DEF Spec

\* The types of the analyzer's state (analyzer.go:52).
THEOREM VetTypesKept == Spec => []TypeOK
BY VetInvariant, PTL DEF VetInv

\* The facts of every package whose fixpoint is over are exact: whoever forces a
\* Deferred provider, itself or through others of its package or of packages it
\* imports, is known to, and nobody else (analyzer.go:69).
THEOREM FactsAreExact == Spec => []FactsExact
BY VetInvariant, PTL DEF VetInv

\* Every path the analyzer prints is one that the program can take, and visits
\* no function twice, also where functions call each other (analyzer.go:301).
THEOREM PathsAreReal == Spec => []ViaIsPath
<1>1. ASSUME ViaOK, NEW f \in Function, forces[f] # <<>>
      PROVE  LET path == <<f>> \o forces[f]
                 last == Len(path) IN
             /\ \A j, k \in 1..last : path[j] = path[k] => j = k
             /\ \A k \in 1..(last - 1) : \E e \in Executes(path[k]) :
                  e.on = path[k + 1] /\ e.does = IF k = last - 1 THEN "get" ELSE "call"
  <2>1. Leads(f, forces[f], Found \cup Exporting)
    BY <1>1 DEF ViaOK, Found
  <2> QED
    BY <2>1 DEF Leads
<1>2. VetInv => ViaIsPath
  BY <1>1 DEF VetInv, ViaIsPath
<1> QED
  BY <1>2, VetInvariant, PTL

\* Every step of the loop finds a function, or settles that one was found, or
\* has one function less to come to (analyzer.go:70).
THEOREM LoopAlwaysProgresses == Spec => LoopProgresses
<1>1. ASSUME TypeOK, [Next]_vars PROVE [Progress]_vars
  <2>1. ASSUME NEW f \in Function, Visit(f) PROVE Progress
    <3>1. /\ f \in todo /\ todo' = todo \ {f} /\ UNCHANGED <<pkg, stage>>
      BY <1>1, <2>1, VisitFacts
    <3>2. CASE forces' = forces /\ changed' = changed
      BY <3>1, <3>2 DEF Progress, Found
    <3>3. ASSUME NEW e \in Executes(f), NEW via \in Seq(Named), Finds(f, e, via)
          PROVE  Progress
      <4>1. Found' = Found \cup {f} /\ f \notin Found
        BY <1>1, <3>3, FindsFacts DEF Finds
      <4> QED
        BY <3>1, <4>1 DEF Progress
    <3> QED
      BY <1>1, <2>1, <3>2, <3>3, VisitFacts
  <2>2. CASE Again
    BY <2>2 DEF Again, Progress, Found
  <2>3. CASE Export
    BY <2>3 DEF Export, Progress
  <2>4. CASE Report
    BY <2>4 DEF Report, Progress
  <2> QED
    BY <1>1, <2>1, <2>2, <2>3, <2>4 DEF Next, Analyzed
<1> QED
  BY <1>1, VetTypesKept, PTL DEF Spec, LoopProgresses

-----------------------------------------------------------------------------
(* Which builders an event is in.                                          *)

\* With more uses, more is reached.
LEMMA ReachedMore ==
  ASSUME NEW f, NEW root, NEW uses, NEW more, uses \subseteq more
  PROVE  Reached(f, root, uses) \subseteq Reached(f, root, more)
BY DEF Reached

\* An event reached through eager builders too is reached without them from
\* the innermost of those, if from nowhere further out.
LEMMA LastBuilder ==
  ASSUME TypeOK, NEW f \in Function, NEW root, NEW uses, "eager" \notin uses,
         NEW i \in Reached(f, root, uses \cup {"eager"})
  PROVE  \/ i \in Reached(f, root, uses)
         \/ \E m \in Builders(f) : Use[m] = "eager" /\ i \in Reached(f, m, uses)
<1>0. i \in 1..Len(program[f])
  BY DEF Reached
<1> DEFINE e == program[f][i]
           w == e.within
           after == {k \in 1..Len(w) : root = None \/ \E j \in 1..(k - 1) : w[j] = root}
           eagers == {k \in after : Use[w[k]] = "eager"}
<1>1. /\ Len(w) \in Nat
      /\ \A k \in 1..Len(w) : w[k] \in Literal /\ Home[w[k]] = f
      /\ \A j, k \in 1..Len(w) : w[j] = w[k] => j = k
  BY <1>0, EventFacts
<1>2. /\ Contains(root, e) /\ \A k \in after : Use[w[k]] \in uses \cup {"eager"}
  BY DEF Reached, Between
<1>3. CASE eagers = {}
  BY <1>0, <1>2, <1>3 DEF Reached, Between
<1>4. CASE eagers # {}
  <2>1. PICK p \in eagers : \A k \in eagers : k <= p
    <3>1. PICK n \in Nat : n = Len(w)
      BY <1>1
    <3>2. eagers \in SUBSET (1..n)
      BY <3>1
    <3> HIDE DEF eagers
    <3> QED
      BY <1>4, <3>1, <3>2, LastPlace
  <2>2. PICK m : m = w[p]
    OBVIOUS
  <2>3. m \in Builders(f) /\ Use[m] = "eager" /\ m # None
    BY <1>1, <2>1, <2>2, VetAssumption DEF Builders, VetAssumption
  <2>4. Contains(m, e)
    BY <2>1, <2>2 DEF Contains
  <2>5. ASSUME NEW l \in Between(m, e) PROVE Use[l] \in uses
    <3>1. PICK k \in 1..Len(w) : l = w[k] /\ \E j \in 1..(k - 1) : w[j] = m
      BY <2>3, <2>5 DEF Between
    <3>2. PICK j \in 1..(k - 1) : w[j] = m
      BY <3>1
    <3>3. j \in 1..Len(w) /\ p \in 1..Len(w)
      BY <1>1, <2>1, <3>1
    <3>4. j = p
      BY <1>1, <2>2, <3>2, <3>3
    <3>5. p < k /\ p \in Nat /\ k \in Nat
      BY <3>1, <3>2, <3>3, <3>4
    <3>6. k \in after
      <4>1. root = None \/ \E h \in 1..(p - 1) : w[h] = root
        BY <2>1
      <4>2. \A h \in 1..(p - 1) : h \in 1..(k - 1)
        BY <3>5
      <4> QED
        BY <3>1, <4>1, <4>2
    <3>7. k \notin eagers
      BY <2>1, <3>5
    <3> QED
      BY <1>2, <3>1, <3>6, <3>7
  <2> QED
    BY <1>0, <2>3, <2>4, <2>5 DEF Reached
<1> QED
  BY <1>3, <1>4

\* From at most one builder, or else from the function itself, an event is
\* reached through literals that are not builders.
LEMMA OneRoot ==
  ASSUME TypeOK, NEW f \in Function, NEW uses, NEW l, NEW m,
         l = None \/ Use[l] \notin uses, m = None \/ Use[m] \notin uses,
         NEW i, i \in Reached(f, l, uses), i \in Reached(f, m, uses)
  PROVE  l = m
<1>0. i \in 1..Len(program[f])
  BY DEF Reached
<1> DEFINE e == program[f][i]
           w == e.within
<1>1. Len(w) \in Nat /\ \A j, k \in 1..Len(w) : w[j] = w[k] => j = k
  BY <1>0, EventFacts
<1>2. ASSUME NEW a, NEW b, a # b, b # None, Use[b] \notin uses,
             i \in Reached(f, a, uses), i \in Reached(f, b, uses)
      PROVE  /\ a # None
             /\ \E j, k \in 1..Len(w) : w[j] = a /\ w[k] = b /\ k < j
  <2>1. PICK k \in 1..Len(w) : w[k] = b
    BY <1>2 DEF Reached, Contains
  <2>2. b \notin Between(a, e)
    BY <1>2 DEF Reached
  <2>3. a # None /\ ~\E j \in 1..(k - 1) : w[j] = a
    BY <2>1, <2>2 DEF Between
  <2>4. PICK j \in 1..Len(w) : w[j] = a
    BY <1>2, <2>3 DEF Reached, Contains
  <2>5. j # k /\ j \notin 1..(k - 1)
    BY <1>2, <2>1, <2>3, <2>4
  <2> QED
    BY <1>1, <2>1, <2>3, <2>4, <2>5
<1>3. SUFFICES ASSUME l # m PROVE FALSE
  OBVIOUS
<1> HIDE DEF w
<1>4. l # None /\ m # None
  <2>1. m # None => l # None
    BY <1>2, <1>3
  <2>2. l # None => m # None
    BY <1>2, <1>3
  <2> QED
    BY <1>3, <2>1, <2>2
<1>5. PICK j \in 1..Len(w), k \in 1..Len(w) : w[j] = l /\ w[k] = m /\ k < j
  BY <1>2, <1>3, <1>4
<1>6. PICK j2 \in 1..Len(w), k2 \in 1..Len(w) : w[j2] = m /\ w[k2] = l /\ k2 < j2
  BY <1>2, <1>3, <1>4
<1>7. j = k2 /\ k = j2
  BY <1>1, <1>5, <1>6
<1> QED
  BY <1>1, <1>5, <1>6, <1>7

-----------------------------------------------------------------------------
(* What is reported.                                                       *)

\* Event i of f deserves a report of a kind, about a builder or the function.
Deserves(f, i, kind, root) ==
    \/ kind = "nil" /\ root = None /\ i \in FromNil(f)
    \/ kind = "eager" /\ root \in EagerContexts(f) /\ i \in DueEager(f, root)
    \/ kind = "inside" /\ root \in Builders(f) /\ i \in DueInside(f, root)
    \/ kind = "escape" /\ root \in Builders(f) /\ i \in ReportScopeEscape(f, root)
    \/ kind = "stored" /\ root \in Builders(f) /\ i \in ReportScopeStored(f, root)
    \/ kind = "background" /\ root \in Builders(f) /\ i \in BackgroundContexts(f, root)

LEMMA DueFacts ==
  ASSUME NEW f, NEW r
  PROVE  r \in Due(f) <=> \E i, kind, root : r = <<kind, f, i, root>> /\ Deserves(f, i, kind, root)
<1>1. \A kind, root, events : r \in Of(kind, f, root, events) <=>
        \E i \in events : r = <<kind, f, i, root>>
  BY DEF Of
<1>2. r \in Due(f) <=>
        \/ r \in Of("nil", f, None, FromNil(f))
        \/ \E root \in EagerContexts(f) : r \in Of("eager", f, root, DueEager(f, root))
        \/ \E l \in Builders(f) :
             \/ r \in Of("inside", f, l, DueInside(f, l))
             \/ r \in Of("escape", f, l, ReportScopeEscape(f, l))
             \/ r \in Of("stored", f, l, ReportScopeStored(f, l))
             \/ r \in Of("background", f, l, BackgroundContexts(f, l))
  <2> DEFINE nil == Of("nil", f, None, FromNil(f))
             eager(root) == Of("eager", f, root, DueEager(f, root))
             ofBuilder(l) == {Of("inside", f, l, DueInside(f, l)),
                              Of("escape", f, l, ReportScopeEscape(f, l)),
                              Of("stored", f, l, ReportScopeStored(f, l)),
                              Of("background", f, l, BackgroundContexts(f, l))}
             eagers == {eager(root) : root \in EagerContexts(f)}
             builders == {UNION ofBuilder(l) : l \in Builders(f)}
  <2>1. Due(f) = UNION ({nil} \cup eagers \cup builders)
    BY DEF Due
  <2>2. \A l : r \in UNION ofBuilder(l) <=>
          \/ r \in Of("inside", f, l, DueInside(f, l))
          \/ r \in Of("escape", f, l, ReportScopeEscape(f, l))
          \/ r \in Of("stored", f, l, ReportScopeStored(f, l))
          \/ r \in Of("background", f, l, BackgroundContexts(f, l))
    OBVIOUS
  <2> HIDE DEF nil, eager, ofBuilder
  <2>3. /\ r \in UNION eagers <=> \E root \in EagerContexts(f) : r \in eager(root)
        /\ r \in UNION builders <=> \E l \in Builders(f) : r \in UNION ofBuilder(l)
    OBVIOUS
  <2> HIDE DEF eagers, builders
  <2>4. r \in Due(f) <=> r \in nil \/ r \in UNION eagers \/ r \in UNION builders
    BY <2>1
  <2> QED
    BY <2>2, <2>3, <2>4 DEF nil, eager
<1> QED
  BY <1>1, <1>2 DEF Deserves

\* When the analysis is over, an event has the reports it deserves.
LEMMA ReportedFacts ==
  ASSUME VetInv, stage = "over", NEW f \in Function, NEW i, NEW kinds, NEW r
  PROVE  r \in Reported(f, i, kinds) <=>
           \E kind \in kinds : \E root :
              r = <<kind, f, i, root>> /\ Deserves(f, i, kind, root)
<1>1. reports = UNION {Due(g) : g \in Function}
  <2>1. Past = Function
    <3>1. 1..(pkg - 1) = 1..Len(Packages)
      BY FunctionFacts DEF VetInv, TypeOK
    <3> QED
      BY <3>1 DEF Past, Function
  <2> QED
    BY <2>1 DEF VetInv, ReportsOK
<1>2. \A g, j, kind, root : /\ <<kind, g, j, root>>[1] = kind /\ <<kind, g, j, root>>[2] = g
                           /\ <<kind, g, j, root>>[3] = j
  OBVIOUS
<1>3. ASSUME r \in Reported(f, i, kinds)
      PROVE  \E kind \in kinds : \E root :
                r = <<kind, f, i, root>> /\ Deserves(f, i, kind, root)
  <2>1. r \in reports /\ r[1] \in kinds /\ r[2] = f /\ r[3] = i
    BY <1>3 DEF Reported
  <2>2. PICK g \in Function : r \in Due(g)
    BY <1>1, <2>1
  <2>3. PICK j, kind, root : r = <<kind, g, j, root>> /\ Deserves(g, j, kind, root)
    BY <2>2, DueFacts
  <2>4. g = f /\ j = i /\ kind \in kinds
    BY <1>2, <2>1, <2>3
  <2> QED
    BY <2>3, <2>4
<1>4. ASSUME NEW kind \in kinds, NEW root, r = <<kind, f, i, root>>, Deserves(f, i, kind, root)
      PROVE  r \in Reported(f, i, kinds)
  <2>1. r \in Due(f)
    BY <1>4, DueFacts
  <2> QED
    BY <1>1, <1>2, <1>4, <2>1 DEF Reported
<1> QED
  BY <1>3, <1>4

\* A set without two different elements has at most one.
LEMMA AtMostOne ==
  ASSUME NEW S, \A x, y \in S : x = y
  PROVE  Cardinality(S) <= 1 /\ (S # {} => Cardinality(S) = 1)
<1>1. CASE S = {}
  BY <1>1, FS_EmptySet
<1>2. CASE S # {}
  <2>1. PICK x : S = {x}
    BY <1>2
  <2> QED
    BY <2>1, FS_Singleton
<1> QED
  BY <1>1, <1>2

-----------------------------------------------------------------------------
(* The reports are the right ones.                                         *)

LEMMA NotBuilders ==
  ASSUME NEW f, NEW l \in Builders(f)
  PROVE  /\ l # None /\ l \in Literal
         /\ Use[l] \in {"eager", "lazy"} /\ Use[l] \notin OnTheSpot /\ Use[l] \notin {"invoked", "go"}
BY VetAssumption DEF Builders, OnTheSpot, VetAssumption

\* Of what an event that is reached on the spot from a root deserves: a root
\* that constructs a graph is reported to force, a builder what bypasses From.
LEMMA DeservesAtOnce ==
  ASSUME TypeOK, NEW f \in Function, NEW root, NEW i \in Reached(f, root, OnTheSpot)
  PROVE  /\ root \in EagerContexts(f) /\ Waits(program[f][i]) =>
              Deserves(f, i, "eager", root)
         /\ root \in Builders(f) /\ Use[root] = "lazy" /\ Waits(program[f][i]) =>
              Deserves(f, i, "inside", root)
         /\ root \in Builders(f) /\ program[f][i].does = "ready" =>
              Deserves(f, i, "inside", root)
<1>1. OnTheSpot \cup (IF FALSE THEN {"eager"} ELSE {}) = OnTheSpot
  OBVIOUS
<1>2. program[f][i].does \in {"get", "ready", "call"} => i \in ImmediateSites(f, root, FALSE)
  BY <1>1 DEF ImmediateSites
<1>3. Waits(program[f][i]) => program[f][i].does \in {"get", "call"}
  BY DEF Waits
<1> QED
  BY <1>2, <1>3 DEF Deserves, DueEager, DueInside

\* What deserves such a report is reached on the spot and is of its kind.
LEMMA DeservesFacts ==
  ASSUME NEW f, NEW i, NEW kind, NEW root, Deserves(f, i, kind, root)
  PROVE  /\ kind = "eager" =>
              /\ root \in EagerContexts(f) /\ i \in Reached(f, root, OnTheSpot)
              /\ Waits(program[f][i])
         /\ kind = "inside" =>
              /\ root \in Builders(f) /\ i \in Reached(f, root, OnTheSpot)
              /\ program[f][i].does = "ready" \/ (Use[root] = "lazy" /\ Waits(program[f][i]))
         /\ kind = "nil" => root = None /\ program[f][i].does = "fromNil"
<1>1. OnTheSpot \cup (IF FALSE THEN {"eager"} ELSE {}) = OnTheSpot
  OBVIOUS
<1> QED
  BY <1>1 DEF Deserves, DueEager, DueInside, ImmediateSites, FromNil

\* A function that constructs a graph and forces a Deferred provider meanwhile
\* is reported, at an event that runs meanwhile and waits (analyzer.go:3).
THEOREM ConstructionIsReported == Spec => []ConstructionReported
<1>1. ASSUME VetInv, stage = "over", NEW f \in Constructing \cap Forcing
      PROVE  \E i \in Reached(f, None, RunsNow) :
                Waits(program[f][i]) /\ Reported(f, i, {"eager"}) # {}
  <2>0. TypeOK /\ f \in Function /\ "eager" \notin OnTheSpot /\ RunsNow = OnTheSpot \cup {"eager"}
    BY <1>1 DEF VetInv, Forcing, OnTheSpot, RunsNow
  <2>1. PICK e \in Executes(f) : Waits(e)
    BY ForcingIsCaused DEF Causes, Waits
  <2>2. PICK i \in Reached(f, None, RunsNow) : e = program[f][i]
    BY DEF Executes
  <2>3. PICK root \in EagerContexts(f) : i \in Reached(f, root, OnTheSpot)
    <3>1. CASE i \in Reached(f, None, OnTheSpot)
      BY <3>1 DEF EagerContexts
    <3>2. CASE \E m \in Builders(f) : Use[m] = "eager" /\ i \in Reached(f, m, OnTheSpot)
      BY <3>2 DEF EagerContexts
    <3> QED
      BY <2>0, <2>2, <3>1, <3>2, LastBuilder
  <2>4. Deserves(f, i, "eager", root)
    BY <2>0, <2>1, <2>2, <2>3, DeservesAtOnce
  <2>5. <<"eager", f, i, root>> \in Reported(f, i, {"eager"})
    BY <1>1, <2>0, <2>4, ReportedFacts
  <2> QED
    BY <2>1, <2>2, <2>5
<1>2. VetInv => ConstructionReported
  BY <1>1 DEF ConstructionReported
<1> QED
  BY <1>2, VetInvariant, PTL

\* At most one root has an event on the spot: the function, or one builder.
LEMMA OneReport ==
  ASSUME TypeOK, NEW f \in Function, NEW i, NEW kind, NEW root, NEW other, NEW otherRoot,
         kind \in {"eager", "inside", "nil"}, Deserves(f, i, kind, root),
         other \in {"eager", "inside", "nil"}, Deserves(f, i, other, otherRoot)
  PROVE  kind = other /\ root = otherRoot
<1>1. \A l \in Builders(f) : Use[l] \notin OnTheSpot /\ l # None
  BY NotBuilders
<1>2. \A l \in EagerContexts(f) : l = None \/ (l \in Builders(f) /\ Use[l] = "eager")
  BY DEF EagerContexts
<1>3. ASSUME kind # "nil", other # "nil" PROVE kind = other /\ root = otherRoot
  <2>1. /\ i \in Reached(f, root, OnTheSpot) /\ i \in Reached(f, otherRoot, OnTheSpot)
        /\ root = None \/ Use[root] \notin OnTheSpot
        /\ otherRoot = None \/ Use[otherRoot] \notin OnTheSpot
    BY <1>1, <1>2, <1>3, DeservesFacts
  <2>2. root = otherRoot
    BY <2>1, OneRoot
  <2>3. ~(Waits(program[f][i]) /\ program[f][i].does = "ready")
    BY DEF Waits
  <2>4. ASSUME NEW a, NEW b, a = "eager", b = "inside",
               Deserves(f, i, a, root), Deserves(f, i, b, root)
        PROVE  FALSE
    <3>1. Waits(program[f][i]) /\ root \in EagerContexts(f)
      BY <2>4, DeservesFacts
    <3>2. /\ root \in Builders(f)
          /\ program[f][i].does = "ready" \/ Use[root] = "lazy"
      BY <2>4, DeservesFacts
    <3> QED
      BY <1>1, <1>2, <2>3, <3>1, <3>2
  <2> QED
    BY <1>3, <2>2, <2>4
<1>4. ASSUME NEW a, NEW b, NEW l, NEW m, a = "nil", b \in {"eager", "inside"},
             Deserves(f, i, a, l), Deserves(f, i, b, m)
      PROVE  FALSE
  <2>1. program[f][i].does = "fromNil"
    BY <1>4, DeservesFacts
  <2>2. program[f][i].does = "ready" \/ Waits(program[f][i])
    BY <1>4, DeservesFacts
  <2> QED
    BY <2>1, <2>2 DEF Waits
<1>5. kind = "nil" /\ other = "nil" => root = otherRoot
  BY DeservesFacts
<1> QED
  BY <1>3, <1>4, <1>5

\* A read that bypasses From while a builder runs, also in the goroutines it
\* starts, is reported, and once (analyzer.go:8).
THEOREM BuilderReadsAreReportedOnce == Spec => []BuilderReadsReportedOnce
<1> DEFINE kinds == {"eager", "inside", "nil"}
           found(f, i) == Reported(f, i, kinds)
<1>1. ASSUME VetInv, stage = "over", NEW f \in Function, NEW i
      PROVE  Cardinality(found(f, i)) <= 1
  <2>1. ASSUME NEW r \in found(f, i), NEW q \in found(f, i) PROVE r = q
    <3>1. PICK kind, root : kind \in kinds /\ r = <<kind, f, i, root>> /\ Deserves(f, i, kind, root)
      BY <1>1, <2>1, ReportedFacts
    <3>2. PICK other, otherRoot :
             other \in kinds /\ q = <<other, f, i, otherRoot>> /\ Deserves(f, i, other, otherRoot)
      BY <1>1, <2>1, ReportedFacts
    <3>3. kind = other /\ root = otherRoot
      BY <1>1, <3>1, <3>2, OneReport DEF VetInv
    <3> QED
      BY <3>1, <3>2, <3>3
  <2> HIDE DEF found
  <2> QED
    BY <2>1, AtMostOne
<1>2. ASSUME VetInv, stage = "over", NEW f \in Function, NEW i, NEW r \in found(f, i)
      PROVE  Waits(program[f][i]) \/ program[f][i].does \in {"ready", "fromNil"}
  <2>1. PICK kind, root : kind \in kinds /\ r = <<kind, f, i, root>> /\ Deserves(f, i, kind, root)
    BY <1>2, ReportedFacts
  <2> QED
    BY <2>1, DeservesFacts
<1>3. ASSUME VetInv, stage = "over", NEW f \in Function, NEW i,
             NEW kind \in kinds, NEW root, Deserves(f, i, kind, root)
      PROVE  found(f, i) # {}
  <2>1. <<kind, f, i, root>> \in found(f, i)
    BY <1>3, ReportedFacts
  <2> QED
    BY <2>1
<1>4. ASSUME VetInv, stage = "over", NEW f \in Function, NEW i \in 1..Len(program[f]),
             NEW l \in Builders(f), i \in Reached(f, l, RunsNow),
             Waits(program[f][i]) \/ program[f][i].does \in {"ready", "fromNil"}
      PROVE  found(f, i) # {}
  <2>0. TypeOK /\ "eager" \notin OnTheSpot /\ RunsNow = OnTheSpot \cup {"eager"}
    BY <1>4 DEF VetInv, OnTheSpot, RunsNow
  <2>1. PICK m \in Builders(f) : i \in Reached(f, m, OnTheSpot)
    <3>1. i \in Reached(f, l, OnTheSpot \cup {"eager"})
      BY <1>4, <2>0
    <3> QED
      BY <2>0, <3>1, LastBuilder
  <2>2. Use[m] \in {"eager", "lazy"}
    BY NotBuilders
  <2>3. Use[m] = "eager" => m \in EagerContexts(f)
    BY DEF EagerContexts
  <2>4. CASE Waits(program[f][i]) \/ program[f][i].does = "ready"
    <3>1. Deserves(f, i, "eager", m) \/ Deserves(f, i, "inside", m)
      BY <2>0, <2>1, <2>2, <2>3, <2>4, DeservesAtOnce
    <3> QED
      BY <1>3, <1>4, <3>1
  <2>5. CASE program[f][i].does = "fromNil"
    <3>1. Deserves(f, i, "nil", None)
      BY <2>5 DEF Deserves, FromNil
    <3> QED
      BY <1>3, <1>4, <3>1
  <2> QED
    BY <1>4, <2>4, <2>5
<1>5. VetInv => BuilderReadsReportedOnce
  <2>1. \A f, i : found(f, i) = Reported(f, i, {"eager", "inside", "nil"})
    OBVIOUS
  <2> HIDE DEF found
  <2> QED
    BY <1>1, <1>2, <1>3, <1>4, <2>1 DEF BuilderReadsReportedOnce
<1> QED
  BY <1>5, VetInvariant, PTL

\* A scope that is stored, or used by a literal that its builder neither runs nor
\* starts, is reported; one used by a literal that has run when the builder
\* returns is not (analyzer.go:9).
THEOREM EscapesAreReported == Spec => []EscapesReported
<1>1. ASSUME VetInv, stage = "over", NEW f \in Function, NEW l \in Builders(f),
             NEW i \in OfScope(f, l, {"read", "store", "context"})
      PROVE  LET e == program[f][i]
                 outlives == e.does # "context" /\ i \notin Reached(f, l, RunsNow)
                 found == Reported(f, i, {"escape", "stored"}) IN
             /\ outlives \/ e.does = "store" => found # {}
             /\ e.does # "store" /\ i \in Reached(f, l, RunsBefore \ {"eager"}) => found = {}
  <2> DEFINE e == program[f][i]
             found == Reported(f, i, {"escape", "stored"})
  <2>1. i \in 1..Len(program[f]) /\ e.does \in {"read", "store", "context"} /\ e.on = l
    BY DEF OfScope
  <2>2. \A kind \in {"escape", "stored"} : \A root :
          Deserves(f, i, kind, root) => <<kind, f, i, root>> \in found
    BY <1>1, ReportedFacts
  <2>3. CASE e.does = "store"
    <3>1. Deserves(f, i, "stored", l)
      BY <2>1, <2>3 DEF Deserves, ReportScopeStored, OfScope
    <3> QED
      BY <2>2, <2>3, <3>1
  <2>4. CASE e.does = "read"
    <3>1. ASSUME i \notin Reached(f, l, RunsNow) PROVE found # {}
      <4>1. Reached(f, l, OnTheSpot) \subseteq Reached(f, l, RunsNow)
        BY ReachedMore DEF OnTheSpot, RunsNow
      <4>2. Deserves(f, i, "escape", l)
        BY <2>1, <2>4, <3>1, <4>1 DEF Deserves, ReportScopeEscape, OfScope
      <4> QED
        BY <2>2, <4>2
    <3>2. ASSUME i \in Reached(f, l, RunsBefore \ {"eager"}), NEW r \in found PROVE FALSE
      <4>0. i \in Reached(f, l, OnTheSpot)
        BY <3>2, ReachedMore DEF RunsBefore, RunsNow, OnTheSpot
      <4>1. PICK kind, root : kind \in {"escape", "stored"} /\ Deserves(f, i, kind, root)
        BY <1>1, <3>2, ReportedFacts
      <4>2. CASE kind = "escape"
        BY <2>1, <4>0, <4>1, <4>2 DEF Deserves, ReportScopeEscape, OfScope
      <4>3. CASE kind = "stored"
        BY <2>4, <4>1, <4>3 DEF Deserves, ReportScopeStored, OfScope
      <4> QED
        BY <4>1, <4>2, <4>3
    <3> QED
      BY <2>4, <3>1, <3>2
  <2>5. CASE e.does = "context"
    <3>1. ASSUME NEW r \in found PROVE FALSE
      <4>1. PICK kind, root : kind \in {"escape", "stored"} /\ Deserves(f, i, kind, root)
        BY <1>1, <3>1, ReportedFacts
      <4> QED
        BY <2>5, <4>1 DEF Deserves, ReportScopeEscape, ReportScopeStored, OfScope
    <3> QED
      BY <2>5, <3>1
  <2> QED
    BY <2>1, <2>3, <2>4, <2>5
<1>2. VetInv => EscapesReported
  BY <1>1 DEF EscapesReported
<1> QED
  BY <1>2, VetInvariant, PTL

\* A context.Background asked for in what a builder calls where it is written, or
\* by a go statement, is reported once, and one in code that the builder neither
\* runs nor starts is not (analyzer.go:243).
THEOREM BackgroundIsReported == Spec => []BackgroundReported
<1> DEFINE found(f, i) == Reported(f, i, {"background"})
<1>1. ASSUME VetInv, stage = "over", NEW f \in Function, NEW i
      PROVE  /\ \A r \in found(f, i) : \E l \in Builders(f) :
                   r = <<"background", f, i, l>> /\ i \in Reached(f, l, {"invoked", "go"})
             /\ \A l \in Builders(f) :
                   i \in Reached(f, l, {"invoked", "go"}) /\ program[f][i].does = "background" =>
                      <<"background", f, i, l>> \in found(f, i)
  <2>1. \A r : r \in found(f, i) <=>
          \E root : r = <<"background", f, i, root>> /\ Deserves(f, i, "background", root)
    BY <1>1, ReportedFacts
  <2>2. \A root : Deserves(f, i, "background", root) <=>
          /\ root \in Builders(f) /\ i \in Reached(f, root, {"invoked", "go"})
          /\ program[f][i].does = "background"
    BY DEF Deserves, BackgroundContexts
  <2> HIDE DEF found
  <2> QED
    BY <2>1, <2>2
<1>2. ASSUME VetInv, stage = "over", NEW f \in Function, NEW i \in 1..Len(program[f]),
             program[f][i].does = "background",
             NEW l \in Builders(f), i \in Reached(f, l, {"invoked", "go", "eager"})
      PROVE  Cardinality(found(f, i)) = 1
  <2>0. TypeOK /\ {"invoked", "go", "eager"} = {"invoked", "go"} \cup {"eager"} /\ "eager" \notin {"invoked", "go"}
    BY <1>2 DEF VetInv
  <2>1. PICK m \in Builders(f) : i \in Reached(f, m, {"invoked", "go"})
    BY <1>2, <2>0, LastBuilder
  <2>2. found(f, i) # {}
    BY <1>1, <1>2, <2>1
  <2>3. ASSUME NEW r \in found(f, i), NEW q \in found(f, i) PROVE r = q
    <3>1. PICK a \in Builders(f) : r = <<"background", f, i, a>> /\ i \in Reached(f, a, {"invoked", "go"})
      BY <1>1, <1>2, <2>3
    <3>2. PICK b \in Builders(f) : q = <<"background", f, i, b>> /\ i \in Reached(f, b, {"invoked", "go"})
      BY <1>1, <1>2, <2>3
    <3>3. Use[a] \notin {"invoked", "go"} /\ Use[b] \notin {"invoked", "go"}
      BY NotBuilders
    <3>4. a = b
      BY <2>0, <3>1, <3>2, <3>3, OneRoot
    <3> QED
      BY <3>1, <3>2, <3>4
  <2> HIDE DEF found
  <2> QED
    BY <2>2, <2>3, AtMostOne
<1>3. ASSUME VetInv, stage = "over", NEW f \in Function, NEW i,
             \A l \in Builders(f) : i \notin Reached(f, l, RunsNow)
      PROVE  found(f, i) = {}
  <2>1. \A l : Reached(f, l, {"invoked", "go"}) \subseteq Reached(f, l, RunsNow)
    BY ReachedMore DEF RunsNow
  <2> QED
    BY <1>1, <1>3, <2>1
<1>4. VetInv => BackgroundReported
  <2>1. \A f, i : found(f, i) = Reported(f, i, {"background"})
    OBVIOUS
  <2> HIDE DEF found
  <2> QED
    BY <1>2, <1>3, <2>1 DEF BackgroundReported
<1> QED
  BY <1>4, VetInvariant, PTL
=============================================================================
