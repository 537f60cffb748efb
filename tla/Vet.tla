---------------------------------- MODULE Vet ----------------------------------
(***************************************************************************)
(* The analyzer (coldwirevet/analyzer.go).  Packages are analyzed in       *)
(* import order.  For each, run computes by a fixpoint which functions     *)
(* force a Deferred provider when called, exports that as facts for the    *)
(* packages that import it, and reports misuse of the library.             *)
(*                                                                         *)
(* A function is the sequence of its events, in the order immediateSites   *)
(* meets them: what happens (does), with what (on), and the function       *)
(* literals around it, outermost first (within).  The fixpoint visits the  *)
(* functions in the order of a Go map, which is any order.                 *)
(***************************************************************************)
EXTENDS Integers, Sequences, FiniteSets

CONSTANTS
    Packages,      \* their functions, a sequence of sets in import order
    Literal,       \* the function literals
    Use,           \* Use[l]: what becomes of literal l
    Home,          \* Home[l]: the function l is written in
    Constructing,  \* init functions, and those that return a graph
    None,
    Programs       \* the programs to analyze

Function == UNION {Packages[k] : k \in 1..Len(Packages)}

\* get, ready: Get, Try or Acquire of a Deferred or an Eager provider;
\* call: a static call; read, store, context: the scope of literal on is
\* used, stored, or asked for its Context; background: context.Background;
\* fromNil: From(nil), a read without a scope.
Deeds == {"get", "ready", "call", "read", "store", "context", "background", "fromNil"}
\* invoked where it is written; called by a go statement; handed to a method Go;
\* handed to Eagerly or to Lazily; or anything else.
Uses == {"invoked", "go", "Go", "eager", "lazy", "kept"}

\* e is an event of a function of package k: calls follow the imports (cycles of
\* which Go refuses), and literals are written in the function they are in.
IsEvent(e, f, k) ==
    /\ e.does \in Deeds
    /\ e.does = "get" => e.on \notin Function
    /\ e.does = "call" => \E j \in 1..k : e.on \in Packages[j]
    /\ e.within \in Seq({l \in Literal : Home[l] = f})
    /\ \A i, j \in 1..Len(e.within) : e.within[i] = e.within[j] => i = j

VetAssumption ==
    /\ IsFiniteSet(Function) /\ Packages \in Seq(SUBSET Function) /\ Len(Packages) > 0
    /\ \A j, k \in 1..Len(Packages) : j # k => Packages[j] \cap Packages[k] = {}
    /\ Use \in [Literal -> Uses] /\ Home \in [Literal -> Function] /\ None \notin Literal
    /\ Constructing \subseteq Function
    /\ \A p \in Programs : \A k \in 1..Len(Packages) : \A f \in Packages[k] :
         Len(p[f]) \in Nat /\ \A i \in 1..Len(p[f]) : IsEvent(p[f][i], f, k)
ASSUME VetAssumption

VARIABLES
    program,   \* program[f]: the events of function f
    pkg,       \* the package under analysis
    stage,     \* "fixpoint", "report", or "over"
    forces,    \* forces[f]: via, the path from f to a provider; <<>> if none
    facts,     \* facts[f]: the exported forcesDeferred.Via
    todo,      \* functions this iteration has not come to
    changed,   \* did this iteration find another function?
    reports    \* <<kind, function, event, the context or builder it is about>>

vars == <<program, pkg, stage, forces, facts, todo, changed, reports>>

\* What a path consists of: functions and providers.
Named == UNION {{program[f][i].on : i \in 1..Len(program[f])} : f \in Function}

\* The types of the variables (analyzer.go:52): what is found are functions of
\* the package under analysis, and what is exported stays known.
TypeOK ==
    /\ program \in Programs
    /\ pkg \in 1..(Len(Packages) + 1)
    /\ stage \in {"fixpoint", "report", "over"} /\ (stage = "over" <=> pkg > Len(Packages))
    /\ forces \in [Function -> Seq(Named)] /\ facts \in [Function -> Seq(Named)]
    /\ changed \in BOOLEAN
    /\ todo \subseteq IF stage = "over" THEN Function ELSE Packages[pkg]

Init ==
    /\ program \in Programs
    /\ pkg = 1 /\ stage = "fixpoint"
    /\ forces = [f \in Function |-> <<>>]
    /\ facts = [f \in Function |-> <<>>]
    /\ todo = Packages[1] /\ changed = FALSE
    /\ reports = {}

-----------------------------------------------------------------------------
(* What runs when.                                                         *)

\* e happens inside root, a literal, or None for the whole function.
Contains(root, e) == root = None \/ \E k \in 1..Len(e.within) : e.within[k] = root
\* The literals between root and e.
Between(root, e) ==
    {e.within[k] : k \in {k \in 1..Len(e.within) :
                            root = None \/ \E j \in 1..(k - 1) : e.within[j] = root}}
\* The events inside root that no literal used otherwise separates from it.
Reached(f, root, uses) ==
    {i \in 1..Len(program[f]) :
        /\ Contains(root, program[f][i])
        /\ \A l \in Between(root, program[f][i]) : Use[l] \in uses}

\* Mutant: literals handed to Go are skipped.
OnTheSpotOnlyInvoked == {"invoked", "go"}
\* The callee of a go statement is a call of a literal like any other.
OnTheSpot == {"invoked", "go", "Go"}

\* The calls that execute when root is evaluated.
ImmediateSites(f, root, intoEager) ==
    {i \in Reached(f, root, OnTheSpot \cup IF intoEager THEN {"eager"} ELSE {}) :
        program[f][i].does \in {"get", "ready", "call"}}

Builders(f) == {l \in Literal : Home[l] = f /\ Use[l] \in {"eager", "lazy"}}

-----------------------------------------------------------------------------
(* The fixpoint.                                                           *)

\* Mutant: facts of other packages are not looked up.
ForcesViaLocal(f) == forces[f]
\* The path by which a call of f resolves a Deferred provider: found in this
\* package, or imported.
ForcesVia(f) == IF f \in Packages[pkg] THEN forces[f] ELSE facts[f]

Forced(e) == e.does = "get" \/ (e.does = "call" /\ ForcesVia(e.on) # <<>>)

\* The path that starts at f's first site that forces.
FirstForce(f) ==
    LET hits == {i \in ImmediateSites(f, None, TRUE) : Forced(program[f][i])}
        e == program[f][CHOOSE i \in hits : \A j \in hits : i <= j]
    IN CASE hits = {} -> <<>>
         [] hits # {} /\ e.does = "get" -> <<e.on>>
         [] OTHER -> <<e.on>> \o ForcesVia(e.on)

\* Mutant: functions already found are looked at again.
KnownNot(f) == FALSE
Known(f) == forces[f] # <<>>

\* The loop comes to f.
Visit(f) ==
    /\ stage = "fixpoint" /\ f \in todo
    /\ todo' = todo \ {f}
    /\ IF Known(f) \/ FirstForce(f) = <<>>
       THEN UNCHANGED <<forces, changed>>
       ELSE /\ forces' = [forces EXCEPT ![f] = FirstForce(f)]
            /\ changed' = TRUE
    /\ UNCHANGED <<program, pkg, stage, facts, reports>>

\* Mutant: changed is never reset.
AgainUnreset ==
    /\ stage = "fixpoint" /\ todo = {} /\ changed
    /\ todo' = Packages[pkg]
    /\ UNCHANGED <<program, pkg, stage, forces, facts, changed, reports>>
Again ==
    /\ stage = "fixpoint" /\ todo = {} /\ changed
    /\ todo' = Packages[pkg] /\ changed' = FALSE
    /\ UNCHANGED <<program, pkg, stage, forces, facts, reports>>

\* Mutant: the facts of this package replace those of the others.
ExportedOnly == [f \in Packages[pkg] |-> forces[f]]
Exported == [f \in Function |-> IF f \in Packages[pkg] THEN forces[f] ELSE facts[f]]
Export ==
    /\ stage = "fixpoint" /\ todo = {} /\ ~changed
    /\ facts' = Exported
    /\ stage' = "report"
    /\ UNCHANGED <<program, pkg, forces, todo, changed, reports>>

-----------------------------------------------------------------------------
(* The reports.                                                            *)

\* In code that runs while a graph is constructed.
ReportEager(f, root) == {i \in ImmediateSites(f, root, FALSE) : Forced(program[f][i])}
EagerContexts(f) ==
    (IF f \in Constructing THEN {None} ELSE {})
        \cup {l \in Builders(f) : Use[l] = "eager"}

\* Mutant: in an eager builder, what ReportEager has is reported again.
InsideTwice(f, l) ==
    {i \in ImmediateSites(f, l, FALSE) :
        program[f][i].does = "ready" \/ Forced(program[f][i])}
\* Reads in builder l that bypass From, unless ReportEager has them.
Inside(f, l) ==
    {i \in ImmediateSites(f, l, FALSE) :
        \/ program[f][i].does = "ready"
        \/ Use[l] = "lazy" /\ Forced(program[f][i])}

OfScope(f, l, deeds) ==
    {i \in 1..Len(program[f]) : program[f][i].does \in deeds /\ program[f][i].on = l}
\* Mutant: literals invoked on the spot inside one that is kept are not searched.
ReportScopeEscapeShallow(f, l) ==
    {i \in OfScope(f, l, {"read", "store"}) \ Reached(f, l, OnTheSpot) :
        Use[program[f][i].within[Len(program[f][i].within)]] \notin OnTheSpot}
\* The scope of l in a literal that is neither called where it is written nor
\* handed to Go.  Its Context stays valid.
ReportScopeEscape(f, l) == OfScope(f, l, {"read", "store"}) \ Reached(f, l, OnTheSpot)
ReportScopeStored(f, l) == OfScope(f, l, {"store"})

\* Mutant: literals handed to Eagerly are searched with the code around them.
BackgroundContextsEager(f, l) ==
    {i \in Reached(f, l, {"invoked", "go", "eager"}) : program[f][i].does = "background"}
\* Literals handed to Go are not searched for these.
BackgroundContexts(f, l) ==
    {i \in Reached(f, l, {"invoked", "go"}) : program[f][i].does = "background"}

\* Looked for anywhere.
FromNil(f) == {i \in 1..Len(program[f]) : program[f][i].does = "fromNil"}

Of(kind, f, root, events) == {<<kind, f, i, root>> : i \in events}
ReportsIn(f) ==
    UNION ({Of("nil", f, None, FromNil(f))}
           \cup {Of("eager", f, root, ReportEager(f, root)) : root \in EagerContexts(f)}
           \cup {UNION {Of("inside", f, l, Inside(f, l)),
                        Of("escape", f, l, ReportScopeEscape(f, l)),
                        Of("stored", f, l, ReportScopeStored(f, l)),
                        Of("background", f, l, BackgroundContexts(f, l))} : l \in Builders(f)})

\* The reports of this package; then run is called on the next.
Report ==
    /\ stage = "report"
    /\ reports' = reports \cup UNION {ReportsIn(f) : f \in Packages[pkg]}
    /\ forces' = [f \in Function |-> <<>>]
    /\ pkg' = pkg + 1
    /\ IF pkg < Len(Packages)
       THEN stage' = "fixpoint" /\ todo' = Packages[pkg + 1]
       ELSE stage' = "over" /\ UNCHANGED todo
    /\ UNCHANGED <<program, facts, changed>>

Analyzed == stage = "over" /\ UNCHANGED vars

Next == (\E f \in Function : Visit(f)) \/ Again \/ Export \/ Report \/ Analyzed

\* The analyzer is one goroutine and never waits.
Spec == Init /\ [][Next]_vars
FairSpec == Spec /\ WF_vars(Next)
-----------------------------------------------------------------------------
(* What executing the program does, against what the analyzer finds.       *)

\* Literals that the code around them runs or starts: Eagerly runs its builder
\* at once, a go statement and a method Go start a goroutine.
RunsNow == {"invoked", "go", "Go", "eager"}
\* Of these, the ones that have run when the code around them has: it is assumed
\* to join what it hands to a method Go (README.md:130), and nothing joins the
\* goroutine of a go statement.
RunsBefore == RunsNow \ {"go"}
Executes(f) == {program[f][i] : i \in Reached(f, None, RunsNow)}

\* The functions that force a Deferred provider when called, directly, through
\* the functions they call, or in goroutines they start.
Forcing ==
    {f \in Function : \A S \in SUBSET Function :
        (\A g \in Function : (\E e \in Executes(g) :
             e.does = "get" \/ (e.does = "call" /\ e.on \in S)) => g \in S) => f \in S}

\* The facts exported are exactly the functions that force a Deferred provider
\* (analyzer.go:36), across packages and through recursion, whatever order the
\* map of the fixpoint is walked in.
FactsExact ==
    \A k \in 1..Len(Packages) : k < pkg \/ (k = pkg /\ stage # "fixpoint") =>
        \A f \in Packages[k] : facts[f] # <<>> <=> f \in Forcing

\* Every Via is a path the program can take (analyzer.go:301): each function
\* calls the next and the last resolves the provider, none of them twice, so
\* that it ends also for functions that call each other.
ViaIsPath ==
    \A f \in Function : forces[f] # <<>> =>
        LET path == <<f>> \o forces[f]
            last == Len(path) IN
        /\ \A j, k \in 1..last : path[j] = path[k] => j = k
        /\ \A k \in 1..(last - 1) : \E e \in Executes(path[k]) :
             e.on = path[k + 1] /\ e.does = IF k = last - 1 THEN "get" ELSE "call"

\* The event is, or calls a function that does, a Get of a Deferred provider.
Waits(e) == e.does = "get" \/ (e.does = "call" /\ e.on \in Forcing)

Reported(f, i, kinds) == {r \in reports : r[1] \in kinds /\ r[2] = f /\ r[3] = i}

\* A function that constructs a graph and forces a Deferred provider meanwhile
\* is reported (analyzer.go:3), at an event that runs meanwhile and waits.
ConstructionReported ==
    stage = "over" => \A f \in Constructing \cap Forcing :
        \E i \in Reached(f, None, RunsNow) :
            Waits(program[f][i]) /\ Reported(f, i, {"eager"}) # {}

\* A read that bypasses From while a builder runs, also in the goroutines it
\* starts, is reported (analyzer.go:8), and once: as a Deferred provider forced,
\* as a read inside a builder, or as a From without a scope.
BuilderReadsReportedOnce ==
    stage = "over" => \A f \in Function : \A i \in 1..Len(program[f]) :
        LET e == program[f][i]
            found == Reported(f, i, {"eager", "inside", "nil"}) IN
        /\ Cardinality(found) <= 1
        /\ (\E l \in Builders(f) : i \in Reached(f, l, RunsNow)) =>
             (Waits(e) \/ e.does \in {"ready", "fromNil"} <=> found # {})

\* A scope that is stored, or used by a literal that its builder neither runs nor
\* starts, is reported (analyzer.go:9); one used by a literal that has run when
\* the builder returns is not, unless in a builder written inside it.  Of what a
\* go statement starts nothing is claimed: the package doc promises a report
\* (analyzer.go:8) that the code does not make (analyzer.go:164).
EscapesReported ==
    stage = "over" => \A f \in Function : \A l \in Builders(f) :
        \A i \in OfScope(f, l, {"read", "store", "context"}) :
            LET e == program[f][i]
                outlives == e.does # "context" /\ i \notin Reached(f, l, RunsNow)
                found == Reported(f, i, {"escape", "stored"})
            IN /\ outlives \/ e.does = "store" => found # {}
               /\ e.does # "store" /\ i \in Reached(f, l, RunsBefore \ {"eager"}) => found = {}

\* A context.Background asked for in what a builder calls where it is written, or
\* by a go statement, is reported once, and one in code that the builder neither
\* runs nor starts is not (analyzer.go:243).
\* (One in a literal handed to Go, which runs meanwhile too, is not either.)
BackgroundReported ==
    stage = "over" => \A f \in Function : \A i \in 1..Len(program[f]) :
        program[f][i].does = "background" =>
            LET found == Reported(f, i, {"background"}) IN
            /\ (\E l \in Builders(f) : i \in Reached(f, l, {"invoked", "go", "eager"})) =>
                 Cardinality(found) = 1
            /\ (\A l \in Builders(f) : i \notin Reached(f, l, RunsNow)) => found = {}

\* The loop ends (analyzer.go:69), and so does the analysis.
Ends == <>(stage = "over")

\* The functions found so far.
Found == {f \in Function : forces[f] # <<>>}

\* Between the start of a package and its reports, every step finds a function,
\* or else settles that the iteration before did, or else leaves one function
\* less to come to.
Progress ==
    \/ pkg' = pkg + 1
    \/ pkg' = pkg /\ stage = "fixpoint" /\ stage' = "report"
    \/ /\ UNCHANGED <<pkg, stage>> /\ Found \subseteq Found'
       /\ \/ Found # Found'
          \/ changed /\ ~changed'
          \/ changed = changed' /\ todo' \subseteq todo /\ todo # todo'
\* Why the loop ends (analyzer.go:70): no step of the analysis is in vain.
LoopProgresses == [][Progress]_vars
-----------------------------------------------------------------------------
(* What makes these invariants inductive.                                  *)

\* The functions of the packages whose analysis is over.
Past == UNION {Packages[k] : k \in 1..(pkg - 1)}

\* What is known of whom: forces is of this package, facts of the past ones and,
\* once they are exported, of this one.
KnownOK ==
    /\ \A f \in Found : stage # "over" /\ f \in Packages[pkg]
    /\ \A f \in Function : facts[f] # <<>> =>
         f \in Past \/ (stage = "report" /\ f \in Packages[pkg])
    /\ stage = "report" => \A f \in Packages[pkg] : facts[f] = forces[f]

\* Only functions that force a provider are found.
SoundOK == \A f \in Function : forces[f] # <<>> \/ facts[f] # <<>> => f \in Forcing

\* A function that an iteration without a find has passed has nothing to find.
PassedOK ==
    stage = "fixpoint" /\ ~changed =>
        \A f \in Packages[pkg] \ (todo \cup Found) : \A e \in Executes(f) : ~Forced(e)

\* via leads from f through functions in S to a provider, and to none twice.
Leads(f, via, S) ==
    LET path == <<f>> \o via
        last == Len(path) IN
    /\ \A j, k \in 1..last : path[j] = path[k] => j = k
    /\ \A k \in 1..(last - 1) :
         /\ path[k] \in S
         /\ \E e \in Executes(path[k]) :
              e.on = path[k + 1] /\ e.does = IF k = last - 1 THEN "get" ELSE "call"
Exporting == {f \in Function : facts[f] # <<>>}
ViaOK ==
    /\ \A f \in Found : Leads(f, forces[f], Found \cup Exporting)
    /\ \A f \in Exporting : Leads(f, facts[f], Exporting)

\* The reports that f deserves, by what executing the program does.
DueEager(f, root) == {i \in ImmediateSites(f, root, FALSE) : Waits(program[f][i])}
DueInside(f, l) ==
    {i \in ImmediateSites(f, l, FALSE) :
        \/ program[f][i].does = "ready"
        \/ Use[l] = "lazy" /\ Waits(program[f][i])}
Due(f) ==
    UNION ({Of("nil", f, None, FromNil(f))}
           \cup {Of("eager", f, root, DueEager(f, root)) : root \in EagerContexts(f)}
           \cup {UNION {Of("inside", f, l, DueInside(f, l)),
                        Of("escape", f, l, ReportScopeEscape(f, l)),
                        Of("stored", f, l, ReportScopeStored(f, l)),
                        Of("background", f, l, BackgroundContexts(f, l))} : l \in Builders(f)})
ReportsOK == reports = UNION {Due(f) : f \in Past}

VetInv == TypeOK /\ KnownOK /\ SoundOK /\ PassedOK /\ FactsExact /\ ViaOK /\ ReportsOK
=============================================================================
