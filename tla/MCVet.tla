-------------------------------- MODULE MCVet --------------------------------
(***************************************************************************)
(* Programs for Vet: package dep has the function open; package app has    *)
(* new, which constructs a graph, and helper and other, which may call     *)
(* each other.                                                             *)
(***************************************************************************)
EXTENDS Vet, TLC

CONSTANTS open, new, helper, other, provider,
    eager, lazy, here, spawn, parallel, later, nested, eagerly, kept

DepThenApp == <<{open}, {new, helper, other}>>
GraphFunctions == {new}

\* Of new: a builder of each kind and, in those, literals of every use; in the
\* helper, an eager builder and a literal that it keeps.
LiteralUse ==
    (eager :> "eager") @@ (lazy :> "lazy") @@ (here :> "invoked") @@ (spawn :> "go") @@ (parallel :> "Go")
    @@ (later :> "kept") @@ (nested :> "eager") @@ (eagerly :> "eager") @@ (kept :> "kept")
LiteralHome == [l \in Literal |-> IF l \in {eagerly, kept} THEN helper ELSE new]

Event(does, on, within) == [does |-> does, on |-> on, within |-> within]
Get(within) == Event("get", provider, within)
Calls(f, within) == Event("call", f, within)

\* The events of new, and where they are.
Paths == {<<>>, <<here>>, <<later>>}
         \cup {<<b>> \o t : b \in {eager, lazy},
                            t \in {<<>>, <<here>>, <<spawn>>, <<parallel>>, <<later>>, <<nested>>,
                                  <<later, here>>, <<spawn, nested>>}}
Owners(w) == {w[k] : k \in 1..Len(w)} \cap {eager, lazy}
Events ==
    UNION {{Get(w), Event("ready", provider, w), Calls(helper, w), Event("background", None, w),
            Event("fromNil", provider, w)}
           \cup {Event(d, l, w) : d \in {"read", "store", "context"}, l \in Owners(w)} : w \in Paths}

UpTo2(S) == {<<>>} \cup {<<x>> : x \in S} \cup {<<x, y>> : x, y \in S}
Bodies(n, h, o, d) ==
    {(new :> a) @@ (helper :> b) @@ (other :> c) @@ (open :> e) :
        a \in n, b \in h, c \in o, e \in d}
Small == {Get(<<>>), Get(<<kept>>), Get(<<eagerly>>)}
\* Which functions call which, and which get.
Graphs ==
    Bodies({<<Calls(helper, <<>>)>>},
           UpTo2(Small \cup {Calls(f, <<>>) : f \in Function}),
           UpTo2({Get(<<>>)} \cup {Calls(f, <<>>) : f \in Function}),
           {<<>>, <<Get(<<>>)>>})
\* What new does, and where.
Misuses ==
    Bodies({<<x>> : x \in Events}, {<<>>, <<Calls(open, <<>>)>>}, {<<>>}, {<<Get(<<>>)>>})

Both == Graphs \cup Misuses
=============================================================================
