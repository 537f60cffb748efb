------------------------------- MODULE MCNode -------------------------------
(***************************************************************************)
(* Instances of Node for TLC: which builder may read which provider.       *)
(***************************************************************************)
EXTENDS Node, TLC

CONSTANTS p, q, r

\* r reads q, which reads p.
Chain == [n \in Provider |-> CASE n = q -> {p} [] n = r -> {q} [] OTHER -> {}]
\* p and q read each other.
Circle == [n \in Provider |-> IF n = p THEN {q} ELSE {p}]
\* p reads q, q reads r, and r reads p and q.
Knot == [n \in Provider |-> CASE n = p -> {q} [] n = q -> {r} [] OTHER -> {p, q}]

\* Calls may be for any provider; or all are for p.
AnyProvider == [x \in Caller \cup Invalidator |-> Provider]
OnlyP == [x \in Caller \cup Invalidator |-> {p}]

Two   == <<p, q>>
Three == <<p, q, r>>

Symmetry == Permutations(Caller) \cup Permutations(Invalidator)
=============================================================================
