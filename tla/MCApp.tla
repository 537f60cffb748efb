-------------------------------- MODULE MCApp --------------------------------
(***************************************************************************)
(* A program with Eager providers e and f and Deferred p and q.            *)
(***************************************************************************)
EXTENDS App

CONSTANTS e, f, p, q

\* e may read f before it is constructed; f and p read e, and q reads p.
Program == [n \in Provider |-> CASE n = e -> {f} [] n = f -> {e}
                                 [] n = p -> {e} [] OTHER -> {p}]
AnyProvider == [x \in Caller \cup Invalidator |-> Provider]
\* Requests may come in before f is constructed.
All == <<e, p, q, f>>
=============================================================================
