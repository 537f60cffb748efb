-------------------------------- MODULE Memo --------------------------------
(***************************************************************************)
(* What Deferred providers promise each other (provider.go, node.go): a    *)
(* memo table that knows what each entry was computed from.                *)
(*                                                                         *)
(* A provider has one value, or one build under way, or neither.  A build  *)
(* reads current values.  Forgetting a provider outdates all its builds so *)
(* far, and makes due every provider that has, or is building, a value     *)
(* from the one forgotten.  A build that succeeds is published unless it   *)
(* is outdated or the graph closes; what it has read is current then, or   *)
(* its provider is due to be forgotten.                                    *)
(*                                                                         *)
(* There are no epochs, edges, waits or locks here: those are how module   *)
(* Node implements this.                                                   *)
(***************************************************************************)
CONSTANTS
    Provider,
    Build,      \* the runs of builders, which also name the values
    Forgetter,  \* the calls of Graph.Invalidate
    None

VARIABLES
    begun,     \* the builds begun so far
    of,        \* of[b]: the provider b builds
    value,     \* value[n]: the current value of n
    build,     \* build[n]: the build of n under way
    reads,     \* reads[b]: the values b has read
    outdated,  \* the builds whose provider was forgotten since they began
    failed,    \* the builds that failed
    due,       \* due[i]: the providers i has still to forget
    ended,     \* is the graph closed?
    shut       \* the providers Close has come to

vars == <<begun, of, value, build, reads, outdated, failed, due, ended, shut>>

Init ==
    /\ begun = {} /\ of = [b \in Build |-> None]
    /\ value = [n \in Provider |-> None] /\ build = [n \in Provider |-> None]
    /\ reads = [b \in Build |-> {}]
    /\ outdated = {} /\ failed = {}
    /\ due = [i \in Forgetter |-> {}]
    /\ ended = FALSE /\ shut = {}

Due == UNION {due[i] : i \in Forgetter}
UnderWay(b) == b \in begun /\ build[of[b]] = b

Begin(b, n) ==
    /\ b \notin begun /\ value[n] = None /\ build[n] = None /\ n \notin shut
    /\ begun' = begun \cup {b}
    /\ of' = [of EXCEPT ![b] = n]
    /\ build' = [build EXCEPT ![n] = b]
    /\ UNCHANGED <<value, reads, outdated, failed, due, ended, shut>>

\* b reads u, which is current, unless nobody is going to keep what b builds.
Read(b, u) ==
    /\ UnderWay(b) /\ u \in begun
    /\ value[of[u]] = u \/ b \in outdated \/ of[b] \in Due \/ ended
    /\ reads' = [reads EXCEPT ![b] = @ \cup {u}]
    /\ UNCHANGED <<begun, of, value, build, outdated, failed, due, ended, shut>>

\* b succeeds.
Publish(b) ==
    /\ UnderWay(b) /\ b \notin outdated /\ ~ended
    /\ \A u \in reads[b] : value[of[u]] = u \/ of[b] \in Due
    /\ value' = [value EXCEPT ![of[b]] = b]
    /\ build' = [build EXCEPT ![of[b]] = None]
    /\ UNCHANGED <<begun, of, reads, outdated, failed, due, ended, shut>>

\* It does, but was forgotten or closed meanwhile.
Discard(b) ==
    /\ UnderWay(b) /\ (b \in outdated \/ ended)
    /\ build' = [build EXCEPT ![of[b]] = None]
    /\ UNCHANGED <<begun, of, value, reads, outdated, failed, due, ended, shut>>

Fail(b) ==
    /\ UnderWay(b)
    /\ build' = [build EXCEPT ![of[b]] = None]
    /\ failed' = failed \cup {b}
    /\ UNCHANGED <<begun, of, value, reads, outdated, due, ended, shut>>

\* i forgets n: the provider it was called on, or one that is due.
Forget(i, n) ==
    /\ n \in due[i] \/ due[i] = {}
    /\ value' = [value EXCEPT ![n] = None]
    /\ outdated' = outdated \cup {b \in begun : of[b] = n}
    /\ \E D \in SUBSET Provider : due' = [due EXCEPT ![i] = (@ \ {n}) \cup D]
    /\ value[n] # None =>
         \A m \in Provider : \A b \in {value[m], build[m]} \ outdated' :
            b # None /\ value[n] \in reads[b] => m \in Due'
    /\ UNCHANGED <<begun, of, build, reads, failed, ended, shut>>

End ==
    /\ ended' = TRUE
    /\ UNCHANGED <<begun, of, value, build, reads, outdated, failed, due, shut>>

Shut(n) ==
    /\ ended
    /\ value' = [value EXCEPT ![n] = None]
    /\ shut' = shut \cup {n}
    /\ UNCHANGED <<begun, of, build, reads, outdated, failed, due, ended>>

Next ==
    \/ \E b \in Build, n \in Provider : Begin(b, n)
    \/ \E b, u \in Build : Read(b, u)
    \/ \E b \in Build : Publish(b) \/ Discard(b) \/ Fail(b)
    \/ \E i \in Forgetter, n \in Provider : Forget(i, n)
    \/ \E n \in Provider : Shut(n)
    \/ End

Spec == Init /\ [][Next]_vars
=============================================================================
