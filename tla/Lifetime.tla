------------------------------ MODULE Lifetime ------------------------------
(***************************************************************************)
(* What the reference counts of value.go promise, without the counts: who  *)
(* owns a built value, and when it is cleaned up.                          *)
(*                                                                         *)
(* A value is owned by its provider while it is current, by the leases on  *)
(* it, and by the values built from it.  Nobody can come to own a value    *)
(* that has lost its last owner; only then do its cleanups start, and only *)
(* when they have all returned does it give up what it owns itself.        *)
(* Module Values implements this with the counts; module App uses it.      *)
(***************************************************************************)
EXTENDS Naturals

CONSTANTS
    Value,     \* the values
    Lease,     \* the leases
    None,
    MaxReads   \* bound: what one value owns

VARIABLES
    life,      \* life[v]: absent, open, closing (its cleanups run) or closed
    owners,    \* owners[v]: who owns v
    started,   \* the values of which a cleanup has started
    overdue    \* those CloseContext cleans up whoever owns them (graph.go:124)

vars == <<life, owners, started, overdue>>

\* An owner: the provider, a lease, or the place of a value's list of deps.
TheProvider == <<None, 0>>
Owner == {TheProvider} \cup (Lease \X {0}) \cup (Value \X (1..MaxReads))

TypeOK ==
    /\ life \in [Value -> {"absent", "open", "closing", "closed"}]
    /\ owners \in [Value -> SUBSET Owner]
    /\ started \subseteq Value
    /\ overdue \subseteq Value

Init ==
    /\ life = [v \in Value |-> "absent"]
    /\ owners = [v \in Value |-> {}]
    /\ started = {} /\ overdue = {}

\* v loses its last owner; it may have no cleanups to run.
Ends(v) == \E s \in {"closing", "closed"} : life' = [life EXCEPT ![v] = s]

\* v is built, and its provider owns it.
Publish(v) ==
    /\ life[v] = "absent"
    /\ life' = [life EXCEPT ![v] = "open"]
    /\ owners' = [owners EXCEPT ![v] = {TheProvider}]
    /\ UNCHANGED <<started, overdue>>

\* The build of v comes to nothing.
Discard(v) ==
    /\ life[v] = "absent"
    /\ Ends(v)
    /\ UNCHANGED <<owners, started, overdue>>

\* o comes to own v: a lease, or a value that is being built.
Take(o, v) ==
    /\ life[v] = "open"
    /\ o # TheProvider /\ o \notin owners[v]
    /\ o[2] > 0 => life[o[1]] = "absent"
    /\ owners' = [owners EXCEPT ![v] = @ \cup {o}]
    /\ UNCHANGED <<life, started, overdue>>

\* o lets go of v; a value does when its own cleanups have returned.
Give(o, v) ==
    /\ o \in owners[v]
    /\ o[2] > 0 => life[o[1]] = "closed"
    /\ owners' = [owners EXCEPT ![v] = @ \ {o}]
    /\ IF owners[v] = {o} THEN Ends(v) ELSE UNCHANGED life
    /\ UNCHANGED <<started, overdue>>

\* The first cleanup of v starts.
Start(v) ==
    /\ life[v] = "closing" \/ v \in overdue
    /\ started' = started \cup {v}
    /\ UNCHANGED <<life, owners, overdue>>

\* The last one returns.
Finish(v) ==
    /\ life[v] = "closing" /\ v \in started
    /\ life' = [life EXCEPT ![v] = "closed"]
    /\ UNCHANGED <<owners, started, overdue>>

\* CloseContext runs out of time.
Expire(S) ==
    /\ overdue = {}
    /\ \A v \in S : life[v] # "absent"
    /\ overdue' = S
    /\ UNCHANGED <<life, owners, started>>

Next ==
    \/ \E v \in Value : Publish(v) \/ Discard(v) \/ Start(v) \/ Finish(v)
    \/ \E v \in Value, o \in Owner : Take(o, v) \/ Give(o, v)
    \/ \E S \in SUBSET Value : Expire(S)

Spec == Init /\ [][Next]_vars
=============================================================================
