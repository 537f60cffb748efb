------------------------------ MODULE MCValues ------------------------------
(***************************************************************************)
(* Values on a small instance.  Leases do not differ, nor do builds or the *)
(* reads of one builder: their permutations are symmetries of the safety   *)
(* runs.                                                                   *)
(***************************************************************************)
EXTENDS Values, TLC

Symmetry == Permutations(Value) \cup Permutations(Lease) \cup Permutations(Reader)
=============================================================================
