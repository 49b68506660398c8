------------------------------ MODULE MCUIState ------------------------------
(* Instances of UIState for TLC. *)
EXTENDS UIState, TLC

CONSTANTS c1, c2, a, b

\* c1 is a multihost connection that shares an endpoint with c2.
TwoConnections == (c1 :> {a, b}) @@ (c2 :> {b})
OneConnection == (c1 :> {a})

ThreadSymmetry == Permutations(Requests) \cup Permutations(Jobs)
=============================================================================
