----------------------------- MODULE MCWebRuntime -----------------------------
(* Instances of WebRuntime for TLC. *)
EXTENDS WebRuntime, TLC

CONSTANTS c1, c2, a, b

TwoFiles == (c1 :> {a}) @@ (c2 :> {b})
OneFile == (c1 :> {a})

ClientSymmetry == Permutations(Clients)
=============================================================================
