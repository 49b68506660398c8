----------------------------- MODULE MCSupervisor -----------------------------
(* Instances of Supervisor for TLC. *)
EXTENDS Supervisor, TLC

CONSTANTS w1, w2

Symmetric == Permutations(Workers)
=============================================================================
