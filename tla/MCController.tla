---------------------------- MODULE MCController ----------------------------
(* Small instances of Controller for TLC: arbitrary clients.               *)
EXTENDS Controller, TLC

Symmetry == Permutations(Threads) \cup Permutations(Nodes) \cup Permutations(Jobs)
=============================================================================
