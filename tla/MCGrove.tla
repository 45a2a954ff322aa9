------------------------------- MODULE MCGrove -------------------------------
(* Small instances of Grove for TLC: which node each process works for.     *)
EXTENDS Grove, TLC

CONSTANTS n1, n2, w1, w2

\* Two processes under one node id, n2 has none.
SharedNode == (w1 :> n1) @@ (w2 :> n1)

\* A process per node.
OwnNodes == (w1 :> n1) @@ (w2 :> n2)

\* One process.
OneProcess == (w1 :> n1)

ThreadSymmetry == Permutations(Threads)
=============================================================================
