---------------------------- MODULE MCAtomicQueue ----------------------------
(* Model-checking instance of AtomicQueue. *)
EXTENDS AtomicQueue, TLC

Symmetry == Permutations(Producers) \cup Permutations(Consumers)
            \cup Permutations(Entries)
=============================================================================
