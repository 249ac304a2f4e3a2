---------------------------- MODULE MCCompletion ----------------------------
(* Model checking of the completion queue of mercury_core.c. *)
EXTENDS Completion, TLC

(* Threads of a kind are interchangeable. *)
Interchangeable ==
    Permutations(Completers) \cup Permutations(Triggers)
        \cup Permutations(Progress)
=============================================================================
