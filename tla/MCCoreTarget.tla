---------------------------- MODULE MCCoreTarget ----------------------------
(* Model checking of the target side of mercury_core.c. *)
EXTENDS CoreTarget, TLC

(* Handles and trigger threads are only told apart by their state; the     *)
(* handles posted first are a constant, so they are permuted among         *)
(* themselves.                                                             *)
Interchangeable ==
    Permutations(PostInit) \cup Permutations(Handles \ PostInit)
        \cup Permutations(Triggers)
=============================================================================
