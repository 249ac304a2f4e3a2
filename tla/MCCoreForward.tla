--------------------------- MODULE MCCoreForward ---------------------------
(* Instances of CoreForward for TLC. *)
EXTENDS CoreForward, TLC

CONSTANTS t1, t2

OneTrigger == {t1}
TwoTriggers == {t1, t2}
Interchangeable == Permutations(TwoTriggers)
=============================================================================
