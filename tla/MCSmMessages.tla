---------------------------- MODULE MCSmMessages ----------------------------
(* Model checking of the messages of na/na_sm.c. *)
EXTENDS SmMessages

CONSTANTS x1, e1, e2

(* The message x1 matches the receive e1, no message matches e2. *)
Tags == [o \in ExpSends \cup ExpRecvs |-> IF o = e2 THEN 2 ELSE 1]
=============================================================================
