------------------------------- MODULE OpPool -------------------------------
(* The pool of bulk operation identifiers of a context, mercury_bulk.c. A   *)
(* thread that finds the list empty creates more identifiers while the      *)
(* others that find it empty wait on a condition.                           *)
EXTENDS Naturals, FiniteSets

CONSTANTS
    Threads,     \* threads that start transfers
    InitCount,   \* identifiers of a new pool
    MaxIds,      \* identifiers there is memory for
    MaxGets      \* bound: transfers of each thread

VARIABLES
    free,        \* number of identifiers on pending_list
    count,       \* identifiers the next extension creates
    extending,   \* TRUE while a thread extends the pool
    getter       \* where each thread is

vars == <<free, count, extending, getter>>

Init ==
    /\ free = InitCount /\ count = InitCount /\ extending = FALSE
    /\ getter = [t \in Threads |-> [at |-> "idle", i |-> 0, gets |-> 0]]

Goto(t, pc) == getter' = [getter EXCEPT ![t].at = pc]
Holders == {t \in Threads : getter[t].at = "have"}
Created == free + Cardinality(Holders)

Get(t) ==
    /\ getter[t].at = "idle" /\ getter[t].gets < MaxGets
    /\ getter' = [getter EXCEPT ![t].at = "pop", ![t].gets = @ + 1]
    /\ UNCHANGED <<free, count, extending>>

Pop(t) ==
    /\ getter[t].at = "pop"
    /\ IF free > 0 THEN free' = free - 1 /\ Goto(t, "have")
                   ELSE Goto(t, "lock") /\ UNCHANGED free
    /\ UNCHANGED <<count, extending>>

(* Mutant: extending is not tested. *)
Lock_NoTest(t) ==
    /\ getter[t].at = "lock"
    /\ extending' = TRUE
    /\ getter' = [getter EXCEPT ![t].at = "create", ![t].i = 0]
    /\ UNCHANGED <<free, count>>

(* Under extend_mutex: wait for the thread that extends, or extend. *)
Lock(t) ==
    /\ getter[t].at = "lock"
    /\ IF extending
       THEN Goto(t, "wait") /\ UNCHANGED extending
       ELSE /\ extending' = TRUE
            /\ getter' = [getter EXCEPT ![t].at = "create", ![t].i = 0]
    /\ UNCHANGED <<free, count>>

Create(t) ==
    /\ getter[t].at = "create" /\ getter[t].i < count /\ Created < MaxIds
    /\ free' = free + 1
    /\ getter' = [getter EXCEPT ![t].i = @ + 1]
    /\ UNCHANGED <<count, extending>>

(* The end of an extension wakes every thread that waits. *)
Wake(t, pc) ==
    /\ extending' = FALSE
    /\ getter' = [s \in Threads |->
            IF s = t THEN [getter[s] EXCEPT !.at = pc, !.i = 0]
            ELSE IF getter[s].at = "wait" THEN [getter[s] EXCEPT !.at = "pop"]
            ELSE getter[s]]

(* Mutant: the error path wakes nobody. *)
CreateFails_Silent(t) ==
    /\ getter[t].at = "create" /\ getter[t].i < count
    /\ extending' = FALSE
    /\ getter' = [getter EXCEPT ![t].at = "idle", ![t].i = 0]
    /\ UNCHANGED <<free, count>>

(* An identifier cannot be created: the error is returned. *)
CreateFails(t) ==
    /\ getter[t].at = "create" /\ getter[t].i < count
    /\ Wake(t, "idle")
    /\ UNCHANGED <<free, count>>

Extended(t) ==
    /\ getter[t].at = "create" /\ getter[t].i = count
    /\ count' = 2 * count
    /\ Wake(t, "pop")
    /\ UNCHANGED free

(* hg_bulk_op_destroy puts the identifier back. *)
Put(t) ==
    /\ getter[t].at = "have"
    /\ free' = free + 1
    /\ Goto(t, "idle")
    /\ UNCHANGED <<count, extending>>

Step(t) ==
    \/ Pop(t) \/ Lock(t) \/ Create(t) \/ CreateFails(t) \/ Extended(t)
Next == \E t \in Threads : Get(t) \/ Step(t) \/ Put(t)

Spec == Init /\ [][Next]_vars

(* One thread extends at a time, so that count is doubled once for the      *)
(* identifiers that were created; whoever waits has somebody to wake it.    *)
OneExtends ==
    /\ Cardinality({t \in Threads : getter[t].at = "create"}) =
            IF extending THEN 1 ELSE 0
    /\ (\E t \in Threads : getter[t].at = "wait") => extending

(* hg_bulk_op_pool_get returns, with an identifier or with an error.        *)
GetReturns ==
    \A t \in Threads :
        (getter[t].at = "pop") ~> (getter[t].at \in {"have", "idle"})
=============================================================================
