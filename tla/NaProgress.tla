----------------------------- MODULE NaProgress -----------------------------
(* NA_Progress with NA_HAS_MULTI_PROGRESS, na/na.c: a counter of the        *)
(* threads that are inside, whose upper bit is a lock. A thread that does   *)
(* not get the lock waits on a condition for the time it has left.          *)
EXTENDS Naturals, FiniteSets

CONSTANTS
    Threads,   \* threads that call NA_Progress
    MaxCalls   \* bound: calls of each thread

VARIABLES
    num,       \* progressing without its lock bit
    locked,    \* NA_PROGRESS_LOCK
    call,      \* where each thread is, and whether it has time left
    gave_up    \* TRUE once a thread without time left has missed a free lock

vars == <<num, locked, call, gave_up>>

Init ==
    /\ num = 0 /\ locked = FALSE /\ gave_up = FALSE
    /\ call = [t \in Threads |-> [at |-> "out", time |-> FALSE, old |-> 0, n |-> 0]]

Goto(t, pc) == call' = [call EXCEPT ![t].at = pc]

Enter(t) ==
    /\ call[t].at = "out" /\ call[t].n < MaxCalls
    /\ num' = num + 1
    /\ \E time \in BOOLEAN :
        call' = [call EXCEPT ![t].at = "get", ![t].time = time, ![t].n = @ + 1]
    /\ UNCHANGED <<locked, gave_up>>

Get(t) ==
    /\ call[t].at = "get"
    /\ call' = [call EXCEPT ![t].at = "cas", ![t].old = num]
    /\ UNCHANGED <<num, locked, gave_up>>

(* Mutant: the lock bit is not part of what is compared. *)
Cas_NoLock(t) ==
    /\ call[t].at = "cas" /\ num = call[t].old
    /\ locked' = TRUE
    /\ call' = [call EXCEPT ![t].at = "in", ![t].old = 0]
    /\ UNCHANGED <<num, gave_up>>

Cas(t) ==
    /\ call[t].at = "cas" /\ ~locked /\ num = call[t].old
    /\ locked' = TRUE
    /\ call' = [call EXCEPT ![t].at = "in", ![t].old = 0]
    /\ UNCHANGED <<num, gave_up>>

(* Another thread is inside, or has come or gone since the counter was read. *)
CasFails(t) ==
    /\ call[t].at = "cas" /\ (locked \/ num # call[t].old)
    /\ call' = [call EXCEPT ![t].old = 0,
                            ![t].at = IF call[t].time THEN "mutex" ELSE "leave"]
    /\ gave_up' = (gave_up \/ (~call[t].time /\ ~locked))
    /\ UNCHANGED <<num, locked>>

Leave(t) ==
    /\ call[t].at = "leave"
    /\ num' = num - 1
    /\ Goto(t, "out")
    /\ UNCHANGED <<locked, gave_up>>

(* Mutant: the lock is not tested again under the mutex. *)
Wait_NoTest(t) ==
    /\ call[t].at = "mutex"
    /\ Goto(t, "wait")
    /\ UNCHANGED <<num, locked, gave_up>>

(* Under the mutex: wait unless the lock was released meanwhile. The time   *)
(* may be over when the mutex is had.                                       *)
Wait(t) ==
    /\ call[t].at = "mutex"
    /\ IF locked THEN Goto(t, "wait")
       ELSE \E time \in BOOLEAN :
            call' = [call EXCEPT ![t].at = "get", ![t].time = time]
    /\ UNCHANGED <<num, locked, gave_up>>

WaitTimeout(t) ==
    /\ call[t].at = "wait"
    /\ num' = num - 1
    /\ Goto(t, "out")
    /\ UNCHANGED <<locked, gave_up>>

(* The progress of the plugin, and the release of lock and count. *)
Unlock(t) ==
    /\ call[t].at = "in"
    /\ num' = num - 1 /\ locked' = FALSE
    /\ Goto(t, IF num > 1 THEN "signal" ELSE "out")
    /\ UNCHANGED gave_up

(* One thread is woken, if one waits; it may have no time left. *)
Signal(t) ==
    /\ call[t].at = "signal"
    /\ IF \E s \in Threads : call[s].at = "wait"
       THEN \E s \in Threads, time \in BOOLEAN :
            /\ call[s].at = "wait"
            /\ call' = [call EXCEPT ![t].at = "out", ![s].at = "get",
                                    ![s].time = time]
       ELSE Goto(t, "out")
    /\ UNCHANGED <<num, locked, gave_up>>

Step(t) ==
    \/ Get(t) \/ Cas(t) \/ CasFails(t) \/ Leave(t) \/ Wait(t) \/ Unlock(t)
    \/ Signal(t)
Next == \E t \in Threads : Enter(t) \/ Step(t) \/ WaitTimeout(t)

Spec == Init /\ [][Next]_vars

(* One thread at a time is in the progress of the plugin, and it is the one *)
(* that has the lock; the counter is the number of threads inside.          *)
OneInPlugin ==
    /\ Cardinality({t \in Threads : call[t].at = "in"}) =
            IF locked THEN 1 ELSE 0
    /\ num = Cardinality({t \in Threads : call[t].at \notin {"out", "signal"}})

Waiting == \E t \in Threads : call[t].at = "wait"
Coming == \E t \in Threads : call[t].at \in {"signal", "get", "cas", "mutex"}

(* A thread that waits is not left alone with a free lock: the holder is    *)
(* about to wake it, or another will take the lock and wake it then. It may *)
(* be left alone once a thread that was woken too late gave up.             *)
WokenOrLocked == Waiting => locked \/ Coming \/ gave_up

(* The same without the exception. *)
AlwaysWoken == Waiting => locked \/ Coming
=============================================================================
