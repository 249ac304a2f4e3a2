------------------------------ MODULE Request -------------------------------
(* Waiting for requests, hg_request_wait of util/mercury_request.c: the     *)
(* threads that wait share the calls of trigger and progress; while one     *)
(* makes progress the others wait on a condition. The operation behind a    *)
(* request arrives, is put in the completion queue by progress, and its     *)
(* callback, run by any trigger, completes the request.                     *)
EXTENDS Naturals, FiniteSets

CONSTANTS
    Threads,   \* threads, each waits for one request
    Hasty      \* those whose deadline may pass

VARIABLES
    state,         \* of the operation of each thread: "posted", "arrived",
                   \* "queued", "completed"
    progressing,   \* TRUE while a thread makes progress
    waiter         \* where each thread is, completed as it has read it, and
                   \* whether its deadline is over

vars == <<state, progressing, waiter>>

Init ==
    /\ state = [t \in Threads |-> "posted"]
    /\ progressing = FALSE
    /\ waiter = [t \in Threads |-> [at |-> "trigger", completed |-> FALSE,
                                late |-> FALSE]]

Goto(t, pc) == waiter' = [waiter EXCEPT ![t].at = pc]

(* External: the operation is over in NA. *)
Arrive(t) ==
    /\ state[t] = "posted" /\ state' = [state EXCEPT ![t] = "arrived"]
    /\ UNCHANGED <<progressing, waiter>>

(* The deadline of a wait passes. *)
Deadline(t) ==
    /\ t \in Hasty /\ ~waiter[t].late /\ waiter[t].at # "returned"
    /\ waiter' = [waiter EXCEPT ![t].late = TRUE]
    /\ UNCHANGED <<state, progressing>>

(* trigger_func runs a callback, of any request, or finds none. *)
Trigger(t) ==
    /\ waiter[t].at = "trigger"
    /\ \E r \in Threads :
        /\ state[r] = "queued" /\ state' = [state EXCEPT ![r] = "completed"]
    /\ UNCHANGED <<progressing, waiter>>

TriggerNone(t) ==
    /\ waiter[t].at = "trigger" /\ \A r \in Threads : state[r] # "queued"
    /\ Goto(t, "test")
    /\ UNCHANGED <<state, progressing>>

Test(t) ==
    /\ waiter[t].at = "test"
    /\ waiter' = [waiter EXCEPT
            ![t].completed = state[t] = "completed",
            ![t].at = IF state[t] = "completed" THEN "returned" ELSE "lock"]
    /\ UNCHANGED <<state, progressing>>

(* Mutant: a thread makes progress whether another does or not. *)
Lock_NoTest(t) ==
    /\ waiter[t].at = "lock"
    /\ progressing' = TRUE
    /\ Goto(t, "progress")
    /\ UNCHANGED state

Lock(t) ==
    /\ waiter[t].at = "lock"
    /\ progressing' = TRUE
    /\ Goto(t, IF progressing THEN "wait" ELSE "progress")
    /\ UNCHANGED state

(* progress_func returns when something has happened ... *)
Progress(t) ==
    /\ waiter[t].at = "progress"
    /\ \E r \in Threads : state[r] \in {"arrived", "queued"}
    /\ state' = [r \in Threads |->
                    IF state[r] = "arrived" THEN "queued" ELSE state[r]]
    /\ Goto(t, "unlock")
    /\ UNCHANGED progressing

(* ... or when the time has passed. *)
ProgressTimeout(t) ==
    /\ waiter[t].at = "progress" /\ waiter[t].late
    /\ Goto(t, "unlock")
    /\ UNCHANGED <<state, progressing>>

(* Mutant: the threads that wait are not woken. *)
Unlock_Silent(t) ==
    /\ waiter[t].at = "unlock"
    /\ progressing' = FALSE
    /\ Goto(t, "next")
    /\ UNCHANGED state

Unlock(t) ==
    /\ waiter[t].at = "unlock"
    /\ progressing' = FALSE
    /\ waiter' = [s \in Threads |->
            IF s = t \/ waiter[s].at = "wait" THEN [waiter[s] EXCEPT !.at = "next"]
            ELSE waiter[s]]
    /\ UNCHANGED state

(* There is time left, or the thread returns with what it has read. *)
Continue(t) ==
    /\ waiter[t].at = "next"
    /\ Goto(t, IF waiter[t].late THEN "returned" ELSE "trigger")
    /\ UNCHANGED <<state, progressing>>

WaitTimeout(t) ==
    /\ waiter[t].at = "wait" /\ waiter[t].late
    /\ Goto(t, "returned")
    /\ UNCHANGED <<state, progressing>>

Step(t) ==
    \/ Trigger(t) \/ TriggerNone(t) \/ Test(t) \/ Lock(t) \/ Progress(t)
    \/ ProgressTimeout(t) \/ Unlock(t) \/ Continue(t) \/ WaitTimeout(t)
Next == \E t \in Threads : Arrive(t) \/ Deadline(t) \/ Step(t)

Spec == Init /\ [][Next]_vars

(* One thread makes progress at a time, and a thread that waits on the      *)
(* condition waits for one that does and that will wake it.                 *)
WaitsForProgress ==
    /\ Cardinality({t \in Threads : waiter[t].at \in {"progress", "unlock"}}) =
            IF progressing THEN 1 ELSE 0
    /\ (\E t \in Threads : waiter[t].at = "wait") => progressing

Arrivals == \A t \in Threads : WF_vars(Arrive(t))

(* A request whose operation arrives is completed, whoever runs its         *)
(* callback: the thread that makes progress for all may return or give up,  *)
(* and then another of those that still wait takes over. A wait whose       *)
(* deadline passes returns.                                                 *)
Completes ==
    /\ Arrivals => \A t \in Threads :
        (waiter[t].at = "trigger") ~>
            (waiter[t].at = "returned" \/ state[t] = "completed")
    /\ \A t \in Threads : waiter[t].late ~> (waiter[t].at = "returned")

(* Every wait returns if all operations arrive. It may not: a thread reads  *)
(* completed, another one then runs the last callback, and the first goes   *)
(* on to make progress, with nothing left that could end it but its timeout.*)
WaitReturns ==
    Arrivals => \A t \in Threads :
        (waiter[t].at = "trigger") ~> (waiter[t].at = "returned")

(* A wait returns 0 only if the request has not completed. The flag is read *)
(* before the wait on the condition or the progress, not after it.          *)
FlagIsTrue ==
    \A t \in Threads :
        waiter[t].at = "returned" /\ ~waiter[t].completed =>
            state[t] # "completed"
=============================================================================
