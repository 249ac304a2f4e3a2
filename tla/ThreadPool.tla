----------------------------- MODULE ThreadPool -----------------------------
(* The pool of worker threads, util/mercury_thread_pool.c. A section under  *)
(* the mutex of the pool is one action.                                     *)
EXTENDS Naturals, Sequences, FiniteSets

CONSTANTS
    Workers,
    Works      \* what users post, each once

VARIABLES
    queue,      \* the task queue
    sleeping,   \* sleeping_worker_count
    shutdown,   \* "no", "joining" from hg_thread_pool_destroy, "joined"
    worker,     \* where each worker is: "lock" before it takes the mutex,
                \* "wait" and "woken" in the wait, a work it runs, or "exit"
    accepted,   \* works that hg_thread_pool_post has queued
    ran         \* works that were run, in order

vars == <<queue, sleeping, shutdown, worker, accepted, ran>>

Init ==
    /\ queue = <<>> /\ sleeping = 0 /\ shutdown = "no"
    /\ worker = [w \in Workers |-> "lock"]
    /\ accepted = {} /\ ran = <<>>

Sleepers == {w \in Workers : worker[w] = "wait"}

(* hg_thread_pool_post; it fails after shutdown. *)
Post(x) ==
    /\ x \notin accepted /\ shutdown = "no"
    /\ queue' = Append(queue, x)
    /\ accepted' = accepted \cup {x}
    /\ IF sleeping > 0 /\ Sleepers # {}
       THEN \E w \in Sleepers : worker' = [worker EXCEPT ![w] = "woken"]
       ELSE UNCHANGED worker
    /\ UNCHANGED <<sleeping, shutdown, ran>>

(* Mutant: a worker leaves at shutdown with tasks in the queue. *)
Take_Leave(w) ==
    /\ worker[w] \in {"lock", "woken"}
    /\ LET awake == IF worker[w] = "woken" THEN sleeping - 1 ELSE sleeping IN
       \/ /\ shutdown = "no" /\ queue = <<>>
          /\ sleeping' = awake + 1
          /\ worker' = [worker EXCEPT ![w] = "wait"] /\ UNCHANGED queue
       \/ /\ shutdown # "no"
          /\ sleeping' = awake
          /\ worker' = [worker EXCEPT ![w] = "exit"] /\ UNCHANGED queue
       \/ /\ shutdown = "no" /\ queue # <<>>
          /\ sleeping' = awake
          /\ worker' = [worker EXCEPT ![w] = Head(queue)]
          /\ queue' = Tail(queue)
    /\ UNCHANGED <<shutdown, accepted, ran>>

(* Mutant: a worker that goes to sleep is not counted. *)
Take_NotCounted(w) ==
    /\ worker[w] \in {"lock", "woken"}
    /\ \/ /\ shutdown = "no" /\ queue = <<>>
          /\ worker' = [worker EXCEPT ![w] = "wait"] /\ UNCHANGED queue
       \/ /\ shutdown # "no" /\ queue = <<>>
          /\ worker' = [worker EXCEPT ![w] = "exit"] /\ UNCHANGED queue
       \/ /\ queue # <<>>
          /\ worker' = [worker EXCEPT ![w] = Head(queue)]
          /\ queue' = Tail(queue)
    /\ UNCHANGED <<sleeping, shutdown, accepted, ran>>

(* The worker sleeps, leaves, or takes the first task. *)
Take(w) ==
    /\ worker[w] \in {"lock", "woken"}
    /\ LET awake == IF worker[w] = "woken" THEN sleeping - 1 ELSE sleeping IN
       \/ /\ shutdown = "no" /\ queue = <<>>
          /\ sleeping' = awake + 1
          /\ worker' = [worker EXCEPT ![w] = "wait"] /\ UNCHANGED queue
       \/ /\ shutdown # "no" /\ queue = <<>>
          /\ sleeping' = awake
          /\ worker' = [worker EXCEPT ![w] = "exit"] /\ UNCHANGED queue
       \/ /\ queue # <<>>
          /\ sleeping' = awake
          /\ worker' = [worker EXCEPT ![w] = Head(queue)]
          /\ queue' = Tail(queue)
    /\ UNCHANGED <<shutdown, accepted, ran>>

Run(w) ==
    /\ worker[w] \in Works
    /\ ran' = Append(ran, worker[w])
    /\ worker' = [worker EXCEPT ![w] = "lock"]
    /\ UNCHANGED <<queue, sleeping, shutdown, accepted>>

(* hg_thread_pool_destroy wakes every worker ... *)
Destroy ==
    /\ shutdown = "no" /\ shutdown' = "joining"
    /\ worker' = [w \in Workers |->
                    IF worker[w] = "wait" THEN "woken" ELSE worker[w]]
    /\ UNCHANGED <<queue, sleeping, accepted, ran>>

(* ... and joins it. *)
Join ==
    /\ shutdown = "joining" /\ \A w \in Workers : worker[w] = "exit"
    /\ shutdown' = "joined"
    /\ UNCHANGED <<queue, sleeping, worker, accepted, ran>>

Next ==
    \/ Destroy \/ Join
    \/ \E x \in Works : Post(x)
    \/ \E w \in Workers : Take(w) \/ Run(w)

Spec == Init /\ [][Next]_vars

(* A task that was queued does not wait while all workers sleep, though the *)
(* signal of a post may go to a worker that another task keeps awake.       *)
SomeoneAwake ==
    queue # <<>> => \E w \in Workers : worker[w] \notin {"wait", "exit"}

(* When the pool is destroyed every task that was accepted has run, once.   *)
JoinedIsDone ==
    shutdown = "joined" =>
        /\ Len(ran) = Cardinality(accepted)
        /\ \A x \in accepted : \E k \in DOMAIN ran : ran[k] = x

(* Every task that was accepted runs, and hg_thread_pool_destroy returns.   *)
PoolEnds ==
    /\ \A x \in Works : (x \in accepted) ~> (\E k \in DOMAIN ran : ran[k] = x)
    /\ (shutdown = "joining") ~> (shutdown = "joined")
=============================================================================
