----------------------------- MODULE Completion -----------------------------
(***************************************************************************)
(* The completion queue of a context of mercury_core.c.  Threads that      *)
(* complete operations add entries (hg_core_completion_add), to a bounded  *)
(* atomic queue or, when that is full, to a backfill list; threads that    *)
(* trigger take them and run their callbacks (hg_core_trigger), and wait   *)
(* on a condition when there are none; threads that make progress          *)
(* (hg_core_progress) block in a poll when there are none, and are woken   *)
(* through an event.                                                       *)
(*                                                                         *)
(* The atomic queue is what AtomicQueue implements, a bounded FIFO; a pop  *)
(* that others overtake may also fail when the queue is full.  A section   *)
(* under completion_queue_mutex or completion_queue_notify_mutex is one    *)
(* action, as what others read without the mutex changes once in it.       *)
(***************************************************************************)
EXTENDS Integers, Sequences, FiniteSets, Functions

CONSTANTS
    Completers,  \* threads that complete operations
    Triggers,    \* threads that call HG_Core_trigger
    Progress,    \* threads that call HG_Core_progress with a timeout
    Capacity,    \* what the atomic queue can hold
    MaxCount,    \* max_count of HG_Core_trigger
    StalePops,   \* TRUE: a pop of a full queue may return NULL
    MaxEntries   \* bound on the number of operations that complete

ASSUME CompletionAssumption ==
    /\ StalePops \in BOOLEAN
    /\ Capacity \in Nat /\ MaxCount \in Nat \ {0} /\ MaxEntries \in Nat

VARIABLES
    queue,     \* completion_queue
    backfill,  \* backfill_queue
    count,     \* backfill_queue_count
    event,     \* value of the event completion_queue_notify
    must,      \* completion_queue_must_notify
    comp,      \* where each completer is, with its entry
    trig,      \* where each trigger is, its entry, callbacks run so far
    prog,      \* where each progress thread is
    self,      \* entries that were added with self_notify
    added,     \* number of entries added
    done       \* entries whose callback was run, in order

vars == <<queue, backfill, count, event, must, comp, trig, prog, self, added,
          done>>

Entries == 1 .. MaxEntries

Init ==
    /\ queue = <<>> /\ backfill = <<>> /\ count = 0
    /\ event = 0 /\ must = FALSE
    /\ comp = [c \in Completers |-> [at |-> "idle", e |-> 0]]
    /\ trig = [t \in Triggers |-> [at |-> "idle", e |-> 0, count |-> 0]]
    /\ prog = [p \in Progress |-> "idle"]
    /\ self = {} /\ added = 0 /\ done = <<>>

-----------------------------------------------------------------------------
(* hg_core_completion_add *)

(* The entry is pushed, unless the queue is full. *)
Add(c) ==
    \E notify \in BOOLEAN :
        LET e == added + 1
            fits == Len(queue) < Capacity
        IN  /\ comp[c].at = "idle" /\ added < MaxEntries
            /\ added' = e
            /\ self' = IF notify THEN self \cup {e} ELSE self
            /\ queue' = IF fits THEN Append(queue, e) ELSE queue
            /\ comp' = [comp EXCEPT ![c] =
                           [at |-> IF fits THEN "signal" ELSE "backfill",
                            e |-> e]]
            /\ UNCHANGED <<backfill, count, event, must, trig, prog, done>>

(* It goes to the backfill list. *)
AddBackfill(c) ==
    /\ comp[c].at = "backfill"
    /\ backfill' = Append(backfill, comp[c].e)
    /\ count' = count + 1
    /\ comp' = [comp EXCEPT ![c].at = "signal"]
    /\ UNCHANGED <<queue, event, must, trig, prog, self, added, done>>

(* Wakes one thread that waits on the condition. *)
AddSignal(c) ==
    /\ comp[c].at = "signal"
    /\ \/ \E t \in Triggers : /\ trig[t].at = "waiting"
                              /\ trig' = [trig EXCEPT ![t].at = "pop"]
       \/ /\ \A t \in Triggers : trig[t].at # "waiting"
          /\ UNCHANGED trig
    /\ comp' = [comp EXCEPT ![c].at =
                   IF comp[c].e \in self THEN "notify" ELSE "idle"]
    /\ UNCHANGED <<queue, backfill, count, event, must, prog, self, added, done>>

(* Sets the event when a progress thread asked for it. *)
AddNotify(c) ==
    /\ comp[c].at = "notify"
    /\ event' = IF must THEN event + 1 ELSE event
    /\ comp' = [comp EXCEPT ![c].at = "idle"]
    /\ UNCHANGED <<queue, backfill, count, must, trig, prog, self, added, done>>

Complete(c) == AddBackfill(c) \/ AddSignal(c) \/ AddNotify(c)

-----------------------------------------------------------------------------
(* hg_core_trigger *)

TriggerStart(t) ==
    /\ trig[t].at = "idle"
    /\ trig' = [trig EXCEPT ![t] = [at |-> "pop", e |-> 0, count |-> 0]]
    /\ UNCHANGED <<queue, backfill, count, event, must, comp, prog, self,
                   added, done>>

(* Mutant: the entry stays in the queue. *)
TriggerPop_Peek(t) ==
    /\ trig[t].at = "pop" /\ queue # <<>>
    /\ trig' = [trig EXCEPT ![t].at = "run", ![t].e = Head(queue)]
    /\ UNCHANGED <<queue, backfill, count, event, must, comp, prog, self,
                   added, done>>

TriggerPop(t) ==
    /\ trig[t].at = "pop" /\ queue # <<>>
    /\ trig' = [trig EXCEPT ![t].at = "run", ![t].e = Head(queue)]
    /\ queue' = Tail(queue)
    /\ UNCHANGED <<backfill, count, event, must, comp, prog, self, added, done>>

(* The pop returns NULL. *)
TriggerPopNull(t) ==
    /\ trig[t].at = "pop"
    /\ \/ queue = <<>>
       \/ StalePops /\ Len(queue) = Capacity
    /\ trig' = [trig EXCEPT ![t].at = "count"]
    /\ UNCHANGED <<queue, backfill, count, event, must, comp, prog, self,
                   added, done>>

(* The number of entries in the backfill list is read, without the mutex.  *)
(* If there are none, the call ends when it has run something or its       *)
(* timeout has passed, or goes on to wait.                                 *)
TriggerCount(t) ==
    /\ trig[t].at = "count"
    /\ \E wait \in BOOLEAN :
          trig' = [trig EXCEPT ![t].at =
                      CASE count # 0 -> "take"
                        [] count = 0 /\ trig[t].count = 0 /\ wait -> "wait"
                        [] OTHER -> "idle"]
    /\ UNCHANGED <<queue, backfill, count, event, must, comp, prog, self,
                   added, done>>

(* Mutant: the count is not decremented. *)
TriggerTake_NotCounted(t) ==
    /\ trig[t].at = "take"
    /\ IF backfill # <<>>
       THEN /\ trig' = [trig EXCEPT ![t].at = "run", ![t].e = Head(backfill)]
            /\ backfill' = Tail(backfill)
       ELSE /\ trig' = [trig EXCEPT ![t].at = "pop"]
            /\ UNCHANGED backfill
    /\ UNCHANGED <<queue, count, event, must, comp, prog, self, added, done>>

(* The first entry of the backfill list is taken; another thread may have  *)
(* taken it.  The count is decremented in any case.                        *)
TriggerTake(t) ==
    /\ trig[t].at = "take"
    /\ count' = count - 1
    /\ IF backfill # <<>>
       THEN /\ trig' = [trig EXCEPT ![t].at = "run", ![t].e = Head(backfill)]
            /\ backfill' = Tail(backfill)
       ELSE /\ trig' = [trig EXCEPT ![t].at = "pop"]
            /\ UNCHANGED backfill
    /\ UNCHANGED <<queue, event, must, comp, prog, self, added, done>>

(* Mutant: the wait starts without another look at the queues. *)
TriggerWait_NoTest(t) ==
    /\ trig[t].at = "wait"
    /\ trig' = [trig EXCEPT ![t].at = "waiting"]
    /\ UNCHANGED <<queue, backfill, count, event, must, comp, prog, self,
                   added, done>>

(* Waits on the condition if the queues are still empty. *)
TriggerWait(t) ==
    /\ trig[t].at = "wait"
    /\ trig' = [trig EXCEPT ![t].at =
                   IF queue = <<>> /\ count = 0 THEN "waiting" ELSE "pop"]
    /\ UNCHANGED <<queue, backfill, count, event, must, comp, prog, self,
                   added, done>>

(* The wait times out. *)
TriggerTimeout(t) ==
    /\ trig[t].at = "waiting"
    /\ trig' = [trig EXCEPT ![t].at = "idle"]
    /\ UNCHANGED <<queue, backfill, count, event, must, comp, prog, self,
                   added, done>>

(* Runs the callback of the entry; the call ends if that fails, or at      *)
(* max_count.                                                              *)
TriggerRun(t) ==
    /\ trig[t].at = "run"
    /\ done' = Append(done, trig[t].e)
    /\ \E fails \in BOOLEAN :
          trig' = [trig EXCEPT ![t] =
             [at |-> IF ~fails /\ @.count + 1 < MaxCount THEN "pop" ELSE "idle",
              e |-> 0,
              count |-> IF fails THEN @.count ELSE @.count + 1]]
    /\ UNCHANGED <<queue, backfill, count, event, must, comp, prog, self, added>>

TriggerStep(t) ==
    \/ TriggerPop(t) \/ TriggerPopNull(t) \/ TriggerCount(t) \/ TriggerTake(t)
    \/ TriggerWait(t) \/ TriggerRun(t)

-----------------------------------------------------------------------------
(* hg_core_progress with a poll set *)

(* Mutant: the progress thread does not ask to be notified. *)
ProgressWait_NoMust(p) ==
    /\ prog[p] = "idle"
    /\ queue = <<>> /\ ~(count > 0)
    /\ prog' = [prog EXCEPT ![p] = "poll"]
    /\ UNCHANGED <<queue, backfill, count, event, must, comp, trig, self,
                   added, done>>

(* hg_core_poll_try_wait finds nothing to trigger (and nothing in NA): the *)
(* thread asks to be notified and enters the blocking poll.  Otherwise     *)
(* progress does not block, which changes nothing here.                    *)
ProgressWait(p) ==
    /\ prog[p] = "idle"
    /\ queue = <<>> /\ ~(count > 0)
    /\ must' = TRUE
    /\ prog' = [prog EXCEPT ![p] = "poll"]
    /\ UNCHANGED <<queue, backfill, count, event, comp, trig, self, added, done>>

(* The poll returns for the event, or for NA or the timeout. *)
PollWakes(p) ==
    /\ prog[p] = "poll"
    /\ prog' = [prog EXCEPT ![p] = IF event > 0 THEN "event" ELSE "other"]
    /\ UNCHANGED <<queue, backfill, count, event, must, comp, trig, self,
                   added, done>>

(* hg_core_poll_wait: no need to notify any more ... *)
PollClear(p) ==
    /\ prog[p] \in {"event", "other"}
    /\ must' = FALSE
    /\ prog' = [prog EXCEPT ![p] = IF prog[p] = "event" THEN "get" ELSE "idle"]
    /\ UNCHANGED <<queue, backfill, count, event, comp, trig, self, added, done>>

(* ... and hg_core_progress_loopback_notify reads the event. *)
PollGet(p) ==
    /\ prog[p] = "get"
    /\ event' = IF event > 0 THEN event - 1 ELSE event
    /\ prog' = [prog EXCEPT ![p] = "idle"]
    /\ UNCHANGED <<queue, backfill, count, must, comp, trig, self, added, done>>

Poll(p) == ProgressWait(p) \/ PollWakes(p) \/ PollClear(p) \/ PollGet(p)

Next ==
    \/ \E c \in Completers : Add(c) \/ Complete(c)
    \/ \E t \in Triggers : TriggerStart(t) \/ TriggerStep(t) \/ TriggerTimeout(t)
    \/ \E p \in Progress : Poll(p)

Spec == Init /\ [][Next]_vars

(* Threads finish the calls they are in; trigger is called for ever.  No   *)
(* wait on the condition is assumed to time out.                           *)
FairSpec ==
    /\ Spec
    /\ \A c \in Completers : WF_vars(Complete(c))
    /\ \A t \in Triggers : WF_vars(TriggerStart(t)) /\ WF_vars(TriggerStep(t))

-----------------------------------------------------------------------------
(* Properties *)

(* The entries that a thread is about to put in the backfill list, and     *)
(* those that a thread is about to run.                                    *)
Held ==
    {comp[c].e : c \in {d \in Completers : comp[d].at = "backfill"}} \cup
    {trig[t].e : t \in {v \in Triggers : trig[v].at = "run"}}

(* Every completion is triggered exactly once: an entry that was added is  *)
(* in one of the queues, held by one thread or done, and nowhere twice.    *)
TriggeredOnce ==
    /\ Range(queue) \cup Range(backfill) \cup Range(done) \cup Held = 1 .. added
    /\ Len(queue) + Len(backfill) + Len(done) + Cardinality(Held) = added

(* backfill_queue_count is the length of the backfill list, so that no     *)
(* entry in it is overlooked.                                              *)
CountIsLength == count = Len(backfill)

(* No entry in the backfill list is overlooked: hg_core_trigger looks at   *)
(* the list only when backfill_queue_count is not 0.                       *)
NoneOverlooked == backfill # <<>> => count # 0

(* When the queues are empty and no thread is about to count an entry that *)
(* it put in or took out of the list, the count is 0: only then does       *)
(* hg_core_trigger come to its test of the timeout instead of trying again.*)
EmptyIsSeen ==
    /\ queue = <<>> /\ backfill = <<>>
    /\ \A c \in Completers : comp[c].at = "idle"
    /\ \A t \in Triggers : trig[t].at # "take"
    => count = 0

(* No wakeup is lost: when threads wait in hg_core_trigger although there  *)
(* is something to trigger, a completer is about to signal or another      *)
(* thread is in hg_core_trigger and will take it.                          *)
NoLostWakeup ==
    (queue # <<>> \/ backfill # <<>>) /\ (\E t \in Triggers : trig[t].at = "waiting")
        => \/ \E c \in Completers : comp[c].at = "signal"
           \/ \E t \in Triggers : trig[t].at \notin {"idle", "waiting"}

(* A progress thread that blocks in hg_core_poll_wait is notified of the   *)
(* completions to self: when one is there, the event is set or about to    *)
(* be.                                                                     *)
PollNotified ==
    \A p \in Progress : prog[p] = "poll" =>
        \A e \in self \cap (Range(queue) \cup Range(backfill)) :
            event > 0 \/ \E c \in Completers : comp[c].e = e /\ comp[c].at # "idle"

(* Every completion is triggered in the end, by threads that wait without  *)
(* a timeout.                                                              *)
Triggered == \A e \in Entries : added >= e ~> e \in Range(done)

(* A call of HG_Core_trigger that does not wait returns. *)
TriggerReturns ==
    \A t \in Triggers : trig[t].at = "pop" ~> trig[t].at \in {"idle", "waiting"}
=============================================================================
