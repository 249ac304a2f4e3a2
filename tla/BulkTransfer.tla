---------------------------- MODULE BulkTransfer ----------------------------
(* Bulk transfers of mercury_bulk.c: the posting of the NA operations of a  *)
(* transfer, their callbacks, cancel, trigger and the reuse of operation    *)
(* identifiers. The pool they come from is module OpPool; here it is a set. *)
(*                                                                          *)
(* Users are threads that start transfers, one after the other. The         *)
(* callbacks of NA run at any time, on any thread. NA is external: it       *)
(* completes a posted operation at most once, with success or an error, or, *)
(* after NA_Cancel, with NA_CANCELED.                                       *)
EXTENDS Naturals, FiniteSets

CONSTANTS
    Users,          \* threads that call HG_Bulk_transfer and HG_Bulk_cancel
    Ids,            \* operation identifiers
    NoId,
    StaticMax,      \* HG_BULK_STATIC_MAX: NA identifiers allocated in advance
    MaxOps,         \* bound: NA operations of a transfer
    MaxTransfers,   \* bound: transfers, of all users together
    Races           \* what users and NA may do, see below

(* "cancel": trigger may run while another thread is inside cancel.         *)
(* "post": posting an NA operation may fail.                                *)
ASSUME ConstantsAssumption ==
    /\ NoId \notin Ids /\ NoId \notin Users /\ IsFiniteSet(Ids)
    /\ StaticMax \in Nat /\ MaxOps \in Nat /\ MaxTransfers \in Nat
    /\ Races \subseteq {"cancel", "post"}

VARIABLES
    op,         \* the identifiers
    na,         \* state of the NA operations of each identifier
    pending,    \* identifiers in the pool
    u,          \* where each user is
    queued,     \* how often each identifier is in the completion queue
    trig,       \* identifiers whose callback ran and that are being released
    refs,       \* references to the two bulk handles held by transfers
    started     \* transfers started, for the bound

vars == <<op, na, pending, u, queued, trig, refs, started>>

Results == {"SUCCESS", "CANCELED", "ERROR"}
InCancel == {"mark", "cancel"}
Outstanding == {"posted", "canceling", "counting"}

(* An identifier created by hg_bulk_op_create, or reset by                  *)
(* hg_bulk_op_destroy. by and ends are history: the user whose transfer it  *)
(* carries, and the results of the NA operations that ended.                *)
NewOp == [status |-> {"COMPLETED"}, ret_status |-> "SUCCESS",
          op_count |-> 1, op_completed_count |-> 0, extra |-> FALSE,
          ret |-> "SUCCESS", by |-> NoId, ends |-> {}]

Init ==
    /\ op = [i \in Ids |-> NewOp]
    /\ na = [i \in Ids |-> [j \in 1..MaxOps |-> "idle"]]
    /\ pending = Ids
    /\ u = [t \in Users |-> [pc |-> "idle", id |-> NoId, left |-> 0,
                             asked |-> FALSE, canceled |-> FALSE, got |-> 0]]
    /\ started = 0
    /\ queued = [i \in Ids |-> 0]
    /\ trig = {}
    /\ refs = 0

-----------------------------------------------------------------------------
(* hg_bulk_transfer. *)

At(t, pc) == u[t].pc = pc
Goto(t, pc) == u' = [u EXCEPT ![t].pc = pc]

(* The user starts a transfer when the previous one failed or called back.  *)
(* got counts the calls of the callback.                                    *)
Begin(t) ==
    /\ At(t, "idle") \/ (At(t, "posted") /\ u[t].got > 0)
    /\ started < MaxTransfers
    /\ started' = started + 1
    /\ u' = [u EXCEPT ![t] = [pc |-> "get", id |-> NoId, left |-> 0,
                              asked |-> FALSE, canceled |-> FALSE, got |-> 0]]
    /\ UNCHANGED <<op, na, pending, queued, trig, refs>>

(* hg_bulk_op_pool_get gives an identifier of the pool, or an error. *)
PoolGet(t) ==
    /\ At(t, "get")
    /\ \E i \in pending :
        /\ pending' = pending \ {i}
        /\ u' = [u EXCEPT ![t].pc = "start", ![t].id = i]
    /\ UNCHANGED <<op, na, queued, trig, refs, started>>

PoolFails(t) ==
    /\ At(t, "get") /\ pending = {}
    /\ Goto(t, "idle")
    /\ UNCHANGED <<op, na, pending, queued, trig, refs, started>>

(* hg_bulk_complete. *)
Complete(o, r) == [o EXCEPT !.status = @ \cup {"COMPLETED"}, !.ret = r]

(* Mutant: the count of completed operations is not reset. *)
Reset_KeepCount(i, t, k) ==
    [op[i] EXCEPT !.status = {}, !.ret_status = "SUCCESS", !.op_count = k,
                  !.by = t, !.ends = {}]

(* The fields a transfer of k NA operations sets. *)
Reset(i, t, k) ==
    [op[i] EXCEPT !.status = {}, !.ret_status = "SUCCESS", !.op_count = k,
                  !.op_completed_count = 0, !.by = t, !.ends = {}]

(* Nothing to transfer, or the memory of this process: no NA operation. *)
StartSelf(t) ==
    /\ At(t, "start")
    /\ LET i == u[t].id IN
        /\ \E k \in 0..1 :
            op' = [op EXCEPT ![i] = Complete(Reset(i, t, k), "SUCCESS")]
        /\ queued' = [queued EXCEPT ![i] = @ + 1]
    /\ u' = [u EXCEPT ![t].pc = "post", ![t].left = 0]
    /\ refs' = refs + 1
    /\ UNCHANGED <<na, pending, trig, started>>

(* Through NA: extra identifiers when there are many operations. *)
StartNa(t) ==
    /\ At(t, "start")
    /\ LET i == u[t].id IN
       \E k \in 1..MaxOps :
        /\ op' = [op EXCEPT ![i] = [Reset(i, t, k) EXCEPT
                                        !.extra = k > StaticMax]]
        /\ u' = [u EXCEPT ![t].pc = "post", ![t].left = k]
    /\ refs' = refs + 1
    /\ UNCHANGED <<na, pending, queued, trig, started>>

(* hg_bulk_transfer_segments_na, one NA operation at a time. *)
Post(t) ==
    /\ At(t, "post") /\ u[t].left > 0
    /\ LET i == u[t].id IN
       na' = [na EXCEPT ![i][op[i].op_count - u[t].left + 1] = "posted"]
    /\ u' = [u EXCEPT ![t].left = @ - 1]
    /\ UNCHANGED <<op, pending, queued, trig, refs, started>>

(* Mutant: a failed transfer puts its identifier back. *)
PostFails_Release(t) ==
    /\ "post" \in Races
    /\ At(t, "post") /\ u[t].left > 0
    /\ Goto(t, "idle")
    /\ pending' = pending \cup {u[t].id}
    /\ refs' = refs - 1
    /\ UNCHANGED <<op, na, queued, trig, started>>

(* An NA operation, or an extra identifier, cannot be had: transfer returns *)
(* the error. The identifier and the references stay where they are.        *)
PostFails(t) ==
    /\ "post" \in Races
    /\ At(t, "post") /\ u[t].left > 0
    /\ Goto(t, "idle")
    /\ UNCHANGED <<op, na, pending, queued, trig, refs, started>>

(* The user gets the identifier only now. *)
PostDone(t) ==
    /\ At(t, "post") /\ u[t].left = 0
    /\ Goto(t, "posted")
    /\ UNCHANGED <<op, na, pending, queued, trig, refs, started>>

-----------------------------------------------------------------------------
(* NA, and hg_bulk_transfer_cb. *)

(* Mutant: an error is not kept as the result. *)
Note_Forget(o, r) ==
    [o EXCEPT !.status = @ \cup (IF r = "ERROR" THEN {"ERRORED"} ELSE {}),
              !.ret_status = IF @ = "SUCCESS" /\ r = "CANCELED" THEN r ELSE @,
              !.ends = @ \cup {r}]

(* What the callback notes: an error in the status, and the first result    *)
(* that is not success.                                                     *)
Note(o, r) ==
    [o EXCEPT !.status = @ \cup (IF r = "ERROR" THEN {"ERRORED"} ELSE {}),
              !.ret_status = IF @ = "SUCCESS" THEN r ELSE @,
              !.ends = @ \cup {r}]

(* NA completes operation j of i and the callback notes the result. *)
NaEnds(i, j, r) ==
    /\ na[i][j] \in {"posted", "canceling"}
    /\ r = "CANCELED" => na[i][j] = "canceling"
    /\ op' = [op EXCEPT ![i] = Note(@, r)]
    /\ na' = [na EXCEPT ![i][j] = "counting"]
    /\ UNCHANGED <<pending, u, queued, trig, refs, started>>

(* Mutant: any callback that finds its count reached completes again. *)
Count_AtLeast(i, j) ==
    LET done == op[i].op_completed_count + 1
        counted == [op[i] EXCEPT !.op_completed_count = done] IN
    /\ na[i][j] = "counting"
    /\ na' = [na EXCEPT ![i][j] = "idle"]
    /\ IF done + 1 >= op[i].op_count
       THEN /\ op' = [op EXCEPT ![i] = Complete(counted, counted.ret_status)]
            /\ queued' = [queued EXCEPT ![i] = @ + 1]
       ELSE op' = [op EXCEPT ![i] = counted] /\ UNCHANGED queued
    /\ UNCHANGED <<pending, u, trig, refs, started>>

(* Mutant: the last callback puts the identifier in the pool. *)
Count_Put(i, j) ==
    LET done == op[i].op_completed_count + 1
        counted == [op[i] EXCEPT !.op_completed_count = done] IN
    /\ na[i][j] = "counting"
    /\ na' = [na EXCEPT ![i][j] = "idle"]
    /\ IF done = op[i].op_count
       THEN /\ op' = [op EXCEPT ![i] = Complete(counted, counted.ret_status)]
            /\ queued' = [queued EXCEPT ![i] = @ + 1]
            /\ pending' = pending \cup {i}
       ELSE op' = [op EXCEPT ![i] = counted] /\ UNCHANGED <<queued, pending>>
    /\ UNCHANGED <<u, trig, refs, started>>

(* The callback counts; the last one completes the transfer. *)
Count(i, j) ==
    LET done == op[i].op_completed_count + 1
        counted == [op[i] EXCEPT !.op_completed_count = done] IN
    /\ na[i][j] = "counting"
    /\ na' = [na EXCEPT ![i][j] = "idle"]
    /\ IF done = op[i].op_count
       THEN /\ op' = [op EXCEPT ![i] = Complete(counted, counted.ret_status)]
            /\ queued' = [queued EXCEPT ![i] = @ + 1]
       ELSE op' = [op EXCEPT ![i] = counted] /\ UNCHANGED queued
    /\ UNCHANGED <<pending, u, trig, refs, started>>

-----------------------------------------------------------------------------
(* hg_bulk_cancel, by a user whose callback has not run. *)

CancelTest(t) ==
    /\ At(t, "posted") /\ u[t].got = 0 /\ ~u[t].asked
    /\ u' = [u EXCEPT
                ![t].asked = TRUE,
                ![t].pc = IF op[u[t].id].status = {} THEN "mark" ELSE @]
    /\ UNCHANGED <<op, na, pending, queued, trig, refs, started>>

CancelMark(t) ==
    LET i == u[t].id IN
    /\ At(t, "mark")
    /\ op' = [op EXCEPT ![i].status = @ \cup {"CANCELED"}]
    /\ u' = [u EXCEPT
                ![t].canceled = TRUE, ![t].left = 1,
                ![t].pc = IF "CANCELED" \in op[i].status THEN "posted"
                          ELSE "cancel"]
    /\ UNCHANGED <<na, pending, queued, trig, refs, started>>

(* Mutant: the loop over the NA operations stops one too early. *)
CancelNa_Short(t) ==
    LET i == u[t].id
        j == u[t].left IN
    /\ At(t, "cancel")
    /\ IF j >= op[i].op_count THEN Goto(t, "posted") /\ UNCHANGED na
       ELSE /\ na' = [na EXCEPT ![i][j] =
                            IF @ = "posted" THEN "canceling" ELSE @]
            /\ u' = [u EXCEPT ![t].left = @ + 1]
    /\ UNCHANGED <<op, pending, queued, trig, refs, started>>

(* NA_Cancel of each operation; it has no effect on one that has ended. *)
CancelNa(t) ==
    LET i == u[t].id
        j == u[t].left IN
    /\ At(t, "cancel")
    /\ IF j > op[i].op_count THEN Goto(t, "posted") /\ UNCHANGED na
       ELSE /\ na' = [na EXCEPT ![i][j] =
                            IF @ = "posted" THEN "canceling" ELSE @]
            /\ u' = [u EXCEPT ![t].left = @ + 1]
    /\ UNCHANGED <<op, pending, queued, trig, refs, started>>

-----------------------------------------------------------------------------
(* hg_bulk_trigger_entry. *)

(* The entry is taken from the completion queue and the callback runs. *)
Trigger(i) ==
    /\ queued[i] > 0 /\ i \notin trig
    /\ "cancel" \in Races \/ \A t \in Users : u[t].pc \notin InCancel
    /\ queued' = [queued EXCEPT ![i] = @ - 1]
    /\ trig' = trig \cup {i}
    /\ u' = [u EXCEPT ![op[i].by].got = @ + 1]
    /\ UNCHANGED <<op, na, pending, refs, started>>

(* hg_bulk_op_destroy of a pooled identifier. *)
OpDestroy(i) ==
    /\ op' = [op EXCEPT ![i].status = {"COMPLETED"}, ![i].by = NoId,
                        ![i].ends = {},
                        ![i].extra = @ /\ op[i].op_count <= StaticMax]
    /\ pending' = pending \cup {i}

(* Mutant: the two bulk handles are freed twice. *)
Release_Twice(i) ==
    /\ i \in trig
    /\ trig' = trig \ {i}
    /\ refs' = refs - 2
    /\ OpDestroy(i)
    /\ UNCHANGED <<na, u, queued, started>>

(* The two bulk handles are freed and the identifier goes back. *)
Release(i) ==
    /\ i \in trig
    /\ trig' = trig \ {i}
    /\ refs' = refs - 1
    /\ OpDestroy(i)
    /\ UNCHANGED <<na, u, queued, started>>

-----------------------------------------------------------------------------
CallStep(t) ==
    \/ PoolGet(t) \/ PoolFails(t) \/ StartSelf(t) \/ StartNa(t) \/ Post(t) \/ PostDone(t)
    \/ CancelMark(t) \/ CancelNa(t)

Next ==
    \/ \E t \in Users : \/ Begin(t) \/ CallStep(t) \/ PostFails(t) \/ CancelTest(t)
    \/ \E i \in Ids : \/ Trigger(i) \/ Release(i)
                      \/ \E j \in 1..MaxOps :
                            Count(i, j) \/ \E r \in Results : NaEnds(i, j, r)

Spec == Init /\ [][Next]_vars

(* A thread inside a call runs on; a callback that started ends; trigger is *)
(* called; NA ends what was canceled. It need not end anything else.        *)
Fairness ==
    /\ \A t \in Users : WF_vars(CallStep(t))
    /\ \A i \in Ids :
        /\ WF_vars(Trigger(i)) /\ WF_vars(Release(i))
        /\ \A j \in 1..MaxOps :
            /\ WF_vars(Count(i, j))
            /\ WF_vars(na[i][j] = "canceling"
                       /\ \E r \in Results : NaEnds(i, j, r))

FairSpec == Spec /\ Fairness

-----------------------------------------------------------------------------
Busy(i) == \E j \in 1..MaxOps : na[i][j] \in Outstanding
Held(i) ==
    \E t \in Users : /\ u[t].id = i
                     /\ At(t, "start") \/ (At(t, "post") /\ u[t].left > 0)
Reported(i) == queued[i] > 0 \/ i \in trig

(* An identifier that the pool offers is used by nobody: no NA operation    *)
(* will call back on it, it is not queued, no thread is posting with it,    *)
(* and it holds no extra NA identifiers. hg_bulk_op_destroy, and the error  *)
(* of a post after others were posted.                                      *)
PooledIsUnused ==
    \A i \in pending :
        ~Busy(i) /\ ~Reported(i) /\ ~Held(i) /\ ~op[i].extra

(* A transfer is reported once, after the last of its NA operations, though *)
(* operations end while others are still being posted. hg_bulk_transfer_cb. *)
ReportedIsOver ==
    \A i \in Ids :
        /\ queued[i] + Cardinality({i} \cap trig) <= 1
        /\ Reported(i) => ~Busy(i) /\ ~Held(i)

(* The callback reports success exactly if all NA operations succeeded. *)
ResultIsTrue ==
    \A i \in Ids : Reported(i) =>
        /\ op[i].ret = "SUCCESS" <=> op[i].ends \subseteq {"SUCCESS"}
        /\ op[i].ret \in op[i].ends \cup {"SUCCESS"}

(* A transfer is canceled only on behalf of its own user, though the        *)
(* identifier may be in use for another transfer by the time the user has   *)
(* it. hg_bulk_cancel.                                                      *)
OnlyOwnCancel ==
    \A i \in Ids :
        ("CANCELED" \in op[i].ends /\ queued[i] > 0) => u[op[i].by].asked

(* What is reported is true: the result is that of the NA operations, and a *)
(* transfer is canceled only if its own user asked. hg_bulk_transfer_cb.    *)
ReportIsTrue == ResultIsTrue /\ OnlyOwnCancel

(* The bulk handles are referenced once for each transfer that has started  *)
(* and is not released, so they outlive its NA operations.                  *)
RefsBalance ==
    refs = Cardinality({i \in Ids \ pending :
                            ~\E t \in Users : At(t, "start") /\ u[t].id = i})

(* A transfer that the user waits for is posted, has callbacks to come, or  *)
(* is about to be reported.                                                 *)
NoLostTransfer ==
    \A t \in Users :
        (u[t].pc \in {"posted"} \cup InCancel /\ u[t].got = 0) =>
            /\ op[u[t].id].by = t
            /\ Busy(u[t].id) \/ Reported(u[t].id)

(* With a post that fails the identifier and the references of the transfer *)
(* are lost; this says they are not.                                        *)
NothingLeaks ==
    \A i \in Ids \ pending :
        Busy(i) \/ Reported(i) \/ Held(i)

(* A transfer that was canceled calls back, though NA may never end an      *)
(* operation that is not canceled.                                          *)
CanceledReturns ==
    \A t \in Users : u[t].canceled ~> (u[t].got > 0)

(* The same for every call of cancel. hg_bulk_cancel returns without effect *)
(* when an NA operation has failed, though others are still outstanding.    *)
AskedReturns ==
    \A t \in Users : u[t].asked ~> (u[t].got > 0)
=============================================================================
