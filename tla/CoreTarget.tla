----------------------------- MODULE CoreTarget -----------------------------
(***************************************************************************)
(* The target side of mercury_core.c: the handles that a listening context *)
(* posts for requests, from hg_core_context_post through the NA callbacks, *)
(* hg_core_trigger_entry, the user's RPC callback and hg_core_respond, to  *)
(* hg_core_destroy, which reposts the handle, and hg_core_context_unpost,  *)
(* which takes it back.                                                    *)
(*                                                                         *)
(* NA and the user are external: NA completes an operation once through    *)
(* its callback; the user responds at most once to a request that wants a  *)
(* response and destroys the handle it was given once.                     *)
(***************************************************************************)
EXTENDS Integers, Sequences, FiniteSets

CONSTANTS
    Handles,      \* handles that may be allocated
    PostInit,     \* those that hg_core_context_post posts at the start
    PostIncr,     \* request_post_incr: TRUE for 1, FALSE for 0
    Triggers,     \* threads that call HG_Core_trigger
    MaxRequests,  \* bound on the number of requests received
    MoreData,     \* TRUE: requests and responses may have extra data
    Races         \* the races and failures that are not excluded

(* "threads": several threads make progress, trigger and call the user;    *)
(* "unpost": the context may be unposted;                                  *)
(* "retry": the user responds again after hg_core_respond failed;          *)
(* "post": the receive of a request may fail to be posted.                 *)
ASSUME RacesAssumption ==
    Races \subseteq {"threads", "unpost", "retry", "post"}
ASSUME PostAssumption ==
    PostInit \subseteq Handles /\ PostInit # {} /\ PostIncr \in BOOLEAN
ASSUME NamesAssumption ==
    /\ Handles \cap Triggers = {}
    /\ {"no", "user"} \cap (Handles \cup Triggers) = {}

VARIABLES
    hd,       \* the fields of each handle
    op,       \* the NA operation IDs of each handle
    cb,       \* where the callback of each NA operation is
    more,     \* handles whose extra input is being acquired
    pending,  \* pending_list of the context
    posting,  \* who is posting each handle: "no" one, a "user" thread, a
              \* trigger thread, or the callback of another handle
    user,     \* what the user does with each handle
    queue,    \* completion queue of the context
    trig,     \* where each trigger thread is, with its handle
    unpost,   \* where hg_core_context_unpost is; finalizing unless "no"
    seen      \* number of requests received

vars == <<hd, op, cb, more, pending, posting, user, queue, trig, unpost, seen>>

Ops == {"recv", "send", "ack"}

finalizing == unpost # "no"

(* A handle from hg_core_create, with the status and ret_status that       *)
(* hg_core_context_post and hg_core_reset_post set.                        *)
Fresh ==
    [life |-> "live", status |-> {}, ref_count |-> 1, na_op_count |-> 1,
     na_op_completed_count |-> 0, ret_status |-> "SUCCESS",
     ret |-> "SUCCESS", op_type |-> "PROCESS", no_response |-> FALSE,
     repost |-> TRUE, req |-> 0]

NotHeld == [ref |-> FALSE, respond |-> "no", req |-> 0]

Init ==
    /\ hd = [x \in Handles |-> IF x \in PostInit THEN Fresh
                               ELSE [Fresh EXCEPT !.life = "none"]]
    /\ op = [x \in Handles |-> [o \in Ops |->
                IF x \in PostInit /\ o = "recv" THEN "posted" ELSE "idle"]]
    /\ cb = [x \in Handles |-> [o \in Ops |-> "none"]]
    /\ more = {}
    /\ pending = PostInit
    /\ posting = [x \in Handles |-> "no"]
    /\ user = [x \in Handles |-> NotHeld]
    /\ queue = <<>>
    /\ trig = [t \in Triggers |-> [at |-> "idle", on |-> {}]]
    /\ unpost = "no"
    /\ seen = 0

Outstanding(x, o) == op[x][o] # "idle" \/ cb[x][o] # "none"

(* hg_core_respond is running on x. *)
InRespond(x) == user[x].respond \in {"ack", "send", "send_ack"}

(* With one thread, a function of mercury_core.c runs to its end before    *)
(* the next one starts.                                                    *)
ThreadFree ==
    \/ "threads" \in Races
    \/ /\ \A x \in Handles : /\ posting[x] = "no"
                             /\ ~InRespond(x)
                             /\ \A o \in Ops : cb[x][o] \in {"none", "stop"}
       /\ \A t \in Triggers : trig[t].at = "idle"
       /\ unpost # "cancel"

(* The user's code runs in the RPC callback or elsewhere. *)
UserFree(x) ==
    \/ ThreadFree
    \/ /\ \E t \in Triggers : trig[t] = [at |-> "called", on |-> {x}]
       /\ \A y \in Handles : posting[y] = "no"

-----------------------------------------------------------------------------
(* hg_core_destroy and the posting of handles *)

(* Mutant: the handle is reposted whoever still uses it. *)
Dropped_AnyCount(x, g, who) ==
    LET again == g.repost /\ ~finalizing
    IN  /\ hd' = [hd EXCEPT ![x] = [g EXCEPT !.ref_count = @ - 1,
                     !.life = IF g.ref_count = 1 /\ ~again THEN "freed"
                              ELSE @]]
        /\ posting' = IF again THEN [posting EXCEPT ![x] = who] ELSE posting

(* hg_core_destroy on x with its fields g: the last reference frees the    *)
(* handle, or the calling thread starts to repost it.                      *)
Dropped(x, g, who) ==
    LET last == g.ref_count = 1
        again == last /\ g.repost /\ ~finalizing
    IN  /\ hd' = [hd EXCEPT ![x] =
                     [g EXCEPT !.ref_count = @ - 1,
                               !.life = IF last /\ ~again THEN "freed"
                                        ELSE @]]
        /\ posting' = IF again THEN [posting EXCEPT ![x] = who] ELSE posting

(* Mutant: the reference count is not set again. *)
ResetPost_KeepsCount(x) ==
    /\ posting[x] \in {"user"} \cup Triggers
    /\ x \notin pending
    /\ hd' = [hd EXCEPT ![x] = [Fresh EXCEPT !.ref_count = hd[x].ref_count]]
    /\ pending' = pending \cup {x}
    /\ UNCHANGED <<op, cb, more, posting, user, queue, trig, unpost, seen>>

(* hg_core_reset_post up to hg_core_post: the handle is reset, all counts  *)
(* included, and joins the pending list.                                   *)
ResetPost(x) ==
    /\ posting[x] \in {"user"} \cup Triggers
    /\ x \notin pending
    /\ hd' = [hd EXCEPT ![x] = Fresh]
    /\ pending' = pending \cup {x}
    /\ UNCHANGED <<op, cb, more, posting, user, queue, trig, unpost, seen>>

(* hg_core_post: the receive of the next request is posted. *)
PostRecv(x) ==
    /\ posting[x] # "no" /\ x \in pending
    /\ op' = [op EXCEPT ![x]["recv"] = "posted"]
    /\ posting' = [posting EXCEPT ![x] = "no"]
    /\ UNCHANGED <<hd, cb, more, pending, user, queue, trig, unpost, seen>>

(* Mutant: the handle stays in the pending list. *)
PostFails_StaysPending(x) ==
    /\ "post" \in Races
    /\ posting[x] = "user" /\ x \in pending
    /\ posting' = [posting EXCEPT ![x] = "no"]
    /\ UNCHANGED <<hd, op, cb, more, pending, user, queue, trig, unpost, seen>>

(* It cannot be posted: hg_core_trigger_entry destroys the handle again,   *)
(* HG_Core_destroy gives up.                                               *)
PostFails(x) ==
    /\ "post" \in Races
    /\ posting[x] \in {"user"} \cup Triggers /\ x \in pending
    /\ pending' = pending \ {x}
    /\ IF posting[x] \in Triggers
       THEN LET again == hd[x].repost /\ ~finalizing
            IN  /\ hd' = [hd EXCEPT ![x].ref_count = @ - 1,
                             ![x].life = IF again THEN @ ELSE "freed"]
                /\ posting' = [posting EXCEPT ![x] = IF again THEN @ ELSE "no"]
       ELSE /\ posting' = [posting EXCEPT ![x] = "no"]
            /\ UNCHANGED hd
    /\ UNCHANGED <<op, cb, more, user, queue, trig, unpost, seen>>

-----------------------------------------------------------------------------
(* NA callbacks *)

(* NA calls the callback of operation o of x, which goes to stage next. *)
Delivered(x, o, next) ==
    /\ op[x][o] # "idle" /\ ThreadFree
    /\ op' = [op EXCEPT ![x][o] = "idle"]
    /\ cb' = [cb EXCEPT ![x][o] = next]

(* What a callback notes of an unsuccessful result. *)
Noted(g, r) ==
    [g EXCEPT !.ret_status = IF @ = "SUCCESS" THEN r ELSE @,
              !.status = IF r = "ERROR" THEN @ \cup {"ERRORED"} ELSE @]

(* Mutant: the pending list is looked at before the handle is removed. *)
RecvInputCb_CheckFirst(x) ==
    /\ Delivered(x, "recv", IF pending = {} THEN "check" ELSE "input")
    /\ seen < MaxRequests
    /\ seen' = seen + 1
    /\ pending' = pending \ {x}
    /\ hd' = [hd EXCEPT ![x].req = seen']
    /\ UNCHANGED <<more, posting, user, queue, trig, unpost>>

(* hg_core_recv_input_cb with a request. *)
RecvInputCb(x) ==
    /\ Delivered(x, "recv", "check")
    /\ seen < MaxRequests
    /\ seen' = seen + 1
    /\ pending' = pending \ {x}
    /\ hd' = [hd EXCEPT ![x].req = seen']
    /\ UNCHANGED <<more, posting, user, queue, trig, unpost>>

(* Mutant: the handle is removed from the list only when a request came. *)
RecvInputFails_StaysPending(x) ==
    /\ Delivered(x, "recv", "finish")
    /\ seen < MaxRequests
    /\ seen' = seen + 1
    /\ hd' = [hd EXCEPT ![x] = Noted(@, "ERROR")]
    /\ UNCHANGED <<more, pending, posting, user, queue, trig, unpost>>

(* ... with an error of NA. *)
RecvInputFails(x) ==
    /\ Delivered(x, "recv", "finish")
    /\ seen < MaxRequests
    /\ seen' = seen + 1
    /\ pending' = pending \ {x}
    /\ hd' = [hd EXCEPT ![x] = Noted(@, "ERROR")]
    /\ UNCHANGED <<more, posting, user, queue, trig, unpost>>

(* ... canceled: the handle is not POSTED, it is completed and destroyed. *)
RecvInputCanceled(x) ==
    /\ op[x]["recv"] = "canceled"
    /\ Delivered(x, "recv", "none")
    /\ pending' = pending \ {x}
    /\ Dropped(x, [hd[x] EXCEPT !.status = @ \cup {"COMPLETED"}], "user")
    /\ UNCHANGED <<more, user, queue, trig, unpost, seen>>

(* hg_core_context_check_pending ... *)
CheckPending(x) ==
    /\ cb[x]["recv"] = "check"
    /\ cb' = [cb EXCEPT ![x]["recv"] =
                 IF PostIncr /\ pending = {} /\ ~finalizing
                 THEN "post" ELSE "input"]
    /\ UNCHANGED <<hd, op, more, pending, posting, user, queue, trig, unpost,
                   seen>>

(* ... and hg_core_context_post: a new handle joins the pending list ... *)
ContextPost(x) ==
    \E y \in Handles :
        /\ cb[x]["recv"] = "post" /\ hd[y].life = "none"
        /\ hd' = [hd EXCEPT ![y] = Fresh]
        /\ pending' = pending \cup {y}
        /\ posting' = [posting EXCEPT ![y] = x]
        /\ cb' = [cb EXCEPT ![x]["recv"] = "input"]
        /\ UNCHANGED <<op, more, user, queue, trig, unpost, seen>>

(* ... which may fail, and unposts the context in the callback. *)
ContextPostFails(x, y) ==
    /\ "post" \in Races
    /\ posting[y] = x
    /\ pending' = pending \ {y}
    /\ posting' = [posting EXCEPT ![y] = "no"]
    /\ cb' = [cb EXCEPT ![x]["recv"] = "stop"]
    /\ unpost' = "cancel"
    /\ UNCHANGED <<hd, op, more, user, queue, trig, seen>>

(* The callback goes on when hg_core_context_unpost has waited. *)
ContextPostStops(x) ==
    /\ cb[x]["recv"] = "stop" /\ unpost = "wait"
    /\ hd' = [hd EXCEPT ![x] = Noted(@, "ERROR")]
    /\ cb' = [cb EXCEPT ![x]["recv"] = "finish"]
    /\ UNCHANGED <<op, more, pending, posting, user, queue, trig, unpost, seen>>

(* hg_core_process_input: a request that wants a response or not ... *)
ProcessInput(x) ==
    \E oneway \in BOOLEAN :
        /\ cb[x]["recv"] = "input" /\ \A y \in Handles : posting[y] # x
        /\ hd' = [hd EXCEPT ![x].no_response = oneway]
        /\ cb' = [cb EXCEPT ![x]["recv"] = "finish"]
        /\ UNCHANGED <<op, more, pending, posting, user, queue, trig, unpost,
                       seen>>

(* ... or one with extra data, whose completion is deferred ... *)
ProcessInputMore(x) ==
    \E oneway \in BOOLEAN :
        /\ MoreData
        /\ cb[x]["recv"] = "input" /\ \A y \in Handles : posting[y] # x
        /\ hd' = [hd EXCEPT ![x].no_response = oneway]
        /\ more' = more \cup {x}
        /\ cb' = [cb EXCEPT ![x]["recv"] = "defer"]
        /\ UNCHANGED <<op, pending, posting, user, queue, trig, unpost, seen>>

(* ... or one that cannot be decoded. *)
ProcessInputFails(x) ==
    /\ cb[x]["recv"] = "input" /\ \A y \in Handles : posting[y] # x
    /\ hd' = [hd EXCEPT ![x] = Noted(@, "ERROR")]
    /\ cb' = [cb EXCEPT ![x]["recv"] = "finish"]
    /\ UNCHANGED <<op, more, pending, posting, user, queue, trig, unpost, seen>>

(* hg_core_send_output_cb and hg_core_ack_cb.  The ack of the origin comes *)
(* after the response was handed to NA.                                    *)
RespondCb(x, o, r) ==
    /\ o \in {"send", "ack"}
    /\ r = "CANCELED" => op[x][o] = "canceled"
    /\ o = "ack" /\ r = "SUCCESS" => user[x].respond = "sent"
    /\ Delivered(x, o, "finish")
    /\ hd' = [hd EXCEPT ![x] = IF r = "SUCCESS" THEN @ ELSE Noted(@, r)]
    /\ UNCHANGED <<more, pending, posting, user, queue, trig, unpost, seen>>

(* hg_core_complete on x with its fields g *)
Complete(x, g, ret) ==
    /\ hd' = [hd EXCEPT ![x] =
                 [g EXCEPT !.status = @ \cup {"COMPLETED", "QUEUED"},
                           !.ret = ret]]
    /\ queue' = Append(queue, x)

(* hg_core_complete_na *)
CompleteNa(x, o) ==
    LET g == [hd[x] EXCEPT !.na_op_completed_count = @ + 1]
    IN  /\ cb[x][o] \in {"finish", "defer"}
        /\ IF g.na_op_completed_count = g.na_op_count /\ cb[x][o] = "finish"
           THEN Complete(x, g, g.ret_status)
           ELSE hd' = [hd EXCEPT ![x] = g] /\ UNCHANGED queue
        /\ cb' = [cb EXCEPT ![x][o] = "none"]
        /\ UNCHANGED <<op, more, pending, posting, user, trig, unpost, seen>>

(* hg_core_more_data_complete, at the end of the transfer (external). *)
MoreDataComplete(x, r) ==
    LET g == IF r = "SUCCESS" THEN hd[x] ELSE Noted(hd[x], r)
    IN  /\ x \in more /\ ThreadFree
        /\ more' = more \ {x}
        /\ Complete(x, g, g.ret_status)
        /\ UNCHANGED <<op, cb, pending, posting, user, trig, unpost, seen>>

-----------------------------------------------------------------------------
(* hg_core_trigger_entry *)

(* Mutant: no reference for the response. *)
TriggerPop_NoRef(t) ==
    LET x == Head(queue)
        process == hd[x].op_type = "PROCESS" /\ hd[x].ret = "SUCCESS"
    IN  /\ queue # <<>> /\ ThreadFree
        /\ trig[t].at = "idle" /\ \A y \in Handles : posting[y] # t
        /\ queue' = Tail(queue)
        /\ hd' = [hd EXCEPT ![x].status = @ \ {"QUEUED"}]
        /\ user' = IF hd[x].op_type = "RESPOND"
                   THEN [user EXCEPT ![x].respond = "done"] ELSE user
        /\ trig' = [trig EXCEPT ![t] =
                       [at |-> IF process THEN "process" ELSE "destroy",
                        on |-> {x}]]
        /\ UNCHANGED <<op, cb, more, pending, posting, unpost, seen>>

(* Takes an entry.  A request that was received is processed, with another *)
(* reference for its response; the callback of a response is called; all   *)
(* others go straight to hg_core_destroy.                                  *)
TriggerPop(t) ==
    LET x == Head(queue)
        process == hd[x].op_type = "PROCESS" /\ hd[x].ret = "SUCCESS"
    IN  /\ queue # <<>> /\ ThreadFree
        /\ trig[t].at = "idle" /\ \A y \in Handles : posting[y] # t
        /\ queue' = Tail(queue)
        /\ hd' = [hd EXCEPT ![x].status = @ \ {"QUEUED"},
                            ![x].ref_count = IF process THEN @ + 1 ELSE @]
        /\ user' = IF hd[x].op_type = "RESPOND"
                   THEN [user EXCEPT ![x].respond = "done"] ELSE user
        /\ trig' = [trig EXCEPT ![t] =
                       [at |-> IF process THEN "process" ELSE "destroy",
                        on |-> {x}]]
        /\ UNCHANGED <<op, cb, more, pending, posting, unpost, seen>>

(* hg_core_process: the RPC callback is called with a reference for the    *)
(* user ...                                                                *)
Process(t, x) ==
    /\ trig[t] = [at |-> "process", on |-> {x}]
    /\ hd' = [hd EXCEPT ![x].ref_count = @ + 1]
    /\ user' = [user EXCEPT ![x] =
                   [ref |-> TRUE, req |-> hd[x].req,
                    respond |-> IF hd[x].no_response THEN "no" ELSE "owed"]]
    /\ trig' = [trig EXCEPT ![t].at = "called"]
    /\ UNCHANGED <<op, cb, more, pending, posting, queue, unpost, seen>>

(* ... or the RPC is not registered. *)
ProcessNoEntry(t, x) ==
    /\ trig[t] = [at |-> "process", on |-> {x}]
    /\ trig' = [trig EXCEPT ![t].at = "error"]
    /\ UNCHANGED <<hd, op, cb, more, pending, posting, user, queue, unpost,
                   seen>>

(* The callback returns. *)
ProcessReturns(t, x) ==
    /\ trig[t] = [at |-> "called", on |-> {x}]
    /\ "threads" \in Races \/ ~InRespond(x)
    /\ "threads" \in Races \/ \A y \in Handles : posting[y] = "no"
    /\ trig' = [trig EXCEPT ![t].at = "returned"]
    /\ UNCHANGED <<hd, op, cb, more, pending, posting, user, queue, unpost,
                   seen>>

(* The callback fails before it responds; its wrapper in mercury.c has     *)
(* destroyed the user's reference.                                         *)
ProcessFails(t, x) ==
    /\ trig[t] = [at |-> "called", on |-> {x}]
    /\ user[x].ref /\ user[x].respond \in {"owed", "no"}
    /\ hd' = [hd EXCEPT ![x].ref_count = @ - 1]
    /\ user' = [user EXCEPT ![x] = NotHeld]
    /\ trig' = [trig EXCEPT ![t].at = "error"]
    /\ UNCHANGED <<op, cb, more, pending, posting, queue, unpost, seen>>

(* Mutant: the callback of a one-way request is not followed by a          *)
(* completion.                                                             *)
NoRespond_Dropped(t, x) ==
    /\ trig[t].at \in {"returned", "error"} /\ trig[t].on = {x}
    /\ hd[x].no_response
    /\ trig' = [trig EXCEPT ![t].at = "destroy"]
    /\ UNCHANGED <<hd, queue, op, cb, more, pending, posting, user, unpost, seen>>

(* hg_core_no_respond_na, when no response is wanted. *)
NoRespond(t, x) ==
    /\ trig[t].at \in {"returned", "error"} /\ trig[t].on = {x}
    /\ hd[x].no_response
    /\ Complete(x, [hd[x] EXCEPT !.op_type = "NO_RESPOND"], "SUCCESS")
    /\ trig' = [trig EXCEPT ![t].at = "destroy"]
    /\ UNCHANGED <<op, cb, more, pending, posting, user, unpost, seen>>

TriggerGoesOn(t, x) ==
    /\ trig[t] = [at |-> "returned", on |-> {x}]
    /\ ~hd[x].no_response
    /\ trig' = [trig EXCEPT ![t].at = "destroy"]
    /\ UNCHANGED <<hd, op, cb, more, pending, posting, user, queue, unpost,
                   seen>>

(* `done': repost or destroy. *)
TriggerDestroy(t, x) ==
    /\ trig[t] = [at |-> "destroy", on |-> {x}]
    /\ Dropped(x, hd[x], t)
    /\ trig' = [trig EXCEPT ![t] = [at |-> "idle", on |-> {}]]
    /\ UNCHANGED <<op, cb, more, pending, user, queue, unpost, seen>>

-----------------------------------------------------------------------------
(* hg_core_respond *)

(* The handle is reset; respond_na counts the send and the type is set. *)
Responding(g) ==
    [g EXCEPT !.ret = "SUCCESS", !.status = {}, !.ret_status = "SUCCESS",
              !.na_op_count = @ + 1, !.op_type = "RESPOND"]

(* The error path of hg_core_respond drops the reference of the response. *)
NotResponding(g) ==
    [g EXCEPT !.status = {"COMPLETED"}, !.ref_count = @ - 1]

(* The user responds, to a request that wants a response. *)
Respond(x) ==
    /\ user[x].ref /\ UserFree(x)
    /\ \/ user[x].respond = "owed"
       \/ user[x].respond = "failed" /\ "retry" \in Races
    /\ hd' = [hd EXCEPT ![x] = Responding(@)]
    /\ user' = [user EXCEPT ![x].respond = "ack"]
    /\ UNCHANGED <<op, cb, more, pending, posting, queue, trig, unpost, seen>>

(* hg_core_trigger_entry responds in case of error. *)
RespondError(t, x) ==
    /\ trig[t] = [at |-> "error", on |-> {x}]
    /\ ~hd[x].no_response
    /\ hd' = [hd EXCEPT ![x] = Responding(@)]
    /\ user' = [user EXCEPT ![x] =
                   [ref |-> FALSE, respond |-> "ack", req |-> hd[x].req]]
    /\ trig' = [trig EXCEPT ![t].at = "respond"]
    /\ UNCHANGED <<op, cb, more, pending, posting, queue, unpost, seen>>

RespondErrorDone(t, x) ==
    /\ trig[t] = [at |-> "respond", on |-> {x}]
    /\ ~InRespond(x)
    /\ trig' = [trig EXCEPT ![t].at = "destroy"]
    /\ UNCHANGED <<hd, op, cb, more, pending, posting, user, queue, unpost,
                   seen>>

(* The response is too large, or is not encoded: nothing was counted. *)
RespondRefused(x) ==
    /\ user[x].ref /\ UserFree(x)
    /\ user[x].respond = "owed"
    /\ hd' = [hd EXCEPT ![x] =
                 NotResponding([hd[x] EXCEPT !.ret = "SUCCESS",
                                             !.ret_status = "SUCCESS"])]
    /\ user' = [user EXCEPT ![x].respond = "failed"]
    /\ UNCHANGED <<op, cb, more, pending, posting, queue, trig, unpost, seen>>

(* No extra data: no ack is expected. *)
RespondNoAck(x) ==
    /\ user[x].respond = "ack"
    /\ hd' = [hd EXCEPT ![x].status = @ \cup {"POSTED"}]
    /\ user' = [user EXCEPT ![x].respond = "send"]
    /\ UNCHANGED <<op, cb, more, pending, posting, queue, trig, unpost, seen>>

(* The receive of the ack is counted and posted ... *)
RespondAck(x) ==
    /\ MoreData /\ user[x].respond = "ack" /\ user[x].ref
    /\ op' = [op EXCEPT ![x]["ack"] = "posted"]
    /\ hd' = [hd EXCEPT ![x].na_op_count = @ + 1,
                        ![x].status = @ \cup {"POSTED"}]
    /\ user' = [user EXCEPT ![x].respond = "send_ack"]
    /\ UNCHANGED <<cb, more, pending, posting, queue, trig, unpost, seen>>

(* ... or cannot be posted. *)
RespondAckFails(x) ==
    /\ MoreData /\ user[x].respond = "ack" /\ user[x].ref
    /\ hd' = [hd EXCEPT ![x] =
                 NotResponding([hd[x] EXCEPT !.na_op_count = @ + 1])]
    /\ user' = [user EXCEPT ![x].respond = "failed"]
    /\ UNCHANGED <<op, cb, more, pending, posting, queue, trig, unpost, seen>>

RespondSend(x) ==
    /\ user[x].respond \in {"send", "send_ack"}
    /\ op' = [op EXCEPT ![x]["send"] = "posted"]
    /\ user' = [user EXCEPT ![x].respond = "sent"]
    /\ UNCHANGED <<hd, cb, more, pending, posting, queue, trig, unpost, seen>>

(* The send is not posted.  Without an ack the response fails ... *)
RespondSendFails(x) ==
    /\ user[x].respond = "send"
    /\ hd' = [hd EXCEPT ![x] = NotResponding(@)]
    /\ user' = [user EXCEPT ![x].respond = "failed"]
    /\ UNCHANGED <<op, cb, more, pending, posting, queue, trig, unpost, seen>>

(* Mutant: the send that failed stays counted. *)
RespondSendCanceled_Counted(x) ==
    /\ user[x].respond = "send_ack"
    /\ hd' = [hd EXCEPT ![x].ret_status = "ERROR",
                  ![x].status = (@ \ {"POSTED"}) \cup {"ERRORED", "CANCELED"}]
    /\ op' = [op EXCEPT ![x]["ack"] = IF @ = "posted" THEN "canceled" ELSE @]
    /\ user' = [user EXCEPT ![x].respond = "sent"]
    /\ UNCHANGED <<cb, more, pending, posting, queue, trig, unpost, seen>>

(* ... and with one, the ack is canceled and completes the response. *)
RespondSendCanceled(x) ==
    /\ user[x].respond = "send_ack"
    /\ hd' = [hd EXCEPT ![x].na_op_count = @ - 1, ![x].ret_status = "ERROR",
                  ![x].status = (@ \ {"POSTED"}) \cup {"ERRORED", "CANCELED"}]
    /\ op' = [op EXCEPT ![x]["ack"] = IF @ = "posted" THEN "canceled" ELSE @]
    /\ user' = [user EXCEPT ![x].respond = "sent"]
    /\ UNCHANGED <<cb, more, pending, posting, queue, trig, unpost, seen>>
-----------------------------------------------------------------------------
(* The user's other calls, and hg_core_context_unpost *)

(* HG_Core_destroy, once the user has responded or need not. *)
Destroy(x) ==
    /\ user[x].ref /\ user[x].respond \in {"no", "sent", "done", "failed"}
    /\ UserFree(x)
    /\ Dropped(x, hd[x], "user")
    /\ user' = [user EXCEPT ![x].ref = FALSE]
    /\ UNCHANGED <<op, cb, more, pending, queue, trig, unpost, seen>>

(* NA_Cancel: an operation that is posted will be called back canceled,    *)
(* unless it completes first.                                              *)
NA_Cancel(ops) ==
    [o \in Ops |-> IF ops[o] = "posted" THEN "canceled" ELSE ops[o]]

Cancelable(g) == g.status \cap {"COMPLETED", "ERRORED", "CANCELED"} = {}

(* HG_Core_cancel on a response. *)
Cancel(x) ==
    /\ user[x].ref /\ user[x].respond = "sent" /\ UserFree(x)
    /\ Cancelable(hd[x])
    /\ hd' = [hd EXCEPT ![x].status = @ \cup {"CANCELED"}]
    /\ op' = [op EXCEPT ![x] = NA_Cancel(@)]
    /\ UNCHANGED <<cb, more, pending, posting, user, queue, trig, unpost, seen>>

(* hg_core_context_unpost sets finalizing ... *)
Unpost ==
    /\ "unpost" \in Races /\ ThreadFree
    /\ unpost = "no"
    /\ unpost' = "cancel"
    /\ UNCHANGED <<hd, op, cb, more, pending, posting, user, queue, trig, seen>>

(* Mutant: the first handle of the list is canceled and the loop ends. *)
UnpostCancel_One ==
    /\ unpost = "cancel"
    /\ \E x \in Handles :
        /\ pending # {} => x \in pending
        /\ hd' = IF pending = {} THEN hd
                 ELSE [hd EXCEPT ![x].repost = FALSE,
                                 ![x].status = @ \cup {"CANCELED"}]
        /\ op' = IF pending = {} THEN op ELSE [op EXCEPT ![x] = NA_Cancel(@)]
    /\ unpost' = "wait"
    /\ UNCHANGED <<cb, more, pending, posting, user, queue, trig, seen>>

(* ... cancels the pending handles under the lock of the list, and waits.  *)
UnpostCancel ==
    /\ unpost = "cancel"
    /\ hd' = [x \in Handles |->
                 IF x \notin pending THEN hd[x]
                 ELSE [hd[x] EXCEPT !.repost = FALSE,
                          !.status = IF Cancelable(hd[x])
                                     THEN @ \cup {"CANCELED"} ELSE @]]
    /\ op' = [x \in Handles |->
                 IF x \in pending /\ Cancelable(hd[x])
                 THEN NA_Cancel(op[x]) ELSE op[x]]
    /\ unpost' = "wait"
    /\ UNCHANGED <<cb, more, pending, posting, user, queue, trig, seen>>

-----------------------------------------------------------------------------
Queued(x) == \E i \in 1 .. Len(queue) : queue[i] = x

Triggered(x) == \E t \in Triggers : x \in trig[t].on

(* Something of an exchange still needs the handle. *)
InUse(x) ==
    \/ user[x].ref \/ InRespond(x)
    \/ \E o \in {"send", "ack"} : Outstanding(x, o)
    \/ x \in more \/ Queued(x) \/ Triggered(x)

(* Every request was received, no handle is in use, and the context either *)
(* listens or was unposted.                                                *)
Finished ==
    /\ seen = MaxRequests \/ unpost = "wait"
    /\ \A x \in Handles : ~InUse(x) /\ posting[x] = "no" /\ cb[x]["recv"] = "none"
    /\ UNCHANGED vars

Post(x) == ResetPost(x) \/ PostRecv(x) \/ PostFails(x)

Receive(x) == RecvInputCb(x) \/ RecvInputFails(x) \/ RecvInputCanceled(x)

Callback(x) ==
    \/ CheckPending(x) \/ ContextPost(x) \/ ContextPostStops(x)
    \/ \E y \in Handles : ContextPostFails(x, y)
    \/ ProcessInput(x) \/ ProcessInputMore(x) \/ ProcessInputFails(x)
    \/ \E o \in Ops : CompleteNa(x, o)

Responded(x) ==
    \/ \E o \in {"send", "ack"}, r \in {"SUCCESS", "ERROR", "CANCELED"} :
          RespondCb(x, o, r)
    \/ \E r \in {"SUCCESS", "ERROR", "CANCELED"} : MoreDataComplete(x, r)

TriggerStep(t, x) ==
    \/ Process(t, x) \/ ProcessNoEntry(t, x) \/ ProcessReturns(t, x)
    \/ ProcessFails(t, x) \/ NoRespond(t, x) \/ TriggerGoesOn(t, x)
    \/ RespondError(t, x) \/ RespondErrorDone(t, x) \/ TriggerDestroy(t, x)

Trigger(t) == TriggerPop(t) \/ \E x \in Handles : TriggerStep(t, x)

RespondStep(x) ==
    \/ RespondNoAck(x) \/ RespondAck(x) \/ RespondAckFails(x)
    \/ RespondSend(x) \/ RespondSendFails(x) \/ RespondSendCanceled(x)

UserStep(x) == Respond(x) \/ RespondRefused(x) \/ Destroy(x)

Next ==
    \/ \E x \in Handles : \/ Post(x) \/ Receive(x) \/ Callback(x)
                          \/ Responded(x) \/ RespondStep(x)
                          \/ UserStep(x) \/ Cancel(x)
    \/ \E t \in Triggers : Trigger(t)
    \/ Unpost \/ UnpostCancel \/ Finished

Spec == Init /\ [][Next]_vars

(* The waiting loop makes progress and triggers, NA completes what was     *)
(* canceled or sent, and the user answers and destroys what it was given.  *)
FairSpec ==
    /\ Spec
    /\ WF_vars(UnpostCancel)
    /\ \A x \in Handles : /\ WF_vars(Post(x)) /\ WF_vars(RecvInputCanceled(x))
                          /\ WF_vars(Callback(x)) /\ WF_vars(Responded(x))
                          /\ WF_vars(RespondStep(x)) /\ WF_vars(UserStep(x))
    /\ \A t \in Triggers : WF_vars(Trigger(t))

-----------------------------------------------------------------------------
(* Properties *)

Results == {"SUCCESS", "ERROR", "CANCELED"}

HandleType ==
    [life : {"none", "live", "freed"},
     status : SUBSET {"POSTED", "COMPLETED", "QUEUED", "ERRORED", "CANCELED"},
     ref_count : Nat, na_op_count : Nat, na_op_completed_count : Nat,
     ret_status : Results, ret : Results,
     op_type : {"PROCESS", "RESPOND", "NO_RESPOND"},
     no_response : BOOLEAN, repost : BOOLEAN, req : Nat]

OpsType == [Ops -> {"idle", "posted", "canceled"}]
CallbacksType ==
    [Ops -> {"none", "check", "post", "input", "finish", "defer", "stop"}]
UserType ==
    [ref : BOOLEAN, req : Nat,
     respond : {"no", "owed", "ack", "send", "send_ack", "sent", "done",
                "failed"}]
TriggerType ==
    [at : {"idle", "process", "called", "returned", "error", "respond",
           "destroy"},
     on : SUBSET Handles]

(* The variables have the types of the fields of the code; no reference    *)
(* count goes below zero.                                                  *)
TypeOK ==
    /\ hd \in [Handles -> HandleType]
    /\ op \in [Handles -> OpsType]
    /\ cb \in [Handles -> CallbacksType]
    /\ more \subseteq Handles /\ pending \subseteq Handles
    /\ posting \in [Handles -> {"no", "user"} \cup Handles \cup Triggers]
    /\ user \in [Handles -> UserType]
    /\ queue \in Seq(Handles)
    /\ trig \in [Triggers -> TriggerType]
    /\ unpost \in {"no", "cancel", "wait"} /\ seen \in Nat

(* A handle that waits for a request, is being posted, or was freed, is    *)
(* not used by anything else: hg_core_destroy reposts or frees it only     *)
(* after the response was sent and the user and the trigger are done.      *)
RepostUnused ==
    \A x \in Handles :
        x \in pending \/ posting[x] # "no" \/ hd[x].life # "live" => ~InUse(x)

(* What the user does with a handle is about the request it was called     *)
(* with: the tag and cookie of the handle are not replaced before the      *)
(* response is complete.                                                   *)
ReplyToOwn ==
    \A x \in Handles :
        user[x].ref \/ InRespond(x) \/ user[x].respond = "sent"
            => user[x].req = hd[x].req

(* A fresh handle that hg_core_context_unpost has canceled. *)
Withdrawn == [Fresh EXCEPT !.repost = FALSE, !.status = {"CANCELED"}]

(* A handle that could not be posted and that nobody destroys again.       *)
GivenUp(x) ==
    "post" \in Races /\ hd[x] \in {Fresh, Withdrawn} /\ x \notin pending

(* Every handle that is not freed has someone who will take it further: a  *)
(* response that hg_core_respond accepted always completes, and no handle  *)
(* is left out of every list but for a receive that could not be posted.   *)
NoLostHandle ==
    \A x \in Handles : hd[x].life = "live" =>
        \/ posting[x] # "no" \/ Outstanding(x, "recv")
        \/ Outstanding(x, "send") \/ Outstanding(x, "ack")
        \/ x \in more \/ Queued(x) \/ Triggered(x)
        \/ user[x].ref /\ user[x].respond # "sent"
        \/ InRespond(x) \/ GivenUp(x)

(* pending_list holds the handles whose receive is posted, and no other,   *)
(* apart from those that hg_core_post has not posted yet.                  *)
PendingIsPosted ==
    \A x \in Handles :
        /\ op[x]["recv"] # "idle" => x \in pending
        /\ x \in pending => op[x]["recv"] # "idle" \/ posting[x] # "no"

(* The lists and the counts agree with the handles: the variables have     *)
(* their types, the pending list is exact (hg_core_post, the receive       *)
(* callbacks), and no handle drops out of the life of a posted handle.     *)
HandlesKept == TypeOK /\ PendingIsPosted /\ NoLostHandle

(* With request_post_incr a context that is not unposted always listens:   *)
(* the pending list is empty only while a callback is about to check it,   *)
(* while a handle is being posted, or while a receive that failed returns. *)
Listening ==
    PostIncr /\ ~finalizing =>
        \/ pending # {}
        \/ \E x \in Handles : \/ cb[x]["recv"] \in {"check", "post"}
                              \/ posting[x] # "no"
                              \/ hd[x].life = "live" /\ hd[x].req = 0

(* hg_core_context_unpost has prevented the repost of handles: when it     *)
(* waits, no receive is posted that it has not canceled.                   *)
Unposted ==
    unpost = "wait" =>
        \A x \in Handles : op[x]["recv"] # "posted"

(* The wait of hg_core_context_unpost ends: every handle is freed and the  *)
(* list of created handles is empty, unless a receive could not be posted. *)
Drained ==
    unpost = "wait" ~> \A x \in Handles : hd[x].life # "live" \/ GivenUp(x)
=============================================================================
