----------------------------- MODULE CoreForward -----------------------------
(***************************************************************************)
(* An origin handle of mercury_core.c that is forwarded through NA: create, *)
(* forward, the NA callbacks that count its operations, cancel, the entry  *)
(* in the completion queue, trigger, reset and destroy.                    *)
(*                                                                         *)
(* Threads of the user call forward, cancel, reset and destroy; progress   *)
(* threads run the NA callbacks; trigger threads run the user's callback.  *)
(* Atomic accesses of one function are merged into one action only where   *)
(* no other thread can read or write the same fields in between.           *)
(*                                                                         *)
(* NA (external) is modelled by what mercury_core.c relies on: a posted    *)
(* operation completes once, through its callback, with success, an error, *)
(* or NA_CANCELED once it was canceled; the receive of a response          *)
(* completes only after the request was handed to NA or when it was        *)
(* canceled.                                                               *)
(***************************************************************************)
EXTENDS Integers, Sequences, FiniteSets

CONSTANTS
    Triggers,    \* threads that call HG_Core_trigger
    MaxForward,  \* bound on the number of forwards
    MaxRef,      \* bound on the references the user holds
    MoreData,    \* TRUE: responses may have HG_CORE_MORE_DATA set
    Races        \* the races that users and plugins do not exclude

(* "reorder": a response is delivered before the send of the request       *)
(*    completes;                                                           *)
(* "threads": several threads make progress and trigger at the same time;  *)
(* "retry": the user calls forward before the previous callback has run;   *)
(* "overlap": a callback forwards again while another thread is still in   *)
(*    cancel for the previous operation;                                   *)
(* "toggle": a handle that was forwarded with HG_CORE_NO_RESPONSE is       *)
(*    forwarded without it, with no reset in between.                      *)
RaceNames == {"reorder", "threads", "retry", "overlap", "toggle"}

ASSUME RacesAssumption == Races \subseteq RaceNames /\ MoreData \in BOOLEAN
ASSUME BoundsAssumption == MaxForward \in Nat /\ MaxRef \in Nat \ {0}
ASSUME TriggersAssumption == IsFiniteSet(Triggers)

VARIABLES
    h,       \* the fields of the handle that the protocol is about
    op,      \* the three NA operation IDs: idle, posted or canceled
    sent,    \* NA: the request of the current forward was handed over
    cb,      \* where the callback of each NA operation is
    more,    \* the acquisition of extra response data is in progress
    u,       \* the user: where in forward and in cancel, references held
    queue,   \* completion entries of the handle, by forward
    trig,    \* where each trigger thread is, with the forward of its entry
    hist     \* history of forwards and callbacks

vars == <<h, op, sent, cb, more, u, queue, trig, hist>>

Ops == {"send", "recv", "ack"}
Rets == {"SUCCESS", "CANCELED", "ERROR", "REMOTE"}
Flags == {"COMPLETED", "CANCELED", "POSTED", "ERRORED", "QUEUED"}

(* hg_core_create: completed, one reference, one operation expected. *)
Init ==
    /\ h = [status |-> {"COMPLETED"}, ref_count |-> 1, na_op_count |-> 1,
            na_op_completed_count |-> 0, ret_status |-> "SUCCESS",
            ret |-> "SUCCESS", no_response |-> FALSE]
    /\ op = [o \in Ops |-> "idle"]
    /\ sent = FALSE
    /\ cb = [o \in Ops |-> "none"]
    /\ more = FALSE
    /\ u = [forward |-> "idle", cancel |-> "idle", refs |-> 1]
    /\ queue = <<>>
    /\ trig = [t \in Triggers |-> [at |-> "idle", of |-> 0]]
    /\ hist = [gen |-> 0, oneway |-> FALSE, answered |-> FALSE, calls |-> <<>>]

(* hg_atomic_cas32(&ret_status, HG_SUCCESS, r) *)
KeepFirst(r) == IF h.ret_status = "SUCCESS" THEN r ELSE h.ret_status

(* NA_Cancel: only an operation in progress can be canceled. *)
NA_Cancel(o) ==
    op' = IF op[o] = "posted" THEN [op EXCEPT ![o] = "canceled"] ELSE op

-----------------------------------------------------------------------------
(* hg_core_forward and hg_core_forward_na *)

(* The user may call forward or reset: it holds a reference, no thread of  *)
(* its own is inside, and unless the races say so it has seen the previous *)
(* callback and has returned from cancel.                                  *)
MayReuse ==
    /\ u.refs > 0
    /\ u.forward = "idle"
    /\ "overlap" \in Races \/ u.cancel = "idle"
    /\ "retry" \in Races \/ \A t \in Triggers : trig[t].at # "popped"

(* The test for HG_BUSY at the head of forward and reset. *)
NotInUse == "COMPLETED" \in h.status /\ "QUEUED" \notin h.status

(* Whether the user passes HG_CORE_NO_RESPONSE. *)
MayAsk(nr) == "toggle" \in Races \/ (h.no_response => nr)

(* Resets of hg_core_forward. *)
Restarted(nr, refs, status) ==
    [h EXCEPT !.status = status, !.ref_count = refs, !.na_op_count = 1,
              !.na_op_completed_count = 0, !.ret_status = "SUCCESS",
              !.ret = "SUCCESS", !.no_response = IF nr THEN TRUE ELSE @]

(* Mutant: forward does not take the reference of the operation. *)
ForwardStart_NoRef(nr) ==
    /\ MayReuse /\ NotInUse /\ MayAsk(nr) /\ hist.gen < MaxForward
    /\ h' = Restarted(nr, h.ref_count, {})
    /\ sent' = FALSE
    /\ u' = [u EXCEPT !.forward = "recv"]
    /\ hist' = [hist EXCEPT !.gen = @ + 1, !.oneway = nr, !.answered = FALSE]
    /\ UNCHANGED <<op, cb, more, queue, trig>>

(* Mutant: forward does not test whether the handle is still queued. *)
ForwardStart_Queued(nr) ==
    /\ MayReuse /\ "COMPLETED" \in h.status /\ MayAsk(nr)
    /\ hist.gen < MaxForward
    /\ h' = Restarted(nr, h.ref_count + 1, {})
    /\ sent' = FALSE
    /\ u' = [u EXCEPT !.forward = "recv"]
    /\ hist' = [hist EXCEPT !.gen = @ + 1, !.oneway = nr, !.answered = FALSE]
    /\ UNCHANGED <<op, cb, more, queue, trig>>

(* Resets the handle, takes a reference for the operation, parses flags. *)
ForwardStart(nr) ==
    /\ MayReuse /\ NotInUse /\ MayAsk(nr) /\ hist.gen < MaxForward
    /\ h' = Restarted(nr, h.ref_count + 1, {})
    /\ sent' = FALSE
    /\ u' = [u EXCEPT !.forward = "recv"]
    /\ hist' = [hist EXCEPT !.gen = @ + 1, !.oneway = nr, !.answered = FALSE]
    /\ UNCHANGED <<op, cb, more, queue, trig>>

(* The payload does not fit or the header cannot be encoded: the reference *)
(* is rolled back and the handle is not in use.                            *)
ForwardRefused(nr) ==
    /\ MayReuse /\ NotInUse /\ MayAsk(nr)
    /\ h' = Restarted(nr, h.ref_count, {"COMPLETED"})
    /\ UNCHANGED <<op, sent, cb, more, u, queue, trig, hist>>

(* `error' of hg_core_forward: not in use, the reference is rolled back. *)
ForwardError ==
    /\ h' = [h EXCEPT !.status = {"COMPLETED"}, !.ref_count = @ - 1]
    /\ u' = [u EXCEPT !.forward = "idle"]

(* There will be no response to receive. *)
ForwardNoRecv ==
    /\ u.forward = "recv" /\ h.no_response
    /\ u' = [u EXCEPT !.forward = "mark"]
    /\ UNCHANGED <<h, op, sent, cb, more, queue, trig, hist>>

(* Pre-posts the receive of the response. *)
ForwardRecv ==
    /\ u.forward = "recv" /\ ~h.no_response
    /\ op' = [op EXCEPT !["recv"] = "posted"]
    /\ u' = [u EXCEPT !.forward = "count"]
    /\ UNCHANGED <<h, sent, cb, more, queue, trig, hist>>

(* The receive cannot be posted. *)
ForwardRecvFails ==
    /\ u.forward = "recv" /\ ~h.no_response
    /\ ForwardError
    /\ UNCHANGED <<op, sent, cb, more, queue, trig, hist>>

(* Mutant: the response is not counted. *)
ForwardCount_NotCounted ==
    /\ u.forward = "count"
    /\ u' = [u EXCEPT !.forward = "mark"]
    /\ UNCHANGED <<h, op, sent, cb, more, queue, trig, hist>>

(* Counts the receive, after it was posted. *)
ForwardCount ==
    /\ u.forward = "count"
    /\ h' = [h EXCEPT !.na_op_count = @ + 1]
    /\ u' = [u EXCEPT !.forward = "mark"]
    /\ UNCHANGED <<op, sent, cb, more, queue, trig, hist>>

(* Marks the handle as posted. *)
ForwardMark ==
    /\ u.forward = "mark"
    /\ h' = [h EXCEPT !.status = @ \cup {"POSTED"}]
    /\ u' = [u EXCEPT !.forward = "send"]
    /\ UNCHANGED <<op, sent, cb, more, queue, trig, hist>>

(* Posts the send of the request. *)
ForwardSend ==
    /\ u.forward = "send"
    /\ op' = [op EXCEPT !["send"] = "posted"]
    /\ sent' = TRUE
    /\ u' = [u EXCEPT !.forward = "idle"]
    /\ UNCHANGED <<h, cb, more, queue, trig, hist>>

(* Mutant: the send that was not posted stays counted. *)
ForwardSendFails_StillCounted ==
    /\ u.forward = "send" /\ ~h.no_response
    /\ h' = [h EXCEPT !.status = (@ \ {"POSTED"}) \cup {"ERRORED", "CANCELED"},
                      !.ret_status = "ERROR"]
    /\ u' = [u EXCEPT !.forward = "cancel"]
    /\ UNCHANGED <<op, sent, cb, more, queue, trig, hist>>

(* The send cannot be posted: the operation goes on as canceled and        *)
(* completes with its receive.                                             *)
ForwardSendFails ==
    /\ u.forward = "send" /\ ~h.no_response
    /\ h' = [h EXCEPT !.status = (@ \ {"POSTED"}) \cup {"ERRORED", "CANCELED"},
                      !.na_op_count = @ - 1,
                      !.ret_status = "ERROR"]
    /\ u' = [u EXCEPT !.forward = "cancel"]
    /\ UNCHANGED <<op, sent, cb, more, queue, trig, hist>>

(* The send cannot be posted and no response is expected: forward fails. *)
ForwardSendRefused ==
    /\ u.forward = "send" /\ h.no_response
    /\ ForwardError
    /\ UNCHANGED <<op, sent, cb, more, queue, trig, hist>>

(* Mutant: the receive that was posted is not canceled. *)
ForwardCancel_Skipped ==
    /\ u.forward = "cancel"
    /\ u' = [u EXCEPT !.forward = "idle"]
    /\ UNCHANGED <<h, op, sent, cb, more, queue, trig, hist>>

(* Cancels the receive; forward returns HG_SUCCESS. *)
ForwardCancel ==
    /\ u.forward = "cancel"
    /\ NA_Cancel("recv")
    /\ u' = [u EXCEPT !.forward = "idle"]
    /\ UNCHANGED <<h, sent, cb, more, queue, trig, hist>>

ForwardStep ==
    \/ ForwardNoRecv \/ ForwardRecv \/ ForwardRecvFails
    \/ ForwardCount \/ ForwardMark
    \/ ForwardSend \/ ForwardSendFails \/ ForwardSendRefused
    \/ ForwardCancel

Forward ==
    \/ \E nr \in BOOLEAN : ForwardStart(nr) \/ ForwardRefused(nr)
    \/ ForwardStep

-----------------------------------------------------------------------------
(* NA callbacks.  A single progress thread runs one of them at a time, and *)
(* it triggers when none is running.                                       *)

ThreadFree ==
    \/ "threads" \in Races
    \/ /\ \A o \in Ops : cb[o] = "none"
       /\ \A t \in Triggers : trig[t].at = "idle"

Outstanding(o) == op[o] # "idle" \/ cb[o] # "none"

(* The results NA may report for an operation in progress. *)
Outcomes(o) ==
    (IF op[o] = "canceled" THEN {"CANCELED"} ELSE {}) \cup
    (IF o # "recv" THEN {"SUCCESS", "ERROR"}
     ELSE IF ~sent THEN {}
     ELSE IF "reorder" \in Races \/ ~Outstanding("send")
          THEN {"SUCCESS", "ERROR"} ELSE {"ERROR"})

(* NA calls the callback of operation o with result r, whose function then *)
(* goes to stage next.                                                     *)
Delivered(o, r, next) ==
    /\ op[o] # "idle"
    /\ ThreadFree
    /\ r \in Outcomes(o)
    /\ op' = [op EXCEPT ![o] = "idle"]
    /\ cb' = [cb EXCEPT ![o] = next]

(* What every callback notes of an unsuccessful result. *)
NoteResult(r) ==
    h' = IF r = "SUCCESS" THEN h
         ELSE [h EXCEPT !.ret_status = KeepFirst(r),
                        !.status = IF r = "ERROR" THEN @ \cup {"ERRORED"}
                                   ELSE @]

(* hg_core_send_input_cb up to hg_core_complete_na: a failed send leads to *)
(* the cancellation of the receive, unless that was done.                  *)
SendInputCb(r) ==
    /\ Delivered("send", r,
          IF r = "ERROR" /\ "CANCELED" \notin h.status /\ ~h.no_response
          THEN "cancel" ELSE "finish")
    /\ NoteResult(r)
    /\ UNCHANGED <<sent, more, u, queue, trig, hist>>

(* It is canceled once, and the send goes on to be counted. *)
SendInputCancel ==
    /\ cb["send"] = "cancel"
    /\ h' = [h EXCEPT !.status = @ \cup {"CANCELED"}]
    /\ NA_Cancel("recv")
    /\ cb' = [cb EXCEPT !["send"] = "finish"]
    /\ UNCHANGED <<sent, more, u, queue, trig, hist>>

(* hg_core_recv_output_cb without a usable response: an NA error, a        *)
(* cancellation, or a response that cannot be processed.                   *)
RecvOutputFails(r) ==
    /\ \/ r # "SUCCESS" /\ Delivered("recv", r, "finish")
       \/ r = "ERROR" /\ Delivered("recv", "SUCCESS", "finish")
    /\ NoteResult(r)
    /\ UNCHANGED <<sent, more, u, queue, trig, hist>>

(* hg_core_recv_output_cb with a response: hg_core_process_output stores   *)
(* its return code rc.                                                     *)
RecvOutputCb(rc) ==
    /\ Delivered("recv", "SUCCESS", "finish")
    /\ h' = [h EXCEPT !.ret_status = rc]
    /\ hist' = [hist EXCEPT !.answered = TRUE]
    /\ UNCHANGED <<sent, more, u, queue, trig>>

(* The response has HG_CORE_MORE_DATA set: extra data is asked for, which  *)
(* defers the completion.                                                  *)
RecvOutputMore(rc) ==
    /\ MoreData
    /\ Delivered("recv", "SUCCESS", "defer")
    /\ h' = [h EXCEPT !.ret_status = rc]
    /\ more' = TRUE
    /\ UNCHANGED <<sent, u, queue, trig, hist>>

(* The extra data cannot be asked for. *)
RecvOutputNoMore(rc) ==
    /\ MoreData
    /\ Delivered("recv", "SUCCESS", "finish")
    /\ h' = [h EXCEPT !.ret_status = IF rc = "SUCCESS" THEN "ERROR" ELSE rc,
                      !.status = @ \cup {"ERRORED"}]
    /\ UNCHANGED <<sent, more, u, queue, trig, hist>>

(* hg_core_ack_cb up to hg_core_complete_na *)
AckCb(r) ==
    /\ Delivered("ack", r, "finish")
    /\ NoteResult(r)
    /\ UNCHANGED <<sent, more, u, queue, trig, hist>>

(* hg_core_complete on the handle as g leaves it: its result goes to the   *)
(* callback and an entry of the current forward is queued.                 *)
Complete(g) ==
    /\ h' = [g EXCEPT !.status = @ \cup {"COMPLETED", "QUEUED"},
                      !.ret = g.ret_status]
    /\ queue' = Append(queue, hist.gen)

(* Mutant: a callback that defers the completion completes as well. *)
CompleteNa_IgnoreDefer(o) ==
    LET g == [h EXCEPT !.na_op_completed_count = @ + 1]
    IN  /\ cb[o] \in {"finish", "defer"}
        /\ IF g.na_op_completed_count = g.na_op_count
           THEN Complete(g) ELSE h' = g /\ UNCHANGED queue
        /\ cb' = [cb EXCEPT ![o] = "none"]
        /\ UNCHANGED <<op, sent, more, u, trig, hist>>

(* hg_core_complete_na: the last expected operation completes the handle.  *)
CompleteNa(o) ==
    LET g == [h EXCEPT !.na_op_completed_count = @ + 1]
    IN  /\ cb[o] \in {"finish", "defer"}
        /\ IF g.na_op_completed_count = g.na_op_count /\ cb[o] = "finish"
           THEN Complete(g) ELSE h' = g /\ UNCHANGED queue
        /\ cb' = [cb EXCEPT ![o] = "none"]
        /\ UNCHANGED <<op, sent, more, u, trig, hist>>

(* hg_core_send_ack, called when the extra data was acquired with result r *)
(* (external: a bulk transfer).  Without success the handle is completed   *)
(* at once.                                                                *)
SendAckAborts(r) ==
    /\ more /\ ThreadFree
    /\ more' = FALSE
    /\ Complete([h EXCEPT !.ret_status = KeepFirst(r),
                          !.status = IF r = "ERROR" THEN @ \cup {"ERRORED"}
                                     ELSE @])
    /\ UNCHANGED <<op, sent, cb, u, trig, hist>>

(* Mutant: the ack is posted and not counted. *)
SendAck_NotCounted ==
    /\ more /\ ThreadFree
    /\ more' = FALSE
    /\ hist' = [hist EXCEPT !.answered = TRUE]
    /\ op' = [op EXCEPT !["ack"] = "posted"]
    /\ UNCHANGED <<h, queue, sent, cb, u, trig>>

(* Otherwise an ack is counted and posted. *)
SendAck ==
    /\ more /\ ThreadFree
    /\ more' = FALSE
    /\ hist' = [hist EXCEPT !.answered = TRUE]
    /\ op' = [op EXCEPT !["ack"] = "posted"]
    /\ h' = [h EXCEPT !.na_op_count = @ + 1]
    /\ UNCHANGED <<queue, sent, cb, u, trig>>

(* The ack cannot be posted: the handle is completed at once, with the     *)
(* unchanged ret_status.                                                   *)
SendAckFails ==
    /\ more /\ ThreadFree
    /\ more' = FALSE
    /\ hist' = [hist EXCEPT !.answered = TRUE]
    /\ Complete([h EXCEPT !.na_op_count = @ + 1,
                          !.status = @ \cup {"ERRORED"}])
    /\ UNCHANGED <<op, sent, cb, u, trig>>

(* The results with which NA and the bulk transfer end something. *)
Delivery ==
    \/ \E r \in {"SUCCESS", "CANCELED", "ERROR"} :
          SendInputCb(r) \/ RecvOutputFails(r) \/ AckCb(r)
    \/ \E rc \in {"SUCCESS", "REMOTE"} :
          RecvOutputCb(rc) \/ RecvOutputMore(rc) \/ RecvOutputNoMore(rc)
    \/ SendAck \/ SendAckFails
    \/ \E r \in {"CANCELED", "ERROR"} : SendAckAborts(r)

CallbackStep == SendInputCancel \/ \E o \in Ops : CompleteNa(o)

-----------------------------------------------------------------------------
(* hg_core_cancel *)

CancelCheck ==
    /\ u.refs > 0 /\ u.forward = "idle" /\ u.cancel = "idle"
    /\ h.status \cap {"COMPLETED", "ERRORED", "CANCELED"} = {}
    /\ u' = [u EXCEPT !.cancel = "flag"]
    /\ UNCHANGED <<h, op, sent, cb, more, queue, trig, hist>>

(* Only the thread that sets the flag goes on. *)
CancelFlag ==
    /\ u.cancel = "flag"
    /\ u' = [u EXCEPT !.cancel =
                IF "CANCELED" \in h.status THEN "idle" ELSE "recv"]
    /\ h' = [h EXCEPT !.status = @ \cup {"CANCELED"}]
    /\ UNCHANGED <<op, sent, cb, more, queue, trig, hist>>

(* The operations are canceled one after the other: recv, send, ack. *)
CancelOp(o) ==
    /\ u.cancel = o
    /\ NA_Cancel(o)
    /\ u' = [u EXCEPT !.cancel = CASE o = "recv" -> "send"
                                   [] o = "send" -> "ack"
                                   [] OTHER -> "idle"]
    /\ UNCHANGED <<h, sent, cb, more, queue, trig, hist>>

CancelStep == CancelFlag \/ \E o \in Ops : CancelOp(o)

-----------------------------------------------------------------------------
(* hg_core_trigger_entry for HG_CORE_FORWARD, one step per point at which  *)
(* other threads can get in between.                                       *)

(* Takes the entry and clears QUEUED. *)
TriggerPop(t) ==
    /\ trig[t].at = "idle" /\ queue # <<>> /\ ThreadFree
    /\ trig' = [trig EXCEPT ![t] = [at |-> "popped", of |-> Head(queue)]]
    /\ queue' = Tail(queue)
    /\ h' = [h EXCEPT !.status = @ \ {"QUEUED"}]
    /\ UNCHANGED <<op, sent, cb, more, u, hist>>

(* Runs the callback and the result that the handle then has. *)
TriggerCall(t) ==
    /\ trig[t].at = "popped"
    /\ hist' = [hist EXCEPT !.calls =
                   Append(@, [of |-> trig[t].of, as |-> hist.gen])]
    /\ trig' = [trig EXCEPT ![t].at = "called"]
    /\ UNCHANGED <<h, op, sent, cb, more, u, queue>>

(* hg_core_destroy drops the reference of the operation. *)
TriggerDestroy(t) ==
    /\ trig[t].at = "called"
    /\ h' = [h EXCEPT !.ref_count = @ - 1]
    /\ trig' = [trig EXCEPT ![t].at = "idle"]
    /\ UNCHANGED <<op, sent, cb, more, u, queue, hist>>

Trigger ==
    \E t \in Triggers : TriggerPop(t) \/ TriggerCall(t) \/ TriggerDestroy(t)

-----------------------------------------------------------------------------
(* HG_Core_reset, HG_Core_ref_incr, HG_Core_destroy *)

Reset ==
    /\ MayReuse /\ NotInUse
    /\ h' = [h EXCEPT !.na_op_count = 1, !.na_op_completed_count = 0,
                      !.ret = "SUCCESS", !.no_response = FALSE]
    /\ UNCHANGED <<op, sent, cb, more, u, queue, trig, hist>>

RefIncr ==
    /\ 0 < u.refs /\ u.refs < MaxRef
    /\ h' = [h EXCEPT !.ref_count = @ + 1]
    /\ u' = [u EXCEPT !.refs = @ + 1]
    /\ UNCHANGED <<op, sent, cb, more, queue, trig, hist>>

(* A thread that is inside forward or cancel keeps a reference of its own. *)
Destroy ==
    /\ u.refs > (IF u.forward = "idle" /\ u.cancel = "idle" THEN 0 ELSE 1)
    /\ h' = [h EXCEPT !.ref_count = @ - 1]
    /\ u' = [u EXCEPT !.refs = @ - 1]
    /\ UNCHANGED <<op, sent, cb, more, queue, trig, hist>>

Next ==
    \/ Forward \/ Delivery \/ CallbackStep \/ CancelCheck \/ CancelStep
    \/ Trigger \/ Reset \/ RefIncr \/ Destroy

Spec == Init /\ [][Next]_vars

(* Threads go on with the functions they are in, progress and trigger are  *)
(* called for ever, and NA completes what it was given: every send, every  *)
(* canceled operation and every transfer of extra data.  A response need   *)
(* not come.                                                               *)
Due ==
    \/ \E r \in {"SUCCESS", "CANCELED", "ERROR"} : SendInputCb(r) \/ AckCb(r)
    \/ op["recv"] = "canceled" /\ \E r \in {"CANCELED", "ERROR"} :
                                      RecvOutputFails(r)
    \/ op["recv"] = "canceled" /\ \E rc \in {"SUCCESS", "REMOTE"} :
          RecvOutputCb(rc) \/ RecvOutputMore(rc) \/ RecvOutputNoMore(rc)
    \/ SendAck \/ SendAckFails
    \/ \E r \in {"CANCELED", "ERROR"} : SendAckAborts(r)

FairSpec ==
    /\ Spec
    /\ WF_vars(ForwardStep) /\ WF_vars(CancelStep) /\ WF_vars(CallbackStep)
    /\ WF_vars(Due) /\ WF_vars(Trigger)

-----------------------------------------------------------------------------
(* Properties *)

HandleType ==
    [status : SUBSET Flags, ref_count : Nat, na_op_count : Nat,
     na_op_completed_count : Nat, ret_status : Rets, ret : Rets,
     no_response : BOOLEAN]

UserType ==
    [forward : {"idle", "recv", "count", "mark", "send", "cancel"},
     cancel : {"idle", "flag"} \cup Ops, refs : Nat]

HistType ==
    [gen : Nat, oneway : BOOLEAN, answered : BOOLEAN,
     calls : Seq([of : Nat, as : Nat])]

(* The type of the variables. *)
TypeOK ==
    /\ h \in HandleType
    /\ op \in [Ops -> {"idle", "posted", "canceled"}]
    /\ cb \in [Ops -> {"none", "cancel", "finish", "defer"}]
    /\ sent \in BOOLEAN /\ more \in BOOLEAN
    /\ u \in UserType
    /\ queue \in Seq(Nat)
    /\ trig \in [Triggers -> [at : {"idle", "popped", "called"}, of : Nat]]
    /\ hist \in HistType

(* hg_core_complete_na and hg_core_send_ack complete the handle only when  *)
(* the last of its NA operations has completed: once it is completed, and  *)
(* so may be forwarded, reset or freed, no NA operation, no NA callback    *)
(* and no transfer of extra data still refers to it.                       *)
CompletedIsQuiet ==
    "COMPLETED" \in h.status => ~more /\ \A o \in Ops : ~Outstanding(o)

(* A handle whose last reference was dropped by hg_core_destroy, and whose *)
(* memory is gone, is used by nobody: no operation in flight, no entry in  *)
(* the completion queue, no thread in forward, cancel or trigger_entry.    *)
FreedUnused ==
    h.ref_count = 0 =>
        /\ ~more /\ \A o \in Ops : ~Outstanding(o)
        /\ u.forward = "idle" /\ u.cancel = "idle"
        /\ queue = <<>> /\ \A t \in Triggers : trig[t].at = "idle"

(* Every forward that hg_core_trigger_entry reports is reported once, in   *)
(* order, and to the callback and with the result of that very forward.    *)
OwnCallback ==
    \A i \in DOMAIN hist.calls :
        /\ hist.calls[i].as = hist.calls[i].of
        /\ \A j \in 1 .. i - 1 : hist.calls[j].of < hist.calls[i].of

(* No completion is lost: while forward has returned and the handle is not *)
(* completed, something is in flight whose end calls hg_core_complete_na   *)
(* or hg_core_send_ack.                                                    *)
NoLostCompletion ==
    u.forward = "idle" /\ "COMPLETED" \notin h.status =>
        more \/ \E o \in Ops : Outstanding(o)

(* A forward that asked for a response and reports HG_SUCCESS has got one. *)
SuccessMeansResponse ==
    "QUEUED" \in h.status /\ h.ret = "SUCCESS" /\ ~hist.oneway => hist.answered

(* A forward that is canceled, by HG_Core_cancel or because its send       *)
(* failed, ends: its callback runs, even if the target never answers.      *)
CanceledReturns ==
    \A g \in 1 .. MaxForward :
        ("CANCELED" \in h.status /\ hist.gen = g) ~>
            \E i \in DOMAIN hist.calls : hist.calls[i].of = g
-----------------------------------------------------------------------------
(* The inductive invariant.  It holds for users and plugins that exclude   *)
(* the races above, except that without extra response data a response may *)
(* overtake the completion of the send and several threads may progress.   *)

Disciplined ==
    /\ Races \subseteq {"reorder", "threads"}
    /\ MoreData => Races = {}

Active == "COMPLETED" \notin h.status

Out(o) == IF Outstanding(o) THEN 1 ELSE 0

OutCount == Out("send") + Out("recv") + Out("ack")

Busy == {t \in Triggers : trig[t].at # "idle"}

(* While forward runs, the only NA operation is the receive it posted. *)
ForwardInv ==
    u.forward # "idle" =>
        /\ Active /\ "QUEUED" \notin h.status /\ u.cancel = "idle"
        /\ u.refs > 0 /\ ~sent /\ ~more
        /\ \A o \in Ops : cb[o] = "none"
        /\ op["send"] = "idle" /\ op["ack"] = "idle"
        /\ h.na_op_completed_count = 0
        /\ op["recv"] = (IF u.forward = "recv" \/ h.no_response
                         THEN "idle" ELSE "posted")
        /\ h.na_op_count = (IF u.forward \in {"mark", "send"} /\ ~h.no_response
                            THEN 2 ELSE 1)
        /\ u.forward \in {"count", "cancel"} => ~h.no_response
        /\ u.forward = "cancel" => h.ret_status # "SUCCESS"

(* Once forward has returned, the operations that were counted are those   *)
(* that completed and those in flight, and one is in flight unless extra   *)
(* data is being acquired.                                                 *)
CountInv ==
    Active /\ u.forward = "idle" =>
        /\ h.na_op_completed_count + OutCount = h.na_op_count
        /\ OutCount = 0 => more

(* Extra data is acquired when nothing but the callback that asked for it  *)
(* is left; each callback is in a stage of its own function, and what it   *)
(* reports is over.                                                        *)
MoreInv ==
    /\ more => /\ MoreData /\ op["recv"] = "idle"
               /\ cb["recv"] \in {"none", "defer"}
               /\ ~Outstanding("send") /\ ~Outstanding("ack")
    /\ \A o \in Ops : cb[o] = "defer" => o = "recv" /\ more
    /\ \A o \in Ops : cb[o] = "cancel" => o = "send"
    /\ \A o \in Ops : cb[o] # "none" => op[o] = "idle"
    /\ Outstanding("ack") => op["recv"] = "idle"

(* Every reference is held by the user, by the operation in progress or by *)
(* the entry that its completion left.                                     *)
RefInv ==
    /\ h.ref_count = u.refs + (IF NotInUse THEN 0 ELSE 1) + Cardinality(Busy)
    /\ u.cancel # "idle" => u.refs > 0

(* The last forward is not reported yet. *)
Pending ==
    \/ Active \/ "QUEUED" \in h.status
    \/ \E t \in Triggers : trig[t].at = "popped"

(* The entry in the queue, or the one that was taken and not yet reported, *)
(* is the one of the last forward, and earlier ones were reported.         *)
EntryInv ==
    /\ queue = (IF "QUEUED" \in h.status THEN <<hist.gen>> ELSE <<>>)
    /\ "QUEUED" \in h.status => "COMPLETED" \in h.status
    /\ \A t \in Triggers : trig[t].at = "popped" =>
          /\ trig[t].of = hist.gen
          /\ ~Active /\ "QUEUED" \notin h.status
          /\ \A v \in Triggers : trig[v].at = "popped" => v = t
    /\ \A i \in DOMAIN hist.calls :
          /\ hist.calls[i].of <= hist.gen
          /\ Pending => hist.calls[i].of < hist.gen

(* A forward that waits for a response and has seen no error has the       *)
(* receive, or the acquisition of extra data, before it.                   *)
AnswerInv ==
    Active => /\ hist.oneway = h.no_response
              /\ \/ h.no_response \/ hist.answered
                 \/ h.ret_status # "SUCCESS"
                 \/ u.forward = "recv" \/ op["recv"] # "idle" \/ more

IInv ==
    /\ TypeOK /\ CompletedIsQuiet /\ ForwardInv /\ CountInv /\ MoreInv
    /\ RefInv /\ EntryInv /\ AnswerInv
    /\ OwnCallback /\ SuccessMeansResponse
=============================================================================
