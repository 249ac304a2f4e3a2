------------------------------ MODULE CoreSelf ------------------------------
(* An RPC that a process forwards to itself, mercury_core.c: one handle is  *)
(* origin and target. It goes through the completion queue as a request, as *)
(* a response and as the completion of the forward, and its reference count *)
(* is shared by the origin, the RPC callback and the trigger threads.       *)
EXTENDS Naturals, FiniteSets

CONSTANTS
    Triggers,      \* threads that call HG_Core_trigger
    MaxForwards,   \* bound: forwards of the handle
    Overlap        \* TRUE: the handle may be forwarded again while a trigger
                   \* is still in the RPC callback of the forward before

VARIABLES
    self,      \* the fields of the handle
    entries,   \* times the handle is in the completion queue
    more,      \* extra data that is being acquired: "no", "input", "output"
    trig,      \* where each trigger thread is
    origin,    \* the user that forwards
    rpc,       \* the RPC callback and what the user keeps of it
    lost       \* forwards whose callback will not be called

vars == <<self, entries, more, trig, origin, rpc, lost>>

Init ==
    /\ self = [life |-> "live", ref_count |-> 1, status |-> {"COMPLETED"},
               op_type |-> "FORWARD_SELF", ret |-> "SUCCESS",
               no_response |-> FALSE]
    /\ entries = 0 /\ more = "no"
    /\ trig = [t \in Triggers |-> "idle"]
    /\ origin = [ref |-> TRUE, wait |-> FALSE, n |-> 0]
    /\ rpc = [refs |-> 0, owed |-> FALSE]
    /\ lost = {}

(* hg_core_complete of the handle g. *)
Complete(g, r) ==
    /\ self' = [g EXCEPT !.status = @ \cup {"COMPLETED", "QUEUED"}, !.ret = r]
    /\ entries' = entries + 1

(* hg_core_destroy. *)
Dropped(g) == [g EXCEPT !.ref_count = @ - 1,
                        !.life = IF g.ref_count = 1 THEN "freed" ELSE @]

Goto(t, pc) == trig' = [trig EXCEPT ![t] = pc]

-----------------------------------------------------------------------------
(* hg_core_forward, hg_core_forward_self, hg_core_process_self. *)

CanForward ==
    /\ origin.ref /\ ~origin.wait /\ origin.n < MaxForwards
    /\ "COMPLETED" \in self.status /\ "QUEUED" \notin self.status
    /\ Overlap \/ \A t \in Triggers : trig[t] \notin {"called", "responded"}

(* no_response is what hg_core_process_input reads from the header. *)
Started(quiet) ==
    [self EXCEPT !.ref_count = @ + 1, !.status = {}, !.ret = "SUCCESS",
                 !.op_type = "PROCESS", !.no_response = quiet]

Forward ==
    /\ CanForward
    /\ origin' = [origin EXCEPT !.wait = TRUE, !.n = @ + 1]
    /\ \E quiet \in BOOLEAN :
        \/ Complete(Started(quiet), "SUCCESS") /\ UNCHANGED more
        \/ self' = Started(quiet) /\ more' = "input" /\ UNCHANGED entries
    /\ UNCHANGED <<trig, rpc, lost>>

(* The input cannot be processed: the error is returned. *)
ForwardFails ==
    /\ CanForward
    /\ origin' = [origin EXCEPT !.n = @ + 1]
    /\ \E quiet \in BOOLEAN :
        self' = [Started(quiet) EXCEPT !.ref_count = @ - 1,
                                       !.status = {"COMPLETED"}]
    /\ UNCHANGED <<entries, more, trig, rpc, lost>>

(* hg_core_more_data_complete. *)
MoreDataComplete ==
    /\ more # "no" /\ more' = "no"
    /\ \E r \in {"SUCCESS", "ERROR"} : Complete(self, r)
    /\ UNCHANGED <<trig, origin, rpc, lost>>

-----------------------------------------------------------------------------
(* hg_core_trigger_entry. *)

TriggerPop(t) ==
    /\ trig[t] = "idle" /\ entries > 0
    /\ entries' = entries - 1
    /\ self' = [self EXCEPT !.status = @ \ {"QUEUED"},
            !.ref_count = IF self.op_type = "PROCESS" /\ self.ret = "SUCCESS"
                          THEN @ + 1 ELSE @]
    /\ Goto(t, CASE self.op_type = "RESPOND_SELF" -> "self_cb"
                 [] self.op_type = "FORWARD_SELF" -> "callback"
                 [] OTHER -> IF self.ret = "SUCCESS" THEN "process" ELSE "drop")
    /\ UNCHANGED <<more, origin, rpc, lost>>

(* The input could not be acquired: the request is dropped, and with it the *)
(* callback of the forward.                                                 *)
Drop(t) ==
    /\ trig[t] = "drop"
    /\ lost' = lost \cup {origin.n}
    /\ Goto(t, "destroy")
    /\ UNCHANGED <<self, entries, more, origin, rpc>>

(* hg_core_process: the RPC callback gets a reference ... *)
Process(t) ==
    /\ trig[t] = "process"
    /\ self' = [self EXCEPT !.ref_count = @ + 1]
    /\ rpc' = [refs |-> rpc.refs + 1, owed |-> ~self.no_response]
    /\ Goto(t, "called")
    /\ UNCHANGED <<entries, more, origin, lost>>

(* ... or there is none, and the trigger responds. *)
ProcessNoEntry(t) ==
    /\ trig[t] = "process"
    /\ Goto(t, IF self.no_response THEN "no_respond" ELSE "error")
    /\ UNCHANGED <<self, entries, more, origin, rpc, lost>>

(* The callback returns an error and does not respond: the trigger does. *)
ProcessFails(t) ==
    /\ trig[t] = "called" /\ rpc.owed /\ ~self.no_response
    /\ rpc' = [rpc EXCEPT !.owed = FALSE]
    /\ Goto(t, "error")
    /\ UNCHANGED <<self, entries, more, origin, lost>>

(* The flag is read when the callback has returned or the error was sent. *)
ProcessReturns(t) ==
    /\ trig[t] \in {"called", "responded"}
    /\ Goto(t, IF self.no_response THEN "no_respond" ELSE "destroy")
    /\ UNCHANGED <<self, entries, more, origin, rpc, lost>>

(* hg_core_respond with hg_core_respond_self. *)
Responded ==
    Complete([self EXCEPT !.status = {}, !.op_type = "RESPOND_SELF"], "SUCCESS")

RespondError(t) ==
    /\ trig[t] = "error"
    /\ Responded
    /\ Goto(t, "responded")
    /\ UNCHANGED <<more, origin, rpc, lost>>

(* Mutant: the handle is not completed. *)
NoRespond_Forget(t) ==
    /\ trig[t] = "no_respond"
    /\ self' = [self EXCEPT !.op_type = "FORWARD_SELF"]
    /\ Goto(t, "destroy")
    /\ UNCHANGED <<entries, more, origin, rpc, lost>>

(* hg_core_no_respond_self. *)
NoRespond(t) ==
    /\ trig[t] = "no_respond"
    /\ Complete([self EXCEPT !.op_type = "FORWARD_SELF"], "SUCCESS")
    /\ Goto(t, "destroy")
    /\ UNCHANGED <<more, origin, rpc, lost>>

(* The user's calls on the handle of the RPC callback. *)
Respond ==
    /\ rpc.owed /\ rpc' = [rpc EXCEPT !.owed = FALSE]
    /\ Responded
    /\ UNCHANGED <<more, trig, origin, lost>>

RpcDestroy ==
    /\ rpc.refs > 0 /\ rpc' = [rpc EXCEPT !.refs = @ - 1]
    /\ self' = Dropped(self)
    /\ UNCHANGED <<entries, more, trig, origin, lost>>

(* Mutant: no reference is taken for the second pass of the queue. *)
SelfCb_NoRef(t) ==
    /\ trig[t] = "self_cb"
    /\ LET g == [self EXCEPT !.op_type = "FORWARD_SELF"] IN
        \/ Complete(g, "SUCCESS") /\ UNCHANGED more
        \/ self' = g /\ more' = "output" /\ UNCHANGED entries
    /\ Goto(t, "destroy")
    /\ UNCHANGED <<origin, rpc, lost>>

(* hg_core_self_cb: the callback of the response has run, the output is     *)
(* processed, and the handle goes to the queue again ...                    *)
SelfCb(t) ==
    /\ trig[t] = "self_cb"
    /\ LET g == [self EXCEPT !.op_type = "FORWARD_SELF", !.ref_count = @ + 1] IN
        \/ Complete(g, "SUCCESS") /\ UNCHANGED more
        \/ self' = g /\ more' = "output" /\ UNCHANGED entries
    /\ Goto(t, "destroy")
    /\ UNCHANGED <<origin, rpc, lost>>

(* ... unless the output cannot be processed. *)
SelfCbFails(t) ==
    /\ trig[t] = "self_cb"
    /\ self' = [self EXCEPT !.op_type = "FORWARD_SELF", !.ref_count = @ + 1]
    /\ lost' = lost \cup {origin.n}
    /\ Goto(t, "destroy")
    /\ UNCHANGED <<entries, more, origin, rpc>>

(* The callback of the forward; the user may forward again. *)
Callback(t) ==
    /\ trig[t] = "callback"
    /\ origin' = [origin EXCEPT !.wait = FALSE]
    /\ Goto(t, "destroy")
    /\ UNCHANGED <<self, entries, more, rpc, lost>>

TriggerDestroy(t) ==
    /\ trig[t] = "destroy"
    /\ self' = Dropped(self)
    /\ Goto(t, "idle")
    /\ UNCHANGED <<entries, more, origin, rpc, lost>>

(* The origin's destroy, possibly before its callback was called. *)
OriginDestroy ==
    /\ origin.ref
    /\ origin' = [origin EXCEPT !.ref = FALSE]
    /\ self' = Dropped(self)
    /\ UNCHANGED <<entries, more, trig, rpc, lost>>

TriggerStep(t) ==
    \/ TriggerPop(t) \/ Drop(t) \/ Process(t) \/ ProcessNoEntry(t)
    \/ ProcessFails(t) \/ ProcessReturns(t) \/ RespondError(t) \/ NoRespond(t)
    \/ SelfCb(t) \/ SelfCbFails(t) \/ Callback(t) \/ TriggerDestroy(t)
Next ==
    \/ Forward \/ ForwardFails \/ MoreDataComplete
    \/ Respond \/ RpcDestroy \/ OriginDestroy
    \/ \E t \in Triggers : TriggerStep(t)

Spec == Init /\ [][Next]_vars

-----------------------------------------------------------------------------
Count(b) == IF b THEN 1 ELSE 0

(* References of the trigger threads: their own, and that of a response     *)
(* that is not sent yet.                                                    *)
Held(t) ==
    CASE trig[t] = "idle" -> 0
      [] trig[t] \in {"process", "error", "no_respond"} -> 2
      [] trig[t] = "called" /\ self.no_response -> 2
      [] OTHER -> 1

(* ref_count is the number of references that are held, so the handle is    *)
(* freed with the last of them and not before. A forward that is lost in    *)
(* hg_core_self_cb keeps its reference for ever. With Overlap the flag that *)
(* a trigger reads after the RPC callback may be that of the next forward.  *)
RefsExact ==
    LET held == Count(origin.ref) + rpc.refs + Count(rpc.owed)
                + entries + Count(more # "no")
                + Cardinality({t \in Triggers : Held(t) >= 1})
                + Cardinality({t \in Triggers : Held(t) = 2})
    IN  /\ held <= self.ref_count
        /\ self.ref_count <= held + Cardinality(lost)
        /\ self.life = "freed" <=> self.ref_count = 0

(* The handle is in the queue at most once: its completion entry is part of *)
(* it.                                                                      *)
QueuedOnce == entries <= 1 /\ (entries = 1 => more = "no")

(* The callback of a forward is called, unless extra input or the output    *)
(* could not be acquired.                                                   *)
Answered == (origin.wait) ~> (~origin.wait \/ origin.n \in lost)

(* The callback of a forward that was accepted is always called.            *)
AlwaysAnswered == (origin.wait) ~> (~origin.wait)
=============================================================================
