-------------------------- MODULE CoreTargetProofs --------------------------
(* Theorems about the handles of a listening context, from the invariant of *)
(* CoreTargetInvariant.                                                     *)
EXTENDS CoreTargetInvariant

USE ZenonT(60)


-----------------------------------------------------------------------------
(* Steps that post nothing *)

(* No handle is freed, and none gets another request or is withdrawn. *)
SameRequests ==
    \A z \in Handles : /\ hd'[z].life = hd[z].life /\ hd'[z].req = hd[z].req
                       /\ hd'[z].repost = hd[z].repost

LEMMA SetFields ==
    ASSUME TypeOK, NEW x \in Handles, NEW g, hd' = [hd EXCEPT ![x] = g],
           g.life = hd[x].life, g.req = hd[x].req, g.repost = hd[x].repost
    PROVE  SameRequests
<1>1. hd'[x] = g /\ \A z \in Handles \ {x} : hd'[z] = hd[z]
  BY DEF TypeOK
<1>. QED
  BY <1>1 DEF SameRequests

LEMMA CompleteFields ==
    ASSUME TypeOK, NEW x \in Handles, NEW g \in HandleType, NEW ret, Complete(x, g, ret),
           g.life = hd[x].life, g.req = hd[x].req, g.repost = hd[x].repost
    PROVE  SameRequests
<1>1. PICK h : /\ h = [g EXCEPT !.status = @ \cup {"COMPLETED", "QUEUED"}, !.ret = ret]
               /\ hd' = [hd EXCEPT ![x] = h]
  BY ZenonT(60) DEF Complete
<1>2. h.life = g.life /\ h.req = g.req /\ h.repost = g.repost
  BY <1>1 DEF HandleType
<1>. QED
  BY ZenonT(60), <1>1, <1>2, SetFields

LEMMA NotedFields ==
    ASSUME TypeOK, NEW x \in Handles, NEW r \in Results,
           hd' = [hd EXCEPT ![x] = Noted(hd[x], r)]
    PROVE  SameRequests
<1>1. SameCounts(hd[x], Noted(hd[x], r))
  BY HandleTypes, NotedCounts
<1>. QED
  BY ZenonT(60), <1>1, SetFields DEF SameCounts

LEMMA RespondFields ==
    ASSUME TypeOK, NEW x \in Handles,
           \/ Respond(x) \/ RespondRefused(x) \/ RespondStep(x) \/ Cancel(x)
    PROVE  SameRequests
<1>. DEFINE Kept(g) == /\ hd' = [hd EXCEPT ![x] = g] /\ g.life = hd[x].life
                       /\ g.req = hd[x].req /\ g.repost = hd[x].repost
<1>1. hd[x] \in HandleType
  BY HandleTypes
<1>2. SUFFICES (\E g : Kept(g)) \/ hd' = hd
  BY SetFields DEF SameRequests
<1>3. CASE Respond(x)
  <2>1. PICK g : g = Responding(hd[x]) /\ hd' = [hd EXCEPT ![x] = g]
    BY ZenonT(60), <1>3 DEF Respond
  <2>2. g.life = hd[x].life /\ g.req = hd[x].req /\ g.repost = hd[x].repost
    BY ZenonT(60), <1>1, <2>1 DEF Responding, HandleType
  <2>. QED
    BY ZenonT(60), <2>1, <2>2
<1>4. CASE RespondRefused(x)
  <2>1. PICK g : /\ g = NotResponding([hd[x] EXCEPT !.ret = "SUCCESS",
                                                    !.ret_status = "SUCCESS"])
                 /\ hd' = [hd EXCEPT ![x] = g]
    BY ZenonT(60), <1>4 DEF RespondRefused
  <2>2. g.life = hd[x].life /\ g.req = hd[x].req /\ g.repost = hd[x].repost
    BY ZenonT(60), <1>1, <2>1 DEF NotResponding, HandleType
  <2>. QED
    BY ZenonT(60), <2>1, <2>2
<1>5. CASE RespondNoAck(x)
  <2>1. PICK g : /\ g = [hd[x] EXCEPT !.status = @ \cup {"POSTED"}]
                 /\ hd' = [hd EXCEPT ![x] = g]
    BY ZenonT(60), <1>5 DEF RespondNoAck
  <2>2. g.life = hd[x].life /\ g.req = hd[x].req /\ g.repost = hd[x].repost
    BY ZenonT(60), <1>1, <2>1 DEF HandleType
  <2>. QED
    BY ZenonT(60), <2>1, <2>2
<1>6. CASE RespondAck(x)
  <2>1. PICK g : /\ g = [hd[x] EXCEPT !.na_op_count = @ + 1,
                                      !.status = @ \cup {"POSTED"}]
                 /\ hd' = [hd EXCEPT ![x] = g]
    BY ZenonT(60), <1>6 DEF RespondAck
  <2>2. g.life = hd[x].life /\ g.req = hd[x].req /\ g.repost = hd[x].repost
    BY ZenonT(60), <1>1, <2>1 DEF HandleType
  <2>. QED
    BY ZenonT(60), <2>1, <2>2
<1>7. CASE RespondAckFails(x)
  <2>1. PICK g : /\ g = NotResponding([hd[x] EXCEPT !.na_op_count = @ + 1])
                 /\ hd' = [hd EXCEPT ![x] = g]
    BY ZenonT(60), <1>7 DEF RespondAckFails
  <2>2. g.life = hd[x].life /\ g.req = hd[x].req /\ g.repost = hd[x].repost
    BY ZenonT(60), <1>1, <2>1 DEF NotResponding, HandleType
  <2>. QED
    BY ZenonT(60), <2>1, <2>2
<1>8. CASE RespondSend(x)
  BY <1>8 DEF RespondSend
<1>9. CASE RespondSendFails(x)
  <2>1. PICK g : g = NotResponding(hd[x]) /\ hd' = [hd EXCEPT ![x] = g]
    BY ZenonT(60), <1>9 DEF RespondSendFails
  <2>2. g.life = hd[x].life /\ g.req = hd[x].req /\ g.repost = hd[x].repost
    BY ZenonT(60), <1>1, <2>1 DEF NotResponding, HandleType
  <2>. QED
    BY ZenonT(60), <2>1, <2>2
<1>10. CASE RespondSendCanceled(x)
  <2>1. PICK g : /\ g = [hd[x] EXCEPT !.na_op_count = @ - 1, !.ret_status = "ERROR",
                             !.status = (@ \ {"POSTED"}) \cup {"ERRORED", "CANCELED"}]
                 /\ hd' = [hd EXCEPT ![x] = g]
    BY ZenonT(60), <1>10 DEF RespondSendCanceled
  <2>2. g.life = hd[x].life /\ g.req = hd[x].req /\ g.repost = hd[x].repost
    BY ZenonT(60), <1>1, <2>1 DEF HandleType
  <2>. QED
    BY ZenonT(60), <2>1, <2>2
<1>11. CASE Cancel(x)
  <2>1. PICK g : /\ g = [hd[x] EXCEPT !.status = @ \cup {"CANCELED"}]
                 /\ hd' = [hd EXCEPT ![x] = g]
    BY ZenonT(60), <1>11 DEF Cancel
  <2>2. g.life = hd[x].life /\ g.req = hd[x].req /\ g.repost = hd[x].repost
    BY ZenonT(60), <1>1, <2>1 DEF HandleType
  <2>. QED
    BY ZenonT(60), <2>1, <2>2
<1>. QED
  BY <1>3, <1>4, <1>5, <1>6, <1>7, <1>8, <1>9, <1>10, <1>11 DEF RespondStep

(* How a callback of a receive goes on, ... *)
CallbackMoves(x) ==
    \/ cb'[x]["recv"] = cb[x]["recv"]
    \/ /\ cb[x]["recv"] = "check"
       /\ cb'[x]["recv"] = IF PostIncr /\ pending = {} /\ ~finalizing
                           THEN "post" ELSE "input"
    \/ /\ cb[x]["recv"] \in {"input", "finish", "defer"}
       /\ cb'[x]["recv"] \in {"finish", "defer", "none"}
    \/ cb[x]["recv"] = "stop" /\ cb'[x]["recv"] = "finish" /\ finalizing

(* and the trigger threads: one of them starts, or none. *)
TriggersMove ==
    \/ \A t \in Triggers : trig'[t].at # "idle" => trig[t].at # "idle"
    \/ ThreadFree /\ \E t \in Triggers : \A v \in Triggers \ {t} : trig'[v] = trig[v]

Quiet ==
    /\ SameRequests /\ UNCHANGED <<pending, posting, unpost>>
    /\ \A x \in Handles : op'[x]["recv"] = "posted" => op[x]["recv"] = "posted"
    /\ \A x \in Handles : CallbackMoves(x)
    /\ TriggersMove

LEMMA RespondQuiet ==
    ASSUME TypeOK, NEW x \in Handles,
           \/ Respond(x) \/ RespondRefused(x) \/ RespondStep(x) \/ Cancel(x)
    PROVE  Quiet
<1>1. SameRequests
  BY ZenonT(60), RespondFields
<1>2. UNCHANGED <<cb, pending, posting, trig, unpost>>
  BY ZenonT(60) DEF Respond, RespondRefused, RespondStep, RespondNoAck, RespondAck,
     RespondAckFails, RespondSend, RespondSendFails, RespondSendCanceled, Cancel
<1>3. op \in [Handles -> OpsType]
  BY ZenonT(60) DEF TypeOK
<1>4. \/ op' = op \/ op' = [op EXCEPT ![x] = NA_Cancel(@)]
      \/ \E r : \E o \in {"ack", "send"} : op' = [op EXCEPT ![x][o] = r]
  BY ZenonT(60) DEF Respond, RespondRefused, RespondStep, RespondNoAck, RespondAck,
     RespondAckFails, RespondSend, RespondSendFails, RespondSendCanceled, Cancel
<1>5. \A z \in Handles : op'[z]["recv"] = "posted" => op[z]["recv"] = "posted"
  BY SMTT(60), <1>3, <1>4, OpNames DEF OpsType, NA_Cancel
<1>. QED
  BY <1>1, <1>2, <1>5 DEF Quiet, CallbackMoves, TriggersMove

LEMMA RespondedQuiet ==
    ASSUME TypeOK, NEW x \in Handles, Responded(x)
    PROVE  Quiet
<1>1. CASE \E o \in {"send", "ack"}, r \in Results : RespondCb(x, o, r)
  <2>1. PICK o \in {"send", "ack"}, r \in Results : RespondCb(x, o, r)
    BY <1>1
  <2>2. UNCHANGED <<more, pending, posting, user, queue, trig, unpost, seen>>
    BY <2>1 DEF RespondCb
  <2>3. SameRequests
    <3>1. CASE r = "SUCCESS"
      <4>1. hd' = [hd EXCEPT ![x] = hd[x]]
        BY ZenonT(60), <2>1, <3>1 DEF RespondCb
      <4>. QED
        BY ZenonT(60), <4>1, SetFields
    <3>2. CASE r # "SUCCESS"
      <4>1. hd' = [hd EXCEPT ![x] = Noted(hd[x], r)]
        BY ZenonT(60), <2>1, <3>2 DEF RespondCb
      <4>. QED
        BY ZenonT(60), <4>1, NotedFields
    <3>. QED
      BY <3>1, <3>2
  <2>4. o \in Ops /\ o # "recv"
    BY DEF Ops
  <2>5. /\ op'[x]["recv"] = op[x]["recv"] /\ cb'[x]["recv"] = cb[x]["recv"]
        /\ \A z \in Handles \ {x} : op'[z] = op[z] /\ cb'[z] = cb[z]
    <3>1. op' = [op EXCEPT ![x][o] = "idle"] /\ cb' = [cb EXCEPT ![x][o] = "finish"]
      BY <2>1 DEF RespondCb, Delivered
    <3>2. /\ \A n \in Ops \ {o} : op'[x][n] = op[x][n]
          /\ \A y \in Handles \ {x} : op'[y] = op[y]
      BY ZenonT(60), <2>4, <3>1, SetOp
    <3>3. /\ \A n \in Ops \ {o} : cb'[x][n] = cb[x][n]
          /\ \A y \in Handles \ {x} : cb'[y] = cb[y]
      BY ZenonT(60), <2>4, <3>1, SetCb
    <3>. QED
      BY <2>4, <3>2, <3>3, OpNames
  <2>. QED
    BY <2>2, <2>3, <2>5 DEF Quiet, CallbackMoves, TriggersMove
<1>2. CASE \E r \in Results : MoreDataComplete(x, r)
  <2>1. PICK r \in Results : MoreDataComplete(x, r)
    BY <1>2
  <2>2. UNCHANGED <<op, cb, pending, posting, user, trig, unpost, seen>>
    BY <2>1 DEF MoreDataComplete
  <2>3. PICK g : /\ g = IF r = "SUCCESS" THEN hd[x] ELSE Noted(hd[x], r)
                 /\ Complete(x, g, g.ret_status)
    BY ZenonT(60), <2>1 DEF MoreDataComplete
  <2>4. SameCounts(hd[x], g)
    BY <2>3, HandleTypes, NotedCounts DEF SameCounts
  <2>5. SameRequests
    BY ZenonT(60), <2>3, <2>4, CompleteFields DEF SameCounts
  <2>. QED
    BY <2>2, <2>5 DEF Quiet, CallbackMoves, TriggersMove
<1>. QED
  BY <1>1, <1>2 DEF Responded, Results

LEMMA MovesCallback ==
    ASSUME TypeOK, NEW x \in Handles, NEW r, cb' = [cb EXCEPT ![x]["recv"] = r],
           UNCHANGED <<op, pending, posting, trig, unpost>>, SameRequests,
           \/ /\ cb[x]["recv"] = "check"
              /\ r = IF PostIncr /\ pending = {} /\ ~finalizing THEN "post" ELSE "input"
           \/ /\ cb[x]["recv"] \in {"input", "finish", "defer"}
              /\ r \in {"finish", "defer", "none"}
           \/ cb[x]["recv"] = "stop" /\ r = "finish" /\ finalizing
    PROVE  Quiet
<1>1. cb'[x]["recv"] = r /\ \A z \in Handles \ {x} : cb'[z] = cb[z]
  BY OpNames DEF TypeOK, CallbacksType
<1>2. \A z \in Handles : CallbackMoves(z)
  BY <1>1 DEF CallbackMoves
<1>. QED
  BY <1>2 DEF Quiet, TriggersMove

LEMMA CallbackQuiet ==
    ASSUME TypeOK, NEW x \in Handles,
           \/ CheckPending(x) \/ ContextPostStops(x) \/ ProcessInput(x)
           \/ ProcessInputMore(x) \/ ProcessInputFails(x)
           \/ \E o \in Ops : CompleteNa(x, o)
    PROVE  Quiet
<1>1. hd[x] \in HandleType
  BY HandleTypes
<1>2. CASE CheckPending(x)
  <2>1. /\ cb[x]["recv"] = "check"
        /\ UNCHANGED <<hd, op, pending, posting, trig, unpost>>
    BY <1>2 DEF CheckPending
  <2>2. PICK r : /\ r = IF PostIncr /\ pending = {} /\ ~finalizing
                        THEN "post" ELSE "input"
                 /\ cb' = [cb EXCEPT ![x]["recv"] = r]
    BY ZenonT(60), <1>2 DEF CheckPending
  <2>3. SameRequests
    BY <2>1 DEF SameRequests
  <2>. QED
    BY ZenonT(60), <2>1, <2>2, <2>3, MovesCallback
<1>3. CASE ContextPostStops(x)
  <2>1. /\ cb[x]["recv"] = "stop" /\ finalizing
        /\ UNCHANGED <<op, pending, posting, trig, unpost>>
    BY <1>3 DEF ContextPostStops, finalizing
  <2>2. cb' = [cb EXCEPT ![x]["recv"] = "finish"]
    BY <1>3 DEF ContextPostStops
  <2>3. SameRequests
    <3>1. hd' = [hd EXCEPT ![x] = Noted(hd[x], "ERROR")]
      BY ZenonT(60), <1>3 DEF ContextPostStops
    <3>2. "ERROR" \in Results
      BY DEF Results
    <3>. QED
      BY ZenonT(60), <3>1, <3>2, NotedFields
  <2>. QED
    BY ZenonT(60), <2>1, <2>2, <2>3, MovesCallback
<1>4. CASE ProcessInputFails(x)
  <2>1. /\ cb[x]["recv"] = "input"
        /\ UNCHANGED <<op, pending, posting, trig, unpost>>
    BY <1>4 DEF ProcessInputFails
  <2>2. cb' = [cb EXCEPT ![x]["recv"] = "finish"]
    BY <1>4 DEF ProcessInputFails
  <2>3. SameRequests
    <3>1. hd' = [hd EXCEPT ![x] = Noted(hd[x], "ERROR")]
      BY ZenonT(60), <1>4 DEF ProcessInputFails
    <3>2. "ERROR" \in Results
      BY DEF Results
    <3>. QED
      BY ZenonT(60), <3>1, <3>2, NotedFields
  <2>. QED
    BY ZenonT(60), <2>1, <2>2, <2>3, MovesCallback
<1>5. CASE ProcessInput(x) \/ ProcessInputMore(x)
  <2>1. /\ cb[x]["recv"] = "input"
        /\ UNCHANGED <<op, pending, posting, trig, unpost>>
    BY <1>5 DEF ProcessInput, ProcessInputMore
  <2>2. PICK r \in {"finish", "defer"} : cb' = [cb EXCEPT ![x]["recv"] = r]
    BY ZenonT(60), <1>5 DEF ProcessInput, ProcessInputMore
  <2>3. PICK b, g : /\ g = [hd[x] EXCEPT !.no_response = b]
                    /\ hd' = [hd EXCEPT ![x] = g]
    BY ZenonT(60), <1>5 DEF ProcessInput, ProcessInputMore
  <2>4. g.life = hd[x].life /\ g.req = hd[x].req /\ g.repost = hd[x].repost
    BY ZenonT(60), <1>1, <2>3 DEF HandleType
  <2>5. SameRequests
    BY ZenonT(60), <2>3, <2>4, SetFields
  <2>. QED
    BY ZenonT(60), <2>1, <2>2, <2>5, MovesCallback
<1>6. CASE \E o \in Ops : CompleteNa(x, o)
  <2>1. PICK o \in Ops : CompleteNa(x, o)
    BY <1>6
  <2>2. PICK g :
        /\ g = [hd[x] EXCEPT !.na_op_completed_count = @ + 1]
        /\ Complete(x, g, g.ret_status) \/ hd' = [hd EXCEPT ![x] = g]
    BY ZenonT(60), <2>1 DEF CompleteNa
  <2>3. /\ g \in HandleType /\ g.life = hd[x].life /\ g.repost = hd[x].repost
        /\ g.req = hd[x].req
    BY ZenonT(60), <2>2, CountedOne
  <2>4. SameRequests
    BY ZenonT(60), <2>2, <2>3, CompleteFields, SetFields
  <2>5. /\ cb' = [cb EXCEPT ![x][o] = "none"] /\ cb[x][o] \in {"finish", "defer"}
        /\ UNCHANGED <<op, more, pending, posting, user, trig, unpost, seen>>
    BY ZenonT(60), <2>1 DEF CompleteNa
  <2>6. CASE o = "recv"
    BY ZenonT(60), <2>4, <2>5, <2>6, MovesCallback
  <2>7. CASE o # "recv"
    <3>1. /\ \A n \in Ops \ {o} : cb'[x][n] = cb[x][n]
          /\ \A y \in Handles \ {x} : cb'[y] = cb[y]
      BY ZenonT(60), <2>5, SetCb
    <3>2. \A z \in Handles : cb'[z]["recv"] = cb[z]["recv"]
      BY <2>7, <3>1, OpNames
    <3>. QED
      BY <2>4, <2>5, <3>2 DEF Quiet, CallbackMoves, TriggersMove
  <2>. QED
    BY <2>6, <2>7
<1>. QED
  BY <1>2, <1>3, <1>4, <1>5, <1>6

LEMMA MovesTrigger ==
    ASSUME TypeOK, NEW t \in Triggers, NEW r, trig' = [trig EXCEPT ![t].at = r],
           trig[t].at # "idle", SameRequests,
           UNCHANGED <<op, cb, pending, posting, unpost>>
    PROVE  Quiet
<1>1. trig \in [Triggers -> TriggerType]
  BY ZenonT(60) DEF TypeOK
<1>2. \A v \in Triggers \ {t} : trig'[v] = trig[v]
  BY <1>1
<1>. QED
  BY <1>2 DEF Quiet, CallbackMoves, TriggersMove

LEMMA TriggerQuiet ==
    ASSUME TypeOK, NEW t \in Triggers, NEW x \in Handles, TriggerStep(t, x),
           ~TriggerDestroy(t, x)
    PROVE  Quiet
<1>1. hd[x] \in HandleType
  BY HandleTypes
<1>2. CASE ProcessNoEntry(t, x) \/ ProcessReturns(t, x) \/ TriggerGoesOn(t, x)
             \/ RespondErrorDone(t, x)
  <2>1. trig[t].at # "idle" /\ UNCHANGED <<hd, op, cb, pending, posting, unpost>>
    BY SMTT(60), <1>2 DEF ProcessNoEntry, ProcessReturns, TriggerGoesOn, RespondErrorDone
  <2>2. PICK r : trig' = [trig EXCEPT ![t].at = r]
    BY ZenonT(60), <1>2 DEF ProcessNoEntry, ProcessReturns, TriggerGoesOn, RespondErrorDone
  <2>3. SameRequests
    BY <2>1 DEF SameRequests
  <2>. QED
    BY ZenonT(60), <2>1, <2>2, <2>3, MovesTrigger
<1>3. CASE Process(t, x) \/ ProcessFails(t, x)
  <2>1. trig[t].at # "idle" /\ UNCHANGED <<op, cb, pending, posting, unpost>>
    BY SMTT(60), <1>3 DEF Process, ProcessFails
  <2>2. PICK r : trig' = [trig EXCEPT ![t].at = r]
    BY ZenonT(60), <1>3 DEF Process, ProcessFails
  <2>3. PICK n, g : g = [hd[x] EXCEPT !.ref_count = n] /\ hd' = [hd EXCEPT ![x] = g]
    BY ZenonT(60), <1>3 DEF Process, ProcessFails
  <2>4. g.life = hd[x].life /\ g.req = hd[x].req /\ g.repost = hd[x].repost
    BY ZenonT(60), <1>1, <2>3 DEF HandleType
  <2>5. SameRequests
    BY ZenonT(60), <2>3, <2>4, SetFields
  <2>. QED
    BY ZenonT(60), <2>1, <2>2, <2>5, MovesTrigger
<1>4. CASE RespondError(t, x)
  <2>1. trig[t].at # "idle" /\ UNCHANGED <<op, cb, pending, posting, unpost>>
    BY SMTT(60), <1>4 DEF RespondError
  <2>2. trig' = [trig EXCEPT ![t].at = "respond"]
    BY ZenonT(60), <1>4 DEF RespondError
  <2>3. PICK g : g = Responding(hd[x]) /\ hd' = [hd EXCEPT ![x] = g]
    BY ZenonT(60), <1>4 DEF RespondError
  <2>4. g.life = hd[x].life /\ g.req = hd[x].req /\ g.repost = hd[x].repost
    BY ZenonT(60), <1>1, <2>3 DEF HandleType, Responding
  <2>5. SameRequests
    BY ZenonT(60), <2>3, <2>4, SetFields
  <2>. QED
    BY ZenonT(60), <2>1, <2>2, <2>5, MovesTrigger
<1>5. CASE NoRespond(t, x)
  <2>1. trig[t].at # "idle" /\ UNCHANGED <<op, cb, pending, posting, unpost>>
    BY <1>5 DEF NoRespond
  <2>2. trig' = [trig EXCEPT ![t].at = "destroy"]
    BY ZenonT(60), <1>5 DEF NoRespond
  <2>3. PICK g : g = [hd[x] EXCEPT !.op_type = "NO_RESPOND"] /\ Complete(x, g, "SUCCESS")
    BY ZenonT(60), <1>5 DEF NoRespond
  <2>4. /\ g \in HandleType /\ g.life = hd[x].life /\ g.req = hd[x].req
        /\ g.repost = hd[x].repost
    BY ZenonT(60), <1>1, <2>3 DEF HandleType
  <2>5. SameRequests
    BY ZenonT(60), <2>3, <2>4, CompleteFields
  <2>. QED
    BY ZenonT(60), <2>1, <2>2, <2>5, MovesTrigger
<1>. QED
  BY <1>2, <1>3, <1>4, <1>5 DEF TriggerStep

LEMMA PopQuiet ==
    ASSUME IInv, NEW t \in Triggers, TriggerPop(t)
    PROVE  Quiet
<1>1. TypeOK /\ queue \in Seq(Handles)
  BY ZenonT(60) DEF IInv, TypeOK
<1>2. PICK x : x = Head(queue)
  OBVIOUS
<1>3. x \in Handles
  BY SMTT(60), <1>1, <1>2 DEF TriggerPop
<1>4. PICK s, n, g : /\ g = [hd[x] EXCEPT !.status = s, !.ref_count = n]
                     /\ hd' = [hd EXCEPT ![x] = g]
  BY ZenonT(60), <1>2 DEF TriggerPop
<1>5. g.life = hd[x].life /\ g.req = hd[x].req /\ g.repost = hd[x].repost
  <2>1. hd[x] \in HandleType
    BY <1>1, <1>3, HandleTypes
  <2>. QED
    BY ZenonT(60), <1>4, <2>1 DEF HandleType
<1>6. SameRequests
  BY ZenonT(60), <1>1, <1>3, <1>4, <1>5, SetFields
<1>7. ThreadFree /\ UNCHANGED <<op, cb, pending, posting, unpost>>
  BY DEF TriggerPop
<1>8. \A v \in Triggers \ {t} : trig'[v] = trig[v]
  <2>1. PICK w : trig' = [trig EXCEPT ![t] = w]
    BY ZenonT(60) DEF TriggerPop
  <2>2. trig \in [Triggers -> TriggerType]
    BY ZenonT(60), <1>1 DEF TypeOK
  <2>. QED
    BY <2>1, <2>2
<1>. QED
  BY <1>6, <1>7, <1>8 DEF Quiet, CallbackMoves, TriggersMove

(* What hg_core_destroy does to x: the last reference frees it while the    *)
(* context is unposted, and is followed by the repost otherwise.            *)
LEMMA DropFields ==
    ASSUME IInv, NEW x \in Handles, Exchanging(x), NEW who \in {"user"} \cup Triggers,
           Dropped(x, hd[x], who)
    PROVE  /\ \A z \in Handles \ {x} : hd'[z] = hd[z] /\ posting'[z] = posting[z]
           /\ hd'[x].repost = hd[x].repost /\ hd'[x].req = hd[x].req
           /\ \/ posting' = posting /\ (hd'[x].life = hd[x].life \/ finalizing)
              \/ /\ hd[x].ref_count = 1 /\ ~finalizing
                 /\ posting'[x] = who /\ posting'[x] # "no"
<1>1. TypeOK /\ FinalInv /\ hd[x].ref_count # 0 /\ who # "no"
  BY NamesAssumption DEF IInv, Exchanging, Counted
<1>2. PICK g \in HandleType : g = hd[x]
  BY <1>1, HandleTypes
<1>3. Dropped(x, g, who) /\ g.ref_count # 0
  BY <1>1, <1>2
<1>4. CASE g.ref_count = 1
  <2>1. /\ \A y \in Handles \ {x} : hd'[y] = hd[y]
        /\ hd'[x].repost = g.repost /\ hd'[x].req = g.req
        /\ g.repost /\ ~finalizing => posting' = [posting EXCEPT ![x] = who]
        /\ ~(g.repost /\ ~finalizing) => posting' = posting
    BY <1>1, <1>3, <1>4, DroppedLast
  <2>2. CASE g.repost /\ ~finalizing
    <3>1. posting' = [posting EXCEPT ![x] = who]
      BY <2>1, <2>2
    <3>2. posting'[x] = who /\ \A y \in Handles \ {x} : posting'[y] = posting[y]
      BY <1>1, <3>1 DEF TypeOK
    <3>. QED
      BY <1>1, <1>2, <1>4, <2>1, <2>2, <3>2
  <2>3. CASE ~(g.repost /\ ~finalizing)
    BY <1>1, <1>2, <2>1, <2>3 DEF FinalInv
  <2>. QED
    BY <2>2, <2>3
<1>5. CASE g.ref_count # 1
  <2>1. /\ posting' = posting
        /\ \A y \in Handles \ {x} : hd'[y] = hd[y]
        /\ hd'[x].life = g.life /\ hd'[x].repost = g.repost /\ hd'[x].req = g.req
    BY <1>1, <1>3, <1>5, DroppedOther
  <2>. QED
    BY <1>2, <2>1
<1>. QED
  BY <1>4, <1>5

-----------------------------------------------------------------------------
(* The context listens *)

Listener(x) ==
    \/ cb[x]["recv"] \in {"check", "post"} \/ posting[x] # "no"
    \/ hd[x].life = "live" /\ hd[x].req = 0

LEMMA KeepsListening ==
    ASSUME Listening, unpost' = unpost,
           PostIncr /\ ~finalizing =>
               /\ pending # {} => pending' # {}
               /\ \A x \in Handles : Listener(x) =>
                    Listener(x)' \/ pending' # {}
    PROVE  Listening'
  BY DEF Listening, Listener, finalizing

LEMMA QuietListens ==
    ASSUME Listening, Quiet
    PROVE  Listening'
<1>1. /\ unpost' = unpost /\ pending' = pending /\ posting' = posting
      /\ \A x \in Handles : CallbackMoves(x)
      /\ \A x \in Handles : hd'[x].life = hd[x].life /\ hd'[x].req = hd[x].req
  BY DEF Quiet, SameRequests
<1>2. ASSUME PostIncr, ~finalizing, NEW x \in Handles, Listener(x)
      PROVE  Listener(x)' \/ pending' # {}
  BY <1>1, <1>2 DEF Listener, CallbackMoves
<1>. QED
  BY <1>1, <1>2, KeepsListening

LEMMA ReceiveListens ==
    ASSUME IInv, NEW x \in Handles, Receive(x)
    PROVE  Listening'
<1>1. CASE RecvInputCb(x)
  <2>1. cb' = [cb EXCEPT ![x]["recv"] = "check"]
    BY <1>1 DEF RecvInputCb, Delivered
  <2>2. cb'[x]["recv"] = "check"
    BY <2>1, OpNames DEF IInv, TypeOK, CallbacksType
  <2>. QED
    BY <2>2 DEF Listening
<1>2. CASE RecvInputFails(x)
  <2>1. TypeOK /\ Listed(x)
    BY <1>2, ListedHandle DEF RecvInputFails, Delivered
  <2>2. hd' = [hd EXCEPT ![x] = Noted(hd[x], "ERROR")] /\ "ERROR" \in Results
    BY ZenonT(60), <1>2 DEF RecvInputFails, Results
  <2>3. SameRequests
    BY ZenonT(60), <2>1, <2>2, NotedFields
  <2>4. hd'[x].life = "live" /\ hd'[x].req = 0
    BY <2>1, <2>3, ListedFields DEF Listed, SameRequests
  <2>. QED
    BY <2>4 DEF Listening
<1>3. CASE RecvInputCanceled(x)
  BY <1>3 DEF RecvInputCanceled, IInv, FinalInv, Listening, finalizing
<1>. QED
  BY <1>1, <1>2, <1>3 DEF Receive

LEMMA PostListens ==
    ASSUME IInv, NEW x \in Handles,
           Post(x) \/ ContextPost(x) \/ \E y \in Handles : ContextPostFails(x, y)
    PROVE  Listening'
<1>1. CASE ResetPost(x)
  BY <1>1 DEF ResetPost, Listening
<1>2. CASE PostRecv(x)
  BY <1>2 DEF PostRecv, Listening
<1>3. CASE PostFails(x)
  <2>1. /\ \/ hd'[x].life = "freed" /\ posting'[x] = "no" /\ finalizing
           \/ hd'[x].life = "live" /\ hd'[x].ref_count = 0 /\ posting'[x] = posting[x]
           \/ hd'[x] = hd[x] /\ posting'[x] = "no"
        /\ unpost' = unpost /\ posting[x] # "no" /\ x \in pending
    BY <1>3, PostFailed, NamesAssumption DEF PostFails
  <2>2. hd[x].life = "live" /\ hd[x].req = 0
    BY <2>1, PostedHandle, ListedFields DEF Listed
  <2>. QED
    BY <2>1, <2>2 DEF Listening, finalizing
<1>4. CASE ContextPost(x)
  BY <1>4 DEF ContextPost, Listening
<1>5. CASE \E y \in Handles : ContextPostFails(x, y)
  BY <1>5 DEF ContextPostFails, Listening, finalizing
<1>. QED
  BY <1>1, <1>2, <1>3, <1>4, <1>5 DEF Post

LEMMA DropListens ==
    ASSUME IInv, Listening, NEW x \in Handles, Exchanging(x),
           NEW who \in {"user"} \cup Triggers, Dropped(x, hd[x], who),
           UNCHANGED <<cb, pending, unpost>>
    PROVE  Listening'
<1>1. /\ \A z \in Handles \ {x} : hd'[z] = hd[z] /\ posting'[z] = posting[z]
      /\ hd'[x].req = hd[x].req
      /\ \/ posting' = posting /\ (hd'[x].life = hd[x].life \/ finalizing)
         \/ posting'[x] # "no"
  BY ZenonT(60), DropFields
<1>2. ASSUME ~finalizing, NEW z \in Handles, Listener(z)
      PROVE  Listener(z)'
  BY <1>1, <1>2 DEF Listener
<1>. QED
  BY <1>2, KeepsListening

LEMMA HandleListens ==
    ASSUME IInv, Listening, NEW x \in Handles,
           \/ Post(x) \/ Receive(x) \/ Callback(x) \/ Responded(x) \/ RespondStep(x)
           \/ UserStep(x) \/ Cancel(x)
    PROVE  Listening'
<1>1. TypeOK
  BY DEF IInv
<1>2. CASE Post(x) \/ Receive(x)
  BY <1>2, PostListens, ReceiveListens
<1>3. CASE Callback(x)
  <2>1. CASE ContextPost(x) \/ \E y \in Handles : ContextPostFails(x, y)
    BY <2>1, PostListens
  <2>2. CASE ~(ContextPost(x) \/ \E y \in Handles : ContextPostFails(x, y))
    <3>1. Quiet
      BY ZenonT(60), <1>1, <1>3, <2>2, CallbackQuiet DEF Callback
    <3>. QED
      BY <3>1, QuietListens
  <2>. QED
    BY <2>1, <2>2
<1>4. CASE Responded(x)
  BY <1>1, <1>4, RespondedQuiet, QuietListens
<1>5. CASE Respond(x) \/ RespondRefused(x) \/ RespondStep(x) \/ Cancel(x)
  BY <1>1, <1>5, RespondQuiet, QuietListens
<1>6. CASE Destroy(x)
  <2>1. /\ Exchanging(x) /\ Dropped(x, hd[x], "user")
        /\ UNCHANGED <<cb, pending, unpost>>
    BY <1>6, IsExchanging DEF Destroy, IInv
  <2>. QED
    BY <2>1, DropListens
<1>. QED
  BY <1>2, <1>3, <1>4, <1>5, <1>6 DEF UserStep

LEMMA TriggerListens ==
    ASSUME IInv, Listening, NEW t \in Triggers, Trigger(t)
    PROVE  Listening'
<1>1. CASE TriggerPop(t)
  BY <1>1, PopQuiet, QuietListens
<1>2. ASSUME NEW x \in Handles, TriggerStep(t, x), ~TriggerDestroy(t, x)
      PROVE  Listening'
  BY <1>2, TriggerQuiet, QuietListens DEF IInv
<1>3. ASSUME NEW x \in Handles, TriggerDestroy(t, x)
      PROVE  Listening'
  <2>1. t \in On(x) /\ HandleInv(x)
    BY SMTT(60), <1>3 DEF TriggerDestroy, On, IInv
  <2>2. Exchanging(x)
    BY <2>1, IsExchanging
  <2>3. Dropped(x, hd[x], t) /\ UNCHANGED <<cb, pending, unpost>>
    BY <1>3 DEF TriggerDestroy
  <2>. QED
    BY ZenonT(60), <2>2, <2>3, DropListens
<1>. QED
  BY <1>1, <1>2, <1>3 DEF Trigger

LEMMA NextListens ==
    ASSUME IInv, Listening, [Next]_vars
    PROVE  Listening'
<1>1. CASE UNCHANGED vars \/ Finished
  BY <1>1 DEF Finished, vars, Listening, finalizing
<1>2. CASE Unpost \/ UnpostCancel
  BY <1>2 DEF Unpost, UnpostCancel, Listening, finalizing
<1>. QED
  BY <1>1, <1>2, HandleListens, TriggerListens DEF Next

-----------------------------------------------------------------------------
(* One thread *)

(* Nothing starts: no handle is posted, no callback and no trigger begins. *)
LEMMA NothingStarts ==
    ASSUME OneThread, unpost' = unpost,
           \A x \in Handles : posting'[x] \in {posting[x], "no"},
           \A x \in Handles : ~finalizing /\ InCallback(x)' => InCallback(x),
           \A x \in Handles : finalizing /\ cb'[x]["recv"] = "post" =>
               cb[x]["recv"] = "post",
           \A t \in Triggers : trig'[t].at # "idle" => trig[t].at # "idle",
           \A x \in Handles : hd[x].repost => hd'[x].repost
    PROVE  OneThread'
  BY DEF OneThread, finalizing

(* What a free thread finds. *)
LEMMA FreeThread ==
    ASSUME "threads" \notin Races, TypeOK, ThreadFree
    PROVE  /\ \A y \in Handles : posting[y] = "no" /\ ~InCallback(y)
           /\ \A t \in Triggers : trig[t].at = "idle"
           /\ unpost # "cancel"
  BY OpNames DEF ThreadFree, InCallback

LEMMA QuietAlone ==
    ASSUME "threads" \notin Races, TypeOK, UInv, Quiet
    PROVE  UInv'
<1>1. /\ unpost' = unpost /\ posting' = posting
      /\ \A x \in Handles : hd'[x].repost = hd[x].repost
      /\ \A x \in Handles : op'[x]["recv"] = "posted" => op[x]["recv"] = "posted"
      /\ \A x \in Handles : CallbackMoves(x)
      /\ TriggersMove /\ OneThread /\ Unposted
  BY DEF Quiet, SameRequests, UInv
<1>2. \A x \in Handles : ~finalizing /\ InCallback(x)' => InCallback(x)
  BY <1>1 DEF CallbackMoves, InCallback
<1>3. \A x \in Handles : finalizing /\ cb'[x]["recv"] = "post" =>
        cb[x]["recv"] = "post"
  BY <1>1 DEF CallbackMoves
<1>4. OneThread'
  <2>1. CASE \A t \in Triggers : trig'[t].at # "idle" => trig[t].at # "idle"
    BY <1>1, <1>2, <1>3, <2>1, NothingStarts
  <2>2. CASE ThreadFree /\ \E t \in Triggers : \A v \in Triggers \ {t} : trig'[v] = trig[v]
    <3>1. PICK t \in Triggers : \A v \in Triggers \ {t} : trig'[v] = trig[v]
      BY <2>2
    <3>2. /\ \A y \in Handles : posting[y] = "no" /\ ~InCallback(y)
          /\ \A v \in Triggers : trig[v].at = "idle"
      BY <2>2, FreeThread
    <3>3. \A v \in Triggers : trig'[v].at # "idle" => v = t
      BY <3>1, <3>2
    <3>. QED
      BY <1>1, <1>2, <1>3, <3>2, <3>3 DEF OneThread, finalizing
  <2>. QED
    BY <1>1, <2>1, <2>2 DEF TriggersMove
<1>5. Unposted'
  BY <1>1 DEF Unposted
<1>. QED
  BY <1>4, <1>5 DEF UInv

LEMMA ReceiveAlone ==
    ASSUME "threads" \notin Races, IInv, UInv, NEW x \in Handles, Receive(x)
    PROVE  UInv'
<1>1. TypeOK /\ OneThread /\ Unposted /\ ThreadFree
  BY DEF IInv, UInv, Receive, RecvInputCb, RecvInputFails, RecvInputCanceled, Delivered
<1>2. /\ \A y \in Handles : posting[y] = "no" /\ ~InCallback(y)
      /\ \A t \in Triggers : trig[t].at = "idle"
  BY <1>1, FreeThread
<1>3. PICK next : /\ op' = [op EXCEPT ![x]["recv"] = "idle"]
                  /\ cb' = [cb EXCEPT ![x]["recv"] = next]
                  /\ next \in {"check", "finish", "none"}
                  /\ trig' = trig /\ unpost' = unpost
  BY DEF Receive, RecvInputCb, RecvInputFails, RecvInputCanceled, Delivered
<1>4. /\ cb'[x]["recv"] = next
      /\ \A y \in Handles \ {x} : cb'[y]["recv"] = cb[y]["recv"]
      /\ \A y \in Handles : op'[y]["recv"] = "posted" => op[y]["recv"] = "posted"
  BY <1>1, <1>3, OpNames DEF TypeOK, OpsType, CallbacksType
<1>5. Unposted'
  BY <1>1, <1>3, <1>4 DEF Unposted
<1>6. CASE RecvInputCanceled(x)
  <2>1. finalizing /\ Dropped(x, [hd[x] EXCEPT !.status = @ \cup {"COMPLETED"}], "user")
    BY <1>6 DEF RecvInputCanceled, IInv, FinalInv
  <2>2. posting' = posting
    BY <2>1 DEF Dropped
  <2>3. unpost = "wait"
    BY <1>1, <1>2, <2>1, FreeThread DEF TypeOK, finalizing
  <2>. QED
    BY <1>1, <1>2, <1>3, <1>4, <1>5, <2>2, <2>3 DEF UInv, OneThread, finalizing,
       InCallback
<1>7. CASE RecvInputCb(x) \/ RecvInputFails(x)
  <2>1. posting' = posting
    BY <1>7 DEF RecvInputCb, RecvInputFails
  <2>2. hd'[x].repost = hd[x].repost /\ \A y \in Handles \ {x} : hd'[y] = hd[y]
    <3>1. CASE RecvInputCb(x)
      <4>1. PICK g : g = [hd[x] EXCEPT !.req = seen'] /\ hd' = [hd EXCEPT ![x] = g]
        BY ZenonT(60), <3>1 DEF RecvInputCb
      <4>2. g.repost = hd[x].repost
        BY ZenonT(60), <1>1, HandleTypes, <4>1 DEF HandleType
      <4>. QED
        BY <1>1, <4>1, <4>2 DEF TypeOK
    <3>2. CASE RecvInputFails(x)
      <4>1. hd' = [hd EXCEPT ![x] = Noted(hd[x], "ERROR")] /\ "ERROR" \in Results
        BY ZenonT(60), <3>2 DEF RecvInputFails, Results
      <4>2. SameRequests
        BY ZenonT(60), <1>1, <4>1, NotedFields
      <4>3. \A y \in Handles \ {x} : hd'[y] = hd[y]
        BY <1>1, <4>1 DEF TypeOK
      <4>. QED
        BY <4>2, <4>3 DEF SameRequests
    <3>. QED
      BY <1>7, <3>1, <3>2
  <2>3. \A y \in Handles : InCallback(y)' => y = x
    BY <1>2, <1>4 DEF InCallback
  <2>4. \A y \in Handles : cb'[y]["recv"] # "post"
    BY <1>2, <1>3, <1>4 DEF InCallback
  <2>. QED
    BY <1>1, <1>2, <1>3, <1>5, <2>1, <2>2, <2>3, <2>4 DEF UInv, OneThread, finalizing
<1>. QED
  BY <1>6, <1>7 DEF Receive

LEMMA PostAlone ==
    ASSUME IInv, UInv, NEW x \in Handles, Post(x)
    PROVE  UInv'
<1>1. /\ TypeOK /\ OneThread /\ Unposted /\ posting[x] # "no"
      /\ cb' = cb /\ trig' = trig /\ unpost' = unpost
  BY NamesAssumption DEF IInv, UInv, Post, ResetPost, PostRecv, PostFails
<1>2. ~finalizing
  BY <1>1 DEF OneThread
<1>3. Unposted'
  BY <1>1, <1>2 DEF Unposted, finalizing
<1>4. /\ \A z \in Handles : posting'[z] \in {posting[z], "no"}
      /\ \A z \in Handles : hd[z].repost => hd'[z].repost
  <2>1. CASE ResetPost(x)
    <3>1. hd' = [hd EXCEPT ![x] = Fresh] /\ posting' = posting
      BY <2>1 DEF ResetPost
    <3>2. \A z \in Handles : hd'[z] = IF z = x THEN Fresh ELSE hd[z]
      BY <1>1, <3>1 DEF TypeOK
    <3>. QED
      BY <3>1, <3>2, FreshFields
  <2>2. CASE PostRecv(x)
    BY <1>1, <2>2 DEF PostRecv, TypeOK
  <2>3. CASE PostFails(x)
    <3>1. /\ \A z \in Handles \ {x} : hd'[z] = hd[z] /\ posting'[z] = posting[z]
          /\ hd'[x].repost = hd[x].repost
          /\ \/ posting'[x] = "no" \/ posting'[x] = posting[x]
      BY <2>3, PostFailed
    <3>. QED
      BY <3>1
  <2>. QED
    BY <2>1, <2>2, <2>3 DEF Post
<1>5. \A z \in Handles : InCallback(z)' <=> InCallback(z)
  BY <1>1 DEF InCallback
<1>6. OneThread'
  BY <1>1, <1>4, <1>5, NothingStarts
<1>. QED
  BY <1>3, <1>6 DEF UInv

LEMMA ContextPostAlone ==
    ASSUME IInv, UInv, NEW x \in Handles, ContextPost(x)
    PROVE  UInv'
<1>1. PICK y \in Handles :
        /\ cb[x]["recv"] = "post" /\ hd' = [hd EXCEPT ![y] = Fresh]
        /\ posting' = [posting EXCEPT ![y] = x]
        /\ cb' = [cb EXCEPT ![x]["recv"] = "input"]
        /\ trig' = trig /\ unpost' = unpost
  BY ZenonT(60) DEF ContextPost
<1>2. TypeOK /\ PostingInv /\ OneThread /\ Unposted /\ InCallback(x)
  BY <1>1 DEF IInv, UInv, InCallback
<1>3. ~finalizing /\ x # "no"
  BY <1>1, <1>2, NamesAssumption DEF OneThread
<1>4. \A z \in Handles : posting[z] = "no"
  <2>1. SUFFICES ASSUME NEW z \in Handles, posting[z] # "no" PROVE FALSE
    OBVIOUS
  <2>2. posting[z] = x
    BY <1>2, <1>3, <2>1 DEF OneThread
  <2>. QED
    BY <1>1, <1>2, <2>2 DEF PostingInv
<1>5. /\ \A t \in Triggers : trig[t].at = "idle"
      /\ \A z \in Handles : InCallback(z) => z = x
      /\ \A z \in Handles : hd[z].repost
  BY <1>2, <1>3 DEF OneThread, finalizing
<1>6. /\ posting'[y] = x /\ \A z \in Handles \ {y} : posting'[z] = "no"
      /\ \A z \in Handles : InCallback(z)' => z = x
  BY <1>1, <1>2, <1>4, <1>5, OpNames DEF TypeOK, CallbacksType, InCallback
<1>7. \A z \in Handles : hd'[z].repost
  <2>1. \A z \in Handles : hd'[z] = IF z = y THEN Fresh ELSE hd[z]
    BY <1>1, <1>2 DEF TypeOK
  <2>. QED
    BY <1>5, <2>1, FreshFields
<1>8. OneThread'
  BY <1>1, <1>3, <1>5, <1>6, <1>7 DEF OneThread, finalizing
<1>9. Unposted'
  BY <1>1, <1>3 DEF Unposted, finalizing
<1>. QED
  BY <1>8, <1>9 DEF UInv

LEMMA ContextPostFailsAlone ==
    ASSUME IInv, UInv, NEW x \in Handles, NEW y \in Handles, ContextPostFails(x, y)
    PROVE  UInv'
<1>1. /\ posting[y] = x /\ posting' = [posting EXCEPT ![y] = "no"]
      /\ cb' = [cb EXCEPT ![x]["recv"] = "stop"]
      /\ unpost' = "cancel" /\ hd' = hd
  BY DEF ContextPostFails
<1>2. TypeOK /\ PostingInv /\ OneThread /\ x # "no"
  BY NamesAssumption DEF IInv, UInv
<1>3. ~finalizing /\ cb[x]["recv"] = "input"
  BY <1>1, <1>2 DEF OneThread, PostingInv
<1>4. /\ \A z \in Handles : posting[z] # "no" => z = y
      /\ \A z \in Handles : InCallback(z) => z = x
      /\ \A z \in Handles : hd[z].repost
  BY <1>1, <1>2, <1>3 DEF OneThread, finalizing, InCallback
<1>5. \A z \in Handles : posting'[z] = "no"
  BY <1>1, <1>2, <1>4 DEF TypeOK
<1>6. \A z \in Handles : cb'[z]["recv"] # "post"
  BY <1>1, <1>2, <1>4, OpNames DEF TypeOK, CallbacksType, InCallback
<1>7. OneThread'
  BY <1>1, <1>4, <1>5, <1>6 DEF OneThread, finalizing
<1>8. Unposted'
  BY <1>1 DEF Unposted
<1>. QED
  BY <1>7, <1>8 DEF UInv

LEMMA DropAlone ==
    ASSUME IInv, UInv, NEW x \in Handles, Exchanging(x),
           NEW who \in {"user"} \cup Triggers, Dropped(x, hd[x], who),
           UNCHANGED <<op, cb, unpost>>,
           \A t \in Triggers : trig'[t].at # "idle" => trig[t].at # "idle",
           hd[x].ref_count = 1 /\ ~finalizing =>
               /\ \A y \in Handles : posting[y] = "no" /\ ~InCallback(y)
               /\ \A t \in Triggers : trig'[t].at = "idle"
    PROVE  UInv'
<1>1. /\ \A z \in Handles \ {x} : hd'[z] = hd[z] /\ posting'[z] = posting[z]
      /\ hd'[x].repost = hd[x].repost
      /\ \/ posting' = posting
         \/ hd[x].ref_count = 1 /\ ~finalizing /\ posting'[x] # "no"
  BY ZenonT(60), DropFields
<1>2. OneThread /\ Unposted
  BY DEF UInv
<1>3. \A z \in Handles : InCallback(z)' <=> InCallback(z)
  BY DEF InCallback
<1>4. OneThread'
  <2>1. CASE posting' = posting
    BY <1>1, <1>2, <1>3, <2>1, NothingStarts
  <2>2. CASE hd[x].ref_count = 1 /\ ~finalizing
    <3>1. /\ \A z \in Handles \ {x} : posting'[z] = "no"
          /\ \A z \in Handles : ~InCallback(z)'
          /\ \A t \in Triggers : trig'[t].at = "idle"
      BY <1>1, <1>3, <2>2
    <3>2. \A z \in Handles : hd'[z].repost
      BY <1>1, <1>2, <2>2 DEF OneThread, finalizing
    <3>. QED
      BY <2>2, <3>1, <3>2 DEF OneThread, finalizing
  <2>. QED
    BY <1>1, <2>1, <2>2
<1>5. Unposted'
  BY <1>2 DEF Unposted
<1>. QED
  BY <1>4, <1>5 DEF UInv

LEMMA DestroyAlone ==
    ASSUME SetFacts, "threads" \notin Races, IInv, UInv, NEW x \in Handles, Destroy(x)
    PROVE  UInv'
<1>1. /\ user[x].ref /\ UserFree(x) /\ Dropped(x, hd[x], "user")
      /\ UNCHANGED <<op, cb, unpost>> /\ trig' = trig
  BY DEF Destroy
<1>2. TypeOK /\ Exchanging(x)
  BY <1>1, IsExchanging DEF IInv
<1>3. ASSUME hd[x].ref_count = 1
      PROVE  On(x) = {}
  <2>1. /\ IsFiniteSet(On(x)) /\ Cardinality(On(x)) \in Nat
        /\ hd[x].ref_count = Tokens(x)
    BY <1>2 DEF Exchanging, Counted, SetFacts, CountFact
  <2>2. Cardinality(On(x)) = 0
    BY SMTT(60), <1>1, <1>3, <2>1 DEF Tokens, Bit
  <2>. QED
    BY <2>1, <2>2 DEF SetFacts, EmptyFact
<1>4. hd[x].ref_count = 1 => ThreadFree
  BY SMTT(60), <1>1, <1>3 DEF UserFree, On
<1>5. hd[x].ref_count = 1 =>
        /\ \A y \in Handles : posting[y] = "no" /\ ~InCallback(y)
        /\ \A t \in Triggers : trig'[t].at = "idle"
  BY <1>1, <1>2, <1>4, FreeThread
<1>. QED
  BY ZenonT(60), <1>1, <1>2, <1>5, DropAlone

LEMMA TriggerDestroyAlone ==
    ASSUME IInv, UInv, NEW t \in Triggers, NEW x \in Handles, TriggerDestroy(t, x)
    PROVE  UInv'
<1>1. /\ trig[t] = [at |-> "destroy", on |-> {x}] /\ Dropped(x, hd[x], t)
      /\ UNCHANGED <<op, cb, unpost>>
      /\ trig' = [trig EXCEPT ![t] = [at |-> "idle", on |-> {}]]
  BY DEF TriggerDestroy
<1>2. TypeOK /\ Exchanging(x) /\ OneThread
  <2>1. t \in On(x)
    BY SMTT(60), <1>1 DEF On
  <2>. QED
    BY <2>1, IsExchanging DEF IInv, UInv
<1>3. trig'[t].at = "idle" /\ \A v \in Triggers \ {t} : trig'[v] = trig[v]
  BY <1>1, <1>2 DEF TypeOK
<1>4. ~finalizing =>
        /\ \A y \in Handles : posting[y] = "no" /\ ~InCallback(y)
        /\ \A v \in Triggers : trig'[v].at = "idle"
  <2>1. trig[t].at = "destroy"
    BY SMTT(60), <1>1
  <2>2. ~finalizing =>
          /\ \A y \in Handles : posting[y] = "no" /\ ~InCallback(y)
          /\ \A v \in Triggers : trig[v].at # "idle" => v = t
    BY <1>2, <2>1 DEF OneThread
  <2>. QED
    BY <1>3, <2>2
<1>5. \A v \in Triggers : trig'[v].at # "idle" => trig[v].at # "idle"
  BY <1>3
<1>. QED
  BY ZenonT(60), <1>1, <1>2, <1>4, <1>5, DropAlone

LEMMA UnpostAlone ==
    ASSUME "threads" \notin Races, IInv, UInv, Unpost
    PROVE  UInv'
<1>1. /\ TypeOK /\ OneThread /\ ThreadFree /\ unpost = "no" /\ unpost' = "cancel"
      /\ UNCHANGED <<hd, cb, posting>>
  BY DEF Unpost, IInv, UInv
<1>2. \A y \in Handles : posting[y] = "no" /\ ~InCallback(y)
  BY <1>1, FreeThread
<1>. QED
  BY <1>1, <1>2 DEF UInv, OneThread, Unposted, finalizing, InCallback

LEMMA UnpostCancelAlone ==
    ASSUME IInv, UInv, UnpostCancel
    PROVE  UInv'
<1>1. /\ TypeOK /\ OneThread /\ unpost = "cancel" /\ unpost' = "wait"
      /\ cb' = cb /\ posting' = posting
  BY ZenonT(60) DEF IInv, UInv, UnpostCancel
<1>2. OneThread'
  BY <1>1 DEF OneThread, finalizing
<1>3. ASSUME NEW x \in Handles
      PROVE  op'[x]["recv"] # "posted"
  <2>1. op'[x] = IF x \in pending /\ Cancelable(hd[x]) THEN NA_Cancel(op[x]) ELSE op[x]
    BY ZenonT(60) DEF UnpostCancel
  <2>2. op[x]["recv"] # "idle" => x \in pending /\ Cancelable(hd[x])
    <3>1. hd[x].repost
      BY <1>1 DEF OneThread
    <3>2. op[x]["recv"] # "idle" => x \in pending /\ hd[x] \in {Fresh, Withdrawn}
      BY ListedHandle DEF Listed
    <3>. QED
      BY <3>1, <3>2, ListedFields DEF Cancelable
  <2>3. NA_Cancel(op[x])["recv"] # "posted"
    BY OpNames DEF NA_Cancel
  <2>. QED
    BY <2>1, <2>2, <2>3
<1>. QED
  BY <1>2, <1>3 DEF UInv, Unposted

LEMMA HandleAlone ==
    ASSUME SetFacts, "threads" \notin Races, IInv, UInv, NEW x \in Handles,
           \/ Post(x) \/ Receive(x) \/ Callback(x) \/ Responded(x) \/ RespondStep(x)
           \/ UserStep(x) \/ Cancel(x)
    PROVE  UInv'
<1>1. TypeOK
  BY DEF IInv
<1>2. CASE Post(x) \/ Receive(x)
  BY <1>2, PostAlone, ReceiveAlone
<1>3. CASE Callback(x)
  <2>1. CASE ContextPost(x) \/ \E y \in Handles : ContextPostFails(x, y)
    BY <2>1, ContextPostAlone, ContextPostFailsAlone
  <2>2. CASE ~(ContextPost(x) \/ \E y \in Handles : ContextPostFails(x, y))
    <3>1. Quiet
      BY ZenonT(60), <1>1, <1>3, <2>2, CallbackQuiet DEF Callback
    <3>. QED
      BY <1>1, <3>1, QuietAlone
  <2>. QED
    BY <2>1, <2>2
<1>4. CASE Responded(x)
  BY <1>1, <1>4, RespondedQuiet, QuietAlone
<1>5. CASE Respond(x) \/ RespondRefused(x) \/ RespondStep(x) \/ Cancel(x)
  BY <1>1, <1>5, RespondQuiet, QuietAlone
<1>6. CASE Destroy(x)
  BY <1>6, DestroyAlone
<1>. QED
  BY <1>2, <1>3, <1>4, <1>5, <1>6 DEF UserStep

LEMMA TriggerAlone ==
    ASSUME "threads" \notin Races, IInv, UInv, NEW t \in Triggers, Trigger(t)
    PROVE  UInv'
<1>1. CASE TriggerPop(t)
  BY <1>1, PopQuiet, QuietAlone DEF IInv
<1>2. ASSUME NEW x \in Handles, TriggerStep(t, x), ~TriggerDestroy(t, x)
      PROVE  UInv'
  BY <1>2, TriggerQuiet, QuietAlone DEF IInv
<1>. QED
  BY <1>1, <1>2, TriggerDestroyAlone DEF Trigger

LEMMA NextAlone ==
    ASSUME SetFacts, "threads" \notin Races, IInv, UInv, [Next]_vars
    PROVE  UInv'
<1>1. CASE UNCHANGED vars \/ Finished
  <2>1. UNCHANGED vars
    BY <1>1 DEF Finished
  <2>. QED
    BY <2>1 DEF vars, UInv, OneThread, Unposted, finalizing, InCallback
<1>. QED
  BY <1>1, HandleAlone, TriggerAlone, UnpostAlone, UnpostCancelAlone DEF Next

-----------------------------------------------------------------------------
(* What the invariant says *)

LEMMA InvRepostUnused ==
    ASSUME IInv
    PROVE  RepostUnused
<1>1. SUFFICES ASSUME NEW x \in Handles,
                      x \in pending \/ posting[x] # "no" \/ hd[x].life # "live"
               PROVE  ~InUse(x)
  BY DEF RepostUnused
<1>2. Gone(x) \/ Returning(x) \/ Listed(x)
  BY <1>1, ListedFields DEF IInv, HandleInv, Forsaken, Receiving, Received, Exchanging,
     NoRequest
<1>3. Apart(x) /\ x \notin more /\ ~Queued(x)
  BY <1>2 DEF Gone, Returning, Listed, NoRequest
<1>. QED
  BY <1>3 DEF Apart, NoResponse, On, InUse, InRespond, Outstanding, Triggered

LEMMA InvReplyToOwn ==
    ASSUME IInv
    PROVE  ReplyToOwn
  BY DEF IInv, OwnRequest, ReplyToOwn, InRespond

LEMMA InvPending ==
    ASSUME IInv
    PROVE  PendingIsPosted
  BY IsListed DEF IInv, Listed, PendingIsPosted

LEMMA InvNoLostHandle ==
    ASSUME SetFacts, IInv
    PROVE  NoLostHandle
<1>1. SUFFICES ASSUME NEW x \in Handles, hd[x].life = "live"
               PROVE  \/ posting[x] # "no" \/ Outstanding(x, "recv")
                      \/ Outstanding(x, "send") \/ Outstanding(x, "ack")
                      \/ x \in more \/ Queued(x) \/ Triggered(x)
                      \/ user[x].ref /\ user[x].respond # "sent"
                      \/ InRespond(x) \/ GivenUp(x)
  BY DEF NoLostHandle
<1>2. CASE Returning(x) \/ Listed(x) \/ Forsaken(x) \/ Receiving(x) \/ Received(x)
  BY <1>2, NamesAssumption DEF Returning, Listed, Forsaken, Receiving, Stage, Received,
     NoRequest, Outstanding, GivenUp
<1>3. CASE Exchanging(x)
  <2>1. On(x) # {} \/ Queued(x) \/ user[x].ref \/ Unanswered(x)
    <3>1. On(x) = {} => Cardinality(On(x)) = 0
      BY DEF SetFacts, EmptyFact
    <3>2. hd[x].ref_count = Tokens(x) /\ hd[x].ref_count # 0
      BY <1>3 DEF Exchanging, Counted
    <3>. QED
      BY SMTT(60), <3>1, <3>2 DEF Tokens, Bit
  <2>2. Triggered(x) <=> On(x) # {}
    BY DEF Triggered, On
  <2>3. user[x].respond = "sent" =>
          Queued(x) \/ Outstanding(x, "send") \/ Outstanding(x, "ack")
    BY <1>3 DEF Exchanging, Responses, NoResponse, Outstanding
  <2>4. user[x].respond = "owed" => user[x].ref
    BY <1>3 DEF Exchanging, Responses
  <2>. QED
    BY <2>1, <2>2, <2>3, <2>4 DEF Unanswered, At, InRespond
<1>. QED
  BY <1>1, <1>2, <1>3 DEF IInv, HandleInv, Gone

LEMMA InitListens == Init => Listening
  BY PostAssumption DEF Init, Listening

LEMMA InitAlone == Init => UInv
<1>1. SUFFICES ASSUME Init PROVE UInv
  OBVIOUS
<1>2. \A x \in Handles :
        posting[x] = "no" /\ cb[x]["recv"] = "none" /\ hd[x].repost
  <2>1. ASSUME NEW x \in Handles
        PROVE  hd[x].repost
    <3>1. hd[x] \in {Fresh, [Fresh EXCEPT !.life = "none"]}
      BY ZenonT(60), <1>1 DEF Init
    <3>2. [Fresh EXCEPT !.life = "none"].repost = Fresh.repost
      BY ZenonT(60), FreshTypes DEF HandleType
    <3>. QED
      BY ZenonT(60), <3>1, <3>2, FreshFields
  <2>2. \A x \in Handles : posting[x] = "no" /\ cb[x]["recv"] = "none"
    BY ZenonT(60), <1>1, OpNames DEF Init
  <2>. QED
    BY <2>1, <2>2
<1>3. unpost = "no" /\ \A t \in Triggers : trig[t].at = "idle"
  BY <1>1 DEF Init
<1>. QED
  BY <1>2, <1>3 DEF UInv, OneThread, Unposted, finalizing, InCallback

-----------------------------------------------------------------------------
(* The theorems *)

INSTANCE FiniteSetTheorems

LEMMA SetFactsHold == SetFacts
<1>1. EmptyFact /\ SingletonFact
  BY FS_EmptySet, FS_Singleton DEF EmptyFact, SingletonFact
<1>2. CountFact /\ SubsetFact
  BY FS_CardinalityType, FS_Subset DEF CountFact, SubsetFact
<1>3. AddFact
  BY FS_AddElement DEF AddFact
<1>4. RemoveFact
  BY FS_RemoveElement DEF RemoveFact
<1>5. IntervalFact
  BY FS_Interval DEF IntervalFact
<1>. QED
  BY <1>1, <1>2, <1>3, <1>4, <1>5 DEF SetFacts

LEMMA Invariance ==
    ASSUME Disciplined
    PROVE  Spec => []IInv
<1>1. Init => IInv
  BY SetFactsHold, InitInv
<1>2. IInv /\ [Next]_vars => IInv'
  BY SetFactsHold, NextInv
<1>. QED
  BY <1>1, <1>2, PTL DEF Spec

(* A handle is in the pending list, is reposted or freed only when nobody   *)
(* uses it: hg_core_destroy, for any handles and threads, also while the    *)
(* context is unposted and receives cannot be posted.                       *)
THEOREM RepostIsUnused ==
    ASSUME Disciplined
    PROVE  Spec => []RepostUnused
<1>1. IInv => RepostUnused
  BY InvRepostUnused
<1>. QED
  BY Invariance, <1>1, PTL

(* The response is about the request that the user was called with:         *)
(* hg_core_reset_post does not replace it before the response is complete.  *)
THEOREM RepliesToOwn ==
    ASSUME Disciplined
    PROVE  Spec => []ReplyToOwn
<1>1. IInv => ReplyToOwn
  BY InvReplyToOwn
<1>. QED
  BY Invariance, <1>1, PTL

(* The types, the exact pending list and that every live handle has someone *)
(* who takes it further: every reference that hg_core_destroy waits for is  *)
(* dropped by the trigger, the queue, the user or the response.             *)
THEOREM KeepsHandles ==
    ASSUME Disciplined
    PROVE  Spec => []HandlesKept
<1>1. IInv => HandlesKept
  BY SetFactsHold, InvPending, InvNoLostHandle DEF HandlesKept, IInv
<1>. QED
  BY Invariance, <1>1, PTL

(* With request_post_incr the context goes on listening until it is         *)
(* unposted (hg_core_context_check_pending).                                *)
THEOREM GoesOnListening ==
    ASSUME Disciplined
    PROVE  Spec => []Listening
<1>1. Init => Listening
  BY InitListens
<1>2. IInv /\ Listening /\ [Next]_vars => Listening'
  BY NextListens
<1>. QED
  BY Invariance, <1>1, <1>2, PTL DEF Spec

(* With one thread, hg_core_context_unpost waits only for receives that it  *)
(* has canceled.                                                            *)
THEOREM UnpostCancelsAll ==
    ASSUME Disciplined, "threads" \notin Races
    PROVE  Spec => []Unposted
<1>1. Init => UInv
  BY InitAlone
<1>2. IInv /\ UInv /\ [Next]_vars => UInv'
  BY SetFactsHold, NextAlone
<1>3. UInv => Unposted
  BY DEF UInv
<1>. QED
  BY Invariance, <1>1, <1>2, <1>3, PTL DEF Spec
=============================================================================
