------------------------ MODULE CoreTargetInvariant ------------------------
(* The inductive invariant of the handles of a listening context, for any   *)
(* handles, any trigger threads and any number of requests.                 *)
EXTENDS CoreTarget, SetSizes, TLAPS

USE ZenonT(60)

(* Requests with extra data are received by one thread, and a response that *)
(* failed is not tried again.                                               *)
Disciplined ==
    "retry" \notin Races /\ (MoreData => "threads" \notin Races)

Bit(b) == IF b THEN 1 ELSE 0

(* The trigger threads that work on x, and whether one of them is in S.     *)
On(x) == {t \in Triggers : x \in trig[t].on}
At(x, S) == \E t \in On(x) : trig[t].at \in S
Alone(x) == \A t, v \in On(x) : t = v

NoResponse(x) ==
    \A o \in {"send", "ack"} : op[x][o] = "idle" /\ cb[x][o] = "none"
NoRequest(x) ==
    /\ op[x]["recv"] = "idle" /\ cb[x]["recv"] = "none"
    /\ x \notin more /\ x \notin pending

(* Nothing of an exchange uses x, apart from the queue. *)
Apart(x) ==
    /\ ~user[x].ref /\ user[x].respond \in {"no", "done", "failed"}
    /\ NoResponse(x) /\ On(x) = {}

-----------------------------------------------------------------------------
(* The life of a handle: not there, *)
Gone(x) ==
    /\ hd[x].life # "live" /\ posting[x] = "no"
    /\ Apart(x) /\ NoRequest(x) /\ ~Queued(x)
(* about to be reset and posted, *)
Returning(x) ==
    /\ hd[x].life = "live" /\ posting[x] \in {"user"} \cup Triggers
    /\ hd[x].ref_count = 0
    /\ Apart(x) /\ NoRequest(x) /\ ~Queued(x)
(* in the pending list, *)
Listed(x) ==
    /\ x \in pending /\ hd[x] \in {Fresh, Withdrawn}
    /\ Apart(x) /\ cb[x]["recv"] = "none" /\ x \notin more /\ ~Queued(x)
    /\ op[x]["recv"] = "idle" <=> posting[x] # "no"
(* left after it could not be posted, *)
Forsaken(x) ==
    /\ "post" \in Races /\ hd[x] \in {Fresh, Withdrawn} /\ posting[x] = "no"
    /\ Apart(x) /\ NoRequest(x) /\ ~Queued(x)
(* with a request that is received, in the callback or with extra data, *)
Stage(x) ==
    \/ /\ cb[x]["recv"] \in {"check", "post", "input", "finish", "stop"}
       /\ x \notin more /\ hd[x].na_op_completed_count = 0
    \/ /\ cb[x]["recv"] = "defer" /\ x \in more /\ MoreData
       /\ hd[x].na_op_completed_count = 0
    \/ /\ cb[x]["recv"] = "none" /\ x \in more /\ MoreData
       /\ hd[x].na_op_completed_count = 1
Receiving(x) ==
    /\ hd[x].life = "live" /\ posting[x] = "no"
    /\ hd[x].ref_count = 1 /\ hd[x].na_op_count = 1 /\ hd[x].op_type = "PROCESS"
    /\ Apart(x) /\ op[x]["recv"] = "idle" /\ x \notin pending /\ ~Queued(x)
    /\ Stage(x)
(* with one that is queued, *)
Received(x) ==
    /\ hd[x].life = "live" /\ posting[x] = "no"
    /\ hd[x].ref_count = 1 /\ hd[x].op_type = "PROCESS"
    /\ hd[x].na_op_count = 1 /\ hd[x].na_op_completed_count = 1
    /\ Apart(x) /\ NoRequest(x) /\ Queued(x)

(* and with one that was taken from the queue. The reference of the         *)
(* response is still there: *)
Unanswered(x) ==
    \/ At(x, {"process", "error"})
    \/ hd[x].no_response /\ At(x, {"called", "returned"})
    \/ /\ ~hd[x].no_response
       /\ \/ user[x].respond \in {"owed", "ack", "send", "send_ack"}
          \/ user[x].respond = "sent" /\ ~Queued(x)

(* The references are those of the triggers, of the queue, of the user and  *)
(* of the response.                                                         *)
Tokens(x) ==
    Cardinality(On(x)) + Bit(Queued(x)) + Bit(user[x].ref) + Bit(Unanswered(x))
Counted(x) ==
    IsFiniteSet(On(x)) /\ hd[x].ref_count = Tokens(x) /\ hd[x].ref_count # 0

Counts(x, n, c) ==
    hd[x].na_op_count = n /\ hd[x].na_op_completed_count = c

(* Where the response is. *)
Responses(x) ==
    /\ user[x].respond \in {"ack", "send", "send_ack", "sent"} =>
        hd[x].op_type = "RESPOND"
    /\ user[x].respond = "owed" =>
        user[x].ref /\ NoResponse(x) /\ Counts(x, 1, 1) /\ ~Queued(x)
    /\ user[x].respond \in {"ack", "send"} =>
        /\ NoResponse(x) /\ Counts(x, 2, 1) /\ ~Queued(x)
        /\ user[x].ref \/ At(x, {"respond"})
    /\ user[x].respond = "send_ack" =>
        /\ Counts(x, 3, 1) /\ ~Queued(x) /\ user[x].ref /\ MoreData
        /\ op[x]["send"] = "idle" /\ cb[x]["send"] = "none"
        /\ op[x]["ack"] = "posted" /\ cb[x]["ack"] = "none"
    /\ user[x].respond = "sent" =>
        /\ hd[x].na_op_completed_count + Bit(Outstanding(x, "send"))
             + Bit(Outstanding(x, "ack")) = hd[x].na_op_count
        /\ Queued(x) <=> NoResponse(x)
        /\ \A o \in {"send", "ack"} :
             cb[x][o] = "none" \/ (cb[x][o] = "finish" /\ op[x][o] = "idle")
        /\ ~hd[x].no_response
    /\ user[x].respond \in {"no", "done", "failed"} => NoResponse(x)

(* Where the triggers are. *)
Triggering(x) ==
    /\ \A t, v \in On(x) :
         trig[t].at # "destroy" /\ trig[v].at # "destroy" => t = v
    /\ Unanswered(x) \/ Queued(x) => Alone(x)
    /\ At(x, {"process", "error"}) =>
         /\ ~user[x].ref /\ user[x].respond \in {"no", "done", "failed"}
         /\ NoResponse(x) /\ Counts(x, 1, 1) /\ ~Queued(x)
    /\ At(x, {"called", "returned"}) =>
         (hd[x].no_response <=> user[x].respond = "no")
    /\ At(x, {"respond"}) => ~user[x].ref /\ ~hd[x].no_response
    /\ hd[x].no_response =>
         /\ user[x].respond \in {"no", "done", "failed"} /\ Counts(x, 1, 1)
         /\ At(x, {"called", "returned"}) => ~Queued(x)
    /\ Queued(x) =>
         hd[x].op_type = IF hd[x].no_response THEN "NO_RESPOND" ELSE "RESPOND"
    /\ Queued(x) /\ ~hd[x].no_response => user[x].respond = "sent"

Exchanging(x) ==
    /\ hd[x].life = "live" /\ posting[x] = "no" /\ NoRequest(x)
    /\ Counted(x) /\ Responses(x) /\ Triggering(x)

HandleInv(x) ==
    \/ Gone(x) \/ Returning(x) \/ Listed(x) \/ Forsaken(x) \/ Receiving(x)
    \/ Received(x) \/ Exchanging(x)

(* Whoever posts a handle in a callback is in that callback. *)
PostingInv ==
    \A x \in Handles : posting[x] \in Handles =>
        /\ x \in pending /\ cb[posting[x]]["recv"] = "input"
        /\ \A y \in Handles : posting[y] = posting[x] => y = x

QueueInv == \A i, j \in 1 .. Len(queue) : queue[i] = queue[j] => i = j

TrigInv ==
    \A t \in Triggers :
        \/ trig[t].at = "idle" /\ trig[t].on = {}
        \/ trig[t].at # "idle" /\ \E x \in Handles : trig[t].on = {x}

(* A handle is not reposted, and its receive canceled, only after unpost. *)
FinalInv ==
    \A x \in Handles :
        ~hd[x].repost \/ op[x]["recv"] = "canceled" => finalizing

OwnRequest(x) ==
    user[x].ref \/ user[x].respond \in {"ack", "send", "send_ack", "sent"}
        => user[x].req = hd[x].req

IInv ==
    /\ TypeOK /\ PostingInv /\ QueueInv /\ TrigInv /\ FinalInv
    /\ \A x \in Handles : HandleInv(x) /\ OwnRequest(x)

(* With one thread, a function runs to its end before the next one starts:  *)
(* a handle is posted by the function that runs, and by none while the      *)
(* context is unposted. No handle is withdrawn before it waits.             *)
InCallback(x) == cb[x]["recv"] \in {"check", "post", "input", "finish", "defer"}

OneThread ==
    /\ finalizing => \A x \in Handles : posting[x] = "no" /\ cb[x]["recv"] # "post"
    /\ ~finalizing => \A x, y \in Handles :
        /\ posting[x] # "no" /\ posting[y] # "no" => x = y
        /\ InCallback(x) /\ InCallback(y) => x = y
        /\ posting[x] # "no" /\ InCallback(y) => posting[x] = y
    /\ ~finalizing => \A t \in Triggers : trig[t].at # "idle" =>
        /\ \A x \in Handles : posting[x] = "no" /\ ~InCallback(x)
        /\ \A v \in Triggers : trig[v].at # "idle" => v = t
    /\ unpost # "wait" => \A x \in Handles : hd[x].repost

UInv == OneThread /\ Unposted

-----------------------------------------------------------------------------
(* Types of the parts of a handle *)

LEMMA HandleTypes ==
    ASSUME TypeOK, NEW x \in Handles
    PROVE  /\ hd[x] \in HandleType /\ op[x] \in OpsType
           /\ cb[x] \in CallbacksType /\ user[x] \in UserType
           /\ posting[x] \in {"no", "user"} \cup Handles \cup Triggers
  BY DEF TypeOK

LEMMA FieldTypes ==
    ASSUME TypeOK, NEW x \in Handles
    PROVE  /\ hd[x].ref_count \in Nat /\ hd[x].na_op_count \in Nat
           /\ hd[x].na_op_completed_count \in Nat /\ hd[x].req \in Nat
           /\ hd[x].no_response \in BOOLEAN /\ hd[x].repost \in BOOLEAN
           /\ user[x].ref \in BOOLEAN /\ user[x].req \in Nat
  BY HandleTypes DEF HandleType, UserType

LEMMA FreshTypes == Fresh \in HandleType /\ Withdrawn \in HandleType
<1>1. 0 \in Nat /\ 1 \in Nat
  OBVIOUS
<1>2. Fresh \in HandleType
  BY ZenonT(60), <1>1 DEF Fresh, HandleType, Results
<1>. QED
  BY ZenonT(60), <1>2 DEF Withdrawn, HandleType

LEMMA FreshFields ==
    /\ Fresh.life = "live" /\ Fresh.ref_count = 1 /\ Fresh.na_op_count = 1
    /\ Fresh.na_op_completed_count = 0 /\ Fresh.op_type = "PROCESS"
    /\ Fresh.req = 0 /\ Fresh.repost = TRUE /\ Fresh.status = {}
  BY ZenonT(60) DEF Fresh

LEMMA ListedFields ==
    ASSUME NEW g \in {Fresh, Withdrawn}
    PROVE  /\ g.life = "live" /\ g.ref_count = 1 /\ g.na_op_count = 1
           /\ g.na_op_completed_count = 0 /\ g.op_type = "PROCESS" /\ g.req = 0
           /\ g.repost => g = Fresh
           /\ g = Fresh => g.repost /\ g.status = {}
<1>1. /\ Withdrawn.life = Fresh.life /\ Withdrawn.ref_count = Fresh.ref_count
      /\ Withdrawn.na_op_count = Fresh.na_op_count
      /\ Withdrawn.na_op_completed_count = Fresh.na_op_completed_count
      /\ Withdrawn.op_type = Fresh.op_type /\ Withdrawn.req = Fresh.req
      /\ Withdrawn.repost = FALSE
  BY FreshTypes DEF Withdrawn, HandleType
<1>. QED
  BY <1>1, FreshFields

LEMMA OpNames == "recv" \in Ops /\ "send" \in Ops /\ "ack" \in Ops
  BY DEF Ops

-----------------------------------------------------------------------------
(* The phase a handle is in *)

LEMMA IsExchanging ==
    ASSUME NEW x \in Handles, HandleInv(x),
           \/ user[x].ref \/ ~NoResponse(x) \/ On(x) # {}
           \/ user[x].respond \notin {"no", "done", "failed"}
    PROVE  Exchanging(x)
  BY DEF HandleInv, Gone, Returning, Listed, Forsaken, Receiving, Received, Apart

LEMMA IsReceiving ==
    ASSUME NEW x \in Handles, HandleInv(x), cb[x]["recv"] # "none" \/ x \in more
    PROVE  Receiving(x)
  BY DEF HandleInv, Gone, Returning, Listed, Forsaken, Received, Exchanging,
         NoRequest

LEMMA IsListed ==
    ASSUME NEW x \in Handles, HandleInv(x), x \in pending \/ op[x]["recv"] # "idle"
    PROVE  Listed(x)
  BY DEF HandleInv, Gone, Returning, Receiving, Forsaken, Received, Exchanging,
         NoRequest

LEMMA IsPosted ==
    ASSUME NEW x \in Handles, HandleInv(x), posting[x] # "no", x \notin pending
    PROVE  Returning(x)
  BY DEF HandleInv, Gone, Listed, Receiving, Forsaken, Received, Exchanging

LEMMA IsQueued ==
    ASSUME NEW x \in Handles, HandleInv(x), Queued(x)
    PROVE  Received(x) \/ Exchanging(x)
  BY DEF HandleInv, Gone, Returning, Listed, Receiving, Forsaken

LEMMA IsUnborn ==
    ASSUME NEW x \in Handles, HandleInv(x), hd[x].life # "live"
    PROVE  Gone(x)
  BY ListedFields DEF HandleInv, Returning, Listed, Receiving, Forsaken, Received,
     Exchanging

-----------------------------------------------------------------------------
(* A step of another handle *)

SameTriggers(y) == On(y)' = On(y) /\ \A t \in On(y) : trig'[t] = trig[t]

Same(y) ==
    /\ hd'[y] = hd[y] /\ op'[y] = op[y] /\ cb'[y] = cb[y]
    /\ y \in more' <=> y \in more
    /\ y \in pending' <=> y \in pending
    /\ posting'[y] = posting[y] /\ user'[y] = user[y]
    /\ Queued(y)' <=> Queued(y)
    /\ SameTriggers(y)

LEMMA SameAt ==
    ASSUME NEW y, SameTriggers(y), NEW S
    PROVE  At(y, S)' <=> At(y, S)
  BY DEF SameTriggers, At

LEMMA Frame ==
    ASSUME NEW y \in Handles, HandleInv(y), Same(y)
    PROVE  HandleInv(y)'
<1>1. (NoResponse(y)' <=> NoResponse(y)) /\ (NoRequest(y)' <=> NoRequest(y))
  BY DEF Same, NoResponse, NoRequest
<1>2. Apart(y)' <=> Apart(y)
  BY <1>1 DEF Same, SameTriggers, Apart
<1>3. CASE Gone(y)
  BY <1>1, <1>2, <1>3 DEF HandleInv, Gone, Same
<1>4. CASE Returning(y)
  BY <1>1, <1>2, <1>4 DEF HandleInv, Returning, Same
<1>5. CASE Listed(y)
  BY <1>1, <1>2, <1>5 DEF HandleInv, Listed, Same
<1>6. CASE Forsaken(y)
  BY <1>1, <1>2, <1>6 DEF HandleInv, Forsaken, Same
<1>7. CASE Receiving(y)
  BY <1>1, <1>2, <1>7 DEF HandleInv, Receiving, Stage, Same
<1>8. CASE Received(y)
  BY <1>1, <1>2, <1>8 DEF HandleInv, Received, Same
<1>9. CASE Exchanging(y)
  <2>1. SameTriggers(y)
    BY DEF Same
  <2>2. /\ At(y, {"process", "error"})' <=> At(y, {"process", "error"})
        /\ At(y, {"called", "returned"})' <=> At(y, {"called", "returned"})
        /\ At(y, {"respond"})' <=> At(y, {"respond"})
    BY <2>1, SameAt
  <2>3. Unanswered(y)' <=> Unanswered(y)
    BY <2>2 DEF Unanswered, Same
  <2>4. Counted(y)'
    BY <1>9, <2>1, <2>3 DEF Exchanging, Counted, Tokens, Bit, Same, SameTriggers
  <2>5. Responses(y)'
    BY <1>1, <1>9, <2>2 DEF Exchanging, Responses, Counts, Outstanding, Same
  <2>6. Triggering(y)'
    BY SMTT(60), <1>1, <1>9, <2>1, <2>2, <2>3
       DEF Exchanging, Triggering, Alone, Counts, Same,
       SameTriggers
  <2>. QED
    BY <1>1, <1>9, <2>4, <2>5, <2>6 DEF HandleInv, Exchanging, Same
<1>. QED
  BY <1>3, <1>4, <1>5, <1>6, <1>7, <1>8, <1>9 DEF HandleInv

LEMMA OthersKeep ==
    ASSUME IInv, NEW x \in Handles, HandleInv(x)', OwnRequest(x)',
           \A y \in Handles \ {x} : Same(y)
    PROVE  \A y \in Handles : HandleInv(y)' /\ OwnRequest(y)'
<1>1. ASSUME NEW y \in Handles \ {x}
      PROVE  HandleInv(y)' /\ OwnRequest(y)'
  BY Frame DEF IInv, Same, OwnRequest
<1>. QED
  BY <1>1

LEMMA Assemble ==
    ASSUME IInv, NEW x \in Handles, TypeOK', PostingInv', QueueInv', TrigInv',
           FinalInv', HandleInv(x)', OwnRequest(x)',
           \A y \in Handles \ {x} : Same(y)
    PROVE  IInv'
  BY OthersKeep DEF IInv

LEMMA PostingKept ==
    ASSUME IInv, UNCHANGED <<pending, posting>>,
           \A y \in Handles : \/ cb'[y]["recv"] = cb[y]["recv"]
                              \/ \A z \in Handles : posting[z] # y
    PROVE  PostingInv'
  BY DEF IInv, PostingInv

(* A step of x that does not move the pending list. *)
LEMMA StepWith ==
    ASSUME IInv, NEW x \in Handles, TypeOK', QueueInv', TrigInv', HandleInv(x)',
           OwnRequest(x)', UNCHANGED <<pending, posting, unpost>>,
           \A y \in Handles \ {x} :
               /\ hd'[y] = hd[y] /\ op'[y] = op[y] /\ cb'[y] = cb[y]
               /\ user'[y] = user[y] /\ (y \in more' <=> y \in more)
               /\ (Queued(y)' <=> Queued(y)) /\ SameTriggers(y),
           \/ cb'[x]["recv"] = cb[x]["recv"]
           \/ \A z \in Handles : posting[z] # x,
           hd'[x].repost = hd[x].repost, op'[x]["recv"] = op[x]["recv"]
    PROVE  IInv'
<1>1. PostingInv'
  <2>1. \A y \in Handles : \/ cb'[y]["recv"] = cb[y]["recv"]
                           \/ \A z \in Handles : posting[z] # y
    OBVIOUS
  <2>. QED
    BY <2>1, PostingKept
<1>2. FinalInv'
  BY DEF IInv, FinalInv, finalizing
<1>3. \A y \in Handles \ {x} : Same(y)
  BY DEF Same
<1>. QED
  BY <1>1, <1>2, <1>3, Assemble

(* ... and neither the queue nor the triggers. *)
LEMMA StepOf ==
    ASSUME IInv, NEW x \in Handles, TypeOK', HandleInv(x)', OwnRequest(x)',
           UNCHANGED <<pending, posting, queue, trig, unpost>>,
           \A y \in Handles \ {x} :
               /\ hd'[y] = hd[y] /\ op'[y] = op[y] /\ cb'[y] = cb[y]
               /\ user'[y] = user[y] /\ (y \in more' <=> y \in more),
           \/ cb'[x]["recv"] = cb[x]["recv"]
           \/ \A z \in Handles : posting[z] # x,
           hd'[x].repost = hd[x].repost, op'[x]["recv"] = op[x]["recv"]
    PROVE  IInv'
<1>1. QueueInv' /\ TrigInv'
  BY DEF IInv, QueueInv, TrigInv
<1>2. \A y \in Handles \ {x} : (Queued(y)' <=> Queued(y)) /\ SameTriggers(y)
  BY DEF SameTriggers, On, Queued
<1>. QED
  BY <1>1, <1>2, StepWith

-----------------------------------------------------------------------------
(* hg_core_respond *)

LEMMA StillAt ==
    ASSUME NEW x, trig' = trig
    PROVE  /\ On(x)' = On(x)
           /\ \A S : At(x, S)' <=> At(x, S)
  BY DEF On, At

LEMMA StillQueued ==
    ASSUME NEW x, queue' = queue
    PROVE  Queued(x)' <=> Queued(x)
  BY DEF Queued

LEMMA Put ==
    ASSUME NEW S, NEW T, NEW f \in [S -> T], NEW x \in S, NEW g \in T,
           NEW h, h = [f EXCEPT ![x] = g]
    PROVE  h \in [S -> T] /\ h[x] = g /\ \A y \in S \ {x} : h[y] = f[y]
  OBVIOUS

(* What an assignment to a part of x does. *)

LEMMA SetHandle ==
    ASSUME TypeOK, NEW x \in Handles, NEW g \in HandleType, hd' = [hd EXCEPT ![x] = g]
    PROVE  /\ hd' \in [Handles -> HandleType] /\ hd'[x] = g
           /\ \A y \in Handles \ {x} : hd'[y] = hd[y]
  BY ZenonT(60), Put DEF TypeOK

LEMMA SetUser ==
    ASSUME TypeOK, NEW x \in Handles, NEW w \in UserType, user' = [user EXCEPT ![x] = w]
    PROVE  /\ user' \in [Handles -> UserType] /\ user'[x] = w
           /\ \A y \in Handles \ {x} : user'[y] = user[y]
  BY ZenonT(60), Put DEF TypeOK

LEMMA SetRespond ==
    ASSUME TypeOK, NEW x \in Handles,
           NEW r \in {"no", "owed", "ack", "send", "send_ack", "sent", "done", "failed"},
           user' = [user EXCEPT ![x].respond = r]
    PROVE  /\ user' \in [Handles -> UserType] /\ user'[x].respond = r
           /\ user'[x].ref = user[x].ref /\ user'[x].req = user[x].req
           /\ \A y \in Handles \ {x} : user'[y] = user[y]
<1>1. PICK w : w = [user[x] EXCEPT !.respond = r] /\ user' = [user EXCEPT ![x] = w]
  BY ZenonT(60)
<1>2. /\ w \in UserType /\ w.respond = r /\ w.ref = user[x].ref
      /\ w.req = user[x].req
  BY <1>1, HandleTypes DEF UserType
<1>3. /\ user' \in [Handles -> UserType] /\ user'[x] = w
      /\ \A y \in Handles \ {x} : user'[y] = user[y]
  BY ZenonT(60), <1>1, <1>2, SetUser
<1>. QED
  BY <1>2, <1>3

LEMMA SetOp ==
    ASSUME TypeOK, NEW x \in Handles, NEW o \in Ops,
           NEW r \in {"idle", "posted", "canceled"}, op' = [op EXCEPT ![x][o] = r]
    PROVE  /\ op' \in [Handles -> OpsType] /\ op'[x][o] = r
           /\ \A n \in Ops \ {o} : op'[x][n] = op[x][n]
           /\ \A y \in Handles \ {x} : op'[y] = op[y]
  BY DEF TypeOK, OpsType

LEMMA SetCb ==
    ASSUME TypeOK, NEW x \in Handles, NEW o \in Ops,
           NEW r \in {"none", "check", "post", "input", "finish", "defer", "stop"},
           cb' = [cb EXCEPT ![x][o] = r]
    PROVE  /\ cb' \in [Handles -> CallbacksType] /\ cb'[x][o] = r
           /\ \A n \in Ops \ {o} : cb'[x][n] = cb[x][n]
           /\ \A y \in Handles \ {x} : cb'[y] = cb[y]
  BY DEF TypeOK, CallbacksType

(* The parts of a handle that the invariant is about are those of g. *)
SameCounts(g, h) ==
    /\ h \in HandleType
    /\ h.life = g.life /\ h.ref_count = g.ref_count /\ h.na_op_count = g.na_op_count
    /\ h.na_op_completed_count = g.na_op_completed_count
    /\ h.op_type = g.op_type /\ h.no_response = g.no_response
    /\ h.repost = g.repost /\ h.req = g.req

LEMMA NotedCounts ==
    ASSUME NEW g \in HandleType, NEW r \in Results
    PROVE  SameCounts(g, Noted(g, r))
<1>1. Noted(g, r) \in HandleType
  BY ZenonT(60) DEF Noted, HandleType, Results
<1>. QED
  BY SMTT(60), <1>1 DEF Noted, HandleType, SameCounts

Elsewhere(x) ==
    \A y \in Handles \ {x} : /\ hd'[y] = hd[y] /\ user'[y] = user[y]
                             /\ op'[y] = op[y] /\ cb'[y] = cb[y]

(* What a step of hg_core_respond leaves alone. *)
Keeps(x) ==
    /\ hd'[x].life = hd[x].life /\ hd'[x].repost = hd[x].repost
    /\ hd'[x].req = hd[x].req /\ hd'[x].no_response = hd[x].no_response
    /\ user'[x].ref = user[x].ref /\ user'[x].req = user[x].req
    /\ op'[x]["recv"] = op[x]["recv"] /\ cb'[x]["recv"] = cb[x]["recv"]
    /\ UNCHANGED <<more, pending, posting, queue, trig, unpost>>

(* A step of hg_core_respond, and of the callbacks of what it posted, up to *)
(* their completion. If it fails it gives back the reference.               *)
LEMMA ResponseStep ==
    ASSUME SetFacts, IInv, NEW x \in Handles, TypeOK', Elsewhere(x), Keeps(x),
           user[x].respond \notin {"no", "done", "failed"},
           user'[x].respond \in {"ack", "send", "send_ack", "sent", "failed"},
           user[x].respond = "sent" => user'[x].respond = "sent",
           hd'[x].ref_count = hd[x].ref_count - Bit(user'[x].respond = "failed"),
           Responses(x)'
    PROVE  IInv'
<1>1. TypeOK /\ HandleInv(x) /\ OwnRequest(x)
  BY DEF IInv
<1>2. Exchanging(x)
  BY <1>1, IsExchanging
<1>3. /\ On(x)' = On(x) /\ (Queued(x)' <=> Queued(x))
      /\ \A S : At(x, S)' <=> At(x, S)
  BY StillAt, StillQueued DEF Keeps
<1>4. /\ ~hd[x].no_response /\ ~At(x, {"process", "error"}) /\ Alone(x)
      /\ Queued(x) => user[x].respond = "sent"
      /\ Unanswered(x) <=> ~Queued(x)
  <2>1. Triggering(x) /\ Responses(x)
    BY <1>2 DEF Exchanging
  <2>2. ~hd[x].no_response /\ ~At(x, {"process", "error"})
    BY <2>1 DEF Triggering
  <2>3. user[x].respond \in {"owed", "ack", "send", "send_ack", "sent"}
    BY <1>1, HandleTypes DEF UserType
  <2>4. Queued(x) => user[x].respond = "sent"
    BY <2>1, <2>2 DEF Triggering
  <2>5. Unanswered(x) <=> ~Queued(x)
    BY <2>2, <2>3, <2>4 DEF Unanswered
  <2>. QED
    BY <2>1, <2>2, <2>4, <2>5 DEF Triggering
<1>5. Unanswered(x)' <=> user'[x].respond # "failed" /\ ~Queued(x)
  BY <1>3, <1>4 DEF Unanswered, Keeps
<1>6. Counted(x)'
  <2>1. IsFiniteSet(On(x)) /\ Cardinality(On(x)) \in Nat
    BY <1>2 DEF Exchanging, Counted, SetFacts, CountFact
  <2>2. CASE user'[x].respond # "failed"
    BY SMTT(60), <1>2, <1>3, <1>4, <1>5, <2>1, <2>2
       DEF Exchanging, Counted, Tokens, Bit, Keeps
  <2>3. CASE user'[x].respond = "failed"
    <3>1. ~Queued(x) /\ (user[x].ref \/ On(x) # {})
      BY <1>2, <1>4, <2>3, HandleTypes, <1>1 DEF Exchanging, Responses, At, UserType
    <3>2. user[x].ref \/ Cardinality(On(x)) # 0
      BY <2>1, <3>1 DEF SetFacts, EmptyFact
    <3>. QED
      BY SMTT(60), <1>2, <1>3, <1>4, <1>5, <2>1, <2>3, <3>1, <3>2
         DEF Exchanging, Counted, Tokens, Bit, Keeps
  <2>. QED
    BY <2>2, <2>3
<1>7. Triggering(x)'
  <2>1. /\ \A t, v \in On(x)' :
             trig'[t].at # "destroy" /\ trig'[v].at # "destroy" => t = v
        /\ Alone(x)'
    BY <1>2, <1>3, <1>4 DEF Exchanging, Triggering, Alone
  <2>2. Queued(x)' => user'[x].respond = "sent" /\ hd'[x].op_type = "RESPOND"
    BY <1>2, <1>3, <1>4 DEF Exchanging, Triggering, Responses
  <2>3. At(x, {"respond"})' => ~user'[x].ref
    BY <1>2, <1>3 DEF Exchanging, Triggering, Keeps
  <2>4. ~hd'[x].no_response /\ user'[x].respond # "no" /\ ~At(x, {"process", "error"})'
    BY <1>3, <1>4 DEF Keeps
  <2>. QED
    BY <2>1, <2>2, <2>3, <2>4 DEF Triggering
<1>8. Exchanging(x)'
  <2>1. NoRequest(x)'
    BY <1>2 DEF Exchanging, NoRequest, Keeps
  <2>. QED
    BY <1>2, <1>6, <1>7, <2>1 DEF Exchanging, Keeps
<1>9. OwnRequest(x)'
  <2>1. user[x].ref \/ user[x].respond \in {"ack", "send", "send_ack", "sent"}
    BY <1>1, <1>2, HandleTypes DEF Exchanging, Responses, UserType
  <2>. QED
    BY <1>1, <2>1 DEF OwnRequest, Keeps
<1>. QED
  BY <1>8, <1>9, StepOf DEF HandleInv, Keeps, Elsewhere

LEMMA RespondNoAckStep ==
    ASSUME SetFacts, IInv, NEW x \in Handles, RespondNoAck(x)
    PROVE  IInv'
<1>1. TypeOK /\ HandleInv(x)
  BY DEF IInv
<1>2. Exchanging(x)
  BY <1>1, IsExchanging DEF RespondNoAck
<1>3. PICK g : /\ g = [hd[x] EXCEPT !.status = @ \cup {"POSTED"}]
               /\ hd' = [hd EXCEPT ![x] = g]
  BY ZenonT(60) DEF RespondNoAck
<1>4. g \in HandleType
  BY ZenonT(60), <1>1, <1>3, HandleTypes DEF HandleType
<1>5. /\ hd' \in [Handles -> HandleType] /\ hd'[x] = g
      /\ \A y \in Handles \ {x} : hd'[y] = hd[y]
  BY ZenonT(60), <1>1, <1>3, <1>4, SetHandle
<1>6. /\ g.life = hd[x].life /\ g.repost = hd[x].repost /\ g.req = hd[x].req
      /\ g.no_response = hd[x].no_response /\ g.ref_count = hd[x].ref_count
      /\ g.na_op_count = hd[x].na_op_count
      /\ g.na_op_completed_count = hd[x].na_op_completed_count
      /\ g.op_type = hd[x].op_type
  BY <1>1, <1>3, HandleTypes DEF HandleType
<1>7. /\ user' \in [Handles -> UserType] /\ user'[x].respond = "send"
      /\ user'[x].ref = user[x].ref /\ user'[x].req = user[x].req
      /\ \A y \in Handles \ {x} : user'[y] = user[y]
  <2>1. user' = [user EXCEPT ![x].respond = "send"]
    BY DEF RespondNoAck
  <2>. QED
    BY ZenonT(60), <1>1, <2>1, SetRespond
<1>8. UNCHANGED <<op, cb, more, pending, posting, queue, trig, unpost, seen>>
  BY DEF RespondNoAck
<1>9. TypeOK'
  BY ZenonT(60), <1>1, <1>5, <1>7, <1>8 DEF TypeOK
<1>10. Elsewhere(x) /\ Keeps(x)
  BY <1>5, <1>6, <1>7, <1>8, OpNames DEF Elsewhere, Keeps
<1>11. Responses(x)'
  BY <1>1, <1>2, <1>5, <1>6, <1>7, <1>8, OpNames, StillAt, StillQueued
     DEF Exchanging, Responses, RespondNoAck, Counts, NoResponse, Outstanding, Bit
<1>12. hd'[x].ref_count = hd[x].ref_count - Bit(user'[x].respond = "failed")
  BY SMTT(60), <1>1, <1>5, <1>6, <1>7, <1>8, FieldTypes DEF Bit
<1>13. /\ user[x].respond \notin {"no", "done", "failed"}
       /\ user[x].respond = "sent" => user'[x].respond = "sent"
       /\ user'[x].respond \in {"ack", "send", "send_ack", "sent", "failed"}
  BY <1>2, <1>5, <1>6, <1>7, <1>8 DEF RespondNoAck
<1>. QED
  BY ZenonT(60), <1>9, <1>10, <1>11, <1>12, <1>13, ResponseStep

LEMMA RespondAckStep ==
    ASSUME SetFacts, IInv, NEW x \in Handles, RespondAck(x)
    PROVE  IInv'
<1>1. TypeOK /\ HandleInv(x)
  BY DEF IInv
<1>2. Exchanging(x)
  BY <1>1, IsExchanging DEF RespondAck
<1>3. hd[x].na_op_count + 1 \in Nat
  BY SMTT(60), <1>1, FieldTypes
<1>4. PICK g : /\ g = [hd[x] EXCEPT !.na_op_count = @ + 1, !.status = @ \cup {"POSTED"}]
               /\ hd' = [hd EXCEPT ![x] = g]
  BY ZenonT(60) DEF RespondAck
<1>5. g \in HandleType
  BY ZenonT(60), <1>1, <1>3, <1>4, HandleTypes DEF HandleType
<1>6. /\ hd' \in [Handles -> HandleType] /\ hd'[x] = g
      /\ \A y \in Handles \ {x} : hd'[y] = hd[y]
  BY ZenonT(60), <1>1, <1>4, <1>5, SetHandle
<1>7. /\ g.life = hd[x].life /\ g.repost = hd[x].repost /\ g.req = hd[x].req
      /\ g.no_response = hd[x].no_response /\ g.ref_count = hd[x].ref_count
      /\ g.na_op_count = hd[x].na_op_count + 1
      /\ g.na_op_completed_count = hd[x].na_op_completed_count
      /\ g.op_type = hd[x].op_type
  BY <1>1, <1>4, HandleTypes DEF HandleType
<1>8. /\ user' \in [Handles -> UserType] /\ user'[x].respond = "send_ack"
      /\ user'[x].ref = user[x].ref /\ user'[x].req = user[x].req
      /\ \A y \in Handles \ {x} : user'[y] = user[y]
  <2>1. user' = [user EXCEPT ![x].respond = "send_ack"]
    BY DEF RespondAck
  <2>. QED
    BY ZenonT(60), <1>1, <2>1, SetRespond
<1>9. /\ op' \in [Handles -> OpsType] /\ op'[x]["ack"] = "posted"
      /\ \A n \in Ops \ {"ack"} : op'[x][n] = op[x][n]
      /\ \A y \in Handles \ {x} : op'[y] = op[y]
  <2>1. op' = [op EXCEPT ![x]["ack"] = "posted"]
    BY DEF RespondAck
  <2>. QED
    BY ZenonT(60), <1>1, <2>1, OpNames, SetOp
<1>10. UNCHANGED <<cb, more, pending, posting, queue, trig, unpost, seen>>
  BY DEF RespondAck
<1>11. TypeOK'
  BY ZenonT(60), <1>1, <1>6, <1>8, <1>9, <1>10 DEF TypeOK
<1>12. Elsewhere(x) /\ Keeps(x)
  BY <1>6, <1>7, <1>8, <1>9, <1>10, OpNames DEF Elsewhere, Keeps
<1>13. Responses(x)'
  BY SMTT(60), <1>1, <1>2, <1>6, <1>7, <1>8, <1>9, <1>10, OpNames, StillAt, StillQueued
     DEF Exchanging, Responses, RespondAck, Counts, NoResponse, Outstanding, Bit
<1>14. hd'[x].ref_count = hd[x].ref_count - Bit(user'[x].respond = "failed")
  BY SMTT(60), <1>1, <1>6, <1>7, <1>8, <1>9, <1>10, FieldTypes DEF Bit
<1>15. /\ user[x].respond \notin {"no", "done", "failed"}
       /\ user[x].respond = "sent" => user'[x].respond = "sent"
       /\ user'[x].respond \in {"ack", "send", "send_ack", "sent", "failed"}
  BY <1>2, <1>6, <1>7, <1>8, <1>9, <1>10 DEF RespondAck
<1>. QED
  BY ZenonT(60), <1>11, <1>12, <1>13, <1>14, <1>15, ResponseStep

LEMMA RespondAckFailsStep ==
    ASSUME SetFacts, IInv, NEW x \in Handles, RespondAckFails(x)
    PROVE  IInv'
<1>1. TypeOK /\ HandleInv(x)
  BY DEF IInv
<1>2. Exchanging(x)
  BY <1>1, IsExchanging DEF RespondAckFails
<1>3. hd[x].ref_count - 1 \in Nat /\ hd[x].na_op_count + 1 \in Nat
  BY SMTT(60), <1>1, <1>2, FieldTypes DEF Exchanging, Counted
<1>4. PICK g : /\ g = NotResponding([hd[x] EXCEPT !.na_op_count = @ + 1])
               /\ hd' = [hd EXCEPT ![x] = g]
  <2>1. hd' = [hd EXCEPT ![x] = NotResponding([hd[x] EXCEPT !.na_op_count = @ + 1])]
    BY DEF RespondAckFails
  <2>. QED
    BY ZenonT(60), <2>1
<1>5. g \in HandleType
  BY ZenonT(60), <1>1, <1>3, <1>4, HandleTypes DEF HandleType, NotResponding
<1>6. /\ hd' \in [Handles -> HandleType] /\ hd'[x] = g
      /\ \A y \in Handles \ {x} : hd'[y] = hd[y]
  BY ZenonT(60), <1>1, <1>4, <1>5, SetHandle
<1>7. /\ g.life = hd[x].life /\ g.repost = hd[x].repost /\ g.req = hd[x].req
      /\ g.no_response = hd[x].no_response /\ g.ref_count = hd[x].ref_count - 1
      /\ g.na_op_count = hd[x].na_op_count + 1
      /\ g.na_op_completed_count = hd[x].na_op_completed_count
      /\ g.op_type = hd[x].op_type
  BY <1>1, <1>4, HandleTypes DEF HandleType, NotResponding
<1>8. /\ user' \in [Handles -> UserType] /\ user'[x].respond = "failed"
      /\ user'[x].ref = user[x].ref /\ user'[x].req = user[x].req
      /\ \A y \in Handles \ {x} : user'[y] = user[y]
  <2>1. user' = [user EXCEPT ![x].respond = "failed"]
    BY DEF RespondAckFails
  <2>. QED
    BY ZenonT(60), <1>1, <2>1, SetRespond
<1>9. UNCHANGED <<op, cb, more, pending, posting, queue, trig, unpost, seen>>
  BY DEF RespondAckFails
<1>10. TypeOK'
  BY ZenonT(60), <1>1, <1>6, <1>8, <1>9 DEF TypeOK
<1>11. Elsewhere(x) /\ Keeps(x)
  BY <1>6, <1>7, <1>8, <1>9, OpNames DEF Elsewhere, Keeps
<1>12. Responses(x)'
  BY <1>1, <1>2, <1>6, <1>7, <1>8, <1>9, OpNames, StillAt, StillQueued
     DEF Exchanging, Responses, RespondAckFails, Counts, NoResponse, Outstanding, Bit
<1>13. hd'[x].ref_count = hd[x].ref_count - Bit(user'[x].respond = "failed")
  BY <1>1, <1>6, <1>7, <1>8, <1>9, FieldTypes DEF Bit
<1>14. /\ user[x].respond \notin {"no", "done", "failed"}
       /\ user[x].respond = "sent" => user'[x].respond = "sent"
       /\ user'[x].respond \in {"ack", "send", "send_ack", "sent", "failed"}
  BY <1>2, <1>6, <1>7, <1>8, <1>9 DEF RespondAckFails
<1>. QED
  BY ZenonT(60), <1>10, <1>11, <1>12, <1>13, <1>14, ResponseStep

LEMMA RespondSendStep ==
    ASSUME SetFacts, IInv, NEW x \in Handles, RespondSend(x)
    PROVE  IInv'
<1>1. TypeOK /\ HandleInv(x)
  BY DEF IInv
<1>2. Exchanging(x)
  BY <1>1, IsExchanging DEF RespondSend
<1>3. /\ user' \in [Handles -> UserType] /\ user'[x].respond = "sent"
      /\ user'[x].ref = user[x].ref /\ user'[x].req = user[x].req
      /\ \A y \in Handles \ {x} : user'[y] = user[y]
  <2>1. user' = [user EXCEPT ![x].respond = "sent"]
    BY DEF RespondSend
  <2>. QED
    BY ZenonT(60), <1>1, <2>1, SetRespond
<1>4. /\ op' \in [Handles -> OpsType] /\ op'[x]["send"] = "posted"
      /\ \A n \in Ops \ {"send"} : op'[x][n] = op[x][n]
      /\ \A y \in Handles \ {x} : op'[y] = op[y]
  <2>1. op' = [op EXCEPT ![x]["send"] = "posted"]
    BY DEF RespondSend
  <2>. QED
    BY ZenonT(60), <1>1, <2>1, OpNames, SetOp
<1>5. UNCHANGED <<hd, cb, more, pending, posting, queue, trig, unpost, seen>>
  BY DEF RespondSend
<1>6. TypeOK'
  BY ZenonT(60), <1>1, <1>3, <1>4, <1>5 DEF TypeOK
<1>7. Elsewhere(x) /\ Keeps(x)
  BY <1>3, <1>4, <1>5, OpNames DEF Elsewhere, Keeps
<1>8. Responses(x)'
  <2>1. Outstanding(x, "send")' /\ (Outstanding(x, "ack")' <=> Outstanding(x, "ack"))
    BY <1>4, <1>5, OpNames DEF Outstanding
  <2>2. ~NoResponse(x)' /\ ~Queued(x)'
    BY <1>2, <1>4, <1>5, StillQueued DEF RespondSend, Exchanging, Responses, NoResponse
  <2>3. \A o \in {"send", "ack"} : cb'[x][o] = "none"
    BY <1>2, <1>5 DEF RespondSend, Exchanging, Responses, NoResponse
  <2>4. hd[x].na_op_completed_count + 1 + Bit(Outstanding(x, "ack")) = hd[x].na_op_count
    BY SMTT(60), <1>2, <1>5
       DEF RespondSend, Exchanging, Responses, NoResponse, Counts, Outstanding, Bit
  <2>5. ~hd[x].no_response /\ hd[x].op_type = "RESPOND"
    BY <1>2 DEF RespondSend, Exchanging, Triggering, Responses
  <2>. QED
    BY <1>3, <1>5, <2>1, <2>2, <2>3, <2>4, <2>5 DEF Responses, Bit
<1>9. hd'[x].ref_count = hd[x].ref_count - Bit(user'[x].respond = "failed")
  BY SMTT(60), <1>1, <1>3, <1>4, <1>5, FieldTypes DEF Bit
<1>10. /\ user[x].respond \notin {"no", "done", "failed"}
       /\ user[x].respond = "sent" => user'[x].respond = "sent"
       /\ user'[x].respond \in {"ack", "send", "send_ack", "sent", "failed"}
  BY <1>2, <1>3, <1>4, <1>5 DEF RespondSend
<1>. QED
  BY ZenonT(60), <1>6, <1>7, <1>8, <1>9, <1>10, ResponseStep

LEMMA RespondSendFailsStep ==
    ASSUME SetFacts, IInv, NEW x \in Handles, RespondSendFails(x)
    PROVE  IInv'
<1>1. TypeOK /\ HandleInv(x)
  BY DEF IInv
<1>2. Exchanging(x)
  BY <1>1, IsExchanging DEF RespondSendFails
<1>3. hd[x].ref_count - 1 \in Nat
  BY SMTT(60), <1>1, <1>2, FieldTypes DEF Exchanging, Counted
<1>4. PICK g : /\ g = NotResponding(hd[x])
               /\ hd' = [hd EXCEPT ![x] = g]
  BY ZenonT(60) DEF RespondSendFails
<1>5. g \in HandleType
  BY ZenonT(60), <1>1, <1>3, <1>4, HandleTypes DEF HandleType, NotResponding
<1>6. /\ hd' \in [Handles -> HandleType] /\ hd'[x] = g
      /\ \A y \in Handles \ {x} : hd'[y] = hd[y]
  BY ZenonT(60), <1>1, <1>4, <1>5, SetHandle
<1>7. /\ g.life = hd[x].life /\ g.repost = hd[x].repost /\ g.req = hd[x].req
      /\ g.no_response = hd[x].no_response /\ g.ref_count = hd[x].ref_count - 1
      /\ g.na_op_count = hd[x].na_op_count
      /\ g.na_op_completed_count = hd[x].na_op_completed_count
      /\ g.op_type = hd[x].op_type
  BY <1>1, <1>4, HandleTypes DEF HandleType, NotResponding
<1>8. /\ user' \in [Handles -> UserType] /\ user'[x].respond = "failed"
      /\ user'[x].ref = user[x].ref /\ user'[x].req = user[x].req
      /\ \A y \in Handles \ {x} : user'[y] = user[y]
  <2>1. user' = [user EXCEPT ![x].respond = "failed"]
    BY DEF RespondSendFails
  <2>. QED
    BY ZenonT(60), <1>1, <2>1, SetRespond
<1>9. UNCHANGED <<op, cb, more, pending, posting, queue, trig, unpost, seen>>
  BY DEF RespondSendFails
<1>10. TypeOK'
  BY ZenonT(60), <1>1, <1>6, <1>8, <1>9 DEF TypeOK
<1>11. Elsewhere(x) /\ Keeps(x)
  BY <1>6, <1>7, <1>8, <1>9, OpNames DEF Elsewhere, Keeps
<1>12. Responses(x)'
  BY <1>1, <1>2, <1>6, <1>7, <1>8, <1>9, OpNames, StillAt, StillQueued
     DEF Exchanging, Responses, RespondSendFails, Counts, NoResponse, Outstanding, Bit
<1>13. hd'[x].ref_count = hd[x].ref_count - Bit(user'[x].respond = "failed")
  BY <1>1, <1>6, <1>7, <1>8, <1>9, FieldTypes DEF Bit
<1>14. /\ user[x].respond \notin {"no", "done", "failed"}
       /\ user[x].respond = "sent" => user'[x].respond = "sent"
       /\ user'[x].respond \in {"ack", "send", "send_ack", "sent", "failed"}
  BY <1>2, <1>6, <1>7, <1>8, <1>9 DEF RespondSendFails
<1>. QED
  BY ZenonT(60), <1>10, <1>11, <1>12, <1>13, <1>14, ResponseStep

LEMMA RespondSendCanceledStep ==
    ASSUME SetFacts, IInv, NEW x \in Handles, RespondSendCanceled(x)
    PROVE  IInv'
<1>1. TypeOK /\ HandleInv(x)
  BY DEF IInv
<1>2. Exchanging(x)
  BY <1>1, IsExchanging DEF RespondSendCanceled
<1>3. hd[x].na_op_count - 1 \in Nat
  BY SMTT(60), <1>1, <1>2, FieldTypes DEF Exchanging, Responses, Counts, RespondSendCanceled
<1>4. PICK g : /\ g = [hd[x] EXCEPT !.na_op_count = @ - 1, !.ret_status = "ERROR",
                         !.status = (@ \ {"POSTED"}) \cup {"ERRORED", "CANCELED"}]
               /\ hd' = [hd EXCEPT ![x] = g]
  BY ZenonT(60) DEF RespondSendCanceled
<1>5. g \in HandleType
  BY ZenonT(60), <1>1, <1>3, <1>4, HandleTypes DEF HandleType, Results
<1>6. /\ hd' \in [Handles -> HandleType] /\ hd'[x] = g
      /\ \A y \in Handles \ {x} : hd'[y] = hd[y]
  BY ZenonT(60), <1>1, <1>4, <1>5, SetHandle
<1>7. /\ g.life = hd[x].life /\ g.repost = hd[x].repost /\ g.req = hd[x].req
      /\ g.no_response = hd[x].no_response /\ g.ref_count = hd[x].ref_count
      /\ g.na_op_count = hd[x].na_op_count - 1
      /\ g.na_op_completed_count = hd[x].na_op_completed_count
      /\ g.op_type = hd[x].op_type
  BY <1>1, <1>4, HandleTypes DEF HandleType, Results
<1>8. /\ user' \in [Handles -> UserType] /\ user'[x].respond = "sent"
      /\ user'[x].ref = user[x].ref /\ user'[x].req = user[x].req
      /\ \A y \in Handles \ {x} : user'[y] = user[y]
  <2>1. user' = [user EXCEPT ![x].respond = "sent"]
    BY DEF RespondSendCanceled
  <2>. QED
    BY ZenonT(60), <1>1, <2>1, SetRespond
<1>9. /\ op' \in [Handles -> OpsType] /\ op'[x]["ack"] = "canceled"
      /\ \A n \in Ops \ {"ack"} : op'[x][n] = op[x][n]
      /\ \A y \in Handles \ {x} : op'[y] = op[y]
  <2>1. op' = [op EXCEPT ![x]["ack"] = "canceled"]
    <3>1. op[x]["ack"] = "posted"
      BY <1>2 DEF RespondSendCanceled, Exchanging, Responses
    <3>2. op' = [op EXCEPT ![x]["ack"] = IF @ = "posted" THEN "canceled" ELSE @]
      BY DEF RespondSendCanceled
    <3>. QED
      BY ZenonT(60), <3>1, <3>2
  <2>. QED
    BY ZenonT(60), <1>1, <2>1, OpNames, SetOp
<1>10. UNCHANGED <<cb, more, pending, posting, queue, trig, unpost, seen>>
  BY DEF RespondSendCanceled
<1>11. TypeOK'
  BY ZenonT(60), <1>1, <1>6, <1>8, <1>9, <1>10 DEF TypeOK
<1>12. Elsewhere(x) /\ Keeps(x)
  BY <1>6, <1>7, <1>8, <1>9, <1>10, OpNames DEF Elsewhere, Keeps
<1>13. Responses(x)'
  <2>1. Outstanding(x, "ack")' /\ ~Outstanding(x, "send")'
    BY <1>2, <1>9, <1>10, OpNames DEF Outstanding, RespondSendCanceled, Exchanging, Responses
  <2>2. ~NoResponse(x)' /\ ~Queued(x)'
    BY <1>2, <1>9, <1>10, StillQueued DEF RespondSendCanceled, Exchanging, Responses, NoResponse
  <2>3. \A o \in {"send", "ack"} : cb'[x][o] = "none"
    BY <1>2, <1>10 DEF RespondSendCanceled, Exchanging, Responses
  <2>4. g.na_op_completed_count + 1 = g.na_op_count
    BY SMTT(60), <1>2, <1>7 DEF RespondSendCanceled, Exchanging, Responses, Counts
  <2>5. ~hd[x].no_response /\ hd[x].op_type = "RESPOND"
    BY <1>2 DEF RespondSendCanceled, Exchanging, Triggering, Responses
  <2>6. g.na_op_completed_count \in Nat
    BY <1>5 DEF HandleType
  <2>. QED
    BY SMTT(60), <1>6, <1>7, <1>8, <2>1, <2>2, <2>3, <2>4, <2>5, <2>6 DEF Responses, Bit
<1>14. hd'[x].ref_count = hd[x].ref_count - Bit(user'[x].respond = "failed")
  BY SMTT(60), <1>1, <1>6, <1>7, <1>8, <1>9, <1>10, FieldTypes DEF Bit
<1>15. /\ user[x].respond \notin {"no", "done", "failed"}
       /\ user[x].respond = "sent" => user'[x].respond = "sent"
       /\ user'[x].respond \in {"ack", "send", "send_ack", "sent", "failed"}
  BY <1>2, <1>6, <1>7, <1>8, <1>9, <1>10 DEF RespondSendCanceled
<1>. QED
  BY ZenonT(60), <1>11, <1>12, <1>13, <1>14, <1>15, ResponseStep

LEMMA RespondsStep ==
    ASSUME SetFacts, Disciplined, IInv, NEW x \in Handles, Respond(x)
    PROVE  IInv'
<1>1. TypeOK /\ HandleInv(x)
  BY DEF IInv
<1>2. Exchanging(x)
  BY <1>1, IsExchanging DEF Respond
<1>3. hd[x].na_op_count + 1 \in Nat
  BY SMTT(60), <1>1, FieldTypes
<1>4. PICK g : /\ g = Responding(hd[x])
               /\ hd' = [hd EXCEPT ![x] = g]
  BY ZenonT(60) DEF Respond
<1>5. g \in HandleType
  BY ZenonT(60), <1>1, <1>3, <1>4, HandleTypes DEF HandleType, Responding, Results
<1>6. /\ hd' \in [Handles -> HandleType] /\ hd'[x] = g
      /\ \A y \in Handles \ {x} : hd'[y] = hd[y]
  BY ZenonT(60), <1>1, <1>4, <1>5, SetHandle
<1>7. /\ g.life = hd[x].life /\ g.repost = hd[x].repost /\ g.req = hd[x].req
      /\ g.no_response = hd[x].no_response /\ g.ref_count = hd[x].ref_count
      /\ g.na_op_count = hd[x].na_op_count + 1
      /\ g.na_op_completed_count = hd[x].na_op_completed_count
      /\ g.op_type = "RESPOND"
  BY <1>1, <1>4, HandleTypes DEF HandleType, Responding, Results
<1>8. /\ user' \in [Handles -> UserType] /\ user'[x].respond = "ack"
      /\ user'[x].ref = user[x].ref /\ user'[x].req = user[x].req
      /\ \A y \in Handles \ {x} : user'[y] = user[y]
  <2>1. user' = [user EXCEPT ![x].respond = "ack"]
    BY DEF Respond
  <2>. QED
    BY ZenonT(60), <1>1, <2>1, SetRespond
<1>9. UNCHANGED <<op, cb, more, pending, posting, queue, trig, unpost, seen>>
  BY DEF Respond
<1>10. TypeOK'
  BY ZenonT(60), <1>1, <1>6, <1>8, <1>9 DEF TypeOK
<1>11. Elsewhere(x) /\ Keeps(x)
  BY <1>6, <1>7, <1>8, <1>9, OpNames DEF Elsewhere, Keeps
<1>12. Responses(x)'
  BY SMTT(60), <1>1, <1>2, <1>6, <1>7, <1>8, <1>9, OpNames, StillAt, StillQueued
     DEF Exchanging, Responses, Respond, Disciplined, Counts, NoResponse, Outstanding, Bit
<1>13. hd'[x].ref_count = hd[x].ref_count - Bit(user'[x].respond = "failed")
  BY SMTT(60), <1>1, <1>6, <1>7, <1>8, <1>9, FieldTypes DEF Bit
<1>14. /\ user[x].respond \notin {"no", "done", "failed"}
       /\ user[x].respond = "sent" => user'[x].respond = "sent"
       /\ user'[x].respond \in {"ack", "send", "send_ack", "sent", "failed"}
  BY <1>2, <1>6, <1>7, <1>8, <1>9 DEF Respond, Disciplined
<1>. QED
  BY ZenonT(60), <1>10, <1>11, <1>12, <1>13, <1>14, ResponseStep

LEMMA RespondRefusedStep ==
    ASSUME SetFacts, IInv, NEW x \in Handles, RespondRefused(x)
    PROVE  IInv'
<1>1. TypeOK /\ HandleInv(x)
  BY DEF IInv
<1>2. Exchanging(x)
  BY <1>1, IsExchanging DEF RespondRefused
<1>3. hd[x].ref_count - 1 \in Nat
  BY SMTT(60), <1>1, <1>2, FieldTypes DEF Exchanging, Counted
<1>4. PICK g : /\ g = NotResponding([hd[x] EXCEPT !.ret = "SUCCESS",
                                           !.ret_status = "SUCCESS"])
               /\ hd' = [hd EXCEPT ![x] = g]
  BY ZenonT(60) DEF RespondRefused
<1>5. g \in HandleType
  BY ZenonT(60), <1>1, <1>3, <1>4, HandleTypes DEF HandleType, NotResponding, Results
<1>6. /\ hd' \in [Handles -> HandleType] /\ hd'[x] = g
      /\ \A y \in Handles \ {x} : hd'[y] = hd[y]
  BY ZenonT(60), <1>1, <1>4, <1>5, SetHandle
<1>7. /\ g.life = hd[x].life /\ g.repost = hd[x].repost /\ g.req = hd[x].req
      /\ g.no_response = hd[x].no_response /\ g.ref_count = hd[x].ref_count - 1
      /\ g.na_op_count = hd[x].na_op_count
      /\ g.na_op_completed_count = hd[x].na_op_completed_count
      /\ g.op_type = hd[x].op_type
  BY <1>1, <1>4, HandleTypes DEF HandleType, NotResponding, Results
<1>8. /\ user' \in [Handles -> UserType] /\ user'[x].respond = "failed"
      /\ user'[x].ref = user[x].ref /\ user'[x].req = user[x].req
      /\ \A y \in Handles \ {x} : user'[y] = user[y]
  <2>1. user' = [user EXCEPT ![x].respond = "failed"]
    BY DEF RespondRefused
  <2>. QED
    BY ZenonT(60), <1>1, <2>1, SetRespond
<1>9. UNCHANGED <<op, cb, more, pending, posting, queue, trig, unpost, seen>>
  BY DEF RespondRefused
<1>10. TypeOK'
  BY ZenonT(60), <1>1, <1>6, <1>8, <1>9 DEF TypeOK
<1>11. Elsewhere(x) /\ Keeps(x)
  BY <1>6, <1>7, <1>8, <1>9, OpNames DEF Elsewhere, Keeps
<1>12. Responses(x)'
  BY <1>1, <1>2, <1>6, <1>7, <1>8, <1>9, OpNames, StillAt, StillQueued
     DEF Exchanging, Responses, RespondRefused, Counts, NoResponse, Outstanding, Bit
<1>13. hd'[x].ref_count = hd[x].ref_count - Bit(user'[x].respond = "failed")
  BY <1>1, <1>6, <1>7, <1>8, <1>9, FieldTypes DEF Bit
<1>14. /\ user[x].respond \notin {"no", "done", "failed"}
       /\ user[x].respond = "sent" => user'[x].respond = "sent"
       /\ user'[x].respond \in {"ack", "send", "send_ack", "sent", "failed"}
  BY <1>2, <1>6, <1>7, <1>8, <1>9 DEF RespondRefused
<1>. QED
  BY ZenonT(60), <1>10, <1>11, <1>12, <1>13, <1>14, ResponseStep

LEMMA CancelStep ==
    ASSUME SetFacts, IInv, NEW x \in Handles, Cancel(x)
    PROVE  IInv'
<1>1. TypeOK /\ HandleInv(x)
  BY DEF IInv
<1>2. Exchanging(x)
  BY <1>1, IsExchanging DEF Cancel
<1>3. PICK g : /\ g = [hd[x] EXCEPT !.status = @ \cup {"CANCELED"}]
               /\ hd' = [hd EXCEPT ![x] = g]
  BY ZenonT(60) DEF Cancel
<1>4. g \in HandleType
  BY ZenonT(60), <1>1, <1>3, HandleTypes DEF HandleType
<1>5. /\ hd' \in [Handles -> HandleType] /\ hd'[x] = g
      /\ \A y \in Handles \ {x} : hd'[y] = hd[y]
  BY ZenonT(60), <1>1, <1>3, <1>4, SetHandle
<1>6. /\ g.life = hd[x].life /\ g.repost = hd[x].repost /\ g.req = hd[x].req
      /\ g.no_response = hd[x].no_response /\ g.ref_count = hd[x].ref_count
      /\ g.na_op_count = hd[x].na_op_count
      /\ g.na_op_completed_count = hd[x].na_op_completed_count
      /\ g.op_type = hd[x].op_type
  BY <1>1, <1>3, HandleTypes DEF HandleType
<1>7. /\ op' \in [Handles -> OpsType]
      /\ \A n \in Ops : op'[x][n] = IF op[x][n] = "posted" THEN "canceled" ELSE op[x][n]
      /\ \A y \in Handles \ {x} : op'[y] = op[y]
  <2>1. op' = [op EXCEPT ![x] = NA_Cancel(@)]
    BY DEF Cancel
  <2>. QED
    BY <1>1, <2>1 DEF TypeOK, OpsType, NA_Cancel
<1>8. UNCHANGED <<user, cb, more, pending, posting, queue, trig, unpost, seen>>
  BY DEF Cancel
<1>9. TypeOK'
  BY ZenonT(60), <1>1, <1>5, <1>7, <1>8 DEF TypeOK
<1>10. Elsewhere(x) /\ Keeps(x)
  <2>1. op'[x]["recv"] = op[x]["recv"]
    BY <1>2, <1>7, OpNames DEF Exchanging, NoRequest
  <2>. QED
    BY <1>5, <1>6, <1>7, <1>8, <2>1 DEF Elsewhere, Keeps
<1>11. Responses(x)'
  <2>1. \A n \in Ops : op'[x][n] = "idle" <=> op[x][n] = "idle"
    BY <1>7
  <2>2. /\ NoResponse(x)' <=> NoResponse(x)
        /\ \A n \in Ops : Outstanding(x, n)' <=> Outstanding(x, n)
    BY <1>8, <2>1, OpNames DEF NoResponse, Outstanding
  <2>3. \A o \in {"send", "ack"} :
             cb[x][o] = "none" \/ (cb[x][o] = "finish" /\ op'[x][o] = "idle")
    BY <1>2, <2>1, OpNames DEF Exchanging, Responses, Cancel
  <2>4. user[x].respond = "sent"
    BY DEF Cancel
  <2>5. Bit(Outstanding(x, "send"))' = Bit(Outstanding(x, "send"))
        /\ Bit(Outstanding(x, "ack"))' = Bit(Outstanding(x, "ack"))
    BY <2>2, OpNames DEF Bit
  <2>. QED
    BY <1>2, <1>5, <1>6, <1>8, <2>2, <2>3, <2>4, <2>5, OpNames, StillQueued
       DEF Exchanging, Responses
<1>12. hd'[x].ref_count = hd[x].ref_count - Bit(user'[x].respond = "failed")
  <2>1. user'[x].respond = "sent"
    BY <1>8 DEF Cancel
  <2>. QED
    BY SMTT(60), <1>1, <1>5, <1>6, <2>1, FieldTypes DEF Bit
<1>13. /\ user[x].respond \notin {"no", "done", "failed"}
       /\ user[x].respond = "sent" => user'[x].respond = "sent"
       /\ user'[x].respond \in {"ack", "send", "send_ack", "sent", "failed"}
  BY <1>2, <1>5, <1>6, <1>7, <1>8 DEF Cancel
<1>. QED
  BY ZenonT(60), <1>9, <1>10, <1>11, <1>12, <1>13, ResponseStep

LEMMA RespondCbStep ==
    ASSUME SetFacts, Disciplined, IInv, NEW x \in Handles, NEW o \in {"send", "ack"},
           NEW r \in Results, RespondCb(x, o, r)
    PROVE  IInv'
<1>1. TypeOK /\ HandleInv(x) /\ o \in Ops
  BY OpNames DEF IInv
<1>2. Exchanging(x) /\ user[x].respond = "sent"
  <2>1. Exchanging(x) /\ ThreadFree
    BY <1>1, IsExchanging DEF RespondCb, Delivered, NoResponse
  <2>2. user[x].respond \in {"sent", "send_ack"}
    BY <1>1, <2>1, HandleTypes DEF RespondCb, Delivered, Exchanging, Responses, NoResponse,
       UserType
  <2>3. user[x].respond = "send_ack" => ~ThreadFree
    BY <2>1 DEF Exchanging, Responses, ThreadFree, InRespond, Disciplined
  <2>. QED
    BY <2>1, <2>2, <2>3
<1>3. PICK g : /\ g = IF r = "SUCCESS" THEN hd[x] ELSE Noted(hd[x], r)
               /\ hd' = [hd EXCEPT ![x] = g]
  BY ZenonT(60) DEF RespondCb
<1>4. SameCounts(hd[x], g)
  BY <1>1, <1>3, HandleTypes, NotedCounts DEF SameCounts
<1>5. /\ hd' \in [Handles -> HandleType] /\ hd'[x] = g
      /\ \A y \in Handles \ {x} : hd'[y] = hd[y]
  BY ZenonT(60), <1>1, <1>3, <1>4, SetHandle DEF SameCounts
<1>6. /\ op' \in [Handles -> OpsType] /\ op'[x][o] = "idle"
      /\ \A n \in Ops \ {o} : op'[x][n] = op[x][n]
      /\ \A y \in Handles \ {x} : op'[y] = op[y]
  BY ZenonT(60), <1>1, SetOp DEF RespondCb, Delivered
<1>7. /\ cb' \in [Handles -> CallbacksType] /\ cb'[x][o] = "finish"
      /\ \A n \in Ops \ {o} : cb'[x][n] = cb[x][n]
      /\ \A y \in Handles \ {x} : cb'[y] = cb[y]
  BY ZenonT(60), <1>1, SetCb DEF RespondCb, Delivered
<1>8. UNCHANGED <<user, more, pending, posting, queue, trig, unpost, seen>>
  BY DEF RespondCb
<1>9. TypeOK'
  BY ZenonT(60), <1>1, <1>5, <1>6, <1>7, <1>8 DEF TypeOK
<1>10. Elsewhere(x) /\ Keeps(x)
  BY <1>4, <1>5, <1>6, <1>7, <1>8, OpNames DEF Elsewhere, Keeps, SameCounts
<1>11. Responses(x)'
  <2>1. op[x][o] # "idle"
    BY DEF RespondCb, Delivered
  <2>2. /\ ~NoResponse(x) /\ ~NoResponse(x)'
        /\ \A n \in {"send", "ack"} : Outstanding(x, n)' <=> Outstanding(x, n)
    BY <1>6, <1>7, <2>1, OpNames DEF NoResponse, Outstanding
  <2>3. \A n \in {"send", "ack"} :
             cb'[x][n] = "none" \/ (cb'[x][n] = "finish" /\ op'[x][n] = "idle")
    BY SMTT(60), <1>2, <1>6, <1>7, OpNames DEF Exchanging, Responses
  <2>4. /\ Bit(Outstanding(x, "send"))' = Bit(Outstanding(x, "send"))
        /\ Bit(Outstanding(x, "ack"))' = Bit(Outstanding(x, "ack"))
    BY <2>2 DEF Bit
  <2>. QED
    BY <1>2, <1>4, <1>5, <1>8, <2>2, <2>3, <2>4, StillQueued
       DEF Exchanging, Responses, SameCounts
<1>12. hd'[x].ref_count = hd[x].ref_count - Bit(user'[x].respond = "failed")
  BY SMTT(60), <1>1, <1>2, <1>4, <1>5, <1>8, FieldTypes DEF Bit, SameCounts
<1>13. user'[x].respond = "sent"
  BY <1>2, <1>4, <1>5, <1>8 DEF SameCounts
<1>. QED
  BY ZenonT(60), <1>2, <1>9, <1>10, <1>11, <1>12, <1>13, ResponseStep

-----------------------------------------------------------------------------
(* The callback of the receive *)

LEMMA ApartKept ==
    ASSUME NEW x, user'[x] = user[x], On(x)' = On(x),
           \A o \in {"send", "ack"} : op'[x][o] = op[x][o] /\ cb'[x][o] = cb[x][o]
    PROVE  Apart(x)' <=> Apart(x)
  BY DEF Apart, NoResponse

LEMMA NotPosting ==
    ASSUME IInv, NEW x \in Handles, cb[x]["recv"] # "input"
    PROVE  \A z \in Handles : posting[z] # x
  BY DEF IInv, PostingInv

LEMMA ReceivingStep ==
    ASSUME IInv, NEW x \in Handles, Receiving(x), TypeOK', Elsewhere(x),
           UNCHANGED <<op, user, pending, posting, queue, trig, unpost>>,
           \A z \in Handles : posting[z] # x,
           \A y \in Handles \ {x} : y \in more' <=> y \in more,
           \A o \in {"send", "ack"} : cb'[x][o] = cb[x][o],
           hd'[x].life = hd[x].life, hd'[x].ref_count = hd[x].ref_count,
           hd'[x].na_op_count = hd[x].na_op_count, hd'[x].op_type = hd[x].op_type,
           hd'[x].repost = hd[x].repost, Stage(x)'
    PROVE  IInv'
<1>1. On(x)' = On(x) /\ (Queued(x)' <=> Queued(x))
  BY StillAt, StillQueued
<1>2. Apart(x) /\ Apart(x)'
  BY <1>1, ApartKept DEF Receiving
<1>3. HandleInv(x)'
  BY <1>1, <1>2 DEF HandleInv, Receiving
<1>4. OwnRequest(x)'
  BY <1>2 DEF Apart, OwnRequest
<1>. QED
  BY <1>3, <1>4, StepOf DEF Elsewhere

LEMMA CheckPendingStep ==
    ASSUME IInv, NEW x \in Handles, CheckPending(x)
    PROVE  IInv'
<1>1. TypeOK /\ Receiving(x) /\ \A z \in Handles : posting[z] # x
  BY IsReceiving, NotPosting DEF IInv, CheckPending
<1>2. PICK r \in {"post", "input"} : cb' = [cb EXCEPT ![x]["recv"] = r]
  BY ZenonT(60) DEF CheckPending
<1>3. /\ cb' \in [Handles -> CallbacksType] /\ cb'[x]["recv"] = r
      /\ \A n \in Ops \ {"recv"} : cb'[x][n] = cb[x][n]
      /\ \A y \in Handles \ {x} : cb'[y] = cb[y]
  BY ZenonT(60), <1>1, <1>2, OpNames, SetCb
<1>4. UNCHANGED <<hd, op, more, pending, posting, user, queue, trig, unpost, seen>>
  BY DEF CheckPending
<1>5. TypeOK'
  BY ZenonT(60), <1>1, <1>3, <1>4 DEF TypeOK
<1>6. Stage(x)'
  BY <1>1, <1>2, <1>3, <1>4 DEF CheckPending, Receiving, Stage
<1>7. Elsewhere(x)
  BY <1>3, <1>4 DEF Elsewhere
<1>. QED
  BY <1>1, <1>3, <1>4, <1>5, <1>6, <1>7, OpNames, ReceivingStep

(* The callback goes on to stage r with the fields g of the handle. *)
LEMMA GoesOn ==
    ASSUME IInv, NEW x \in Handles, Receiving(x), \A z \in Handles : posting[z] # x,
           NEW g \in HandleType, hd' = [hd EXCEPT ![x] = g],
           NEW r \in {"finish", "defer"}, cb' = [cb EXCEPT ![x]["recv"] = r],
           cb[x]["recv"] \in {"input", "stop"},
           g.life = hd[x].life, g.ref_count = hd[x].ref_count,
           g.na_op_count = hd[x].na_op_count, g.op_type = hd[x].op_type,
           g.na_op_completed_count = hd[x].na_op_completed_count,
           g.repost = hd[x].repost,
           r = "defer" => MoreData /\ more' = more \cup {x},
           r = "finish" => more' = more,
           UNCHANGED <<op, user, pending, posting, queue, trig, unpost, seen>>
    PROVE  IInv'
<1>1. TypeOK
  BY DEF IInv
<1>2. /\ hd' \in [Handles -> HandleType] /\ hd'[x] = g
      /\ \A y \in Handles \ {x} : hd'[y] = hd[y]
  BY ZenonT(60), <1>1, SetHandle
<1>3. /\ cb' \in [Handles -> CallbacksType] /\ cb'[x]["recv"] = r
      /\ \A n \in Ops \ {"recv"} : cb'[x][n] = cb[x][n]
      /\ \A y \in Handles \ {x} : cb'[y] = cb[y]
  BY ZenonT(60), <1>1, OpNames, SetCb
<1>4. more' \subseteq Handles /\ \A y \in Handles \ {x} : y \in more' <=> y \in more
  BY <1>1 DEF TypeOK
<1>5. TypeOK'
  BY ZenonT(60), <1>1, <1>2, <1>3, <1>4 DEF TypeOK
<1>6. Stage(x)'
  BY <1>2, <1>3 DEF Receiving, Stage
<1>7. Elsewhere(x)
  BY <1>2, <1>3 DEF Elsewhere
<1>. QED
  BY SMTT(60), <1>2, <1>3, <1>4, <1>5, <1>6, <1>7, OpNames, ReceivingStep

LEMMA ContextPostStopsStep ==
    ASSUME IInv, NEW x \in Handles, ContextPostStops(x)
    PROVE  IInv'
<1>1. TypeOK /\ Receiving(x) /\ \A z \in Handles : posting[z] # x
  BY IsReceiving, NotPosting DEF IInv, ContextPostStops
<1>2. PICK g : g = Noted(hd[x], "ERROR") /\ hd' = [hd EXCEPT ![x] = g]
  BY ZenonT(60) DEF ContextPostStops
<1>3. SameCounts(hd[x], g)
  BY <1>1, <1>2, HandleTypes, NotedCounts DEF Results
<1>4. /\ cb' = [cb EXCEPT ![x]["recv"] = "finish"] /\ cb[x]["recv"] \in {"input", "stop"}
      /\ \A z \in Handles : posting[z] # x
      /\ UNCHANGED <<op, more, user, pending, posting, queue, trig, unpost, seen>>
  BY <1>1 DEF ContextPostStops
<1>. QED
  BY ZenonT(60), <1>1, <1>2, <1>3, <1>4, GoesOn DEF SameCounts

LEMMA ProcessInputFailsStep ==
    ASSUME IInv, NEW x \in Handles, ProcessInputFails(x)
    PROVE  IInv'
<1>1. TypeOK /\ Receiving(x)
  BY IsReceiving DEF IInv, ProcessInputFails
<1>2. PICK g : g = Noted(hd[x], "ERROR") /\ hd' = [hd EXCEPT ![x] = g]
  BY ZenonT(60) DEF ProcessInputFails
<1>3. SameCounts(hd[x], g)
  BY <1>1, <1>2, HandleTypes, NotedCounts DEF Results
<1>4. /\ cb' = [cb EXCEPT ![x]["recv"] = "finish"] /\ cb[x]["recv"] \in {"input", "stop"}
      /\ \A z \in Handles : posting[z] # x
      /\ UNCHANGED <<op, more, user, pending, posting, queue, trig, unpost, seen>>
  BY <1>1 DEF ProcessInputFails
<1>. QED
  BY ZenonT(60), <1>1, <1>2, <1>3, <1>4, GoesOn DEF SameCounts

LEMMA ProcessInputStep ==
    ASSUME IInv, NEW x \in Handles, ProcessInput(x) \/ ProcessInputMore(x)
    PROVE  IInv'
<1>1. TypeOK /\ Receiving(x)
  BY IsReceiving DEF IInv, ProcessInput, ProcessInputMore
<1>2. PICK oneway \in BOOLEAN :
        /\ hd' = [hd EXCEPT ![x].no_response = oneway]
        /\ \E r \in {"finish", "defer"} :
             /\ cb' = [cb EXCEPT ![x]["recv"] = r]
             /\ r = "defer" => MoreData /\ more' = more \cup {x}
             /\ r = "finish" => more' = more
        /\ cb[x]["recv"] = "input" /\ \A y \in Handles : posting[y] # x
        /\ UNCHANGED <<op, user, pending, posting, queue, trig, unpost, seen>>
  BY ZenonT(60) DEF ProcessInput, ProcessInputMore
<1>3. PICK g : g = [hd[x] EXCEPT !.no_response = oneway] /\ hd' = [hd EXCEPT ![x] = g]
  BY ZenonT(60), <1>2
<1>4. g \in HandleType
  BY ZenonT(60), <1>1, <1>3, HandleTypes DEF HandleType
<1>5. /\ g.life = hd[x].life /\ g.ref_count = hd[x].ref_count
      /\ g.na_op_count = hd[x].na_op_count /\ g.op_type = hd[x].op_type
      /\ g.na_op_completed_count = hd[x].na_op_completed_count
      /\ g.repost = hd[x].repost
  BY <1>1, <1>3, HandleTypes DEF HandleType
<1>. QED
  BY ZenonT(60), <1>1, <1>2, <1>3, <1>4, <1>5, GoesOn

-----------------------------------------------------------------------------
(* The receive of a request *)

LEMMA ListedHandle ==
    ASSUME IInv, NEW x \in Handles, op[x]["recv"] # "idle"
    PROVE  /\ TypeOK /\ Listed(x) /\ posting[x] = "no"
           /\ \A z \in Handles : posting[z] # x
  BY IsListed, NotPosting DEF IInv, Listed

(* NA calls back the receive of x, which leaves the pending list, with      *)
(* fields g.                                                                *)
LEMMA ReceivedStep ==
    ASSUME IInv, NEW x \in Handles, NEW r \in {"check", "finish"}, Delivered(x, "recv", r),
           NEW g \in HandleType, hd' = [hd EXCEPT ![x] = g],
           g.life = hd[x].life, g.ref_count = hd[x].ref_count,
           g.na_op_count = hd[x].na_op_count, g.op_type = hd[x].op_type,
           g.na_op_completed_count = hd[x].na_op_completed_count,
           g.repost = hd[x].repost, seen' \in Nat, pending' = pending \ {x},
           UNCHANGED <<more, posting, user, queue, trig, unpost>>
    PROVE  IInv'
<1>1. /\ TypeOK /\ Listed(x) /\ posting[x] = "no"
      /\ \A z \in Handles : posting[z] # x
  BY ListedHandle DEF Delivered
<1>2. /\ hd' \in [Handles -> HandleType] /\ hd'[x] = g
      /\ \A y \in Handles \ {x} : hd'[y] = hd[y]
  BY ZenonT(60), <1>1, SetHandle
<1>3. /\ op' \in [Handles -> OpsType] /\ op'[x]["recv"] = "idle"
      /\ \A n \in Ops \ {"recv"} : op'[x][n] = op[x][n]
      /\ \A y \in Handles \ {x} : op'[y] = op[y]
  BY ZenonT(60), <1>1, OpNames, SetOp DEF Delivered
<1>4. /\ cb' \in [Handles -> CallbacksType] /\ cb'[x]["recv"] = r
      /\ \A n \in Ops \ {"recv"} : cb'[x][n] = cb[x][n]
      /\ \A y \in Handles \ {x} : cb'[y] = cb[y]
  BY ZenonT(60), <1>1, OpNames, SetCb DEF Delivered
<1>5. pending' \subseteq Handles
  BY <1>1 DEF TypeOK
<1>6. TypeOK'
  BY ZenonT(60), <1>1, <1>2, <1>3, <1>4, <1>5 DEF TypeOK
<1>7. On(x)' = On(x) /\ (Queued(x)' <=> Queued(x))
  BY StillAt, StillQueued
<1>8. Apart(x) /\ Apart(x)'
  BY <1>1, <1>3, <1>4, <1>7, OpNames, ApartKept DEF Listed
<1>9. Receiving(x)'
  BY <1>1, <1>2, <1>3, <1>4, <1>7, <1>8, ListedFields DEF Listed, Receiving, Stage
<1>10. OwnRequest(x)'
  BY <1>8 DEF Apart, OwnRequest
<1>11. PostingInv'
  BY <1>1, <1>4, NamesAssumption DEF IInv, PostingInv
<1>12. QueueInv' /\ TrigInv'
  BY DEF IInv, QueueInv, TrigInv
<1>13. FinalInv'
  BY <1>2, <1>3 DEF IInv, FinalInv, finalizing
<1>14. \A y \in Handles \ {x} : Same(y)
  BY <1>2, <1>3, <1>4 DEF Same, SameTriggers, On, Queued
<1>. QED
  BY <1>6, <1>9, <1>10, <1>11, <1>12, <1>13, <1>14, Assemble DEF HandleInv

LEMMA RecvInputCbStep ==
    ASSUME IInv, NEW x \in Handles, RecvInputCb(x)
    PROVE  IInv'
<1>1. TypeOK /\ seen' \in Nat
  BY SMTT(60) DEF IInv, TypeOK, RecvInputCb
<1>2. PICK g : g = [hd[x] EXCEPT !.req = seen'] /\ hd' = [hd EXCEPT ![x] = g]
  BY ZenonT(60) DEF RecvInputCb
<1>3. g \in HandleType
  BY ZenonT(60), <1>1, <1>2, HandleTypes DEF HandleType
<1>4. /\ g.life = hd[x].life /\ g.ref_count = hd[x].ref_count
      /\ g.na_op_count = hd[x].na_op_count /\ g.op_type = hd[x].op_type
      /\ g.na_op_completed_count = hd[x].na_op_completed_count
      /\ g.repost = hd[x].repost
  BY <1>1, <1>2, HandleTypes DEF HandleType
<1>5. /\ Delivered(x, "recv", "check") /\ pending' = pending \ {x}
      /\ UNCHANGED <<more, posting, user, queue, trig, unpost>>
  BY DEF RecvInputCb
<1>. QED
  BY ZenonT(60), <1>1, <1>2, <1>3, <1>4, <1>5, ReceivedStep

LEMMA RecvInputFailsStep ==
    ASSUME IInv, NEW x \in Handles, RecvInputFails(x)
    PROVE  IInv'
<1>1. TypeOK /\ seen' \in Nat
  BY SMTT(60) DEF IInv, TypeOK, RecvInputFails
<1>2. PICK g : g = Noted(hd[x], "ERROR") /\ hd' = [hd EXCEPT ![x] = g]
  BY ZenonT(60) DEF RecvInputFails
<1>3. SameCounts(hd[x], g)
  BY <1>1, <1>2, HandleTypes, NotedCounts DEF Results
<1>4. /\ Delivered(x, "recv", "finish") /\ pending' = pending \ {x}
      /\ UNCHANGED <<more, posting, user, queue, trig, unpost>>
  BY DEF RecvInputFails
<1>. QED
  BY ZenonT(60), <1>1, <1>2, <1>3, <1>4, ReceivedStep DEF SameCounts

(* hg_core_destroy by the holder of the last reference, and by another. *)
LEMMA DroppedLast ==
    ASSUME TypeOK, NEW x \in Handles, NEW g \in HandleType, NEW who, Dropped(x, g, who),
           g.ref_count = 1
    PROVE  /\ hd' \in [Handles -> HandleType]
           /\ \A y \in Handles \ {x} : hd'[y] = hd[y]
           /\ hd'[x].ref_count = 0 /\ hd'[x].repost = g.repost /\ hd'[x].req = g.req
           /\ g.repost /\ ~finalizing =>
                hd'[x].life = g.life /\ posting' = [posting EXCEPT ![x] = who]
           /\ ~(g.repost /\ ~finalizing) => hd'[x].life = "freed" /\ posting' = posting
<1>1. PICK b \in BOOLEAN : b <=> g.repost /\ ~finalizing
  BY ZenonT(60)
<1>2. PICK h : /\ h = [g EXCEPT !.ref_count = @ - 1,
                                !.life = IF ~b THEN "freed" ELSE @]
               /\ hd' = [hd EXCEPT ![x] = h]
               /\ posting' = IF b THEN [posting EXCEPT ![x] = who] ELSE posting
  BY ZenonT(60), <1>1 DEF Dropped
<1>3. g.ref_count - 1 \in Nat /\ g.ref_count - 1 = 0
  BY SMTT(60)
<1>4. h \in HandleType
  BY ZenonT(60), <1>2, <1>3 DEF HandleType
<1>5. /\ hd' \in [Handles -> HandleType] /\ hd'[x] = h
      /\ \A y \in Handles \ {x} : hd'[y] = hd[y]
  BY ZenonT(60), <1>2, <1>4, SetHandle
<1>6. /\ h.ref_count = 0 /\ h.repost = g.repost /\ h.req = g.req
      /\ h.life = IF ~b THEN "freed" ELSE g.life
  BY <1>2, <1>3 DEF HandleType
<1>. QED
  BY <1>1, <1>2, <1>5, <1>6

LEMMA RecvInputCanceledStep ==
    ASSUME IInv, NEW x \in Handles, RecvInputCanceled(x)
    PROVE  IInv'
<1>1. /\ TypeOK /\ Listed(x) /\ posting[x] = "no" /\ finalizing
      /\ \A z \in Handles : posting[z] # x
  BY ListedHandle DEF RecvInputCanceled, IInv, FinalInv
<1>2. PICK g : /\ g = [hd[x] EXCEPT !.status = @ \cup {"COMPLETED"}]
               /\ Dropped(x, g, "user")
  BY ZenonT(60) DEF RecvInputCanceled
<1>3. g \in HandleType
  BY ZenonT(60), <1>1, <1>2, HandleTypes DEF HandleType
<1>4. g.ref_count = 1 /\ g.repost = hd[x].repost
  BY <1>1, <1>2, HandleTypes, ListedFields DEF HandleType, Listed
<1>5. /\ hd' \in [Handles -> HandleType] /\ posting' = posting
      /\ \A y \in Handles \ {x} : hd'[y] = hd[y]
      /\ hd'[x].life = "freed" /\ hd'[x].repost = hd[x].repost
  BY ZenonT(60), <1>1, <1>2, <1>3, <1>4, DroppedLast
<1>6. /\ op' \in [Handles -> OpsType] /\ op'[x]["recv"] = "idle"
      /\ \A n \in Ops \ {"recv"} : op'[x][n] = op[x][n]
      /\ \A y \in Handles \ {x} : op'[y] = op[y]
  BY ZenonT(60), <1>1, OpNames, SetOp DEF RecvInputCanceled, Delivered
<1>7. /\ cb' \in [Handles -> CallbacksType] /\ cb'[x]["recv"] = "none"
      /\ \A n \in Ops \ {"recv"} : cb'[x][n] = cb[x][n]
      /\ \A y \in Handles \ {x} : cb'[y] = cb[y]
  BY ZenonT(60), <1>1, OpNames, SetCb DEF RecvInputCanceled, Delivered
<1>8. /\ pending' = pending \ {x} /\ pending' \subseteq Handles
      /\ UNCHANGED <<more, user, queue, trig, unpost, seen>>
  BY <1>1 DEF TypeOK, RecvInputCanceled
<1>9. TypeOK'
  BY ZenonT(60), <1>1, <1>5, <1>6, <1>7, <1>8 DEF TypeOK
<1>10. On(x)' = On(x) /\ (Queued(x)' <=> Queued(x))
  BY <1>8, StillAt, StillQueued
<1>11. Apart(x) /\ Apart(x)'
  BY <1>1, <1>6, <1>7, <1>8, <1>10, OpNames, ApartKept DEF Listed
<1>12. Gone(x)'
  BY <1>1, <1>5, <1>6, <1>7, <1>8, <1>10, <1>11 DEF Listed, Gone, NoRequest
<1>13. OwnRequest(x)'
  BY <1>11 DEF Apart, OwnRequest
<1>14. PostingInv'
  BY <1>1, <1>5, <1>7, <1>8, NamesAssumption DEF IInv, PostingInv
<1>15. QueueInv' /\ TrigInv'
  BY <1>8 DEF IInv, QueueInv, TrigInv
<1>16. FinalInv'
  BY <1>1, <1>8 DEF FinalInv, finalizing
<1>17. \A y \in Handles \ {x} : Same(y)
  BY <1>5, <1>6, <1>7, <1>8 DEF Same, SameTriggers, On, Queued
<1>. QED
  BY <1>9, <1>12, <1>13, <1>14, <1>15, <1>16, <1>17, Assemble DEF HandleInv

-----------------------------------------------------------------------------
(* The posting of handles, and hg_core_context_unpost *)

LEMMA AssembleAll ==
    ASSUME IInv, TypeOK', PostingInv', QueueInv', TrigInv', FinalInv',
           \A y \in Handles : Same(y) \/ (HandleInv(y)' /\ OwnRequest(y)')
    PROVE  IInv'
<1>1. ASSUME NEW y \in Handles
      PROVE  HandleInv(y)' /\ OwnRequest(y)'
  BY Frame DEF IInv, Same, OwnRequest
<1>. QED
  BY <1>1 DEF IInv

LEMMA SetPosting ==
    ASSUME TypeOK, NEW x \in Handles, NEW w \in {"no", "user"} \cup Handles \cup Triggers,
           posting' = [posting EXCEPT ![x] = w]
    PROVE  /\ posting' \in [Handles -> {"no", "user"} \cup Handles \cup Triggers]
           /\ posting'[x] = w /\ \A y \in Handles \ {x} : posting'[y] = posting[y]
  BY DEF TypeOK

LEMMA ContextPostStep ==
    ASSUME IInv, NEW x \in Handles, ContextPost(x)
    PROVE  IInv'
<1>1. TypeOK /\ Receiving(x) /\ \A z \in Handles : posting[z] # x
  BY IsReceiving, NotPosting DEF IInv, ContextPost
<1>2. PICK y \in Handles :
        /\ cb[x]["recv"] = "post" /\ hd[y].life = "none"
        /\ hd' = [hd EXCEPT ![y] = Fresh]
        /\ pending' = pending \cup {y}
        /\ posting' = [posting EXCEPT ![y] = x]
        /\ cb' = [cb EXCEPT ![x]["recv"] = "input"]
        /\ UNCHANGED <<op, more, user, queue, trig, unpost, seen>>
  BY ZenonT(60) DEF ContextPost
<1>3. Gone(y) /\ y # x
  BY <1>1, <1>2, IsUnborn DEF IInv, Receiving
<1>4. /\ hd' \in [Handles -> HandleType] /\ hd'[y] = Fresh
      /\ \A z \in Handles \ {y} : hd'[z] = hd[z]
  BY ZenonT(60), <1>1, <1>2, FreshTypes, SetHandle
<1>5. /\ cb' \in [Handles -> CallbacksType] /\ cb'[x]["recv"] = "input"
      /\ \A n \in Ops \ {"recv"} : cb'[x][n] = cb[x][n]
      /\ \A z \in Handles \ {x} : cb'[z] = cb[z]
  BY ZenonT(60), <1>1, <1>2, OpNames, SetCb
<1>6. /\ posting' \in [Handles -> {"no", "user"} \cup Handles \cup Triggers]
      /\ posting'[y] = x /\ \A z \in Handles \ {y} : posting'[z] = posting[z]
  BY ZenonT(60), <1>1, <1>2, SetPosting
<1>7. pending' \subseteq Handles
  BY <1>1, <1>2 DEF TypeOK
<1>8. TypeOK'
  BY ZenonT(60), <1>1, <1>2, <1>4, <1>5, <1>6, <1>7 DEF TypeOK
<1>9. ASSUME NEW z \in Handles
      PROVE  On(z)' = On(z) /\ (Queued(z)' <=> Queued(z))
  BY <1>2, StillAt, StillQueued
<1>10. Receiving(x)' /\ OwnRequest(x)'
  <2>1. Apart(x) /\ Apart(x)'
    BY SMTT(60), <1>1, <1>2, <1>5, <1>9, OpNames, ApartKept DEF Receiving
  <2>2. Stage(x)'
    BY <1>1, <1>2, <1>3, <1>4, <1>5 DEF Receiving, Stage
  <2>. QED
    BY <1>1, <1>2, <1>3, <1>4, <1>6, <1>9, <2>1, <2>2 DEF Receiving, Apart, OwnRequest
<1>11. Listed(y)' /\ OwnRequest(y)'
  <2>1. Apart(y) /\ Apart(y)'
    BY <1>2, <1>3, <1>5, <1>9, OpNames, ApartKept DEF Gone
  <2>. QED
    BY <1>2, <1>3, <1>4, <1>5, <1>6, <1>9, <2>1, NamesAssumption
       DEF Gone, NoRequest, Listed, Apart, OwnRequest
<1>12. PostingInv'
  BY SMTT(60), <1>1, <1>2, <1>3, <1>5, <1>6 DEF IInv, PostingInv
<1>13. QueueInv' /\ TrigInv'
  BY <1>2 DEF IInv, QueueInv, TrigInv
<1>14. FinalInv'
  BY <1>2, <1>3, <1>4, FreshFields DEF IInv, FinalInv, finalizing, Gone, NoRequest
<1>15. \A z \in Handles : z = x \/ z = y \/ Same(z)
  BY <1>2, <1>4, <1>5, <1>6, <1>9 DEF Same, SameTriggers
<1>. QED
  BY <1>8, <1>10, <1>11, <1>12, <1>13, <1>14, <1>15, AssembleAll DEF HandleInv

LEMMA ContextPostFailsStep ==
    ASSUME IInv, NEW x \in Handles, NEW y \in Handles, ContextPostFails(x, y)
    PROVE  IInv'
<1>1. /\ TypeOK /\ y \in pending /\ cb[x]["recv"] = "input" /\ posting[y] = x
      /\ \A z \in Handles : posting[z] = x => z = y
  BY DEF IInv, PostingInv, ContextPostFails
<1>2. Receiving(x) /\ Listed(y) /\ x # y /\ op[y]["recv"] = "idle"
  BY <1>1, IsReceiving, IsListed, NamesAssumption DEF IInv, Listed
<1>3. /\ pending' = pending \ {y} /\ posting' = [posting EXCEPT ![y] = "no"]
      /\ cb' = [cb EXCEPT ![x]["recv"] = "stop"] /\ unpost' = "cancel"
      /\ "post" \in Races
      /\ UNCHANGED <<hd, op, more, user, queue, trig, seen>>
  BY DEF ContextPostFails
<1>4. /\ cb' \in [Handles -> CallbacksType] /\ cb'[x]["recv"] = "stop"
      /\ \A n \in Ops \ {"recv"} : cb'[x][n] = cb[x][n]
      /\ \A z \in Handles \ {x} : cb'[z] = cb[z]
  BY ZenonT(60), <1>1, <1>3, OpNames, SetCb
<1>5. /\ posting' \in [Handles -> {"no", "user"} \cup Handles \cup Triggers]
      /\ posting'[y] = "no" /\ \A z \in Handles \ {y} : posting'[z] = posting[z]
  BY ZenonT(60), <1>1, <1>3, SetPosting
<1>6. pending' \subseteq Handles
  BY <1>1, <1>3 DEF TypeOK
<1>7. TypeOK'
  BY ZenonT(60), <1>1, <1>3, <1>4, <1>5, <1>6 DEF TypeOK
<1>8. ASSUME NEW z \in Handles
      PROVE  On(z)' = On(z) /\ (Queued(z)' <=> Queued(z))
  BY <1>3, StillAt, StillQueued
<1>9. Receiving(x)' /\ OwnRequest(x)'
  <2>1. Apart(x) /\ Apart(x)'
    BY SMTT(60), <1>2, <1>3, <1>4, <1>8, OpNames, ApartKept DEF Receiving
  <2>2. Stage(x)'
    BY <1>1, <1>2, <1>3, <1>4 DEF Receiving, Stage
  <2>. QED
    BY <1>2, <1>3, <1>5, <1>8, <2>1, <2>2 DEF Receiving, Apart, OwnRequest
<1>10. Forsaken(y)' /\ OwnRequest(y)'
  <2>1. Apart(y) /\ Apart(y)'
    BY <1>2, <1>3, <1>4, <1>8, OpNames, ApartKept DEF Listed
  <2>. QED
    BY <1>2, <1>3, <1>4, <1>5, <1>8, <2>1
       DEF NoRequest, Listed, Forsaken, Apart, OwnRequest
<1>11. PostingInv'
  BY SMTT(60), <1>1, <1>3, <1>4, <1>5, NamesAssumption DEF IInv, PostingInv
<1>12. QueueInv' /\ TrigInv' /\ FinalInv'
  BY <1>3 DEF IInv, QueueInv, TrigInv, FinalInv, finalizing
<1>13. \A z \in Handles : z = x \/ z = y \/ Same(z)
  BY <1>3, <1>4, <1>5, <1>8 DEF Same, SameTriggers
<1>. QED
  BY <1>7, <1>9, <1>10, <1>11, <1>12, <1>13, AssembleAll DEF HandleInv

LEMMA ResetPostStep ==
    ASSUME IInv, NEW x \in Handles, ResetPost(x)
    PROVE  IInv'
<1>1. /\ TypeOK /\ Returning(x) /\ posting[x] \notin Handles /\ posting[x] # "no"
      /\ \A z \in Handles : posting[z] # x
  <2>1. posting[x] \notin Handles /\ posting[x] # "no"
    BY NamesAssumption DEF ResetPost
  <2>2. Returning(x)
    BY <2>1, IsPosted DEF IInv, ResetPost
  <2>. QED
    BY <2>1, <2>2, NotPosting DEF IInv, Returning, NoRequest
<1>2. /\ hd' = [hd EXCEPT ![x] = Fresh] /\ pending' = pending \cup {x}
      /\ UNCHANGED <<op, cb, more, posting, user, queue, trig, unpost, seen>>
  BY DEF ResetPost
<1>3. /\ hd' \in [Handles -> HandleType] /\ hd'[x] = Fresh
      /\ \A z \in Handles \ {x} : hd'[z] = hd[z]
  BY ZenonT(60), <1>1, <1>2, FreshTypes, SetHandle
<1>4. pending' \subseteq Handles
  BY <1>1, <1>2 DEF TypeOK
<1>5. TypeOK'
  BY ZenonT(60), <1>1, <1>2, <1>3, <1>4 DEF TypeOK
<1>6. On(x)' = On(x) /\ (Queued(x)' <=> Queued(x))
  BY <1>2, StillAt, StillQueued
<1>7. Apart(x) /\ Apart(x)'
  BY <1>1, <1>2, <1>6, ApartKept DEF Returning
<1>8. Listed(x)' /\ OwnRequest(x)'
  BY <1>1, <1>2, <1>3, <1>6, <1>7 DEF Returning, NoRequest, Listed, Apart, OwnRequest
<1>9. PostingInv'
  BY <1>1, <1>2 DEF IInv, PostingInv
<1>10. QueueInv' /\ TrigInv'
  BY <1>2 DEF IInv, QueueInv, TrigInv
<1>11. FinalInv'
  BY <1>1, <1>2, <1>3, FreshFields DEF IInv, FinalInv, finalizing, Returning, NoRequest
<1>12. \A z \in Handles \ {x} : Same(z)
  BY <1>2, <1>3 DEF Same, SameTriggers, On, Queued
<1>. QED
  BY <1>5, <1>8, <1>9, <1>10, <1>11, <1>12, Assemble DEF HandleInv

(* A handle that is being posted. *)
LEMMA PostedHandle ==
    ASSUME IInv, NEW x \in Handles, posting[x] # "no", x \in pending
    PROVE  /\ TypeOK /\ Listed(x) /\ op[x]["recv"] = "idle"
           /\ \A z \in Handles : posting[z] # x
  BY IsListed, NotPosting DEF IInv, Listed

LEMMA PostRecvStep ==
    ASSUME IInv, NEW x \in Handles, PostRecv(x)
    PROVE  IInv'
<1>1. /\ TypeOK /\ Listed(x) /\ op[x]["recv"] = "idle"
      /\ \A z \in Handles : posting[z] # x
  BY PostedHandle DEF PostRecv
<1>2. /\ op' = [op EXCEPT ![x]["recv"] = "posted"]
      /\ posting' = [posting EXCEPT ![x] = "no"]
      /\ UNCHANGED <<hd, cb, more, pending, user, queue, trig, unpost, seen>>
  BY DEF PostRecv
<1>3. /\ op' \in [Handles -> OpsType] /\ op'[x]["recv"] = "posted"
      /\ \A n \in Ops \ {"recv"} : op'[x][n] = op[x][n]
      /\ \A y \in Handles \ {x} : op'[y] = op[y]
  BY ZenonT(60), <1>1, <1>2, OpNames, SetOp
<1>4. /\ posting' \in [Handles -> {"no", "user"} \cup Handles \cup Triggers]
      /\ posting'[x] = "no" /\ \A z \in Handles \ {x} : posting'[z] = posting[z]
  BY ZenonT(60), <1>1, <1>2, SetPosting
<1>5. TypeOK'
  BY ZenonT(60), <1>1, <1>2, <1>3, <1>4 DEF TypeOK
<1>6. On(x)' = On(x) /\ (Queued(x)' <=> Queued(x))
  BY <1>2, StillAt, StillQueued
<1>7. Apart(x) /\ Apart(x)'
  BY <1>1, <1>2, <1>3, <1>6, OpNames, ApartKept DEF Listed
<1>8. Listed(x)' /\ OwnRequest(x)'
  BY <1>1, <1>2, <1>3, <1>4, <1>6, <1>7 DEF Listed, Apart, OwnRequest
<1>9. PostingInv'
  BY SMTT(60), <1>2, <1>4, NamesAssumption DEF IInv, PostingInv
<1>10. QueueInv' /\ TrigInv'
  BY <1>2 DEF IInv, QueueInv, TrigInv
<1>11. FinalInv'
  BY <1>2, <1>3 DEF IInv, FinalInv, finalizing
<1>12. \A z \in Handles \ {x} : Same(z)
  BY <1>2, <1>3, <1>4 DEF Same, SameTriggers, On, Queued
<1>. QED
  BY <1>5, <1>8, <1>9, <1>10, <1>11, <1>12, Assemble DEF HandleInv

LEMMA PostFailed ==
    ASSUME IInv, NEW x \in Handles, PostFails(x)
    PROVE  /\ hd' \in [Handles -> HandleType] /\ \A y \in Handles \ {x} : hd'[y] = hd[y]
           /\ posting' \in [Handles -> {"no", "user"} \cup Handles \cup Triggers]
           /\ \A y \in Handles \ {x} : posting'[y] = posting[y]
           /\ hd'[x].repost = hd[x].repost
           /\ \/ hd'[x].life = "freed" /\ posting'[x] = "no" /\ finalizing
              \/ hd'[x].life = "live" /\ hd'[x].ref_count = 0 /\ posting'[x] = posting[x]
              \/ hd'[x] = hd[x] /\ posting'[x] = "no"
<1>1. TypeOK /\ Listed(x) /\ FinalInv
  BY PostedHandle, NamesAssumption DEF PostFails, IInv
<1>2. CASE posting[x] \notin Triggers
  <2>1. hd' = hd /\ posting' = [posting EXCEPT ![x] = "no"]
    BY <1>2 DEF PostFails
  <2>2. /\ posting' \in [Handles -> {"no", "user"} \cup Handles \cup Triggers]
        /\ posting'[x] = "no" /\ \A z \in Handles \ {x} : posting'[z] = posting[z]
    BY ZenonT(60), <1>1, <2>1, SetPosting
  <2>. QED
    BY <1>1, <2>1, <2>2 DEF TypeOK
<1>3. CASE posting[x] \in Triggers
  <2>1. PICK b \in BOOLEAN : b <=> hd[x].repost /\ ~finalizing
    BY ZenonT(60)
  <2>2. PICK g, w : /\ g = [hd[x] EXCEPT !.ref_count = @ - 1,
                                         !.life = IF b THEN @ ELSE "freed"]
                    /\ w = IF b THEN posting[x] ELSE "no"
                    /\ hd' = [hd EXCEPT ![x] = g]
                    /\ posting' = [posting EXCEPT ![x] = w]
    <3>1. LET again == hd[x].repost /\ ~finalizing
          IN  /\ hd' = [hd EXCEPT ![x].ref_count = @ - 1,
                           ![x].life = IF again THEN @ ELSE "freed"]
              /\ posting' = [posting EXCEPT ![x] = IF again THEN @ ELSE "no"]
      BY ZenonT(60), <1>3 DEF PostFails
    <3>2. CASE b
      BY ZenonT(60), <2>1, <3>1, <3>2
    <3>3. CASE ~b
      BY ZenonT(60), <2>1, <3>1, <3>3
    <3>. QED
      BY ZenonT(60), <3>2, <3>3
  <2>3. hd[x].ref_count - 1 \in Nat /\ hd[x].ref_count - 1 = 0 /\ hd[x].life = "live"
    BY SMTT(60), <1>1, ListedFields DEF Listed
  <2>4. g \in HandleType
    BY ZenonT(60), <1>1, <2>2, <2>3, HandleTypes DEF HandleType
  <2>5. /\ g.repost = hd[x].repost /\ g.ref_count = 0
        /\ g.life = IF b THEN "live" ELSE "freed"
    BY <1>1, <2>2, <2>3, HandleTypes DEF HandleType
  <2>6. /\ hd' \in [Handles -> HandleType] /\ hd'[x] = g
        /\ \A y \in Handles \ {x} : hd'[y] = hd[y]
    BY ZenonT(60), <1>1, <2>2, <2>4, SetHandle
  <2>7. /\ posting' \in [Handles -> {"no", "user"} \cup Handles \cup Triggers]
        /\ posting'[x] = w /\ \A z \in Handles \ {x} : posting'[z] = posting[z]
    <3>1. w \in {"no", "user"} \cup Handles \cup Triggers
      BY <1>1, <2>2, HandleTypes
    <3>. QED
      BY ZenonT(60), <1>1, <2>2, <3>1, SetPosting
  <2>8. ~b => finalizing
    BY <1>1, <2>1 DEF FinalInv
  <2>9. w = IF b THEN posting[x] ELSE "no"
    BY <2>2
  <2>. QED
    BY <2>5, <2>6, <2>7, <2>8, <2>9
<1>. QED
  BY <1>2, <1>3

LEMMA PostFailsStep ==
    ASSUME IInv, NEW x \in Handles, PostFails(x)
    PROVE  IInv'
<1>1. /\ TypeOK /\ Listed(x) /\ op[x]["recv"] = "idle" /\ posting[x] # "no"
      /\ posting[x] \notin Handles /\ "post" \in Races
      /\ \A z \in Handles : posting[z] # x
  BY PostedHandle, NamesAssumption DEF PostFails
<1>2. /\ pending' = pending \ {x} /\ pending' \subseteq Handles
      /\ UNCHANGED <<op, cb, more, user, queue, trig, unpost, seen>>
  BY <1>1 DEF PostFails, TypeOK
<1>3. /\ hd' \in [Handles -> HandleType] /\ (\A y \in Handles \ {x} : hd'[y] = hd[y])
      /\ posting' \in [Handles -> {"no", "user"} \cup Handles \cup Triggers]
      /\ \A y \in Handles \ {x} : posting'[y] = posting[y]
      /\ hd'[x].repost = hd[x].repost
      /\ \/ hd'[x].life = "freed" /\ posting'[x] = "no"
         \/ hd'[x].life = "live" /\ hd'[x].ref_count = 0 /\ posting'[x] = posting[x]
         \/ hd'[x] = hd[x] /\ posting'[x] = "no"
  BY PostFailed
<1>4. TypeOK'
  BY ZenonT(60), <1>1, <1>2, <1>3 DEF TypeOK
<1>5. On(x)' = On(x) /\ (Queued(x)' <=> Queued(x))
  BY <1>2, StillAt, StillQueued
<1>6. Apart(x) /\ Apart(x)' /\ NoRequest(x)' /\ ~Queued(x)'
  BY <1>1, <1>2, <1>5, ApartKept DEF Listed, NoRequest
<1>7. Gone(x)' \/ Returning(x)' \/ Forsaken(x)'
  <2>1. posting[x] \in {"user"} \cup Triggers
    BY DEF PostFails
  <2>2. hd[x] \in {Fresh, Withdrawn}
    BY <1>1 DEF Listed
  <2>. QED
    BY <1>1, <1>3, <1>6, <2>1, <2>2 DEF Gone, Returning, Forsaken
<1>8. OwnRequest(x)'
  BY <1>6 DEF Apart, OwnRequest
<1>9. PostingInv'
  BY SMTT(60), <1>1, <1>2, <1>3, NamesAssumption DEF IInv, PostingInv
<1>10. QueueInv' /\ TrigInv'
  BY <1>2 DEF IInv, QueueInv, TrigInv
<1>11. FinalInv'
  BY <1>2, <1>3 DEF IInv, FinalInv, finalizing
<1>12. \A z \in Handles \ {x} : Same(z)
  BY <1>2, <1>3 DEF Same, SameTriggers, On, Queued
<1>. QED
  BY <1>4, <1>7, <1>8, <1>9, <1>10, <1>11, <1>12, Assemble DEF HandleInv

LEMMA UnpostStep ==
    ASSUME IInv, Unpost
    PROVE  IInv'
<1>1. /\ unpost' = "cancel"
      /\ UNCHANGED <<hd, op, cb, more, pending, posting, user, queue, trig, seen>>
  BY DEF Unpost
<1>2. TypeOK'
  BY ZenonT(60), <1>1 DEF IInv, TypeOK
<1>3. PostingInv' /\ QueueInv' /\ TrigInv' /\ FinalInv'
  BY <1>1 DEF IInv, PostingInv, QueueInv, TrigInv, FinalInv, finalizing
<1>4. \A z \in Handles : Same(z)
  BY <1>1 DEF Same, SameTriggers, On, Queued
<1>. QED
  BY <1>2, <1>3, <1>4, AssembleAll

LEMMA Withdraw ==
    ASSUME NEW g \in {Fresh, Withdrawn}
    PROVE  [g EXCEPT !.repost = FALSE,
                     !.status = IF Cancelable(g) THEN @ \cup {"CANCELED"} ELSE @]
             = Withdrawn
<1>1. CASE g = Fresh
  <2>1. Cancelable(g) /\ g.status \cup {"CANCELED"} = {"CANCELED"}
    BY <1>1, FreshFields DEF Cancelable
  <2>. QED
    BY ZenonT(60), <1>1, <2>1 DEF Withdrawn
<1>2. CASE g = Withdrawn
  <2>1. g.status = {"CANCELED"} /\ g.repost = FALSE
    BY <1>2, FreshTypes DEF Withdrawn, HandleType
  <2>2. ~Cancelable(g)
    BY <2>1 DEF Cancelable
  <2>3. PICK h : h = [g EXCEPT !.repost = FALSE,
                     !.status = IF Cancelable(g) THEN @ \cup {"CANCELED"} ELSE @]
    OBVIOUS
  <2>4. h = [g EXCEPT !.repost = FALSE, !.status = {"CANCELED"}]
    BY ZenonT(60), <2>1, <2>2, <2>3
  <2>5. h = g
    BY ZenonT(60), <1>2, <2>1, <2>4, FreshTypes DEF HandleType
  <2>. QED
    BY ZenonT(60), <1>2, <2>3, <2>5
<1>. QED
  BY <1>1, <1>2

LEMMA UnpostCancelStep ==
    ASSUME IInv, UnpostCancel
    PROVE  IInv'
<1>1. TypeOK /\ \A x \in pending : x \in Handles /\ Listed(x)
  <2>1. TypeOK /\ pending \subseteq Handles
    BY ZenonT(60) DEF IInv, TypeOK
  <2>. QED
    BY <2>1, IsListed DEF IInv
<1>2. /\ unpost' = "wait"
      /\ UNCHANGED <<cb, more, pending, posting, user, queue, trig, seen>>
  BY ZenonT(60) DEF UnpostCancel
<1>3. \A x \in Handles : hd'[x] = IF x \in pending THEN Withdrawn ELSE hd[x]
  <2>1. ASSUME NEW x \in Handles
        PROVE  hd'[x] = IF x \in pending THEN Withdrawn ELSE hd[x]
    <3>1. x \in pending => hd[x] \in {Fresh, Withdrawn}
      BY <1>1 DEF Listed
    <3>2. hd'[x] = IF x \notin pending THEN hd[x]
                   ELSE [hd[x] EXCEPT !.repost = FALSE,
                          !.status = IF Cancelable(hd[x])
                                     THEN @ \cup {"CANCELED"} ELSE @]
      BY ZenonT(60) DEF UnpostCancel
    <3>. QED
      BY ZenonT(60), <3>1, <3>2, Withdraw
  <2>. QED
    BY <2>1
<1>4. hd' \in [Handles -> HandleType]
  <2>1. hd' = [x \in Handles |-> hd'[x]]
    BY ZenonT(60) DEF UnpostCancel
  <2>2. \A x \in Handles : hd'[x] \in HandleType
    BY <1>1, <1>3, HandleTypes, FreshTypes
  <2>. QED
    BY ZenonT(60), <2>1, <2>2
<1>5. /\ op' \in [Handles -> OpsType]
      /\ \A x \in Handles : \/ op'[x] = op[x]
                            \/ x \in pending /\ op'[x] = NA_Cancel(op[x])
  <2>1. op' = [x \in Handles |-> IF x \in pending /\ Cancelable(hd[x])
                                 THEN NA_Cancel(op[x]) ELSE op[x]]
    BY ZenonT(60) DEF UnpostCancel
  <2>2. \A x \in Handles : NA_Cancel(op[x]) \in OpsType /\ op[x] \in OpsType
    BY <1>1, HandleTypes DEF NA_Cancel, OpsType
  <2>. QED
    BY <2>1, <2>2
<1>6. TypeOK'
  BY ZenonT(60), <1>1, <1>2, <1>4, <1>5 DEF TypeOK
<1>7. ASSUME NEW x \in Handles
      PROVE  On(x)' = On(x) /\ (Queued(x)' <=> Queued(x))
  BY <1>2, StillAt, StillQueued
<1>8. ASSUME NEW x \in pending
      PROVE  HandleInv(x)' /\ OwnRequest(x)'
  <2>1. x \in Handles /\ Listed(x)
    BY <1>1
  <2>2. \A o \in Ops : op'[x][o] = "idle" <=> op[x][o] = "idle"
    BY <1>5, <2>1 DEF NA_Cancel
  <2>3. Apart(x) /\ Apart(x)'
    BY <1>2, <1>7, <2>1, <2>2, OpNames DEF Listed, Apart, NoResponse
  <2>4. Listed(x)'
    BY <1>2, <1>3, <1>7, <2>1, <2>2, <2>3, OpNames DEF Listed
  <2>. QED
    BY <2>3, <2>4 DEF HandleInv, Apart, OwnRequest
<1>9. PostingInv' /\ QueueInv' /\ TrigInv' /\ FinalInv'
  BY <1>2 DEF IInv, PostingInv, QueueInv, TrigInv, FinalInv, finalizing
<1>10. \A x \in Handles : x \in pending \/ Same(x)
  BY <1>2, <1>3, <1>5 DEF Same, SameTriggers, On, Queued
<1>. QED
  BY <1>6, <1>8, <1>9, <1>10, AssembleAll

-----------------------------------------------------------------------------
(* hg_core_complete *)

LEMMA Enqueued ==
    ASSUME queue \in Seq(Handles), NEW x \in Handles, ~Queued(x), QueueInv,
           queue' = Append(queue, x)
    PROVE  /\ queue' \in Seq(Handles) /\ QueueInv' /\ Queued(x)'
           /\ \A y \in Handles \ {x} : Queued(y)' <=> Queued(y)
<1>1. /\ queue' \in Seq(Handles) /\ Len(queue') = Len(queue) + 1 /\ Len(queue) \in Nat
      /\ \A i \in 1 .. Len(queue) : queue'[i] = queue[i]
      /\ queue'[Len(queue) + 1] = x
  BY SMTT(60)
<1>2. QueueInv'
  BY SMTT(60), <1>1 DEF QueueInv, Queued
<1>3. Queued(x)'
  BY SMTT(60), <1>1 DEF Queued
<1>4. ASSUME NEW y \in Handles \ {x} PROVE Queued(y)' <=> Queued(y)
  BY SMTT(60), <1>1 DEF Queued
<1>. QED
  BY <1>1, <1>2, <1>3, <1>4

LEMMA Completed ==
    ASSUME IInv, NEW x \in Handles, ~Queued(x), NEW g \in HandleType, NEW ret \in Results,
           Complete(x, g, ret)
    PROVE  /\ hd' \in [Handles -> HandleType] /\ SameCounts(g, hd'[x])
           /\ \A y \in Handles \ {x} : hd'[y] = hd[y]
           /\ queue' \in Seq(Handles) /\ QueueInv' /\ Queued(x)'
           /\ \A y \in Handles \ {x} : Queued(y)' <=> Queued(y)
<1>1. TypeOK /\ queue \in Seq(Handles) /\ QueueInv
  BY ZenonT(60) DEF IInv, TypeOK
<1>2. PICK h : /\ h = [g EXCEPT !.status = @ \cup {"COMPLETED", "QUEUED"}, !.ret = ret]
               /\ hd' = [hd EXCEPT ![x] = h]
  BY ZenonT(60) DEF Complete
<1>3. h \in HandleType
  BY ZenonT(60), <1>2 DEF HandleType
<1>4. SameCounts(g, h)
  BY <1>2, <1>3 DEF HandleType, SameCounts
<1>5. /\ hd' \in [Handles -> HandleType] /\ hd'[x] = h
      /\ \A y \in Handles \ {x} : hd'[y] = hd[y]
  BY ZenonT(60), <1>1, <1>2, <1>3, SetHandle
<1>6. queue' = Append(queue, x)
  BY DEF Complete
<1>. QED
  BY <1>1, <1>4, <1>5, <1>6, Enqueued

(* The request that x received is put into the queue. *)
LEMMA RequestQueued ==
    ASSUME IInv, NEW x \in Handles, Receiving(x), cb[x]["recv"] # "input",
           NEW g \in HandleType, NEW ret \in Results, Complete(x, g, ret),
           g.life = hd[x].life, g.ref_count = hd[x].ref_count,
           g.na_op_count = hd[x].na_op_count, g.op_type = hd[x].op_type,
           g.na_op_completed_count = 1, g.repost = hd[x].repost,
           cb' \in [Handles -> CallbacksType], cb'[x]["recv"] = "none",
           \A n \in Ops \ {"recv"} : cb'[x][n] = cb[x][n],
           \A y \in Handles \ {x} : cb'[y] = cb[y],
           more' = more \ {x},
           UNCHANGED <<op, pending, posting, user, trig, unpost, seen>>
    PROVE  IInv'
<1>1. TypeOK /\ \A z \in Handles : posting[z] # x
  BY NotPosting DEF IInv
<1>2. /\ hd' \in [Handles -> HandleType] /\ SameCounts(g, hd'[x])
      /\ \A y \in Handles \ {x} : hd'[y] = hd[y]
      /\ queue' \in Seq(Handles) /\ QueueInv' /\ Queued(x)'
      /\ \A y \in Handles \ {x} : Queued(y)' <=> Queued(y)
  BY Completed DEF Receiving
<1>3. more' \subseteq Handles
  BY <1>1 DEF TypeOK
<1>4. TypeOK'
  BY ZenonT(60), <1>1, <1>2, <1>3 DEF TypeOK
<1>5. \A y \in Handles : On(y)' = On(y)
  BY StillAt
<1>6. Apart(x) /\ Apart(x)'
  BY <1>5, OpNames, ApartKept DEF Receiving
<1>7. Received(x)' /\ OwnRequest(x)'
  BY <1>2, <1>6 DEF Receiving, Received, NoRequest, SameCounts, Apart, OwnRequest
<1>8. TrigInv' /\ \A y \in Handles \ {x} : SameTriggers(y)
  BY <1>5 DEF IInv, TrigInv, SameTriggers
<1>9. hd'[x].repost = hd[x].repost
  BY <1>2 DEF SameCounts
<1>. QED
  BY <1>1, <1>2, <1>4, <1>7, <1>8, <1>9, StepWith DEF HandleInv

(* A callback has counted its operation. *)
LEMMA CountedOne ==
    ASSUME TypeOK, NEW x \in Handles, NEW g, g = [hd[x] EXCEPT !.na_op_completed_count = @ + 1]
    PROVE  /\ g \in HandleType /\ g.ret_status \in Results
           /\ g.na_op_completed_count = hd[x].na_op_completed_count + 1
           /\ g.life = hd[x].life /\ g.ref_count = hd[x].ref_count
           /\ g.na_op_count = hd[x].na_op_count /\ g.op_type = hd[x].op_type
           /\ g.repost = hd[x].repost /\ g.req = hd[x].req
           /\ g.no_response = hd[x].no_response
<1>1. hd[x].na_op_completed_count + 1 \in Nat
  BY SMTT(60), FieldTypes
<1>2. g \in HandleType
  BY ZenonT(60), <1>1, HandleTypes DEF HandleType
<1>. QED
  BY <1>2, HandleTypes DEF HandleType

LEMMA CompleteNaRecvStep ==
    ASSUME IInv, NEW x \in Handles, CompleteNa(x, "recv")
    PROVE  IInv'
<1>1. TypeOK /\ Receiving(x) /\ cb[x]["recv"] \in {"finish", "defer"}
  BY IsReceiving DEF IInv, CompleteNa
<1>2. PICK g :
        /\ g = [hd[x] EXCEPT !.na_op_completed_count = @ + 1]
        /\ IF g.na_op_completed_count = g.na_op_count /\ cb[x]["recv"] = "finish"
           THEN Complete(x, g, g.ret_status)
           ELSE hd' = [hd EXCEPT ![x] = g] /\ UNCHANGED queue
        /\ cb' = [cb EXCEPT ![x]["recv"] = "none"]
        /\ UNCHANGED <<op, more, pending, posting, user, trig, unpost, seen>>
  BY ZenonT(60) DEF CompleteNa
<1>3. /\ g \in HandleType /\ g.ret_status \in Results
      /\ g.life = hd[x].life /\ g.ref_count = hd[x].ref_count
      /\ g.na_op_count = hd[x].na_op_count /\ g.op_type = hd[x].op_type
      /\ g.repost = hd[x].repost /\ g.na_op_completed_count = 1 /\ g.na_op_count = 1
  <2>1. /\ g \in HandleType /\ g.ret_status \in Results
        /\ g.na_op_completed_count = hd[x].na_op_completed_count + 1
        /\ g.life = hd[x].life /\ g.ref_count = hd[x].ref_count
        /\ g.na_op_count = hd[x].na_op_count /\ g.op_type = hd[x].op_type
        /\ g.repost = hd[x].repost
    BY ZenonT(60), <1>1, <1>2, CountedOne
  <2>2. hd[x].na_op_completed_count = 0 /\ hd[x].na_op_count = 1
    BY <1>1 DEF Receiving, Stage
  <2>. QED
    BY SMTT(60), <2>1, <2>2
<1>4. /\ cb' \in [Handles -> CallbacksType] /\ cb'[x]["recv"] = "none"
      /\ \A n \in Ops \ {"recv"} : cb'[x][n] = cb[x][n]
      /\ \A y \in Handles \ {x} : cb'[y] = cb[y]
  BY ZenonT(60), <1>1, <1>2, OpNames, SetCb
<1>5. CASE cb[x]["recv"] = "finish"
  <2>1. Complete(x, g, g.ret_status)
    BY ZenonT(60), <1>2, <1>3, <1>5
  <2>2. more' = more \ {x}
    BY <1>1, <1>2, <1>5 DEF Receiving, Stage
  <2>3. UNCHANGED <<op, pending, posting, user, trig, unpost, seen>>
    BY ZenonT(60), <1>2
  <2>. QED
    BY ZenonT(60), <1>1, <1>3, <1>4, <1>5, <2>1, <2>2, <2>3, RequestQueued
<1>6. CASE cb[x]["recv"] = "defer"
  <2>1. hd' = [hd EXCEPT ![x] = g] /\ UNCHANGED queue
    BY ZenonT(60), <1>2, <1>6
  <2>2. /\ hd' \in [Handles -> HandleType] /\ hd'[x] = g
        /\ \A y \in Handles \ {x} : hd'[y] = hd[y]
    BY ZenonT(60), <1>1, <1>3, <2>1, SetHandle
  <2>3. UNCHANGED <<op, more, pending, posting, user, queue, trig, unpost, seen>>
    BY ZenonT(60), <1>2, <2>1
  <2>4. TypeOK'
    BY ZenonT(60), <1>1, <1>4, <2>2, <2>3 DEF TypeOK
  <2>5. Stage(x)'
    BY <1>1, <1>3, <1>4, <1>6, <2>2, <2>3 DEF Receiving, Stage
  <2>6. Elsewhere(x)
    BY <1>4, <2>2, <2>3 DEF Elsewhere
  <2>7. \A z \in Handles : posting[z] # x
    BY <1>6, NotPosting
  <2>. QED
    <3>1. /\ hd'[x].life = hd[x].life /\ hd'[x].ref_count = hd[x].ref_count
          /\ hd'[x].na_op_count = hd[x].na_op_count /\ hd'[x].op_type = hd[x].op_type
          /\ hd'[x].repost = hd[x].repost
      BY <1>3, <2>2
    <3>2. \A o \in {"send", "ack"} : cb'[x][o] = cb[x][o]
      BY <1>4, OpNames
    <3>. QED
      BY ZenonT(60), <1>1, <2>3, <2>4, <2>5, <2>6, <2>7, <3>1, <3>2, ReceivingStep
<1>. QED
  BY <1>1, <1>5, <1>6

LEMMA MoreDataCompleteStep ==
    ASSUME Disciplined, IInv, NEW x \in Handles, NEW r \in Results, MoreDataComplete(x, r)
    PROVE  IInv'
<1>1. TypeOK /\ Receiving(x) /\ x \in more /\ MoreData
  BY IsReceiving DEF IInv, MoreDataComplete, Receiving, Stage
<1>2. cb[x]["recv"] = "none" /\ hd[x].na_op_completed_count = 1
  <2>1. cb[x]["recv"] \in {"none", "stop"}
    BY <1>1, OpNames DEF MoreDataComplete, ThreadFree, Disciplined
  <2>. QED
    BY <1>1, <2>1 DEF Receiving, Stage
<1>3. PICK g : /\ g = IF r = "SUCCESS" THEN hd[x] ELSE Noted(hd[x], r)
               /\ Complete(x, g, g.ret_status)
  BY ZenonT(60) DEF MoreDataComplete
<1>4. SameCounts(hd[x], g)
  BY <1>1, <1>3, HandleTypes, NotedCounts DEF SameCounts
<1>5. /\ g \in HandleType /\ g.ret_status \in Results
      /\ g.life = hd[x].life /\ g.ref_count = hd[x].ref_count
      /\ g.na_op_count = hd[x].na_op_count /\ g.op_type = hd[x].op_type
      /\ g.repost = hd[x].repost /\ g.na_op_completed_count = 1
  BY <1>2, <1>4 DEF SameCounts, HandleType
<1>6. /\ more' = more \ {x}
      /\ UNCHANGED <<op, cb, pending, posting, user, trig, unpost, seen>>
  BY DEF MoreDataComplete
<1>7. cb' \in [Handles -> CallbacksType]
  BY ZenonT(60), <1>1, <1>6 DEF TypeOK
<1>. QED
  BY ZenonT(60), <1>1, <1>2, <1>3, <1>5, <1>6, <1>7, RequestQueued

(* The response of x is put into the queue. *)
LEMMA ResponseQueued ==
    ASSUME SetFacts, IInv, NEW x \in Handles, Exchanging(x), user[x].respond = "sent",
           ~Queued(x), NEW g \in HandleType, NEW ret \in Results, Complete(x, g, ret),
           g.life = hd[x].life, g.ref_count = hd[x].ref_count,
           g.na_op_completed_count = g.na_op_count, g.op_type = hd[x].op_type,
           g.repost = hd[x].repost, g.req = hd[x].req, g.no_response = hd[x].no_response,
           cb' \in [Handles -> CallbacksType], cb'[x]["recv"] = cb[x]["recv"],
           \A y \in Handles \ {x} : cb'[y] = cb[y], NoResponse(x)',
           UNCHANGED <<op, more, pending, posting, user, trig, unpost, seen>>
    PROVE  IInv'
<1>1. TypeOK /\ OwnRequest(x)
  BY DEF IInv
<1>2. /\ hd' \in [Handles -> HandleType] /\ SameCounts(g, hd'[x])
      /\ \A y \in Handles \ {x} : hd'[y] = hd[y]
      /\ queue' \in Seq(Handles) /\ QueueInv' /\ Queued(x)'
      /\ \A y \in Handles \ {x} : Queued(y)' <=> Queued(y)
  BY Completed
<1>3. TypeOK'
  BY ZenonT(60), <1>1, <1>2 DEF TypeOK
<1>4. /\ hd'[x].life = "live" /\ hd'[x].ref_count = hd[x].ref_count
      /\ hd'[x].na_op_completed_count = hd'[x].na_op_count
      /\ hd'[x].na_op_count \in Nat /\ hd'[x].op_type = "RESPOND"
      /\ ~hd'[x].no_response /\ hd'[x].repost = hd[x].repost /\ hd'[x].req = hd[x].req
  <2>1. hd[x].life = "live" /\ hd[x].op_type = "RESPOND" /\ ~hd[x].no_response
    BY DEF Exchanging, Responses
  <2>2. hd'[x].na_op_count \in Nat
    BY <1>2 DEF SameCounts, HandleType
  <2>. QED
    BY <1>2, <2>1, <2>2 DEF SameCounts
<1>5. On(x)' = On(x) /\ \A S : At(x, S)' <=> At(x, S)
  BY StillAt
<1>6. ~hd[x].no_response /\ ~At(x, {"process", "error"}) /\ Unanswered(x) /\ Alone(x)
  BY DEF Exchanging, Responses, Triggering, Unanswered
<1>7. ~Unanswered(x)'
  BY <1>2, <1>4, <1>5, <1>6 DEF Unanswered
<1>8. Counted(x)'
  <2>1. IsFiniteSet(On(x)) /\ Cardinality(On(x)) \in Nat
    BY DEF Exchanging, Counted, SetFacts, CountFact
  <2>. QED
    BY SMTT(60), <1>2, <1>4, <1>5, <1>6, <1>7, <2>1 DEF Exchanging, Counted, Tokens, Bit
<1>9. Responses(x)'
  BY SMTT(60), <1>2, <1>4 DEF Responses, NoResponse, Outstanding, Bit
<1>10. Triggering(x)'
  <2>1. /\ \A t, v \in On(x)' :
             trig'[t].at # "destroy" /\ trig'[v].at # "destroy" => t = v
        /\ Alone(x)'
    BY <1>5, <1>6 DEF Exchanging, Triggering, Alone
  <2>2. At(x, {"respond"})' => ~user'[x].ref
    BY <1>5 DEF Exchanging, Triggering
  <2>. QED
    BY <1>2, <1>4, <1>5, <1>6, <2>1, <2>2 DEF Triggering
<1>11. Exchanging(x)' /\ OwnRequest(x)'
  <2>1. NoRequest(x)'
    BY DEF Exchanging, NoRequest
  <2>. QED
    BY <1>1, <1>4, <1>8, <1>9, <1>10, <2>1 DEF Exchanging, OwnRequest
<1>12. TrigInv' /\ \A y \in Handles \ {x} : SameTriggers(y)
  BY DEF IInv, TrigInv, SameTriggers, On
<1>. QED
  BY <1>2, <1>3, <1>4, <1>11, <1>12, StepWith DEF HandleInv

LEMMA CompleteNaRespondStep ==
    ASSUME SetFacts, IInv, NEW x \in Handles, NEW o \in {"send", "ack"}, CompleteNa(x, o)
    PROVE  IInv'
<1>1. TypeOK /\ HandleInv(x) /\ o \in Ops /\ cb[x][o] \in {"finish", "defer"}
  BY OpNames DEF IInv, CompleteNa
<1>2. Exchanging(x)
  BY <1>1, IsExchanging DEF NoResponse
<1>3. /\ user[x].respond = "sent" /\ cb[x][o] = "finish" /\ op[x][o] = "idle"
      /\ ~Queued(x) /\ hd[x].op_type = "RESPOND"
  <2>1. user[x].respond = "sent"
    BY <1>1, <1>2, HandleTypes DEF Exchanging, Responses, NoResponse, UserType
  <2>. QED
    BY <1>1, <1>2, <2>1 DEF Exchanging, Responses, NoResponse
<1>4. PICK g :
        /\ g = [hd[x] EXCEPT !.na_op_completed_count = @ + 1]
        /\ IF g.na_op_completed_count = g.na_op_count /\ cb[x][o] = "finish"
           THEN Complete(x, g, g.ret_status)
           ELSE hd' = [hd EXCEPT ![x] = g] /\ UNCHANGED queue
        /\ cb' = [cb EXCEPT ![x][o] = "none"]
        /\ UNCHANGED <<op, more, pending, posting, user, trig, unpost, seen>>
  BY ZenonT(60) DEF CompleteNa
<1>5. /\ g \in HandleType /\ g.ret_status \in Results
      /\ g.na_op_completed_count = hd[x].na_op_completed_count + 1
      /\ g.life = hd[x].life /\ g.ref_count = hd[x].ref_count
      /\ g.na_op_count = hd[x].na_op_count /\ g.op_type = hd[x].op_type
      /\ g.repost = hd[x].repost /\ g.req = hd[x].req
      /\ g.no_response = hd[x].no_response
  BY ZenonT(60), <1>1, <1>4, CountedOne
<1>6. /\ cb' \in [Handles -> CallbacksType] /\ cb'[x][o] = "none"
      /\ \A n \in Ops \ {o} : cb'[x][n] = cb[x][n]
      /\ \A y \in Handles \ {x} : cb'[y] = cb[y]
  BY ZenonT(60), <1>1, <1>4, OpNames, SetCb
<1>7. UNCHANGED <<op, more, pending, posting, user, trig, unpost, seen>>
  BY ZenonT(60), <1>4
<1>8. PICK p \in {"send", "ack"} : p # o /\ {o, p} = {"send", "ack"}
  OBVIOUS
<1>9. /\ Outstanding(x, o) /\ ~Outstanding(x, o)'
      /\ Outstanding(x, p)' <=> Outstanding(x, p)
      /\ NoResponse(x)' <=> ~Outstanding(x, p)
  BY <1>3, <1>6, <1>7, <1>8, OpNames DEF Outstanding, NoResponse
<1>10. g.na_op_completed_count + Bit(Outstanding(x, p)) = g.na_op_count
  <2>1. hd[x].na_op_completed_count + Bit(Outstanding(x, "send"))
          + Bit(Outstanding(x, "ack")) = hd[x].na_op_count
    BY <1>2, <1>3 DEF Exchanging, Responses
  <2>2. Bit(Outstanding(x, o)) = 1 /\ Bit(Outstanding(x, p)) \in {0, 1}
    BY <1>9 DEF Bit
  <2>3. hd[x].na_op_completed_count \in Nat
    BY <1>1, FieldTypes
  <2>4. \/ o = "send" /\ p = "ack"
        \/ o = "ack" /\ p = "send"
    BY <1>8
  <2>. QED
    BY SMTT(60), <1>5, <2>1, <2>2, <2>3, <2>4
<1>11. g.na_op_completed_count = g.na_op_count <=> ~Outstanding(x, p)
  BY SMTT(60), <1>1, <1>5, <1>10, FieldTypes DEF Bit
<1>12. CASE ~Outstanding(x, p)
  <2>1. Complete(x, g, g.ret_status)
    BY ZenonT(60), <1>3, <1>4, <1>11, <1>12
  <2>2. cb'[x]["recv"] = cb[x]["recv"] /\ NoResponse(x)'
    BY <1>6, <1>9, <1>12, OpNames
  <2>3. g.na_op_completed_count = g.na_op_count
    BY <1>11, <1>12
  <2>. QED
    BY ZenonT(60), <1>2, <1>3, <1>5, <1>6, <1>7, <2>1, <2>2, <2>3, ResponseQueued
<1>13. CASE Outstanding(x, p)
  <2>1. hd' = [hd EXCEPT ![x] = g] /\ UNCHANGED queue
    BY ZenonT(60), <1>4, <1>11, <1>13
  <2>2. /\ hd' \in [Handles -> HandleType] /\ hd'[x] = g
        /\ \A y \in Handles \ {x} : hd'[y] = hd[y]
    BY ZenonT(60), <1>1, <1>5, <2>1, SetHandle
  <2>3. UNCHANGED <<op, more, pending, posting, user, queue, trig, unpost, seen>>
    BY ZenonT(60), <1>7, <2>1
  <2>4. TypeOK'
    BY ZenonT(60), <1>1, <1>6, <2>2, <2>3 DEF TypeOK
  <2>5. Elsewhere(x) /\ Keeps(x)
    BY <1>5, <1>6, <2>2, <2>3, OpNames DEF Elsewhere, Keeps
  <2>6. Responses(x)'
    <3>1. ~NoResponse(x)' /\ ~Queued(x)'
      BY <1>3, <1>9, <1>13, <2>3, StillQueued
    <3>2. \A n \in {"send", "ack"} :
            cb'[x][n] = "none" \/ (cb'[x][n] = "finish" /\ op'[x][n] = "idle")
      BY <1>2, <1>3, <1>6, <1>7, OpNames DEF Exchanging, Responses
    <3>3. g.na_op_completed_count + Bit(Outstanding(x, "send"))'
            + Bit(Outstanding(x, "ack"))' = g.na_op_count
      <4>1. /\ Bit(Outstanding(x, o))' = 0 /\ Bit(Outstanding(x, p))' = 1
            /\ Bit(Outstanding(x, p)) = 1
        BY <1>9, <1>13 DEF Bit
      <4>2. g.na_op_completed_count \in Nat
        BY <1>5 DEF HandleType
      <4>3. \/ o = "send" /\ p = "ack"
            \/ o = "ack" /\ p = "send"
        BY <1>8
      <4>. QED
        BY SMTT(60), <1>10, <4>1, <4>2, <4>3
    <3>4. ~g.no_response /\ g.op_type = "RESPOND"
      BY <1>2, <1>3, <1>5 DEF Exchanging, Responses
    <3>. QED
      BY <1>3, <1>7, <2>2, <3>1, <3>2, <3>3, <3>4 DEF Responses
  <2>7. hd'[x].ref_count = hd[x].ref_count - Bit(user'[x].respond = "failed")
    BY SMTT(60), <1>1, <1>3, <1>5, <1>7, <2>2, FieldTypes DEF Bit
  <2>8. user'[x].respond = "sent"
    BY <1>3, <1>7
  <2>. QED
    BY ZenonT(60), <1>3, <2>4, <2>5, <2>6, <2>7, <2>8, ResponseStep
<1>. QED
  BY <1>12, <1>13

-----------------------------------------------------------------------------
(* hg_core_trigger_entry *)

LEMMA ExchangeStep ==
    ASSUME IInv, NEW x \in Handles, TypeOK', Exchanging(x)', OwnRequest(x)', QueueInv',
           TrigInv', \A y \in Handles \ {x} : hd'[y] = hd[y] /\ user'[y] = user[y],
           \A y \in Handles \ {x} : Queued(y)' <=> Queued(y),
           \A y \in Handles \ {x} : SameTriggers(y),
           UNCHANGED <<op, cb, more, pending, posting, unpost>>,
           hd'[x].repost = hd[x].repost
    PROVE  IInv'
  BY StepWith DEF HandleInv

(* Trigger t goes to stage r with x; the others that work on x are about to *)
(* destroy it.                                                              *)
GoesTo(t, x, r) ==
    /\ trig' \in [Triggers -> TriggerType] /\ TrigInv'
    /\ t \in On(x) /\ On(x)' = On(x) /\ (Alone(x)' <=> Alone(x))
    /\ \A v, w \in On(x)' :
         trig'[v].at # "destroy" /\ trig'[w].at # "destroy" => v = w
    /\ At(x, {"process", "error"}) <=> trig[t].at \in {"process", "error"}
    /\ At(x, {"called", "returned"}) <=> trig[t].at \in {"called", "returned"}
    /\ At(x, {"respond"}) <=> trig[t].at = "respond"
    /\ At(x, {"process", "error"})' <=> r = "error"
    /\ At(x, {"called", "returned"})' <=> r \in {"called", "returned"}
    /\ At(x, {"respond"})' <=> r = "respond"
    /\ \A y \in Handles \ {x} : SameTriggers(y)

LEMMA NextStage ==
    ASSUME IInv, NEW t \in Triggers, NEW x \in Handles, trig[t].on = {x},
           trig[t].at # "destroy",
           NEW r \in {"called", "returned", "error", "respond", "destroy"},
           trig' = [trig EXCEPT ![t].at = r]
    PROVE  Exchanging(x) /\ GoesTo(t, x, r)
<1>1. trig \in [Triggers -> TriggerType] /\ TrigInv
  BY ZenonT(60) DEF IInv, TypeOK
<1>2. /\ trig' \in [Triggers -> TriggerType] /\ trig'[t].at = r /\ trig'[t].on = {x}
      /\ \A v \in Triggers \ {t} : trig'[v] = trig[v]
  BY <1>1 DEF TriggerType
<1>3. TrigInv'
  BY <1>1, <1>2 DEF TrigInv
<1>4. \A y \in Handles : On(y)' = On(y)
  BY <1>2 DEF On
<1>5. t \in On(x)
  BY DEF On
<1>6. Exchanging(x)
  BY <1>5, IsExchanging DEF IInv
<1>7. \A v \in On(x) \ {t} : trig[v].at = "destroy" /\ trig'[v].at = "destroy"
  BY <1>2, <1>5, <1>6 DEF Exchanging, Triggering, On
<1>8. \A S : "destroy" \notin S =>
        (At(x, S) <=> trig[t].at \in S) /\ (At(x, S)' <=> r \in S)
  BY <1>2, <1>4, <1>5, <1>7 DEF At
<1>9. \A y \in Handles \ {x} : SameTriggers(y)
  BY <1>2, <1>4 DEF SameTriggers, On
<1>10. \A v, w \in On(x)' :
         trig'[v].at # "destroy" /\ trig'[w].at # "destroy" => v = w
  BY <1>4, <1>7
<1>11. Alone(x)' <=> Alone(x)
  BY <1>4 DEF Alone
<1>12. /\ At(x, {"process", "error"}) <=> trig[t].at \in {"process", "error"}
       /\ At(x, {"called", "returned"}) <=> trig[t].at \in {"called", "returned"}
       /\ At(x, {"respond"}) <=> trig[t].at = "respond"
       /\ At(x, {"process", "error"})' <=> r = "error"
       /\ At(x, {"called", "returned"})' <=> r \in {"called", "returned"}
       /\ At(x, {"respond"})' <=> r = "respond"
  BY <1>8
<1>. QED
  BY <1>2, <1>3, <1>4, <1>5, <1>6, <1>9, <1>10, <1>11, <1>12 DEF GoesTo

(* A step that only moves a trigger. *)
LEMMA StageStep ==
    ASSUME SetFacts, IInv, NEW t \in Triggers, NEW x \in Handles, trig[t].on = {x},
           NEW r \in {"returned", "error", "destroy"},
           trig' = [trig EXCEPT ![t].at = r],
           UNCHANGED <<hd, op, cb, more, pending, posting, user, queue, unpost, seen>>,
           \/ trig[t].at = "process" /\ r = "error"
           \/ trig[t].at = "called" /\ r = "returned"
           \/ trig[t].at = "returned" /\ r = "destroy" /\ ~hd[x].no_response
           \/ trig[t].at = "respond" /\ r = "destroy" /\ ~InRespond(x)
    PROVE  IInv'
<1>1. Exchanging(x) /\ GoesTo(t, x, r)
  <2>1. r \in {"called", "returned", "error", "respond", "destroy"} /\ trig[t].at # "destroy"
    OBVIOUS
  <2>. QED
    BY ZenonT(60), <2>1, NextStage
<1>2. TypeOK'
  BY ZenonT(60), <1>1 DEF IInv, TypeOK, GoesTo
<1>3. \A y \in Handles : Queued(y)' <=> Queued(y)
  BY StillQueued
<1>4. Unanswered(x)' <=> Unanswered(x)
  BY <1>1, <1>3 DEF Unanswered, GoesTo
<1>5. Counted(x)'
  BY <1>1, <1>3, <1>4 DEF Exchanging, Counted, Tokens, Bit, GoesTo
<1>6. NoResponse(x)' <=> NoResponse(x)
  BY DEF NoResponse
<1>7. Responses(x)'
  <2>1. At(x, {"respond"}) => user[x].respond \notin {"ack", "send"}
    BY <1>1 DEF InRespond, GoesTo
  <2>2. Responses(x)
    BY <1>1 DEF Exchanging
  <2>. QED
    BY <1>1, <1>3, <1>6, <2>1, <2>2 DEF Responses, Counts, Outstanding, GoesTo
<1>8. Triggering(x)'
  BY <1>1, <1>3, <1>4, <1>6 DEF Exchanging, Triggering, Counts, GoesTo
<1>9. Exchanging(x)' /\ OwnRequest(x)' /\ QueueInv'
  BY <1>1, <1>5, <1>7, <1>8 DEF Exchanging, NoRequest, IInv, OwnRequest, QueueInv
<1>. QED
  BY <1>1, <1>2, <1>3, <1>9, ExchangeStep DEF GoesTo

LEMMA StagesStep ==
    ASSUME SetFacts, IInv, NEW t \in Triggers, NEW x \in Handles,
           \/ ProcessNoEntry(t, x) \/ ProcessReturns(t, x)
           \/ TriggerGoesOn(t, x) \/ RespondErrorDone(t, x)
    PROVE  IInv'
<1>1. CASE ProcessNoEntry(t, x)
  <2>1. trig[t].at = "process" /\ trig[t].on = {x}
    BY SMTT(60), <1>1 DEF ProcessNoEntry
  <2>. QED
    BY ZenonT(60), <1>1, <2>1, StageStep DEF ProcessNoEntry
<1>2. CASE ProcessReturns(t, x)
  <2>1. trig[t].at = "called" /\ trig[t].on = {x}
    BY SMTT(60), <1>2 DEF ProcessReturns
  <2>. QED
    BY ZenonT(60), <1>2, <2>1, StageStep DEF ProcessReturns
<1>3. CASE TriggerGoesOn(t, x)
  <2>1. trig[t].at = "returned" /\ trig[t].on = {x}
    BY SMTT(60), <1>3 DEF TriggerGoesOn
  <2>. QED
    BY ZenonT(60), <1>3, <2>1, StageStep DEF TriggerGoesOn
<1>4. CASE RespondErrorDone(t, x)
  <2>1. trig[t].at = "respond" /\ trig[t].on = {x}
    BY SMTT(60), <1>4 DEF RespondErrorDone
  <2>. QED
    BY ZenonT(60), <1>4, <2>1, StageStep DEF RespondErrorDone
<1>. QED
  BY <1>1, <1>2, <1>3, <1>4

LEMMA ProcessStep ==
    ASSUME SetFacts, IInv, NEW t \in Triggers, NEW x \in Handles, Process(t, x)
    PROVE  IInv'
<1>1. TypeOK /\ trig[t].at = "process" /\ trig[t].on = {x}
  BY SMTT(60) DEF IInv, Process
<1>2. Exchanging(x) /\ GoesTo(t, x, "called")
  BY ZenonT(60), <1>1, NextStage DEF Process
<1>3. /\ ~user[x].ref /\ user[x].respond \in {"no", "done", "failed"}
      /\ NoResponse(x) /\ Counts(x, 1, 1) /\ ~Queued(x) /\ Alone(x)
  BY <1>1, <1>2 DEF Exchanging, Triggering, Unanswered, GoesTo
<1>4. PICK g : /\ g = [hd[x] EXCEPT !.ref_count = @ + 1]
               /\ hd' = [hd EXCEPT ![x] = g]
  BY ZenonT(60) DEF Process
<1>5. g \in HandleType
  <2>1. hd[x].ref_count + 1 \in Nat
    BY SMTT(60), <1>1, FieldTypes
  <2>. QED
    BY ZenonT(60), <1>1, <1>4, <2>1, HandleTypes DEF HandleType
<1>6. /\ hd' \in [Handles -> HandleType] /\ hd'[x] = g
      /\ \A y \in Handles \ {x} : hd'[y] = hd[y]
  BY ZenonT(60), <1>1, <1>4, <1>5, SetHandle
<1>7. /\ g.life = hd[x].life /\ g.repost = hd[x].repost /\ g.req = hd[x].req
      /\ g.no_response = hd[x].no_response /\ g.ref_count = hd[x].ref_count + 1
      /\ g.na_op_count = hd[x].na_op_count
      /\ g.na_op_completed_count = hd[x].na_op_completed_count
  BY <1>1, <1>4, HandleTypes DEF HandleType
<1>8. PICK w : /\ w = [ref |-> TRUE, req |-> hd[x].req,
                       respond |-> IF hd[x].no_response THEN "no" ELSE "owed"]
               /\ user' = [user EXCEPT ![x] = w]
  BY ZenonT(60) DEF Process
<1>9. /\ w \in UserType /\ w.ref /\ w.req = hd[x].req
      /\ w.respond = IF hd[x].no_response THEN "no" ELSE "owed"
  BY <1>1, <1>8, FieldTypes DEF UserType
<1>10. /\ user' \in [Handles -> UserType] /\ user'[x] = w
       /\ \A y \in Handles \ {x} : user'[y] = user[y]
  BY ZenonT(60), <1>1, <1>8, <1>9, SetUser
<1>11. UNCHANGED <<op, cb, more, pending, posting, queue, unpost, seen>>
  BY DEF Process
<1>12. TypeOK'
  BY ZenonT(60), <1>1, <1>2, <1>6, <1>10, <1>11 DEF TypeOK, GoesTo
<1>13. \A y \in Handles : Queued(y)' <=> Queued(y)
  BY <1>11, StillQueued
<1>14. Unanswered(x) /\ Unanswered(x)'
  BY <1>1, <1>2, <1>6, <1>7, <1>9, <1>10 DEF Unanswered, GoesTo
<1>15. Counted(x)'
  <2>1. IsFiniteSet(On(x)) /\ Cardinality(On(x)) \in Nat
    BY <1>2 DEF Exchanging, Counted, SetFacts, CountFact
  <2>2. /\ On(x)' = On(x) /\ hd[x].ref_count = Tokens(x)
        /\ hd'[x].ref_count = hd[x].ref_count + 1
    BY <1>2, <1>6, <1>7 DEF Exchanging, Counted, GoesTo
  <2>3. /\ Bit(Queued(x)) = 0 /\ Bit(Queued(x))' = 0 /\ Bit(user[x].ref) = 0
        /\ Bit(user[x].ref)' = 1 /\ Bit(Unanswered(x)) = 1 /\ Bit(Unanswered(x))' = 1
    BY <1>3, <1>9, <1>10, <1>13, <1>14 DEF Bit
  <2>4. hd'[x].ref_count = Tokens(x)' /\ hd'[x].ref_count # 0
    BY SMTT(60), <2>1, <2>2, <2>3 DEF Tokens
  <2>. QED
    BY <2>1, <2>2, <2>4 DEF Counted, GoesTo
<1>16. NoResponse(x)' /\ Counts(x, 1, 1)'
  BY <1>3, <1>6, <1>7, <1>11 DEF NoResponse, Counts
<1>17. Responses(x)'
  BY <1>3, <1>9, <1>10, <1>13, <1>16 DEF Responses
<1>18. Triggering(x)'
  BY <1>2, <1>3, <1>6, <1>7, <1>9, <1>10, <1>13, <1>16 DEF Triggering, GoesTo
<1>19. Exchanging(x)' /\ OwnRequest(x)'
  BY <1>2, <1>6, <1>7, <1>9, <1>10, <1>11, <1>15, <1>17, <1>18
     DEF Exchanging, NoRequest, OwnRequest
<1>20. QueueInv'
  BY <1>11 DEF IInv, QueueInv
<1>. QED
  BY <1>2, <1>6, <1>7, <1>10, <1>11, <1>12, <1>13, <1>19, <1>20, ExchangeStep DEF GoesTo

LEMMA ProcessFailsStep ==
    ASSUME SetFacts, IInv, NEW t \in Triggers, NEW x \in Handles, ProcessFails(t, x)
    PROVE  IInv'
<1>1. TypeOK /\ trig[t].at = "called" /\ trig[t].on = {x}
  BY SMTT(60) DEF IInv, ProcessFails
<1>2. Exchanging(x) /\ GoesTo(t, x, "error")
  BY ZenonT(60), <1>1, NextStage DEF ProcessFails
<1>3. /\ user[x].ref /\ Unanswered(x) /\ Alone(x)
      /\ NoResponse(x) /\ Counts(x, 1, 1) /\ ~Queued(x)
  <2>1. user[x].ref /\ user[x].respond \in {"owed", "no"}
    BY DEF ProcessFails
  <2>2. Unanswered(x)
    BY <1>1, <1>2, <2>1 DEF Exchanging, Triggering, Unanswered, GoesTo
  <2>. QED
    BY <1>1, <1>2, <2>1, <2>2 DEF Exchanging, Triggering, Responses, GoesTo
<1>4. PICK g : /\ g = [hd[x] EXCEPT !.ref_count = @ - 1]
               /\ hd' = [hd EXCEPT ![x] = g]
  BY ZenonT(60) DEF ProcessFails
<1>5. IsFiniteSet(On(x)) /\ Cardinality(On(x)) \in Nat
  BY <1>2 DEF Exchanging, Counted, SetFacts, CountFact
<1>6. hd[x].ref_count = Cardinality(On(x)) + 2 /\ hd[x].ref_count - 1 \in Nat
  BY SMTT(60), <1>2, <1>3, <1>5 DEF Exchanging, Counted, Tokens, Bit
<1>7. g \in HandleType
  BY ZenonT(60), <1>1, <1>4, <1>6, HandleTypes DEF HandleType
<1>8. /\ hd' \in [Handles -> HandleType] /\ hd'[x] = g
      /\ \A y \in Handles \ {x} : hd'[y] = hd[y]
  BY ZenonT(60), <1>1, <1>4, <1>7, SetHandle
<1>9. /\ g.life = hd[x].life /\ g.repost = hd[x].repost /\ g.req = hd[x].req
      /\ g.no_response = hd[x].no_response /\ g.ref_count = hd[x].ref_count - 1
      /\ g.na_op_count = hd[x].na_op_count
      /\ g.na_op_completed_count = hd[x].na_op_completed_count
  BY <1>1, <1>4, HandleTypes DEF HandleType
<1>10. NotHeld \in UserType /\ ~NotHeld.ref /\ NotHeld.respond = "no"
  BY DEF NotHeld, UserType
<1>11. /\ user' \in [Handles -> UserType] /\ user'[x] = NotHeld
       /\ \A y \in Handles \ {x} : user'[y] = user[y]
  BY ZenonT(60), <1>1, <1>10, SetUser DEF ProcessFails
<1>12. UNCHANGED <<op, cb, more, pending, posting, queue, unpost, seen>>
  BY DEF ProcessFails
<1>13. TypeOK'
  BY ZenonT(60), <1>1, <1>2, <1>8, <1>11, <1>12 DEF TypeOK, GoesTo
<1>14. \A y \in Handles : Queued(y)' <=> Queued(y)
  BY <1>12, StillQueued
<1>15. Unanswered(x)'
  BY <1>2 DEF Unanswered, GoesTo
<1>16. Counted(x)'
  <2>1. On(x)' = On(x) /\ hd'[x].ref_count = hd[x].ref_count - 1
    BY <1>2, <1>8, <1>9 DEF GoesTo
  <2>2. /\ Bit(Queued(x))' = 0 /\ Bit(user[x].ref)' = 0 /\ Bit(Unanswered(x))' = 1
    BY <1>3, <1>10, <1>11, <1>14, <1>15 DEF Bit
  <2>3. hd'[x].ref_count = Tokens(x)' /\ hd'[x].ref_count # 0
    BY SMTT(60), <1>5, <1>6, <2>1, <2>2 DEF Tokens
  <2>. QED
    BY <1>5, <2>1, <2>3 DEF Counted
<1>17. NoResponse(x)' /\ Counts(x, 1, 1)'
  BY <1>3, <1>8, <1>9, <1>12 DEF NoResponse, Counts
<1>18. Responses(x)'
  BY <1>10, <1>11, <1>17 DEF Responses
<1>19. Triggering(x)'
  BY <1>2, <1>3, <1>8, <1>9, <1>10, <1>11, <1>14, <1>17 DEF Triggering, GoesTo
<1>20. Exchanging(x)' /\ OwnRequest(x)'
  BY <1>2, <1>8, <1>9, <1>10, <1>11, <1>12, <1>16, <1>18, <1>19
     DEF Exchanging, NoRequest, OwnRequest
<1>21. QueueInv'
  BY <1>12 DEF IInv, QueueInv
<1>. QED
  BY <1>2, <1>8, <1>9, <1>11, <1>12, <1>13, <1>14, <1>20, <1>21, ExchangeStep DEF GoesTo

LEMMA RespondErrorStep ==
    ASSUME SetFacts, IInv, NEW t \in Triggers, NEW x \in Handles, RespondError(t, x)
    PROVE  IInv'
<1>1. TypeOK /\ trig[t].at = "error" /\ trig[t].on = {x} /\ ~hd[x].no_response
  BY SMTT(60) DEF IInv, RespondError
<1>2. Exchanging(x) /\ GoesTo(t, x, "respond")
  BY ZenonT(60), <1>1, NextStage DEF RespondError
<1>3. /\ ~user[x].ref /\ NoResponse(x) /\ Counts(x, 1, 1) /\ ~Queued(x) /\ Alone(x)
      /\ Unanswered(x)
  BY <1>1, <1>2 DEF Exchanging, Triggering, Unanswered, GoesTo
<1>4. PICK g : g = Responding(hd[x]) /\ hd' = [hd EXCEPT ![x] = g]
  BY ZenonT(60) DEF RespondError
<1>5. g \in HandleType
  <2>1. hd[x].na_op_count + 1 \in Nat
    BY SMTT(60), <1>1, FieldTypes
  <2>. QED
    BY ZenonT(60), <1>1, <1>4, <2>1, HandleTypes DEF HandleType, Responding, Results
<1>6. /\ hd' \in [Handles -> HandleType] /\ hd'[x] = g
      /\ \A y \in Handles \ {x} : hd'[y] = hd[y]
  BY ZenonT(60), <1>1, <1>4, <1>5, SetHandle
<1>7. /\ g.life = hd[x].life /\ g.repost = hd[x].repost /\ g.req = hd[x].req
      /\ g.no_response = hd[x].no_response /\ g.ref_count = hd[x].ref_count
      /\ g.na_op_count = hd[x].na_op_count + 1
      /\ g.na_op_completed_count = hd[x].na_op_completed_count
      /\ g.op_type = "RESPOND"
  BY <1>1, <1>4, HandleTypes DEF HandleType, Responding
<1>8. PICK w : /\ w = [ref |-> FALSE, respond |-> "ack", req |-> hd[x].req]
               /\ user' = [user EXCEPT ![x] = w]
  BY ZenonT(60) DEF RespondError
<1>9. w \in UserType /\ ~w.ref /\ w.req = hd[x].req /\ w.respond = "ack"
  BY <1>1, <1>8, FieldTypes DEF UserType
<1>10. /\ user' \in [Handles -> UserType] /\ user'[x] = w
       /\ \A y \in Handles \ {x} : user'[y] = user[y]
  BY ZenonT(60), <1>1, <1>8, <1>9, SetUser
<1>11. UNCHANGED <<op, cb, more, pending, posting, queue, unpost, seen>>
  BY DEF RespondError
<1>12. TypeOK'
  BY ZenonT(60), <1>1, <1>2, <1>6, <1>10, <1>11 DEF TypeOK, GoesTo
<1>13. \A y \in Handles : Queued(y)' <=> Queued(y)
  BY <1>11, StillQueued
<1>14. Unanswered(x)'
  BY <1>1, <1>6, <1>7, <1>9, <1>10 DEF Unanswered
<1>15. Counted(x)'
  BY <1>2, <1>3, <1>6, <1>7, <1>9, <1>10, <1>13, <1>14
     DEF Exchanging, Counted, Tokens, Bit, GoesTo
<1>16. NoResponse(x)' /\ Counts(x, 2, 1)'
  BY SMTT(60), <1>3, <1>6, <1>7, <1>11 DEF NoResponse, Counts
<1>17. Responses(x)'
  BY <1>2, <1>3, <1>6, <1>7, <1>9, <1>10, <1>13, <1>16 DEF Responses, GoesTo
<1>18. Triggering(x)'
  BY <1>1, <1>2, <1>3, <1>6, <1>7, <1>9, <1>10, <1>13 DEF Triggering, GoesTo
<1>19. Exchanging(x)' /\ OwnRequest(x)'
  BY <1>2, <1>6, <1>7, <1>9, <1>10, <1>11, <1>15, <1>17, <1>18
     DEF Exchanging, NoRequest, OwnRequest
<1>20. QueueInv'
  BY <1>11 DEF IInv, QueueInv
<1>. QED
  BY <1>2, <1>6, <1>7, <1>10, <1>11, <1>12, <1>13, <1>19, <1>20, ExchangeStep DEF GoesTo

LEMMA NoRespondStep ==
    ASSUME SetFacts, IInv, NEW t \in Triggers, NEW x \in Handles, NoRespond(t, x)
    PROVE  IInv'
<1>1. /\ TypeOK /\ trig[t].at \in {"returned", "error"} /\ trig[t].on = {x}
      /\ hd[x].no_response
  BY DEF IInv, NoRespond
<1>2. Exchanging(x) /\ GoesTo(t, x, "destroy")
  BY ZenonT(60), <1>1, NextStage DEF NoRespond
<1>3. /\ user[x].respond \in {"no", "done", "failed"} /\ NoResponse(x)
      /\ ~Queued(x) /\ Alone(x) /\ Unanswered(x) /\ Counts(x, 1, 1)
  BY <1>1, <1>2 DEF Exchanging, Triggering, Responses, Unanswered, GoesTo
<1>4. PICK g : g = [hd[x] EXCEPT !.op_type = "NO_RESPOND"] /\ Complete(x, g, "SUCCESS")
  BY ZenonT(60) DEF NoRespond
<1>5. g \in HandleType
  BY ZenonT(60), <1>1, <1>4, HandleTypes DEF HandleType
<1>6. /\ hd' \in [Handles -> HandleType] /\ SameCounts(g, hd'[x])
      /\ \A y \in Handles \ {x} : hd'[y] = hd[y]
      /\ queue' \in Seq(Handles) /\ QueueInv' /\ Queued(x)'
      /\ \A y \in Handles \ {x} : Queued(y)' <=> Queued(y)
  BY <1>3, <1>4, <1>5, Completed DEF Results
<1>7. /\ hd'[x].life = hd[x].life /\ hd'[x].repost = hd[x].repost
      /\ hd'[x].req = hd[x].req /\ hd'[x].no_response
      /\ hd'[x].ref_count = hd[x].ref_count
      /\ hd'[x].na_op_count = hd[x].na_op_count
      /\ hd'[x].na_op_completed_count = hd[x].na_op_completed_count
      /\ hd'[x].op_type = "NO_RESPOND"
  <2>1. /\ g.life = hd[x].life /\ g.repost = hd[x].repost /\ g.req = hd[x].req
        /\ g.no_response = hd[x].no_response /\ g.ref_count = hd[x].ref_count
        /\ g.na_op_count = hd[x].na_op_count
        /\ g.na_op_completed_count = hd[x].na_op_completed_count
        /\ g.op_type = "NO_RESPOND"
    <3>1. g = [hd[x] EXCEPT !.op_type = "NO_RESPOND"]
      BY <1>4
    <3>2. hd[x] \in HandleType
      BY <1>1, HandleTypes
    <3>. QED
      BY <3>1, <3>2 DEF HandleType
  <2>. QED
    BY <1>1, <1>6, <2>1 DEF SameCounts
<1>8. UNCHANGED <<op, cb, more, pending, posting, user, unpost, seen>>
  BY DEF NoRespond
<1>9. TypeOK'
  BY ZenonT(60), <1>1, <1>2, <1>6, <1>8 DEF TypeOK, GoesTo
<1>10. ~Unanswered(x)'
  BY <1>2, <1>7 DEF Unanswered, GoesTo
<1>11. Counted(x)'
  <2>1. IsFiniteSet(On(x)) /\ Cardinality(On(x)) \in Nat
    BY <1>2 DEF Exchanging, Counted, SetFacts, CountFact
  <2>2. /\ On(x)' = On(x) /\ hd[x].ref_count = Tokens(x) /\ hd[x].ref_count # 0
        /\ hd'[x].ref_count = hd[x].ref_count
    BY <1>2, <1>7 DEF Exchanging, Counted, GoesTo
  <2>3. /\ Bit(Queued(x)) = 0 /\ Bit(Queued(x))' = 1
        /\ Bit(Unanswered(x)) = 1 /\ Bit(Unanswered(x))' = 0
        /\ Bit(user[x].ref)' = Bit(user[x].ref) /\ Bit(user[x].ref) \in {0, 1}
    BY <1>3, <1>6, <1>8, <1>10 DEF Bit
  <2>4. hd'[x].ref_count = Tokens(x)'
    BY SMTT(60), <2>1, <2>2, <2>3 DEF Tokens
  <2>. QED
    BY <2>1, <2>2, <2>4 DEF Counted
<1>12. NoResponse(x)' /\ Counts(x, 1, 1)'
  BY <1>3, <1>7, <1>8 DEF NoResponse, Counts
<1>13. Responses(x)'
  BY <1>3, <1>8, <1>12 DEF Responses
<1>14. Triggering(x)'
  BY <1>2, <1>3, <1>7, <1>8, <1>12 DEF Triggering, GoesTo
<1>15. Exchanging(x)' /\ OwnRequest(x)'
  <2>1. OwnRequest(x)
    BY DEF IInv
  <2>. QED
    BY <1>2, <1>7, <1>8, <1>11, <1>13, <1>14, <2>1 DEF Exchanging, NoRequest, OwnRequest
<1>. QED
  BY <1>2, <1>6, <1>7, <1>8, <1>9, <1>15, ExchangeStep DEF GoesTo


-----------------------------------------------------------------------------
(* hg_core_destroy by the trigger and by the user *)

LEMMA DroppedOther ==
    ASSUME TypeOK, NEW x \in Handles, NEW g \in HandleType, NEW who, Dropped(x, g, who),
           g.ref_count # 0, g.ref_count # 1
    PROVE  /\ hd' \in [Handles -> HandleType] /\ posting' = posting
           /\ \A y \in Handles \ {x} : hd'[y] = hd[y]
           /\ hd'[x].ref_count = g.ref_count - 1 /\ hd'[x].life = g.life
           /\ hd'[x].na_op_count = g.na_op_count
           /\ hd'[x].na_op_completed_count = g.na_op_completed_count
           /\ hd'[x].op_type = g.op_type /\ hd'[x].no_response = g.no_response
           /\ hd'[x].repost = g.repost /\ hd'[x].req = g.req
<1>1. /\ hd' = [hd EXCEPT ![x] = [g EXCEPT !.ref_count = @ - 1, !.life = @]]
      /\ posting' = posting
  BY ZenonT(60) DEF Dropped
<1>2. PICK h : /\ h = [g EXCEPT !.ref_count = @ - 1, !.life = @]
               /\ hd' = [hd EXCEPT ![x] = h]
  BY ZenonT(60), <1>1
<1>3. g.ref_count - 1 \in Nat
  BY SMTT(60) DEF HandleType
<1>4. h \in HandleType
  BY ZenonT(60), <1>2, <1>3 DEF HandleType
<1>5. /\ hd' \in [Handles -> HandleType] /\ hd'[x] = h
      /\ \A y \in Handles \ {x} : hd'[y] = hd[y]
  BY ZenonT(60), <1>2, <1>4, SetHandle
<1>6. /\ h.ref_count = g.ref_count - 1 /\ h.life = g.life
      /\ h.na_op_count = g.na_op_count
      /\ h.na_op_completed_count = g.na_op_completed_count
      /\ h.op_type = g.op_type /\ h.no_response = g.no_response
      /\ h.repost = g.repost /\ h.req = g.req
  BY <1>2 DEF HandleType
<1>. QED
  BY <1>1, <1>5, <1>6

(* The last reference is dropped: the handle is freed or about to be reset. *)
LEMMA LastStep ==
    ASSUME IInv, NEW x \in Handles, NEW who \in {"user"} \cup Triggers, Exchanging(x),
           hd[x].ref_count = 1, Dropped(x, hd[x], who), Apart(x)', ~Queued(x),
           user' \in [Handles -> UserType], trig' \in [Triggers -> TriggerType], TrigInv',
           \A y \in Handles \ {x} : user'[y] = user[y],
           \A y \in Handles \ {x} : SameTriggers(y),
           UNCHANGED <<op, cb, more, pending, queue, unpost, seen>>
    PROVE  IInv'
<1>1. TypeOK /\ hd[x] \in HandleType
  BY HandleTypes DEF IInv
<1>2. /\ hd' \in [Handles -> HandleType]
      /\ \A y \in Handles \ {x} : hd'[y] = hd[y]
      /\ hd'[x].ref_count = 0 /\ hd'[x].repost = hd[x].repost
      /\ hd[x].repost /\ ~finalizing =>
           hd'[x].life = hd[x].life /\ posting' = [posting EXCEPT ![x] = who]
      /\ ~(hd[x].repost /\ ~finalizing) => hd'[x].life = "freed" /\ posting' = posting
  <2>1. PICK g \in HandleType : g = hd[x]
    BY <1>1
  <2>2. Dropped(x, g, who) /\ g.ref_count = 1
    BY <2>1
  <2>3. /\ hd' \in [Handles -> HandleType]
        /\ \A y \in Handles \ {x} : hd'[y] = hd[y]
        /\ hd'[x].ref_count = 0 /\ hd'[x].repost = g.repost
        /\ g.repost /\ ~finalizing =>
             hd'[x].life = g.life /\ posting' = [posting EXCEPT ![x] = who]
        /\ ~(g.repost /\ ~finalizing) => hd'[x].life = "freed" /\ posting' = posting
    BY SMTT(60), <1>1, <2>2, DroppedLast
  <2>. QED
    BY <2>1, <2>3
<1>3. /\ posting' \in [Handles -> {"no", "user"} \cup Handles \cup Triggers]
      /\ \A y \in Handles \ {x} : posting'[y] = posting[y]
      /\ posting'[x] = who \/ posting' = posting
      /\ \/ hd'[x].life = hd[x].life /\ posting'[x] = who
         \/ hd'[x].life = "freed" /\ posting'[x] = posting[x]
  <2>1. CASE hd[x].repost /\ ~finalizing
    <3>1. posting' = [posting EXCEPT ![x] = who]
      BY <1>2, <2>1
    <3>2. /\ posting' \in [Handles -> {"no", "user"} \cup Handles \cup Triggers]
          /\ posting'[x] = who /\ \A y \in Handles \ {x} : posting'[y] = posting[y]
      BY ZenonT(60), <1>1, <3>1, SetPosting
    <3>. QED
      BY <1>2, <2>1, <3>2
  <2>2. CASE ~(hd[x].repost /\ ~finalizing)
    <3>1. posting \in [Handles -> {"no", "user"} \cup Handles \cup Triggers]
      BY ZenonT(60), <1>1 DEF TypeOK
    <3>. QED
      BY <1>2, <2>2, <3>1
  <2>. QED
    BY <2>1, <2>2
<1>4. TypeOK'
  BY ZenonT(60), <1>1, <1>2, <1>3 DEF TypeOK
<1>5. Queued(x)' <=> Queued(x)
  BY StillQueued
<1>6. NoRequest(x)'
  BY DEF Exchanging, NoRequest
<1>7. Returning(x)' \/ Gone(x)'
  BY <1>2, <1>3, <1>5, <1>6 DEF Exchanging, Returning, Gone
<1>8. OwnRequest(x)'
  BY DEF Apart, OwnRequest
<1>9. PostingInv'
  BY SMTT(60), <1>3, NamesAssumption DEF IInv, PostingInv
<1>10. QueueInv'
  BY DEF IInv, QueueInv
<1>11. FinalInv'
  BY <1>2 DEF IInv, FinalInv, finalizing
<1>12. \A y \in Handles \ {x} : Same(y)
  BY <1>2, <1>3 DEF Same, Queued
<1>. QED
  BY <1>4, <1>7, <1>8, <1>9, <1>10, <1>11, <1>12, Assemble DEF HandleInv

(* Trigger t no longer works on x. *)
Leaves(t, x) ==
    /\ trig' \in [Triggers -> TriggerType] /\ TrigInv'
    /\ t \in On(x) /\ On(x)' = On(x) \ {t}
    /\ \A v \in On(x)' : trig'[v] = trig[v]
    /\ At(x, {"process", "error"})' <=> At(x, {"process", "error"})
    /\ At(x, {"called", "returned"})' <=> At(x, {"called", "returned"})
    /\ At(x, {"respond"})' <=> At(x, {"respond"})
    /\ \A y \in Handles \ {x} : SameTriggers(y)

LEMMA TriggerLeaves ==
    ASSUME IInv, NEW t \in Triggers, NEW x \in Handles,
           trig[t] = [at |-> "destroy", on |-> {x}],
           trig' = [trig EXCEPT ![t] = [at |-> "idle", on |-> {}]]
    PROVE  Exchanging(x) /\ Leaves(t, x)
<1>1. trig \in [Triggers -> TriggerType] /\ TrigInv
  BY ZenonT(60) DEF IInv, TypeOK
<1>2. /\ trig' \in [Triggers -> TriggerType] /\ trig'[t].at = "idle" /\ trig'[t].on = {}
      /\ trig[t].at = "destroy" /\ trig[t].on = {x}
      /\ \A v \in Triggers \ {t} : trig'[v] = trig[v]
  BY SMTT(60), <1>1 DEF TriggerType
<1>3. TrigInv'
  BY <1>1, <1>2 DEF TrigInv
<1>4. t \in On(x) /\ On(x)' = On(x) \ {t}
  BY <1>2 DEF On
<1>5. \A v \in On(x)' : trig'[v] = trig[v]
  BY <1>2, <1>4 DEF On
<1>6. Exchanging(x)
  BY <1>4, IsExchanging DEF IInv
<1>7. \A S : "destroy" \notin S => (At(x, S)' <=> At(x, S))
  BY <1>2, <1>4, <1>5 DEF At
<1>8. \A y \in Handles \ {x} : SameTriggers(y)
  BY <1>2 DEF SameTriggers, On
<1>9. /\ At(x, {"process", "error"})' <=> At(x, {"process", "error"})
      /\ At(x, {"called", "returned"})' <=> At(x, {"called", "returned"})
      /\ At(x, {"respond"})' <=> At(x, {"respond"})
  BY <1>7
<1>. QED
  BY <1>2, <1>3, <1>4, <1>5, <1>6, <1>8, <1>9 DEF Leaves

(* Nothing but the holders of references uses x. *)
LEMMA NotAnswering ==
    ASSUME NEW x \in Handles, Exchanging(x), user[x] \in UserType, ~Queued(x), ~Unanswered(x)
    PROVE  user[x].respond \in {"no", "done", "failed"} /\ NoResponse(x)
  BY DEF Exchanging, Responses, Triggering, Unanswered, UserType

LEMMA TriggerDestroyStep ==
    ASSUME SetFacts, IInv, NEW t \in Triggers, NEW x \in Handles, TriggerDestroy(t, x)
    PROVE  IInv'
<1>1. Exchanging(x) /\ Leaves(t, x)
  BY ZenonT(60), TriggerLeaves DEF TriggerDestroy
<1>2. /\ TypeOK /\ hd[x] \in HandleType /\ user[x] \in UserType
      /\ user \in [Handles -> UserType] /\ OwnRequest(x)
  BY HandleTypes DEF IInv, TypeOK
<1>3. /\ Dropped(x, hd[x], t)
      /\ UNCHANGED <<op, cb, more, pending, user, queue, unpost, seen>>
  BY DEF TriggerDestroy
<1>4. /\ IsFiniteSet(On(x)) /\ Cardinality(On(x)) \in Nat
      /\ IsFiniteSet(On(x)') /\ Cardinality(On(x)') = Cardinality(On(x)) - 1
      /\ Cardinality(On(x)') \in Nat
      /\ Cardinality(On(x)') = 0 => On(x)' = {}
  <2>1. IsFiniteSet(On(x)) /\ On(x)' = On(x) \ {t} /\ t \in On(x)
    BY <1>1 DEF Exchanging, Counted, Leaves
  <2>2. IsFiniteSet(On(x)') /\ Cardinality(On(x)') = Cardinality(On(x)) - 1
    BY <2>1 DEF SetFacts, RemoveFact
  <2>. QED
    BY <2>1, <2>2 DEF SetFacts, CountFact, EmptyFact
<1>5. \A y \in Handles : Queued(y)' <=> Queued(y)
  BY <1>3, StillQueued
<1>6. NoResponse(x)' <=> NoResponse(x)
  BY <1>3 DEF NoResponse
<1>7. CASE hd[x].ref_count = 1
  <2>1. On(x)' = {} /\ ~Queued(x) /\ ~user[x].ref /\ ~Unanswered(x)
    BY SMTT(60), <1>1, <1>4, <1>7 DEF Exchanging, Counted, Tokens, Bit
  <2>2. Apart(x)'
    BY <1>1, <1>2, <1>3, <1>6, <2>1, NotAnswering DEF Apart
  <2>3. /\ user' \in [Handles -> UserType] /\ trig' \in [Triggers -> TriggerType]
        /\ TrigInv' /\ \A y \in Handles \ {x} : SameTriggers(y)
    BY <1>1, <1>2, <1>3 DEF Leaves
  <2>. QED
    BY ZenonT(60), <1>1, <1>3, <1>7, <2>1, <2>2, <2>3, LastStep
<1>8. CASE hd[x].ref_count # 1
  <2>1. hd[x].ref_count # 0
    BY <1>1 DEF Exchanging, Counted
  <2>2. /\ hd' \in [Handles -> HandleType] /\ posting' = posting
        /\ \A y \in Handles \ {x} : hd'[y] = hd[y]
        /\ hd'[x].ref_count = hd[x].ref_count - 1 /\ hd'[x].life = hd[x].life
        /\ hd'[x].na_op_count = hd[x].na_op_count
        /\ hd'[x].na_op_completed_count = hd[x].na_op_completed_count
        /\ hd'[x].op_type = hd[x].op_type /\ hd'[x].no_response = hd[x].no_response
        /\ hd'[x].repost = hd[x].repost /\ hd'[x].req = hd[x].req
    BY ZenonT(60), <1>2, <1>3, <1>8, <2>1, DroppedOther
  <2>3. TypeOK'
    BY ZenonT(60), <1>1, <1>2, <1>3, <2>2 DEF TypeOK, Leaves
  <2>4. Unanswered(x)' <=> Unanswered(x)
    BY <1>1, <1>3, <1>5, <2>2 DEF Unanswered, Leaves
  <2>5. Counted(x)'
    <3>1. /\ hd[x].ref_count = Tokens(x) /\ hd[x].ref_count \in Nat
          /\ hd'[x].ref_count = hd[x].ref_count - 1
      BY <1>1, <1>2, <2>2, FieldTypes DEF Exchanging, Counted
    <3>2. /\ Bit(Queued(x))' = Bit(Queued(x)) /\ Bit(Queued(x)) \in {0, 1}
          /\ Bit(user[x].ref)' = Bit(user[x].ref) /\ Bit(user[x].ref) \in {0, 1}
          /\ Bit(Unanswered(x))' = Bit(Unanswered(x)) /\ Bit(Unanswered(x)) \in {0, 1}
      BY <1>3, <1>5, <2>4 DEF Bit
    <3>3. hd'[x].ref_count = Tokens(x)' /\ hd'[x].ref_count # 0
      BY SMTT(60), <1>4, <1>8, <3>1, <3>2 DEF Tokens
    <3>. QED
      BY <1>4, <3>3 DEF Counted
  <2>6. Responses(x)'
    BY <1>1, <1>3, <1>5, <1>6, <2>2 DEF Exchanging, Responses, Counts, Outstanding, Leaves
  <2>7. Triggering(x)'
    BY <1>1, <1>3, <1>5, <1>6, <2>2, <2>4 DEF Exchanging, Triggering, Alone, Counts, Leaves
  <2>8. Exchanging(x)' /\ OwnRequest(x)' /\ QueueInv'
    BY <1>1, <1>2, <1>3, <2>2, <2>5, <2>6, <2>7
       DEF Exchanging, NoRequest, IInv, OwnRequest, QueueInv
  <2>. QED
    BY <1>1, <1>3, <1>5, <2>2, <2>3, <2>8, ExchangeStep DEF Leaves
<1>. QED
  BY <1>7, <1>8

LEMMA DestroyStep ==
    ASSUME SetFacts, IInv, NEW x \in Handles, Destroy(x)
    PROVE  IInv'
<1>1. /\ TypeOK /\ hd[x] \in HandleType /\ user[x] \in UserType /\ HandleInv(x)
      /\ trig \in [Triggers -> TriggerType] /\ TrigInv
  BY HandleTypes DEF IInv, TypeOK
<1>2. /\ user[x].ref /\ user[x].respond \in {"no", "sent", "done", "failed"}
      /\ Dropped(x, hd[x], "user") /\ user' = [user EXCEPT ![x].ref = FALSE]
      /\ UNCHANGED <<op, cb, more, pending, queue, trig, unpost, seen>>
  BY DEF Destroy
<1>3. Exchanging(x)
  BY <1>1, <1>2, IsExchanging
<1>4. /\ user' \in [Handles -> UserType] /\ ~user'[x].ref
      /\ user'[x].respond = user[x].respond /\ user'[x].req = user[x].req
      /\ \A y \in Handles \ {x} : user'[y] = user[y]
  <2>1. PICK w : w = [user[x] EXCEPT !.ref = FALSE] /\ user' = [user EXCEPT ![x] = w]
    BY ZenonT(60), <1>2
  <2>2. /\ w \in UserType /\ ~w.ref /\ w.respond = user[x].respond
        /\ w.req = user[x].req
    <3>1. user[x] \in UserType /\ w = [user[x] EXCEPT !.ref = FALSE]
      BY <1>1, <2>1
    <3>2. w \in UserType
      BY ZenonT(60), <3>1 DEF UserType
    <3>. QED
      BY <3>1, <3>2 DEF UserType
  <2>3. /\ user' \in [Handles -> UserType] /\ user'[x] = w
        /\ \A y \in Handles \ {x} : user'[y] = user[y]
    BY ZenonT(60), <1>1, <2>1, <2>2, SetUser
  <2>. QED
    BY <2>2, <2>3
<1>5. IsFiniteSet(On(x)) /\ Cardinality(On(x)) \in Nat
  BY <1>3 DEF Exchanging, Counted, SetFacts, CountFact
<1>6. /\ \A y \in Handles : Queued(y)' <=> Queued(y)
      /\ \A y \in Handles : On(y)' = On(y) /\ SameTriggers(y)
      /\ \A S : At(x, S)' <=> At(x, S)
  BY <1>2, StillQueued, StillAt DEF SameTriggers
<1>7. NoResponse(x)' <=> NoResponse(x)
  BY <1>2 DEF NoResponse
<1>8. CASE hd[x].ref_count = 1
  <2>1. Cardinality(On(x)) = 0 /\ ~Queued(x) /\ ~Unanswered(x)
    BY SMTT(60), <1>2, <1>3, <1>5, <1>8 DEF Exchanging, Counted, Tokens, Bit
  <2>2. On(x) = {}
    BY <1>5, <2>1 DEF SetFacts, EmptyFact
  <2>3. Apart(x)'
    BY <1>1, <1>3, <1>4, <1>6, <1>7, <2>1, <2>2, NotAnswering DEF Apart
  <2>4. trig' \in [Triggers -> TriggerType] /\ TrigInv'
    BY <1>1, <1>2 DEF TrigInv
  <2>5. \A y \in Handles \ {x} : SameTriggers(y)
    BY <1>6
  <2>. QED
    BY ZenonT(60), <1>2, <1>3, <1>4, <1>8, <2>1, <2>3, <2>4, <2>5, LastStep
<1>9. CASE hd[x].ref_count # 1
  <2>1. hd[x].ref_count # 0
    BY <1>3 DEF Exchanging, Counted
  <2>2. /\ hd' \in [Handles -> HandleType] /\ posting' = posting
        /\ \A y \in Handles \ {x} : hd'[y] = hd[y]
        /\ hd'[x].ref_count = hd[x].ref_count - 1 /\ hd'[x].life = hd[x].life
        /\ hd'[x].na_op_count = hd[x].na_op_count
        /\ hd'[x].na_op_completed_count = hd[x].na_op_completed_count
        /\ hd'[x].op_type = hd[x].op_type /\ hd'[x].no_response = hd[x].no_response
        /\ hd'[x].repost = hd[x].repost /\ hd'[x].req = hd[x].req
    BY ZenonT(60), <1>1, <1>2, <1>9, <2>1, DroppedOther
  <2>3. TypeOK'
    BY ZenonT(60), <1>1, <1>2, <1>4, <2>2 DEF TypeOK
  <2>4. Unanswered(x)' <=> Unanswered(x)
    BY <1>4, <1>6, <2>2 DEF Unanswered
  <2>5. Counted(x)'
    <3>1. /\ hd[x].ref_count = Tokens(x) /\ hd[x].ref_count \in Nat
          /\ hd'[x].ref_count = hd[x].ref_count - 1 /\ On(x)' = On(x)
      BY <1>1, <1>3, <1>6, <2>2, FieldTypes DEF Exchanging, Counted
    <3>2. /\ Bit(Queued(x))' = Bit(Queued(x)) /\ Bit(Queued(x)) \in {0, 1}
          /\ Bit(user[x].ref) = 1 /\ Bit(user[x].ref)' = 0
          /\ Bit(Unanswered(x))' = Bit(Unanswered(x)) /\ Bit(Unanswered(x)) \in {0, 1}
      BY <1>2, <1>4, <1>6, <2>4 DEF Bit
    <3>3. hd'[x].ref_count = Tokens(x)' /\ hd'[x].ref_count # 0
      BY SMTT(60), <1>5, <1>9, <2>1, <3>1, <3>2 DEF Tokens
    <3>. QED
      BY <1>5, <3>1, <3>3 DEF Counted
  <2>6. Responses(x)'
    BY <1>2, <1>3, <1>4, <1>6, <1>7, <2>2 DEF Exchanging, Responses, Counts, Outstanding
  <2>7. Triggering(x)'
    BY SMTT(60), <1>2, <1>3, <1>4, <1>6, <1>7, <2>2, <2>4
       DEF Exchanging, Triggering, Alone, Counts
  <2>8. Exchanging(x)' /\ OwnRequest(x)' /\ QueueInv' /\ TrigInv'
    BY SMTT(60), <1>2, <1>3, <1>4, <2>2, <2>5, <2>6, <2>7
       DEF Exchanging, NoRequest, IInv, OwnRequest, QueueInv, TrigInv
  <2>. QED
    BY <1>2, <1>4, <1>6, <2>2, <2>3, <2>8, ExchangeStep
<1>. QED
  BY <1>8, <1>9

-----------------------------------------------------------------------------
(* The trigger takes an entry *)

LEMMA Dequeued ==
    ASSUME queue \in Seq(Handles), QueueInv, queue # <<>>, queue' = Tail(queue),
           NEW x, x = Head(queue)
    PROVE  /\ x \in Handles /\ queue' \in Seq(Handles) /\ QueueInv'
           /\ Queued(x) /\ ~Queued(x)'
           /\ \A y \in Handles \ {x} : Queued(y)' <=> Queued(y)
<1>1. /\ Len(queue) \in Nat /\ Len(queue) # 0 /\ x = queue[1] /\ x \in Handles
      /\ queue' \in Seq(Handles) /\ Len(queue') = Len(queue) - 1
      /\ \A i \in 1 .. Len(queue') : queue'[i] = queue[i + 1]
  BY SMTT(60)
<1>2. QueueInv'
  BY SMTT(60), <1>1 DEF QueueInv
<1>3. Queued(x)
  BY SMTT(60), <1>1 DEF Queued
<1>4. ~Queued(x)'
  <2>1. ASSUME NEW i \in 1 .. Len(queue'), queue'[i] = x
        PROVE  FALSE
    <3>1. i + 1 \in 1 .. Len(queue) /\ 1 \in 1 .. Len(queue) /\ i + 1 # 1
      BY SMTT(60), <1>1
    <3>. QED
      BY <1>1, <2>1, <3>1 DEF QueueInv
  <2>. QED
    BY <2>1 DEF Queued
<1>5. ASSUME NEW y \in Handles \ {x}
      PROVE  Queued(y)' <=> Queued(y)
  <2>1. ASSUME NEW i \in 1 .. Len(queue), queue[i] = y
        PROVE  Queued(y)'
    <3>1. i - 1 \in 1 .. Len(queue') /\ queue'[i - 1] = queue[i]
      BY SMTT(60), <1>1, <2>1
    <3>. QED
      BY <2>1, <3>1 DEF Queued
  <2>2. ASSUME NEW i \in 1 .. Len(queue'), queue'[i] = y
        PROVE  Queued(y)
    <3>1. i + 1 \in 1 .. Len(queue) /\ queue'[i] = queue[i + 1]
      BY SMTT(60), <1>1
    <3>. QED
      BY <2>2, <3>1 DEF Queued
  <2>. QED
    BY <2>1, <2>2 DEF Queued
<1>. QED
  BY <1>1, <1>2, <1>3, <1>4, <1>5

(* Trigger t starts to work on x at stage r. *)
Takes(t, x, r) ==
    /\ trig' \in [Triggers -> TriggerType] /\ TrigInv'
    /\ t \notin On(x) /\ On(x)' = On(x) \cup {t} /\ trig'[t].at = r
    /\ \A v \in On(x) : trig'[v] = trig[v]
    /\ \A y \in Handles \ {x} : SameTriggers(y)

LEMMA TriggerTakes ==
    ASSUME IInv, NEW t \in Triggers, NEW x \in Handles, trig[t].at = "idle",
           NEW r \in {"process", "destroy"},
           trig' = [trig EXCEPT ![t] = [at |-> r, on |-> {x}]]
    PROVE  Takes(t, x, r)
<1>1. trig \in [Triggers -> TriggerType] /\ TrigInv
  BY ZenonT(60) DEF IInv, TypeOK
<1>2. trig[t].on = {}
  BY <1>1 DEF TrigInv
<1>3. /\ trig' \in [Triggers -> TriggerType] /\ trig'[t].at = r /\ trig'[t].on = {x}
      /\ \A v \in Triggers \ {t} : trig'[v] = trig[v]
  <2>1. [at |-> r, on |-> {x}] \in TriggerType
    BY DEF TriggerType
  <2>. QED
    BY <1>1, <2>1
<1>4. TrigInv'
  BY <1>1, <1>3 DEF TrigInv
<1>5. t \notin On(x) /\ On(x)' = On(x) \cup {t} /\ \A v \in On(x) : trig'[v] = trig[v]
  BY <1>2, <1>3 DEF On
<1>6. \A y \in Handles \ {x} : SameTriggers(y)
  BY <1>2, <1>3 DEF SameTriggers, On
<1>. QED
  BY <1>3, <1>4, <1>5, <1>6 DEF Takes

(* A request that was received is processed, or destroyed if it failed. *)
LEMMA TakeReceived ==
    ASSUME SetFacts, IInv, NEW t \in Triggers, NEW x \in Handles, Received(x),
           NEW r \in {"process", "destroy"}, Takes(t, x, r), TypeOK', ~Queued(x)',
           hd'[x].life = hd[x].life, hd'[x].repost = hd[x].repost,
           hd'[x].no_response = hd[x].no_response,
           hd'[x].na_op_count = hd[x].na_op_count,
           hd'[x].na_op_completed_count = hd[x].na_op_completed_count,
           hd'[x].ref_count = hd[x].ref_count + Bit(r = "process"),
           UNCHANGED <<op, cb, more, pending, posting, user>>
    PROVE  Exchanging(x)' /\ OwnRequest(x)'
<1>1. On(x)' = {t}
  BY DEF Received, Apart, Takes
<1>2. IsFiniteSet(On(x)') /\ Cardinality(On(x)') = 1
  BY <1>1 DEF SetFacts, SingletonFact
<1>3. /\ At(x, {"process", "error"})' <=> r = "process"
      /\ ~At(x, {"called", "returned"})' /\ ~At(x, {"respond"})'
  BY <1>1 DEF Takes, At
<1>4. /\ NoResponse(x)' /\ NoRequest(x)' /\ Counts(x, 1, 1)' /\ ~user'[x].ref
      /\ user'[x].respond \in {"no", "done", "failed"}
  BY DEF Received, Apart, NoResponse, NoRequest, Counts
<1>5. Unanswered(x)' <=> r = "process"
  BY <1>3, <1>4 DEF Unanswered
<1>6. Counted(x)'
  BY SMTT(60), <1>2, <1>4, <1>5 DEF Received, Counted, Tokens, Bit
<1>7. Responses(x)'
  BY <1>4 DEF Responses
<1>8. Triggering(x)'
  BY <1>1, <1>3, <1>4 DEF Triggering, Alone
<1>. QED
  BY <1>4, <1>6, <1>7, <1>8 DEF Received, Exchanging, OwnRequest

(* The response is complete, or none was wanted. *)
LEMMA TakeAnswered ==
    ASSUME SetFacts, IInv, NEW t \in Triggers, NEW x \in Handles, Exchanging(x), Queued(x),
           Takes(t, x, "destroy"), TypeOK', ~Queued(x)',
           hd'[x].life = hd[x].life, hd'[x].repost = hd[x].repost,
           hd'[x].no_response = hd[x].no_response, hd'[x].req = hd[x].req,
           hd'[x].na_op_count = hd[x].na_op_count,
           hd'[x].na_op_completed_count = hd[x].na_op_completed_count,
           hd'[x].ref_count = hd[x].ref_count, hd'[x].op_type = hd[x].op_type,
           user'[x].ref = user[x].ref, user'[x].req = user[x].req,
           user'[x].respond = IF hd[x].op_type = "RESPOND" THEN "done"
                              ELSE user[x].respond,
           UNCHANGED <<op, cb, more, pending, posting>>
    PROVE  Exchanging(x)' /\ OwnRequest(x)'
<1>1. /\ IsFiniteSet(On(x)) /\ Cardinality(On(x)) \in Nat /\ IsFiniteSet(On(x)')
      /\ Cardinality(On(x)') = Cardinality(On(x)) + 1
  <2>1. IsFiniteSet(On(x)) /\ On(x)' = On(x) \cup {t} /\ t \notin On(x)
    BY DEF Exchanging, Counted, Takes
  <2>. QED
    BY <2>1 DEF SetFacts, AddFact, CountFact
<1>2. \A S : "destroy" \notin S => (At(x, S)' <=> At(x, S))
  BY DEF At, Takes
<1>3. /\ At(x, {"process", "error"})' <=> At(x, {"process", "error"})
      /\ At(x, {"called", "returned"})' <=> At(x, {"called", "returned"})
      /\ At(x, {"respond"})' <=> At(x, {"respond"})
  BY <1>2
<1>4. /\ ~At(x, {"process", "error"}) /\ ~Unanswered(x)
      /\ hd[x].no_response => ~At(x, {"called", "returned"})
      /\ hd[x].op_type = "RESPOND" <=> ~hd[x].no_response
      /\ ~hd[x].no_response => user[x].respond = "sent" /\ NoResponse(x)
      /\ hd[x].no_response =>
           user[x].respond \in {"no", "done", "failed"} /\ NoResponse(x)
  BY DEF Exchanging, Triggering, Responses, Unanswered
<1>5. /\ user'[x].respond \in {"no", "done", "failed"} /\ NoResponse(x)'
      /\ ~hd[x].no_response => user'[x].respond = "done"
      /\ NoRequest(x)'
  BY <1>4 DEF NoResponse, NoRequest, Exchanging
<1>6. ~Unanswered(x)'
  BY <1>3, <1>4, <1>5 DEF Unanswered
<1>7. Counted(x)'
  BY SMTT(60), <1>1, <1>4, <1>6 DEF Exchanging, Counted, Tokens, Bit
<1>8. Responses(x)'
  BY <1>5 DEF Responses
<1>9. Triggering(x)'
  <2>1. \A v, w \in On(x)' :
          trig'[v].at # "destroy" /\ trig'[w].at # "destroy" => v = w
    BY DEF Exchanging, Triggering, Takes
  <2>. QED
    BY <1>3, <1>4, <1>5, <1>6, <2>1 DEF Exchanging, Triggering, Counts
<1>10. OwnRequest(x)'
  BY <1>5 DEF IInv, OwnRequest
<1>. QED
  BY <1>5, <1>7, <1>8, <1>9, <1>10 DEF Exchanging

LEMMA TriggerPopStep ==
    ASSUME SetFacts, IInv, NEW t \in Triggers, TriggerPop(t)
    PROVE  IInv'
<1>1. TypeOK /\ queue \in Seq(Handles) /\ QueueInv
  BY ZenonT(60) DEF IInv, TypeOK
<1>2. PICK x : x = Head(queue)
  OBVIOUS
<1>3. queue # <<>> /\ queue' = Tail(queue) /\ trig[t].at = "idle"
  BY DEF TriggerPop
<1>4. /\ x \in Handles /\ queue' \in Seq(Handles) /\ QueueInv'
      /\ Queued(x) /\ ~Queued(x)'
      /\ \A y \in Handles \ {x} : Queued(y)' <=> Queued(y)
  BY ZenonT(60), <1>1, <1>2, <1>3, Dequeued
<1>5. PICK b \in BOOLEAN : b <=> hd[x].op_type = "PROCESS" /\ hd[x].ret = "SUCCESS"
  BY ZenonT(60)
<1>6. PICK g : /\ g = [hd[x] EXCEPT !.status = @ \ {"QUEUED"},
                                    !.ref_count = IF b THEN @ + 1 ELSE @]
               /\ hd' = [hd EXCEPT ![x] = g]
  BY ZenonT(60), <1>2, <1>5 DEF TriggerPop
<1>7. g \in HandleType
  <2>1. hd[x] \in HandleType
    BY <1>1, <1>4, HandleTypes
  <2>2. (IF b THEN hd[x].ref_count + 1 ELSE hd[x].ref_count) \in Nat
    BY SMTT(60), <1>1, <1>4, FieldTypes
  <2>. QED
    BY ZenonT(60), <1>6, <2>1, <2>2 DEF HandleType
<1>8. /\ hd' \in [Handles -> HandleType] /\ hd'[x] = g
      /\ \A y \in Handles \ {x} : hd'[y] = hd[y]
  BY ZenonT(60), <1>1, <1>4, <1>6, <1>7, SetHandle
<1>9. /\ g.life = hd[x].life /\ g.repost = hd[x].repost /\ g.req = hd[x].req
      /\ g.no_response = hd[x].no_response /\ g.op_type = hd[x].op_type
      /\ g.na_op_count = hd[x].na_op_count
      /\ g.na_op_completed_count = hd[x].na_op_completed_count
      /\ g.ref_count = hd[x].ref_count + Bit(b)
  <2>1. /\ hd[x] \in HandleType
        /\ g = [hd[x] EXCEPT !.status = @ \ {"QUEUED"},
                             !.ref_count = IF b THEN @ + 1 ELSE @]
    BY <1>1, <1>4, <1>6, HandleTypes
  <2>. QED
    BY SMTT(60), <2>1 DEF HandleType, Bit
<1>10. /\ user' \in [Handles -> UserType] /\ user'[x].ref = user[x].ref
       /\ user'[x].req = user[x].req
       /\ user'[x].respond = IF hd[x].op_type = "RESPOND" THEN "done"
                             ELSE user[x].respond
       /\ hd[x].op_type # "RESPOND" => user' = user
       /\ \A y \in Handles \ {x} : user'[y] = user[y]
  <2>1. CASE hd[x].op_type = "RESPOND"
    <3>1. user' = [user EXCEPT ![x].respond = "done"]
      BY ZenonT(60), <1>2, <2>1 DEF TriggerPop
    <3>2. /\ user' \in [Handles -> UserType] /\ user'[x].respond = "done"
          /\ user'[x].ref = user[x].ref /\ user'[x].req = user[x].req
          /\ \A y \in Handles \ {x} : user'[y] = user[y]
      BY ZenonT(60), <1>1, <1>4, <3>1, SetRespond
    <3>. QED
      BY <2>1, <3>2
  <2>2. CASE hd[x].op_type # "RESPOND"
    <3>1. user' = user /\ user \in [Handles -> UserType]
      BY ZenonT(60), <1>1, <1>2, <2>2 DEF TriggerPop, TypeOK
    <3>. QED
      BY <2>2, <3>1
  <2>. QED
    BY <2>1, <2>2
<1>11. PICK r \in {"process", "destroy"} : r = IF b THEN "process" ELSE "destroy"
  OBVIOUS
<1>12. Takes(t, x, r)
  <2>1. trig' = [trig EXCEPT ![t] = [at |-> r, on |-> {x}]]
    BY ZenonT(60), <1>2, <1>5, <1>11 DEF TriggerPop
  <2>. QED
    BY ZenonT(60), <1>3, <1>4, <2>1, TriggerTakes
<1>13. UNCHANGED <<op, cb, more, pending, posting, unpost, seen>>
  BY DEF TriggerPop
<1>14. TypeOK'
  BY ZenonT(60), <1>1, <1>4, <1>8, <1>10, <1>12, <1>13 DEF TypeOK, Takes
<1>15. Exchanging(x)' /\ OwnRequest(x)'
  <2>1. CASE Received(x)
    <3>1. user' = user
      BY <1>10, <2>1 DEF Received
    <3>2. hd'[x].ref_count = hd[x].ref_count + Bit(r = "process")
      BY <1>8, <1>9, <1>11 DEF Bit
    <3>3. UNCHANGED <<op, cb, more, pending, posting, user>>
      BY <1>13, <3>1
    <3>. QED
      BY <1>4, <1>8, <1>9, <1>12, <1>14, <2>1, <3>2, <3>3, TakeReceived
  <2>2. CASE Exchanging(x)
    <3>1. hd[x].op_type # "PROCESS"
      BY <1>4, <2>2 DEF Exchanging, Triggering
    <3>2. ~b /\ r = "destroy"
      BY <1>5, <1>11, <3>1
    <3>3. hd'[x].ref_count = hd[x].ref_count
      <4>1. hd[x].ref_count \in Nat
        BY <1>1, <1>4, FieldTypes
      <4>2. hd'[x].ref_count = hd[x].ref_count + 0
        BY <1>8, <1>9, <3>2 DEF Bit
      <4>. QED
        BY SMTT(60), <4>1, <4>2
    <3>4. Takes(t, x, "destroy") /\ UNCHANGED <<op, cb, more, pending, posting>>
      BY <1>12, <1>13, <3>2
    <3>. QED
      BY <1>4, <1>8, <1>9, <1>10, <1>14, <2>2, <3>3, <3>4, TakeAnswered
  <2>. QED
    BY <1>4, <2>1, <2>2, IsQueued DEF IInv
<1>16. hd'[x].repost = hd[x].repost
  BY <1>8, <1>9
<1>17. TrigInv' /\ \A y \in Handles \ {x} : SameTriggers(y)
  BY <1>12 DEF Takes
<1>18. /\ x \in Handles /\ QueueInv'
       /\ \A y \in Handles \ {x} : hd'[y] = hd[y] /\ user'[y] = user[y]
       /\ \A y \in Handles \ {x} : Queued(y)' <=> Queued(y)
       /\ \A y \in Handles \ {x} : SameTriggers(y)
       /\ UNCHANGED <<op, cb, more, pending, posting, unpost>>
  BY <1>4, <1>8, <1>10, <1>13, <1>17
<1>. QED
  BY ZenonT(60), <1>14, <1>15, <1>16, <1>17, <1>18, ExchangeStep

-----------------------------------------------------------------------------
(* Every step keeps the invariant *)

LEMMA InitInv == Init => IInv
<1>. SUFFICES ASSUME Init PROVE IInv
  OBVIOUS
<1>1. /\ hd = [x \in Handles |-> IF x \in PostInit THEN Fresh
                                 ELSE [Fresh EXCEPT !.life = "none"]]
      /\ op = [x \in Handles |-> [o \in Ops |->
                  IF x \in PostInit /\ o = "recv" THEN "posted" ELSE "idle"]]
      /\ cb = [x \in Handles |-> [o \in Ops |-> "none"]]
      /\ more = {} /\ pending = PostInit /\ posting = [x \in Handles |-> "no"]
      /\ user = [x \in Handles |-> NotHeld] /\ queue = <<>>
      /\ trig = [t \in Triggers |-> [at |-> "idle", on |-> {}]]
      /\ unpost = "no" /\ seen = 0
  BY ZenonT(60) DEF Init
<1>2. PICK g : g = [Fresh EXCEPT !.life = "none"]
  BY ZenonT(60)
<1>3. /\ g \in HandleType /\ g.life = "none" /\ g.repost /\ g.ref_count = 1
  <2>1. g \in HandleType
    BY ZenonT(60), <1>2, FreshTypes DEF HandleType
  <2>. QED
    BY <1>2, <2>1, FreshTypes, FreshFields DEF HandleType
<1>4. /\ hd \in [Handles -> HandleType]
      /\ \A x \in Handles : hd[x] = IF x \in PostInit THEN Fresh ELSE g
  BY <1>1, <1>2, <1>3, FreshTypes
<1>5. /\ op \in [Handles -> OpsType] /\ cb \in [Handles -> CallbacksType]
      /\ \A x \in Handles, o \in Ops :
           /\ op[x][o] = IF x \in PostInit /\ o = "recv" THEN "posted" ELSE "idle"
           /\ cb[x][o] = "none"
  BY <1>1 DEF OpsType, CallbacksType
<1>6. /\ NotHeld \in UserType /\ ~NotHeld.ref /\ NotHeld.respond = "no"
  BY DEF NotHeld, UserType
<1>7. /\ user \in [Handles -> UserType]
      /\ \A x \in Handles : ~user[x].ref /\ user[x].respond = "no"
  BY <1>1, <1>6
<1>8. /\ trig \in [Triggers -> TriggerType]
      /\ \A t \in Triggers : trig[t].at = "idle" /\ trig[t].on = {}
  BY <1>1 DEF TriggerType
<1>9. /\ more \subseteq Handles /\ pending \subseteq Handles /\ queue \in Seq(Handles)
      /\ posting \in [Handles -> {"no", "user"} \cup Handles \cup Triggers]
      /\ \A x \in Handles : posting[x] = "no"
      /\ unpost \in {"no", "cancel", "wait"} /\ seen \in Nat /\ Len(queue) = 0
      /\ pending = PostInit /\ more = {}
  BY SMTT(60), <1>1, PostAssumption
<1>10. TypeOK
  BY ZenonT(60), <1>4, <1>5, <1>7, <1>8, <1>9 DEF TypeOK
<1>11. PostingInv /\ QueueInv /\ TrigInv
  BY SMTT(60), <1>8, <1>9, NamesAssumption DEF PostingInv, QueueInv, TrigInv
<1>12. FinalInv
  BY <1>3, <1>4, <1>5, FreshFields, OpNames DEF FinalInv
<1>13. ASSUME NEW x \in Handles
       PROVE  HandleInv(x) /\ OwnRequest(x)
  <2>1. On(x) = {} /\ ~Queued(x)
    BY SMTT(60), <1>8, <1>9 DEF On, Queued
  <2>2. Apart(x)
    BY <1>5, <1>7, <2>1, OpNames DEF Apart, NoResponse
  <2>3. CASE x \in PostInit
    <3>1. /\ x \in pending /\ x \notin more /\ hd[x] = Fresh
      BY <1>4, <1>9, <2>3
    <3>2. /\ op[x]["recv"] = "posted" /\ cb[x]["recv"] = "none" /\ posting[x] = "no"
      BY <1>5, <1>9, <2>3, OpNames
    <3>3. Listed(x)
      BY ZenonT(60), <2>1, <2>2, <3>1, <3>2 DEF Listed
    <3>. QED
      BY <1>7, <3>3 DEF HandleInv, OwnRequest
  <2>4. CASE x \notin PostInit
    <3>1. x \notin pending /\ x \notin more /\ hd[x].life # "live"
      BY <1>3, <1>4, <1>9, <2>4
    <3>2. /\ op[x]["recv"] = "idle" /\ cb[x]["recv"] = "none" /\ posting[x] = "no"
      BY <1>5, <1>9, <2>4, OpNames
    <3>3. Gone(x)
      BY ZenonT(60), <2>1, <2>2, <3>1, <3>2 DEF Gone, NoRequest
    <3>. QED
      BY <1>7, <3>3 DEF HandleInv, OwnRequest
  <2>. QED
    BY <2>3, <2>4
<1>. QED
  BY <1>10, <1>11, <1>12, <1>13 DEF IInv

LEMMA NothingStep ==
    ASSUME IInv, UNCHANGED vars
    PROVE  IInv'
<1>1. UNCHANGED <<hd, op, cb, more, pending, posting, user, queue, trig, unpost, seen>>
  BY DEF vars
<1>2. TypeOK' /\ QueueInv' /\ TrigInv' /\ PostingInv' /\ FinalInv'
  <2>1. TypeOK'
    BY ZenonT(60), <1>1 DEF IInv, TypeOK
  <2>2. QueueInv' /\ TrigInv' /\ PostingInv' /\ FinalInv'
    BY <1>1 DEF IInv, QueueInv, TrigInv, PostingInv, FinalInv, finalizing
  <2>. QED
    BY <2>1, <2>2
<1>3. \A y \in Handles : Same(y)
  BY <1>1 DEF Same, SameTriggers, On, Queued
<1>. QED
  BY <1>2, <1>3, AssembleAll

LEMMA HandleStep ==
    ASSUME SetFacts, Disciplined, IInv, NEW x \in Handles,
           \/ Post(x) \/ Receive(x) \/ Callback(x) \/ Responded(x) \/ RespondStep(x)
           \/ UserStep(x) \/ Cancel(x)
    PROVE  IInv'
<1>1. CASE Post(x)
  BY <1>1, ResetPostStep, PostRecvStep, PostFailsStep DEF Post
<1>2. CASE Receive(x)
  BY <1>2, RecvInputCbStep, RecvInputFailsStep, RecvInputCanceledStep DEF Receive
<1>3. CASE Callback(x)
  <2>1. CASE \E o \in Ops : CompleteNa(x, o)
    BY <2>1, CompleteNaRecvStep, CompleteNaRespondStep DEF Ops
  <2>2. CASE \E y \in Handles : ContextPostFails(x, y)
    BY <2>2, ContextPostFailsStep
  <2>. QED
    BY <1>3, <2>1, <2>2, CheckPendingStep, ContextPostStep, ContextPostStopsStep,
       ProcessInputStep, ProcessInputFailsStep DEF Callback
<1>4. CASE Responded(x)
  BY <1>4, RespondCbStep, MoreDataCompleteStep DEF Responded, Results
<1>5. CASE RespondStep(x)
  BY <1>5, RespondNoAckStep, RespondAckStep, RespondAckFailsStep, RespondSendStep,
     RespondSendFailsStep, RespondSendCanceledStep DEF RespondStep
<1>6. CASE UserStep(x)
  BY <1>6, RespondsStep, RespondRefusedStep, DestroyStep DEF UserStep
<1>7. CASE Cancel(x)
  BY <1>7, CancelStep
<1>. QED
  BY <1>1, <1>2, <1>3, <1>4, <1>5, <1>6, <1>7

LEMMA TriggersStep ==
    ASSUME SetFacts, IInv, NEW t \in Triggers, Trigger(t)
    PROVE  IInv'
<1>1. ASSUME NEW x \in Handles, TriggerStep(t, x)
      PROVE  IInv'
  BY <1>1, ProcessStep, StagesStep, ProcessFailsStep, NoRespondStep, RespondErrorStep,
     TriggerDestroyStep DEF TriggerStep
<1>. QED
  BY <1>1, TriggerPopStep DEF Trigger

LEMMA NextInv ==
    ASSUME SetFacts, Disciplined, IInv, [Next]_vars
    PROVE  IInv'
<1>1. CASE UNCHANGED vars
  BY <1>1, NothingStep
<1>2. CASE Finished
  BY <1>2, NothingStep DEF Finished
<1>3. CASE Unpost \/ UnpostCancel
  BY <1>3, UnpostStep, UnpostCancelStep
<1>. QED
  BY <1>1, <1>2, <1>3, HandleStep, TriggersStep DEF Next
=============================================================================
