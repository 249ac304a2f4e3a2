----------------------------- MODULE SmMessages -----------------------------
(* Messages of the shared-memory plugin, na/na_sm.c, from one process to    *)
(* another: sending through the copy buffers and the message queue, the     *)
(* retry queue, the matching of unexpected and expected messages with       *)
(* receives, and cancel.                                                    *)
(*                                                                          *)
(* On each side one thread is inside na_sm_progress at a time (NaProgress); *)
(* sends, receives and cancels are called by other threads. The message     *)
(* queue has the steps of hg_atomic_queue; here it is the bounded FIFO that *)
(* AtomicQueue implements. Messages have a payload, which is the identity   *)
(* of the send. A section under a spin lock is one action.                  *)
EXTENDS Naturals, Sequences, FiniteSets, SequencesExt

CONSTANTS
    UnexpSends, UnexpRecvs,   \* operations, each used once
    ExpSends, ExpRecvs,
    Tag,                      \* tags of the expected operations
    Bufs,                     \* copy buffers of the receiver's region
    NumMsgs,                  \* entries the message queue can hold
    None,
    MaxCancels,               \* bound: operations that are canceled
    Races                     \* what the users may do, see below

(* "overlap": an operation is canceled while the call that posts it has not *)
(* returned. "post": receives are posted while the receiver makes progress. *)
(* "notify": the receiver cannot always be notified of a message.           *)
Sends == UnexpSends \cup ExpSends
Recvs == UnexpRecvs \cup ExpRecvs
Ops == Sends \cup Recvs

ASSUME ConstantsAssumption ==
    /\ Tag \in [ExpSends \cup ExpRecvs -> Nat]
    /\ UnexpSends \cap ExpSends = {} /\ UnexpRecvs \cap ExpRecvs = {}
    /\ Sends \cap Recvs = {} /\ None \notin Ops \cup Bufs
    /\ NumMsgs \in Nat \ {0} /\ MaxCancels \in Nat
    /\ Races \subseteq {"overlap", "post", "notify"}

VARIABLES
    status,     \* status bits of the operations
    comp,       \* results added to the NA completion queue, per operation
    call,       \* where the call that posts the operation is
    cancel,     \* where NA_Cancel of the operation is
    held,       \* the copy buffer a send has reserved
    retry,      \* retry_op_queue of the sender
    resolved,   \* whether the sender has resolved the address
    ring,       \* the message queue
    avail,      \* copy buffers that are available
    others,     \* copy buffers that messages of other senders are in
    buf,        \* contents of the copy buffers
    cur,        \* the message the receiver's progress works on
    unexp_ops, unexp_msgs, exp_ops,   \* queues of the receiver
    got         \* the message a receive was completed with

sender == <<held, retry, resolved>>
shared == <<ring, avail, others, buf>>
receiver == <<cur, unexp_ops, unexp_msgs, exp_ops, got>>
vars == <<status, comp, call, cancel, sender, shared, receiver>>

NoMsg == [op |-> None, buf |-> None, match |-> None]

Init ==
    /\ status = [o \in Ops |-> {"COMPLETED"}]
    /\ comp = [o \in Ops |-> <<>>]
    /\ call = [o \in Ops |-> "new"]
    /\ cancel = [o \in Ops |-> "no"]
    /\ held = [s \in Sends |-> None]
    /\ retry = <<>> /\ resolved = FALSE
    /\ ring = <<>> /\ buf = [b \in Bufs |-> None]
    /\ others \in SUBSET Bufs /\ avail = Bufs \ others
    /\ cur = NoMsg
    /\ unexp_ops = <<>> /\ unexp_msgs = <<>> /\ exp_ops = <<>>
    /\ got = [r \in Recvs |-> None]

Goto(o, pc) == call' = [call EXCEPT ![o] = pc]

(* na_sm_complete; the bits in drop are cleared before. *)
Complete(o, r, drop) ==
    /\ status' = [status EXCEPT ![o] = (@ \ drop) \cup {"COMPLETED"}]
    /\ comp' = [comp EXCEPT ![o] = Append(@, r)]

-----------------------------------------------------------------------------
(* na_sm_msg_send, and na_sm_process_retries for an operation that is       *)
(* retried. Both call na_sm_msg_send_post.                                  *)

(* An expected message is sent to a receive that has been posted. *)
Preposted(s) ==
    s \in ExpSends =>
        \E r \in ExpRecvs : Tag[r] = Tag[s] /\ call[r] = "done"

SendStart(s) ==
    /\ call[s] = "new" /\ Preposted(s)
    /\ status' = [status EXCEPT ![s] = {}]
    /\ Goto(s, "reserve")
    /\ UNCHANGED <<comp, cancel, sender, shared, receiver>>

(* na_sm_addr_resolve is external: it succeeds at some point. *)
Resolve ==
    /\ ~resolved /\ resolved' = TRUE
    /\ UNCHANGED <<status, comp, call, cancel, held, retry, shared, receiver>>

(* All senders share the copy buffers of a receiver. *)
OtherReleased ==
    /\ \E b \in others : others' = others \ {b} /\ avail' = avail \cup {b}
    /\ UNCHANGED <<status, comp, call, cancel, sender, ring, buf, receiver>>

(* A copy buffer is reserved and filled. *)
Reserve(s) ==
    /\ call[s] \in {"reserve", "retry_reserve"} /\ resolved
    /\ \E b \in avail :
        /\ avail' = avail \ {b}
        /\ buf' = [buf EXCEPT ![b] = s]
        /\ held' = [held EXCEPT ![s] = b]
    /\ Goto(s, IF call[s] = "reserve" THEN "push" ELSE "retry_push")
    /\ UNCHANGED <<status, comp, cancel, retry, resolved, ring, others, receiver>>

(* NA_AGAIN: the address is not resolved, or no buffer is available. *)
ReserveAgain(s) ==
    /\ call[s] \in {"reserve", "retry_reserve"}
    /\ ~resolved \/ avail = {}
    /\ Goto(s, IF call[s] = "reserve" THEN "again" ELSE "retry_again")
    /\ UNCHANGED <<status, comp, cancel, sender, shared, receiver>>

(* The address cannot be resolved. *)
ReserveFails(s) ==
    /\ call[s] \in {"reserve", "retry_reserve"} /\ ~resolved
    /\ Goto(s, IF call[s] = "reserve" THEN "failed" ELSE "retry_failed")
    /\ UNCHANGED <<status, comp, cancel, sender, shared, receiver>>

(* The header goes to the message queue and the receiver is notified. If    *)
(* that fails the buffer is released and an error returned.                 *)
Push(s) ==
    /\ call[s] \in {"push", "retry_push"} /\ Len(ring) < NumMsgs
    /\ ring' = Append(ring, [op |-> s, buf |-> held[s], match |-> None])
    /\ held' = [held EXCEPT ![s] = None]
    /\ \E notified \in {TRUE, "notify" \notin Races} :
        /\ avail' = IF notified THEN avail ELSE avail \cup {held[s]}
        /\ Goto(s, IF call[s] = "push"
                   THEN IF notified THEN "sent" ELSE "failed"
                   ELSE IF notified THEN "retry_sent" ELSE "retry_failed")
    /\ UNCHANGED <<status, comp, cancel, retry, resolved, others, buf, receiver>>

(* Mutant: the buffer is not released when the queue is full. *)
PushAgain_Keep(s) ==
    /\ call[s] \in {"push", "retry_push"} /\ Len(ring) = NumMsgs
    /\ held' = [held EXCEPT ![s] = None]
    /\ Goto(s, IF call[s] = "push" THEN "again" ELSE "retry_again")
    /\ UNCHANGED <<status, comp, cancel, retry, resolved, shared, receiver>>

(* NA_AGAIN: the message queue is full, the buffer is released. *)
PushAgain(s) ==
    /\ call[s] \in {"push", "retry_push"} /\ Len(ring) = NumMsgs
    /\ avail' = avail \cup {held[s]}
    /\ held' = [held EXCEPT ![s] = None]
    /\ Goto(s, IF call[s] = "push" THEN "again" ELSE "retry_again")
    /\ UNCHANGED <<status, comp, cancel, retry, resolved, ring, others, buf,
                   receiver>>

(* na_sm_msg_send after the post: complete, queue for retry, or release. *)
SendDone(s) ==
    /\ call[s] = "sent"
    /\ Complete(s, "SUCCESS", {})
    /\ Goto(s, "done")
    /\ UNCHANGED <<cancel, sender, shared, receiver>>

OpRetry(s) ==
    /\ call[s] = "again"
    /\ retry' = Append(retry, s)
    /\ status' = [status EXCEPT ![s] = @ \cup {"QUEUED"}]
    /\ Goto(s, "done")
    /\ UNCHANGED <<comp, cancel, held, resolved, shared, receiver>>

SendFails(s) ==
    /\ call[s] = "failed"
    /\ status' = [status EXCEPT ![s] = {"COMPLETED"}]
    /\ Goto(s, "error")
    /\ UNCHANGED <<comp, cancel, sender, shared, receiver>>

-----------------------------------------------------------------------------
(* na_sm_process_retries, by the sender's progress. *)

Retrying == \E s \in Sends : call[s] \in
    {"retry_reserve", "retry_push", "retry_sent", "retry_again", "retry_failed"}

(* Mutant: the operation is not marked while it is retried. *)
RetryTake_Unmarked ==
    /\ retry # <<>> /\ ~Retrying
    /\ Goto(Head(retry), "retry_reserve")
    /\ UNCHANGED <<status, comp, cancel, sender, shared, receiver>>

RetryTake ==
    /\ retry # <<>> /\ ~Retrying
    /\ status' = [status EXCEPT ![Head(retry)] = @ \cup {"RETRYING"}]
    /\ Goto(Head(retry), "retry_reserve")
    /\ UNCHANGED <<comp, cancel, sender, shared, receiver>>

RetryDone(s) ==
    /\ call[s] = "retry_sent"
    /\ retry' = Remove(retry, s)
    /\ Complete(s, "SUCCESS", {"RETRYING", "QUEUED"})
    /\ Goto(s, "done")
    /\ UNCHANGED <<cancel, held, resolved, shared, receiver>>

(* Mutant: a cancel that came during the retry is not looked at. *)
RetryAgain_Forget(s) ==
    /\ call[s] = "retry_again"
    /\ Goto(s, "done")
    /\ status' = [status EXCEPT ![s] = @ \ {"RETRYING"}]
    /\ UNCHANGED <<comp, cancel, sender, shared, receiver>>

RetryAgain(s) ==
    /\ call[s] = "retry_again"
    /\ Goto(s, "done")
    /\ IF "CANCELED" \in status[s]
       THEN /\ retry' = Remove(retry, s)
            /\ Complete(s, "CANCELED", {"RETRYING", "QUEUED"})
       ELSE /\ status' = [status EXCEPT ![s] = @ \ {"RETRYING"}]
            /\ UNCHANGED <<retry, comp>>
    /\ UNCHANGED <<cancel, held, resolved, shared, receiver>>

RetryFails(s) ==
    /\ call[s] = "retry_failed"
    /\ retry' = Remove(retry, s)
    /\ status' = [status EXCEPT ![s] = (@ \ {"RETRYING", "QUEUED"})
                                            \cup {"ERRORED", "COMPLETED"}]
    /\ comp' = [comp EXCEPT ![s] = Append(@, "ERROR")]
    /\ Goto(s, "done")
    /\ UNCHANGED <<cancel, held, resolved, shared, receiver>>

-----------------------------------------------------------------------------
(* Receives. *)

(* The receiver's progress is between two messages. *)
Idle == cur = NoMsg

(* Mutant: a message that came before is not looked for. *)
RecvUnexpected_Blind(r) ==
    /\ call[r] = "new" /\ ("post" \in Races \/ Idle)
    /\ status' = [status EXCEPT ![r] = {}]
    /\ Goto(r, "queue")
    /\ UNCHANGED <<got, unexp_msgs, comp>>
    /\ UNCHANGED <<cancel, sender, shared, cur, unexp_ops, exp_ops>>

(* na_sm_msg_recv_unexpected looks for a message that came before. *)
RecvUnexpected(r) ==
    /\ call[r] = "new" /\ ("post" \in Races \/ Idle)
    /\ IF unexp_msgs # <<>>
       THEN /\ got' = [got EXCEPT ![r] = Head(unexp_msgs)]
            /\ unexp_msgs' = Tail(unexp_msgs)
            /\ status' = [status EXCEPT ![r] = {"COMPLETED"}]
            /\ comp' = [comp EXCEPT ![r] = Append(@, "SUCCESS")]
            /\ Goto(r, "done")
       ELSE /\ status' = [status EXCEPT ![r] = {}]
            /\ Goto(r, "queue")
            /\ UNCHANGED <<got, unexp_msgs, comp>>
    /\ UNCHANGED <<cancel, sender, shared, cur, unexp_ops, exp_ops>>

(* Mutant: the operation is put on the queue of the expected ones. *)
RecvQueue_Wrong(r) ==
    /\ call[r] = "queue"
    /\ exp_ops' = Append(exp_ops, r)
    /\ status' = [status EXCEPT ![r] = @ \cup {"QUEUED"}]
    /\ Goto(r, "done")
    /\ UNCHANGED <<comp, cancel, sender, shared, cur, unexp_ops, unexp_msgs, got>>

(* It found none and queues the operation. *)
RecvQueue(r) ==
    /\ call[r] = "queue"
    /\ unexp_ops' = Append(unexp_ops, r)
    /\ status' = [status EXCEPT ![r] = @ \cup {"QUEUED"}]
    /\ Goto(r, "done")
    /\ UNCHANGED <<comp, cancel, sender, shared, cur, unexp_msgs, exp_ops, got>>

RecvExpected(r) ==
    /\ call[r] = "new"
    /\ exp_ops' = Append(exp_ops, r)
    /\ status' = [status EXCEPT ![r] = {"QUEUED"}]
    /\ Goto(r, "done")
    /\ UNCHANGED <<comp, cancel, sender, shared, cur, unexp_ops, unexp_msgs, got>>

-----------------------------------------------------------------------------
(* na_sm_progress_rx_queue, by the receiver's progress. *)

Pop ==
    /\ Idle /\ ring # <<>>
    /\ "post" \in Races \/ \A r \in UnexpRecvs : call[r] # "queue"
    /\ cur' = Head(ring)
    /\ ring' = Tail(ring)
    /\ UNCHANGED <<status, comp, call, cancel, sender, avail, others, buf,
                   unexp_ops, unexp_msgs, exp_ops, got>>

(* The expected receives that match, in the order of the queue. *)
Matches(s) == SelectSeq(exp_ops, LAMBDA r : Tag[r] = Tag[s])

Working(kinds) == cur.op \in kinds /\ cur.match = None

(* The first receive of the queue is taken. *)
MatchUnexpected ==
    /\ Working(UnexpSends) /\ unexp_ops # <<>>
    /\ cur' = [cur EXCEPT !.match = Head(unexp_ops)]
    /\ unexp_ops' = Tail(unexp_ops)
    /\ status' = [status EXCEPT ![Head(unexp_ops)] = @ \ {"QUEUED"}]
    /\ UNCHANGED <<comp, call, cancel, sender, shared, unexp_msgs, exp_ops, got>>

(* There is no receive: the message will be kept. *)
NoUnexpected ==
    /\ Working(UnexpSends) /\ unexp_ops = <<>>
    /\ cur' = [cur EXCEPT !.match = "keep"]
    /\ UNCHANGED <<status, comp, call, cancel, sender, shared, unexp_ops,
                   unexp_msgs, exp_ops, got>>

(* Mutant: the first receive is taken whatever its tag. *)
MatchExpected_AnyTag ==
    /\ Working(ExpSends) /\ Matches(cur.op) # <<>>
    /\ LET r == Head(exp_ops) IN
        /\ cur' = [cur EXCEPT !.match = r]
        /\ exp_ops' = Remove(exp_ops, r)
        /\ status' = [status EXCEPT ![r] = @ \ {"QUEUED"}]
    /\ UNCHANGED <<comp, call, cancel, sender, shared, unexp_ops, unexp_msgs, got>>

MatchExpected ==
    /\ Working(ExpSends) /\ Matches(cur.op) # <<>>
    /\ LET r == Head(Matches(cur.op)) IN
        /\ cur' = [cur EXCEPT !.match = r]
        /\ exp_ops' = Remove(exp_ops, r)
        /\ status' = [status EXCEPT ![r] = @ \ {"QUEUED"}]
    /\ UNCHANGED <<comp, call, cancel, sender, shared, unexp_ops, unexp_msgs, got>>

(* No receive matches: an error is returned, the message is dropped, and    *)
(* its copy buffer stays reserved.                                          *)
NoExpected ==
    /\ Working(ExpSends) /\ Matches(cur.op) = <<>>
    /\ cur' = NoMsg
    /\ UNCHANGED <<status, comp, call, cancel, sender, shared, unexp_ops,
                   unexp_msgs, exp_ops, got>>

(* Mutant: the buffer is released before it is read, and read later. *)
CopyOut_Early ==
    /\ cur.match \in Recvs
    /\ IF cur.buf \in avail
       THEN /\ got' = [got EXCEPT ![cur.match] = buf[cur.buf]]
            /\ Complete(cur.match, "SUCCESS", {})
            /\ cur' = NoMsg /\ UNCHANGED avail
       ELSE avail' = avail \cup {cur.buf} /\ UNCHANGED <<got, status, comp, cur>>
    /\ UNCHANGED <<call, cancel, sender, ring, others, buf, unexp_ops,
                   unexp_msgs, exp_ops>>

(* The payload is copied, the buffer released, the receive completed. *)
CopyOut ==
    /\ cur.match \in Recvs
    /\ got' = [got EXCEPT ![cur.match] = buf[cur.buf]]
    /\ avail' = avail \cup {cur.buf}
    /\ Complete(cur.match, "SUCCESS", {})
    /\ cur' = NoMsg
    /\ UNCHANGED <<call, cancel, sender, ring, others, buf, unexp_ops,
                   unexp_msgs, exp_ops>>

(* The payload is copied to a message that waits for a receive. *)
Keep ==
    /\ cur.match = "keep"
    /\ unexp_msgs' = Append(unexp_msgs, buf[cur.buf])
    /\ avail' = avail \cup {cur.buf}
    /\ cur' = NoMsg
    /\ UNCHANGED <<status, comp, call, cancel, sender, ring, others, buf,
                   unexp_ops, exp_ops, got>>

-----------------------------------------------------------------------------
(* na_sm_cancel. *)

(* The call that posts the operation has returned. *)
Returned(o) == call[o] \notin {"new", "reserve", "push", "sent", "again",
                               "failed", "queue", "error"}

(* It does nothing for an operation that is over; one cancel is enough. *)
CancelTest(o) ==
    /\ cancel[o] = "no" /\ call[o] \notin {"new", "error"}
    /\ Cardinality({p \in Ops : cancel[p] # "no"}) < MaxCancels
    /\ "overlap" \in Races \/ Returned(o)
    /\ status[o] \cap {"COMPLETED", "ERRORED", "CANCELED"} = {}
    /\ cancel' = [cancel EXCEPT ![o] = "lock"]
    /\ UNCHANGED <<status, comp, call, sender, shared, receiver>>

(* Mutant: the retrying bit is not looked at. *)
CancelLock_Eager(o) ==
    /\ cancel[o] = "lock"
    /\ cancel' = [cancel EXCEPT ![o] = "done"]
    /\ IF "QUEUED" \in status[o]
       THEN /\ retry' = Remove(retry, o)
            /\ unexp_ops' = Remove(unexp_ops, o)
            /\ exp_ops' = Remove(exp_ops, o)
            /\ status' = [status EXCEPT
                    ![o] = (@ \ {"QUEUED"}) \cup {"CANCELED", "COMPLETED"}]
            /\ comp' = [comp EXCEPT ![o] = Append(@, "CANCELED")]
       ELSE UNCHANGED <<status, comp, retry, unexp_ops, exp_ops>>
    /\ UNCHANGED <<call, held, resolved, shared, cur, unexp_msgs, got>>

(* Under the lock of the queue the operation is on. *)
CancelLock(o) ==
    /\ cancel[o] = "lock"
    /\ cancel' = [cancel EXCEPT ![o] = "done"]
    /\ IF "QUEUED" \in status[o] /\ "RETRYING" \notin status[o]
       THEN /\ retry' = Remove(retry, o)
            /\ unexp_ops' = Remove(unexp_ops, o)
            /\ exp_ops' = Remove(exp_ops, o)
            /\ status' = [status EXCEPT
                    ![o] = (@ \ {"QUEUED"}) \cup {"CANCELED", "COMPLETED"}]
            /\ comp' = [comp EXCEPT ![o] = Append(@, "CANCELED")]
       ELSE /\ status' = [status EXCEPT ![o] =
                    IF "QUEUED" \in @ THEN @ \cup {"CANCELED"} ELSE @]
            /\ UNCHANGED <<comp, retry, unexp_ops, exp_ops>>
    /\ UNCHANGED <<call, held, resolved, shared, cur, unexp_msgs, got>>

-----------------------------------------------------------------------------
PostStep(s) ==
    Reserve(s) \/ ReserveAgain(s) \/ ReserveFails(s) \/ Push(s) \/ PushAgain(s)
SendStep(s) == SendDone(s) \/ OpRetry(s) \/ SendFails(s)
RetryStep(s) == RetryDone(s) \/ RetryAgain(s) \/ RetryFails(s)
ReceiveStep ==
    \/ Pop \/ MatchUnexpected \/ NoUnexpected \/ MatchExpected \/ NoExpected
    \/ CopyOut \/ Keep

Next ==
    \/ Resolve \/ OtherReleased \/ RetryTake \/ ReceiveStep
    \/ \E s \in Sends : \/ SendStart(s) \/ PostStep(s) \/ SendStep(s) \/ RetryStep(s)
    \/ \E r \in UnexpRecvs : RecvUnexpected(r) \/ RecvQueue(r)
    \/ \E r \in ExpRecvs : RecvExpected(r)
    \/ \E o \in Ops : CancelTest(o) \/ CancelLock(o)

Spec == Init /\ [][Next]_vars

(* Calls that started return, and the sender makes progress. The receiver   *)
(* may stop.                                                                *)
SenderFairness ==
    /\ WF_vars(RetryTake)
    /\ \A s \in Sends : WF_vars(PostStep(s)) /\ WF_vars(SendStep(s))
                        /\ WF_vars(RetryStep(s))
    /\ \A r \in UnexpRecvs : WF_vars(RecvQueue(r))
    /\ \A o \in Ops : WF_vars(CancelLock(o))

FairSpec == Spec /\ SenderFairness

ReceiverFairness ==
    WF_vars(Resolve) /\ WF_vars(OtherReleased) /\ WF_vars(ReceiveStep)

-----------------------------------------------------------------------------
Results == {"SUCCESS", "CANCELED", "ERROR"}
Msgs == [op : Sends, buf : Bufs, match : {None, "keep"} \cup Recvs]

(* The variables have their types. *)
TypeOK ==
    /\ status \in [Ops -> SUBSET {"COMPLETED", "RETRYING", "CANCELED",
                                  "QUEUED", "ERRORED"}]
    /\ comp \in [Ops -> Seq(Results)]
    /\ cancel \in [Ops -> {"no", "lock", "done"}]
    /\ held \in [Sends -> Bufs \cup {None}]
    /\ retry \in Seq(Sends) /\ resolved \in BOOLEAN
    /\ ring \in Seq(Msgs) /\ avail \subseteq Bufs
    /\ others \subseteq Bufs \ avail
    /\ buf \in [Bufs -> Sends \cup {None}]
    /\ cur \in Msgs \cup {NoMsg}
    /\ unexp_ops \in Seq(UnexpRecvs) /\ exp_ops \in Seq(ExpRecvs)
    /\ unexp_msgs \in Seq(UnexpSends)
    /\ got \in [Recvs -> Sends \cup {None}]

(* Messages that were sent and not yet copied out. *)
InFlight == Range(ring) \cup ({cur} \ {NoMsg})

(* A copy buffer that carries a message is reserved and keeps the payload   *)
(* of that message until it is copied; no two messages share one.           *)
BufIntact ==
    /\ \A m \in InFlight : m.buf \notin avail \cup others /\ buf[m.buf] = m.op
    /\ \A m, n \in InFlight : m.buf = n.buf => m.op = n.op
    /\ \A s \in Sends : held[s] # None => held[s] \notin avail \cup others

(* The expected messages whose receive was canceled before they came. *)
Late == {s \in ExpSends :
            \E r \in ExpRecvs : Tag[r] = Tag[s] /\ comp[r] = <<"CANCELED">>}

(* A reserved copy buffer belongs to a send or to a message: none is lost   *)
(* in a full queue, a retry, a cancel or a receive, except that of a        *)
(* message that comes after its receive was canceled.                       *)
NoBufLost ==
    \A b \in Bufs \ (avail \cup others) :
        \/ \E s \in Sends : held[s] = b
        \/ \E m \in InFlight : m.buf = b
        \/ buf[b] \in Late

(* Copy buffers are exact: what is reserved carries one message, intact,    *)
(* and comes back. na_sm_buf_reserve, na_sm_buf_release, the retries.       *)
BuffersExact == TypeOK /\ BufIntact /\ NoBufLost

(* No copy buffer is lost at all: na_sm_process_expected loses one.         *)
NoBufLeak ==
    \A b \in Bufs \ (avail \cup others) :
        \/ \E s \in Sends : held[s] = b
        \/ \E m \in InFlight : m.buf = b

(* Every operation is completed at most once, by the send, the retry, the   *)
(* receiver's progress or the cancel, and then it is on no queue.           *)
CompletedOnce ==
    \A o \in Ops :
        /\ Len(comp[o]) <= 1
        /\ comp[o] # <<>> => o \notin Range(retry) \cup Range(unexp_ops)
                                        \cup Range(exp_ops)
        /\ (call[o] = "done" /\ comp[o] = <<>>) =>
                \/ o \in Range(retry) \cup Range(unexp_ops) \cup Range(exp_ops)
                \/ cur.match = o

Copies(s) ==
    Cardinality({m \in InFlight : m.op = s})
        + Cardinality({r \in Recvs : got[r] = s})
        + Cardinality({k \in DOMAIN unexp_msgs : unexp_msgs[k] = s})

(* A message is received once, and not at all if its send was canceled; a   *)
(* send that succeeded is on its way or received. Retry against cancel.     *)
SentOnce ==
    \A s \in Sends :
        /\ Copies(s) <= 1
        /\ comp[s] = <<"CANCELED">> => Copies(s) = 0
        /\ (comp[s] = <<"SUCCESS">> /\ s \notin Late) => Copies(s) = 1

(* A receive that succeeds got a message of its kind and tag; one that was  *)
(* canceled got none. na_sm_process_expected, na_sm_process_unexpected.     *)
RightReceive ==
    \A r \in Recvs :
        /\ got[r] # None <=> comp[r] = <<"SUCCESS">>
        /\ got[r] # None =>
            IF r \in UnexpRecvs THEN got[r] \in UnexpSends
            ELSE got[r] \in ExpSends /\ Tag[got[r]] = Tag[r]

(* A kept message does not wait while a receive is posted. With "post" it   *)
(* may, as each side looks at the other's queue before it fills its own.    *)
NotStranded ==
    unexp_msgs = <<>> \/ unexp_ops = <<>>

(* A message is delivered once, to a receive that asks for it, and does not *)
(* wait while one is posted. na_sm_process_unexpected and _expected, the    *)
(* posting of receives, cancel and retry.                                   *)
Delivered == SentOnce /\ RightReceive /\ NotStranded

(* Every send completes if the receiver makes progress and there are more   *)
(* buffers than late messages: a full queue and a lack of buffers end in a  *)
(* retry that works.                                                        *)
SendEnds ==
    ReceiverFairness =>
        \A s \in Sends :
            (call[s] = "reserve") ~> (comp[s] # <<>> \/ call[s] = "error")

(* An operation that is canceled completes, also when the receiver does     *)
(* nothing, unless it is a receive that is being given a message. With      *)
(* "overlap" the cancel of an operation about to be queued is lost.         *)
CanceledEnds ==
    \A o \in Ops :
        (cancel[o] = "done") ~>
            (comp[o] # <<>> \/ cur.match = o \/ call[o] = "error")
=============================================================================
