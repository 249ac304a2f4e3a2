----------------------------- MODULE AtomicQueue -----------------------------
(***************************************************************************)
(* hg_atomic_queue (src/util/mercury_atomic_queue.h): the lock-free        *)
(* multi-producer ring that holds the completion entries of a context.     *)
(*                                                                         *)
(* The code keeps four indices, all reduced modulo the ring size.  The     *)
(* model keeps the unreduced counts and compares them as the code does,    *)
(* through At: the code's prod_head is At(prod_head), and so on.  Every    *)
(* atomic load, store and compare-and-swap is one action, so that threads  *)
(* interleave exactly where the code lets them.  The `drops' statistic is  *)
(* written and never read; it is left out.                                 *)
(*                                                                         *)
(* `log' is a history variable: the entries in the order in which their    *)
(* producers reserved a slot.                                              *)
(***************************************************************************)
EXTENDS Integers, Sequences

CONSTANTS
    Producers,      \* threads that call hg_atomic_queue_push
    Consumers,      \* threads that call a hg_atomic_queue_pop variant
    Entries,        \* the pointers that are pushed
    NoEntry,        \* NULL
    Size,           \* prod_size = cons_size, a power of two in the code
    MultiConsumer,  \* TRUE: consumers call pop_mc; FALSE: the one calls pop_sc
    MaxPush         \* bound on the number of slots reserved in a behaviour

ASSUME SizeAssumption == Size \in Nat \ {0}
ASSUME BoundAssumption == MaxPush \in Nat
ASSUME ThreadAssumption == Producers \cap Consumers = {}
ASSUME EntryAssumption == NoEntry \notin Entries
ASSUME ConsumerAssumption ==
    /\ MultiConsumer \in BOOLEAN
    /\ ~MultiConsumer => \A c, d \in Consumers : c = d

VARIABLES
    prod_head,  \* slots reserved by producers
    prod_tail,  \* slots published to consumers
    cons_head,  \* slots claimed by consumers
    cons_tail,  \* slots released to producers
    ring,       \* the array of entries
    pc,         \* where each thread is in push or pop
    head,       \* the thread's local prod_head or cons_head
    tail,       \* the producer's local cons_tail
    entry,      \* the argument of push, the result of pop
    log         \* history: entries in the order of their reservation

vars == <<prod_head, prod_tail, cons_head, cons_tail, ring, pc, head, tail,
          entry, log>>

Threads == Producers \cup Consumers

(* Index reduction: (x) & mask, the mask being Size - 1. *)
At(i) == i % Size

(* Two counts that the code cannot tell apart. *)
Same(i, j) == At(i) = At(j)

Init ==
    /\ prod_head = 0 /\ prod_tail = 0
    /\ cons_head = 0 /\ cons_tail = 0
    /\ ring = [i \in 0 .. Size - 1 |-> NoEntry]
    /\ pc = [t \in Threads |-> "idle"]
    /\ head = [t \in Threads |-> 0]
    /\ tail = [t \in Producers |-> 0]
    /\ entry = [t \in Threads |-> NoEntry]
    /\ log = <<>>

Goto(t, label) == pc' = [pc EXCEPT ![t] = label]

-----------------------------------------------------------------------------
(* hg_atomic_queue_push *)

(* Load prod_head, on entry with argument e or again after a failed CAS. *)
PushHead(p, e) ==
    /\ \/ pc[p] = "idle" /\ prod_head < MaxPush
       \/ pc[p] = "retry" /\ e = entry[p]
    /\ head' = [head EXCEPT ![p] = prod_head]
    /\ entry' = [entry EXCEPT ![p] = e]
    /\ Goto(p, "push_tail")
    /\ UNCHANGED <<prod_head, prod_tail, cons_head, cons_tail, ring, tail, log>>

(* Load cons_tail and test for a full ring. *)
PushTail(p) ==
    /\ pc[p] = "push_tail"
    /\ tail' = [tail EXCEPT ![p] = cons_tail]
    /\ Goto(p, IF Same(head[p] + 1, cons_tail) THEN "full_head" ELSE "push_cas")
    /\ UNCHANGED <<prod_head, prod_tail, cons_head, cons_tail, ring, head,
                   entry, log>>

(* The ring looked full: load prod_head again.  A change leads to the      *)
(* `continue', which in a do-while goes to the CAS.                        *)
PushFullHead(p) ==
    /\ pc[p] = "full_head"
    /\ Goto(p, IF Same(prod_head, head[p]) THEN "full_tail" ELSE "push_cas")
    /\ UNCHANGED <<prod_head, prod_tail, cons_head, cons_tail, ring, head, tail,
                   entry, log>>

(* Load cons_tail again: unchanged, the push returns HG_UTIL_FAIL. *)
PushFullTail(p) ==
    /\ pc[p] = "full_tail"
    /\ \/ /\ Same(cons_tail, tail[p])
          /\ Goto(p, "idle")
          /\ entry' = [entry EXCEPT ![p] = NoEntry]
       \/ /\ ~Same(cons_tail, tail[p])
          /\ Goto(p, "push_cas")
          /\ UNCHANGED entry
    /\ UNCHANGED <<prod_head, prod_tail, cons_head, cons_tail, ring, head, tail,
                   log>>

(* Reserve a slot: CAS of prod_head. *)
PushCas(p) ==
    /\ pc[p] = "push_cas"
    /\ \/ /\ Same(prod_head, head[p])
          /\ head' = [head EXCEPT ![p] = prod_head]
          /\ prod_head' = prod_head + 1
          /\ log' = Append(log, entry[p])
          /\ Goto(p, "push_store")
       \/ /\ ~Same(prod_head, head[p])
          /\ Goto(p, "retry")
          /\ UNCHANGED <<head, prod_head, log>>
    /\ UNCHANGED <<prod_tail, cons_head, cons_tail, ring, tail, entry>>

(* Store the entry in the reserved slot. *)
PushStore(p) ==
    /\ pc[p] = "push_store"
    /\ ring' = [ring EXCEPT ![At(head[p])] = entry[p]]
    /\ Goto(p, "push_spin")
    /\ UNCHANGED <<prod_head, prod_tail, cons_head, cons_tail, head, tail,
                   entry, log>>

(* Mutant: the entry is published without waiting for earlier pushes. *)
PushPublish_NoSpin(p) ==
    /\ pc[p] = "push_spin"
    /\ prod_tail' = prod_tail + 1
    /\ entry' = [entry EXCEPT ![p] = NoEntry]
    /\ Goto(p, "idle")
    /\ UNCHANGED <<prod_head, cons_head, cons_tail, ring, head, tail, log>>

(* Mutant: the spin compares prod_tail with prod_next. *)
PushPublish_WaitNext(p) ==
    /\ pc[p] = "push_spin"
    /\ Same(prod_tail, head[p] + 1)
    /\ prod_tail' = prod_tail + 1
    /\ entry' = [entry EXCEPT ![p] = NoEntry]
    /\ Goto(p, "idle")
    /\ UNCHANGED <<prod_head, cons_head, cons_tail, ring, head, tail, log>>

(* Spin until the preceding pushes are published, then publish this one. *)
PushPublish(p) ==
    /\ pc[p] = "push_spin"
    /\ Same(prod_tail, head[p])
    /\ prod_tail' = prod_tail + 1
    /\ entry' = [entry EXCEPT ![p] = NoEntry]
    /\ Goto(p, "idle")
    /\ UNCHANGED <<prod_head, cons_head, cons_tail, ring, head, tail, log>>

-----------------------------------------------------------------------------
(* hg_atomic_queue_pop_mc and hg_atomic_queue_pop_sc *)

(* Load cons_head, on entry or again after a failed CAS. *)
PopHead(c) ==
    /\ pc[c] \in {"idle", "retry"}
    /\ head' = [head EXCEPT ![c] = cons_head]
    /\ Goto(c, "pop_tail")
    /\ UNCHANGED <<prod_head, prod_tail, cons_head, cons_tail, ring, tail,
                   entry, log>>

(* Mutant: the pop tests against prod_head, which runs ahead of the stores. *)
PopTail_ProdHead(c) ==
    /\ pc[c] = "pop_tail"
    /\ Goto(c, IF Same(head[c], prod_head) THEN "idle" ELSE "pop_cas")
    /\ UNCHANGED <<prod_head, prod_tail, cons_head, cons_tail, ring, head, tail,
                   entry, log>>

(* Load prod_tail: equal to the loaded cons_head, the pop returns NULL. *)
PopTail(c) ==
    /\ pc[c] = "pop_tail"
    /\ Goto(c, IF Same(head[c], prod_tail) THEN "idle" ELSE "pop_cas")
    /\ UNCHANGED <<prod_head, prod_tail, cons_head, cons_tail, ring, head, tail,
                   entry, log>>

(* pop_mc claims the slot with a CAS of cons_head. *)
PopCas(c) ==
    /\ MultiConsumer
    /\ pc[c] = "pop_cas"
    /\ \/ /\ Same(cons_head, head[c])
          /\ head' = [head EXCEPT ![c] = cons_head]
          /\ cons_head' = cons_head + 1
          /\ Goto(c, "pop_take")
       \/ /\ ~Same(cons_head, head[c])
          /\ Goto(c, "retry")
          /\ UNCHANGED <<head, cons_head>>
    /\ UNCHANGED <<prod_head, prod_tail, cons_tail, ring, tail, entry, log>>

(* pop_sc claims it with a plain store. *)
PopSet(c) ==
    /\ ~MultiConsumer
    /\ pc[c] = "pop_cas"
    /\ cons_head' = head[c] + 1
    /\ Goto(c, "pop_take")
    /\ UNCHANGED <<prod_head, prod_tail, cons_tail, ring, head, tail, entry,
                   log>>

(* Load the entry of the claimed slot. *)
PopTake(c) ==
    /\ pc[c] = "pop_take"
    /\ entry' = [entry EXCEPT ![c] = ring[At(head[c])]]
    /\ Goto(c, "pop_spin")
    /\ UNCHANGED <<prod_head, prod_tail, cons_head, cons_tail, ring, head, tail,
                   log>>

(* pop_mc spins until the preceding pops have released their slots, then   *)
(* releases its own and returns the entry.                                 *)
PopRelease(c) ==
    /\ MultiConsumer
    /\ pc[c] = "pop_spin"
    /\ Same(cons_tail, head[c])
    /\ cons_tail' = cons_tail + 1
    /\ entry' = [entry EXCEPT ![c] = NoEntry]
    /\ Goto(c, "idle")
    /\ UNCHANGED <<prod_head, prod_tail, cons_head, ring, head, tail, log>>

(* pop_sc releases it with a plain store. *)
PopReleaseSc(c) ==
    /\ ~MultiConsumer
    /\ pc[c] = "pop_spin"
    /\ cons_tail' = head[c] + 1
    /\ entry' = [entry EXCEPT ![c] = NoEntry]
    /\ Goto(c, "idle")
    /\ UNCHANGED <<prod_head, prod_tail, cons_head, ring, head, tail, log>>

-----------------------------------------------------------------------------
PushStep(p) ==
    \/ \E e \in Entries : PushHead(p, e)
    \/ PushTail(p) \/ PushFullHead(p) \/ PushFullTail(p)
    \/ PushCas(p) \/ PushStore(p) \/ PushPublish(p)

PopStep(c) ==
    PopHead(c) \/ PopTail(c) \/ PopCas(c) \/ PopSet(c) \/ PopTake(c)
    \/ PopRelease(c) \/ PopReleaseSc(c)

Next ==
    \/ \E p \in Producers : PushStep(p)
    \/ \E c \in Consumers : PopStep(c)

(* The indices are reduced modulo Size, so a CAS cannot see that others    *)
(* went a whole lap around the ring since the thread loaded its index.     *)
(* Timely says that no thread sleeps that long (HG_CORE_ATOMIC_QUEUE_SIZE  *)
(* is 1024) between the load and the CAS.  The code relies on it and does  *)
(* not enforce it.                                                         *)
Timely ==
    /\ \A p \in Producers :
          pc[p] \in {"push_tail", "full_head", "full_tail", "push_cas"}
             => prod_head - head[p] < Size
    /\ \A c \in Consumers :
          pc[c] \in {"pop_tail", "pop_cas"} => cons_head - head[c] < Size

Spec == Init /\ [][Next /\ Timely']_vars

(* The same system without that assumption. *)
LapSpec == Init /\ [][Next]_vars

(* A thread inside push or pop keeps running. *)
FairSpec ==
    /\ Spec
    /\ \A p \in Producers : WF_vars(pc[p] # "idle" /\ PushStep(p) /\ Timely')
    /\ \A c \in Consumers : WF_vars(pc[c] # "idle" /\ PopStep(c) /\ Timely')

-----------------------------------------------------------------------------
Labels == {"idle", "retry", "push_tail", "full_head", "full_tail", "push_cas",
           "push_store", "push_spin", "pop_tail", "pop_cas", "pop_take",
           "pop_spin"}

TypeOK ==
    /\ prod_head \in Nat /\ prod_tail \in Nat
    /\ cons_head \in Nat /\ cons_tail \in Nat
    /\ ring \in [0 .. Size - 1 -> Entries \cup {NoEntry}]
    /\ pc \in [Threads -> Labels]
    /\ head \in [Threads -> Nat]
    /\ tail \in [Producers -> Nat]
    /\ entry \in [Threads -> Entries \cup {NoEntry}]
    /\ log \in Seq(Entries)

(* hg_atomic_queue_push never overwrites a slot that a consumer has yet to *)
(* release: at most Size - 1 slots are reserved and not released, and the  *)
(* four indices stay in their order.                                       *)
NoOverrun ==
    /\ cons_tail <= cons_head
    /\ cons_head <= prod_tail
    /\ prod_tail <= prod_head
    /\ prod_head < cons_tail + Size

(* The entry a pop returns is the one that was pushed with the slot's      *)
(* reservation: the k-th successful pop gets the k-th reserved push's      *)
(* entry, although store and load of the slot are not atomic with the CAS  *)
(* that reserves or claims it.                                             *)
Transfer ==
    \A c \in Consumers : pc[c] = "pop_spin" => entry[c] = log[head[c] + 1]

(* hg_atomic_queue_pop_mc returns NULL only if the queue is empty, as its  *)
(* header says.                                                            *)
NullOnlyIfEmpty ==
    [][\A c \in Consumers :
         (pc[c] = "pop_tail" /\ pc'[c] = "idle") => cons_head = prod_tail]_vars

(* A push fails only if the queue holds its maximum number of elements,    *)
(* which the header says is Size (\param count of hg_atomic_queue_alloc).  *)
FailOnlyIfFull ==
    [][\A p \in Producers :
         (pc[p] = "full_tail" /\ pc'[p] = "idle")
            => prod_head - cons_tail >= Size]_vars

(* Every push and every pop that was called returns: the spin loops never  *)
(* wait on each other and the CAS loops fail only when others succeed.     *)
Returns == \A t \in Threads : (pc[t] # "idle") ~> (pc[t] = "idle")

-----------------------------------------------------------------------------
(* The inductive invariant behind NoOverrun and Transfer. *)

Reserving == {"push_tail", "full_head", "full_tail", "push_cas"}
Reserved == {"push_store", "push_spin"}
Claiming == {"pop_tail", "pop_cas"}
Claimed == {"pop_take", "pop_spin"}

(* A reservation in progress: the loaded prod_head is never ahead of the   *)
(* real one, and at the CAS it is either outdated or there is room.        *)
ReserveOf(p) ==
    /\ pc[p] \in {"idle", "retry"} \cup Reserving \cup Reserved
    /\ pc[p] # "idle" => entry[p] \in Entries
    /\ pc[p] \in Reserving => head[p] <= prod_head
    /\ pc[p] \in {"full_head", "full_tail"} => Same(head[p] + 1, tail[p])
    /\ pc[p] = "push_cas" =>
          head[p] < prod_head \/ prod_head + 1 < cons_tail + Size

(* A reserved slot is not yet published, and holds the entry once stored. *)
ReservedOf(p) ==
    pc[p] \in Reserved =>
        /\ prod_tail <= head[p] /\ head[p] < prod_head
        /\ log[head[p] + 1] = entry[p]
        /\ pc[p] = "push_spin" => ring[At(head[p])] = entry[p]

(* A claim in progress: at the CAS the loaded cons_head was published. *)
ClaimOf(c) ==
    /\ pc[c] \in {"idle", "retry"} \cup Claiming \cup Claimed
    /\ pc[c] \in Claiming => head[c] <= cons_head
    /\ pc[c] = "pop_cas" => head[c] < prod_tail
    /\ ~MultiConsumer =>
          /\ pc[c] \in Claimed => cons_head = cons_tail + 1
          /\ pc[c] \notin Claimed => cons_head = cons_tail
          /\ pc[c] \in Claiming => head[c] = cons_head

(* A claimed slot is not yet released, and still holds its entry until the *)
(* consumer has loaded it.                                                 *)
ClaimedOf(c) ==
    pc[c] \in Claimed =>
        /\ cons_tail <= head[c] /\ head[c] < cons_head
        /\ pc[c] = "pop_take" => ring[At(head[c])] = log[head[c] + 1]
        /\ pc[c] = "pop_spin" => entry[c] = log[head[c] + 1]

(* A slot is reserved by one producer and claimed by one consumer. *)
OwnSlots ==
    /\ \A p, q \in Producers :
          (pc[p] \in Reserved /\ pc[q] \in Reserved /\ p # q)
             => head[p] # head[q]
    /\ \A c, d \in Consumers :
          (pc[c] \in Claimed /\ pc[d] \in Claimed /\ c # d)
             => head[c] # head[d]

(* Published and unclaimed slots hold the entries that were pushed. *)
SlotInv ==
    /\ Len(log) = prod_head
    /\ \A i \in cons_head .. prod_tail - 1 : ring[At(i)] = log[i + 1]

(* Conjunction of the above. *)
IInv ==
    /\ TypeOK /\ Timely /\ NoOverrun /\ OwnSlots /\ SlotInv
    /\ \A p \in Producers : ReserveOf(p) /\ ReservedOf(p)
    /\ \A c \in Consumers : ClaimOf(c) /\ ClaimedOf(c)

-----------------------------------------------------------------------------
(* Refinement: the entries a pop can return, and the entry each pop has    *)
(* taken from the moment it claimed the slot.                              *)
fifo == SubSeq(log, cons_head + 1, prod_tail)

held == [c \in Consumers |->
            IF pc[c] = "pop_take" THEN log[head[c] + 1]
            ELSE IF pc[c] = "pop_spin" THEN entry[c] ELSE NoEntry]

Fifo == INSTANCE BoundedFifo WITH Capacity <- Size - 1

(* The ring implements a bounded FIFO of Size - 1 entries. *)
ImplementsFifo == Fifo!Spec
=============================================================================
