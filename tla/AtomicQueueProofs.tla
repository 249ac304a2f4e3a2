-------------------------- MODULE AtomicQueueProofs --------------------------
(* Proofs about the atomic queue, for every ring size, every number of     *)
(* producers and consumers and every bound on the number of pushes.        *)
EXTENDS AtomicQueue, TLAPS

(* Leaves are for Zenon; those that need arithmetic, or that it does not    *)
(* find, cite the SMT solver.                                               *)
USE ZenonT(60)

(* The code's index arithmetic: two counts less than a lap apart are equal *)
(* as soon as their reduced forms are.                                     *)
LEMMA SameIsEqual ==
    ASSUME NEW i \in Nat, NEW j \in Nat, i <= j, j - i < Size, Same(i, j)
    PROVE  i = j
<1> DEFINE a == i \div Size
           b == j \div Size
<1>1. a \in Int /\ b \in Int /\ Size \in Int /\ Size > 0
  BY SMTT(60), SizeAssumption
<1>2. i = Size * a + (i % Size) /\ j = Size * b + (j % Size)
  BY SMTT(60), SizeAssumption
<1>3. j - i = Size * (b - a)
  BY SMTT(60), <1>1, <1>2, SizeAssumption DEF Same, At
<1>. HIDE DEF a, b
<1>4. b - a < 1
  BY SMTT(60), <1>1, <1>3
<1>5. b - a > -1
  BY SMTT(60), <1>1, <1>3
<1>. QED
  BY SMTT(60), <1>1, <1>3, <1>4, <1>5

(* Exactly one lap apart, the code cannot tell two counts apart. *)
LEMMA LapIsSame ==
    ASSUME NEW i \in Nat
    PROVE  Same(i + Size, i)
<1> DEFINE j == i + Size
           a == i \div Size
           b == j \div Size
           r == i % Size
           s == j % Size
<1>1. /\ a \in Int /\ b \in Int /\ Size \in Int /\ Size > 0 /\ j \in Nat
      /\ r \in 0 .. Size - 1 /\ s \in 0 .. Size - 1
  BY SMTT(60), SizeAssumption
<1>2. i = Size * a + r /\ j = Size * b + s
  BY SMTT(60), SizeAssumption
<1>3. r - s = Size * ((b - a) - 1)
  BY SMTT(60), <1>1, <1>2
<1>. HIDE DEF a, b, r, s
<1>4. (b - a) - 1 < 1
  BY SMTT(60), <1>1, <1>3
<1>5. (b - a) - 1 > -1
  BY SMTT(60), <1>1, <1>3
<1>6. r = s
  BY SMTT(60), <1>1, <1>3, <1>4, <1>5
<1>. QED
  BY <1>6 DEF Same, At, r, s

LEMMA AtType ==
    ASSUME NEW i \in Nat
    PROVE  At(i) \in 0 .. Size - 1
  BY SMTT(60), SizeAssumption DEF At

(* What a step of another thread leaves of a producer's part ... *)
LEMMA ProducerFrame ==
    ASSUME IInv, NEW q \in Producers,
           prod_head' = prod_head \/ prod_head' = prod_head + 1,
           cons_tail' = cons_tail \/ cons_tail' = cons_tail + 1,
           pc'[q] = pc[q], head'[q] = head[q], entry'[q] = entry[q],
           tail'[q] = tail[q]
    PROVE  ReserveOf(q)'
<1>1. /\ ReserveOf(q) /\ head[q] \in Nat /\ prod_head \in Nat
      /\ cons_tail \in Nat /\ Size \in Nat
  BY SizeAssumption DEF IInv, TypeOK, Threads
<1>2. Same(head[q] + 1, tail[q])' <=> Same(head[q] + 1, tail[q])
  BY DEF Same, At
<1>. QED
  BY SMTT(60), <1>1, <1>2 DEF ReserveOf, Reserving

LEMMA ProducerSlotFrame ==
    ASSUME IInv, NEW q \in Producers,
           prod_head' = prod_head \/ prod_head' = prod_head + 1,
           UNCHANGED prod_tail,
           pc[q] \in Reserved =>
               /\ log'[head[q] + 1] = log[head[q] + 1]
               /\ ring'[At(head[q])] = ring[At(head[q])],
           pc'[q] = pc[q], head'[q] = head[q], entry'[q] = entry[q]
    PROVE  ReservedOf(q)'
<1>1. /\ ReservedOf(q) /\ head[q] \in Nat /\ prod_head \in Nat
  BY DEF IInv, TypeOK, Threads
<1>2. At(head[q])' = At(head[q])
  BY DEF At
<1>. QED
  BY SMTT(60), <1>1, <1>2 DEF ReservedOf

(* ... and of a consumer's part. *)
LEMMA ConsumerFrame ==
    ASSUME IInv, NEW c \in Consumers,
           prod_tail' = prod_tail \/ prod_tail' = prod_tail + 1,
           UNCHANGED <<cons_head, cons_tail>>,
           pc'[c] = pc[c], head'[c] = head[c]
    PROVE  ClaimOf(c)'
<1>1. ClaimOf(c) /\ head[c] \in Nat /\ prod_tail \in Nat
  BY DEF IInv, TypeOK, Threads
<1>. QED
  BY SMTT(60), <1>1 DEF ClaimOf

LEMMA OtherConsumerFrame ==
    ASSUME IInv, NEW c \in Consumers, MultiConsumer,
           UNCHANGED prod_tail,
           cons_head' = cons_head \/ cons_head' = cons_head + 1,
           pc'[c] = pc[c], head'[c] = head[c]
    PROVE  ClaimOf(c)'
<1>1. ClaimOf(c) /\ head[c] \in Nat /\ cons_head \in Nat
  BY DEF IInv, TypeOK, Threads
<1>. QED
  BY SMTT(60), <1>1 DEF ClaimOf

LEMMA ConsumerSlotFrame ==
    ASSUME IInv, NEW c \in Consumers,
           cons_head' = cons_head \/ cons_head' = cons_head + 1,
           UNCHANGED cons_tail,
           pc[c] \in Claimed =>
               /\ log'[head[c] + 1] = log[head[c] + 1]
               /\ ring'[At(head[c])] = ring[At(head[c])],
           pc'[c] = pc[c], head'[c] = head[c], entry'[c] = entry[c]
    PROVE  ClaimedOf(c)'
<1>1. /\ ClaimedOf(c) /\ head[c] \in Nat /\ cons_head \in Nat
  BY DEF IInv, TypeOK, Threads
<1>2. At(head[c])' = At(head[c])
  BY DEF At
<1>. QED
  BY SMTT(60), <1>1, <1>2 DEF ClaimedOf, Claimed

(* A thread's step leaves the local variables of the others alone. *)
Others(t) ==
    \A u \in Threads \ {t} :
        /\ pc'[u] = pc[u] /\ head'[u] = head[u] /\ entry'[u] = entry[u]
        /\ u \in Producers => tail'[u] = tail[u]

(* A step of push before the reservation only changes local variables. *)
LEMMA LocalPush ==
    ASSUME IInv, Timely', TypeOK', NEW p \in Producers, Others(p),
           UNCHANGED <<prod_head, prod_tail, cons_head, cons_tail, ring, log>>,
           pc[p] \notin Reserved, pc'[p] \notin Reserved, ReserveOf(p)'
    PROVE  IInv'
<1>1. NoOverrun' /\ SlotInv'
  BY DEF IInv, NoOverrun, SlotInv, At
<1>2. ASSUME NEW c \in Consumers PROVE ClaimOf(c)' /\ ClaimedOf(c)'
  <2>1. /\ pc'[c] = pc[c] /\ head'[c] = head[c] /\ entry'[c] = entry[c]
    BY ThreadAssumption DEF Others, Threads
  <2>2. ClaimOf(c)'
    BY <2>1, ConsumerFrame
  <2>3. ClaimedOf(c)'
    BY <2>1, ConsumerSlotFrame
  <2>. QED
    BY <2>2, <2>3
<1>3. \A q \in Producers : ReserveOf(q)' /\ ReservedOf(q)'
  <2>1. ReservedOf(p)'
    BY DEF ReservedOf
  <2>2. ASSUME NEW q \in Producers \ {p} PROVE ReserveOf(q)' /\ ReservedOf(q)'
    BY ProducerFrame, ProducerSlotFrame DEF Others, Threads
  <2>. QED
    BY <2>1, <2>2
<1>4. OwnSlots'
  BY ThreadAssumption DEF IInv, OwnSlots, Others, Threads
<1>. QED
  BY <1>1, <1>2, <1>3, <1>4 DEF IInv

(* The test for a full ring: a producer whose prod_head is up to date and  *)
(* that finds no lap between it and cons_tail has room.                    *)
LEMMA LookRoom ==
    ASSUME IInv, NEW p \in Producers, pc[p] \in Reserving,
           ~Same(head[p] + 1, cons_tail)
    PROVE  head[p] < prod_head \/ prod_head + 1 < cons_tail + Size
<1>1. /\ head[p] \in Nat /\ prod_head \in Nat /\ cons_tail \in Nat
      /\ Size \in Nat /\ head[p] <= prod_head
      /\ prod_head < cons_tail + Size
  BY SizeAssumption
  DEF IInv, TypeOK, Threads, NoOverrun, ReserveOf
<1>2. head[p] + 1 # cons_tail + Size
  BY <1>1, LapIsSame
<1>. QED
  BY SMTT(60), <1>1, <1>2

LEMMA PushHeadInv ==
    ASSUME IInv, Timely', NEW p \in Producers, NEW e \in Entries, PushHead(p, e)
    PROVE  IInv'
<1>1. TypeOK'
  BY DEF IInv, TypeOK, Labels, Threads, PushHead, Goto
<1>2. Others(p)
  BY DEF IInv, TypeOK, Others, Threads, PushHead, Goto
<1>3. ReserveOf(p)'
  BY SMTT(60) DEF IInv, TypeOK, ReserveOf, Reserving, Reserved, Threads, PushHead, Goto
<1>4. pc[p] \notin Reserved /\ pc'[p] \notin Reserved
  BY DEF IInv, TypeOK, Reserved, Threads, PushHead, Goto
<1>. QED
  BY <1>1, <1>2, <1>3, <1>4, LocalPush DEF PushHead

LEMMA PushTailInv ==
    ASSUME IInv, Timely', NEW p \in Producers, PushTail(p)
    PROVE  IInv'
<1>1. TypeOK'
  BY DEF IInv, TypeOK, Labels, Threads, PushTail, Goto
<1>2. Others(p)
  BY DEF IInv, TypeOK, Others, Threads, PushTail, Goto
<1>3. ReserveOf(p)'
  <2>1. ~Same(head[p] + 1, cons_tail)
           => head[p] < prod_head \/ prod_head + 1 < cons_tail + Size
    BY LookRoom DEF PushTail, Reserving
  <2>2. /\ head'[p] = head[p] /\ tail'[p] = cons_tail
        /\ pc'[p] = IF Same(head[p] + 1, cons_tail) THEN "full_head"
                                                    ELSE "push_cas"
    BY DEF IInv, TypeOK, Threads, PushTail, Goto
  <2>3. Same(head[p] + 1, tail[p])' <=> Same(head[p] + 1, cons_tail)
    BY <2>2 DEF Same, At
  <2>. QED
    BY <2>1, <2>2, <2>3
    DEF IInv, ReserveOf, Reserving, Reserved, PushTail
<1>4. pc[p] \notin Reserved /\ pc'[p] \notin Reserved
  BY DEF IInv, TypeOK, Reserved, Threads, PushTail, Goto
<1>. QED
  BY <1>1, <1>2, <1>3, <1>4, LocalPush DEF PushTail

LEMMA PushFullHeadInv ==
    ASSUME IInv, Timely', NEW p \in Producers, PushFullHead(p)
    PROVE  IInv'
<1>1. TypeOK'
  BY DEF IInv, TypeOK, Labels, Threads, PushFullHead, Goto
<1>2. Others(p)
  BY DEF IInv, TypeOK, Others, Threads, PushFullHead, Goto
<1>3. ReserveOf(p)'
  <2>1. ~Same(prod_head, head[p]) => head[p] < prod_head
    BY SMTT(60) DEF IInv, TypeOK, Threads, ReserveOf, Reserving, Same, PushFullHead
  <2>2. /\ pc'[p] = IF Same(prod_head, head[p]) THEN "full_tail"
                                                ELSE "push_cas"
        /\ UNCHANGED <<prod_head, cons_tail, head, tail, entry>>
    BY DEF IInv, TypeOK, Threads, PushFullHead, Goto
  <2>3. Same(head[p] + 1, tail[p])' <=> Same(head[p] + 1, tail[p])
    BY <2>2 DEF Same, At
  <2>. QED
    BY <2>1, <2>2, <2>3
    DEF IInv, ReserveOf, Reserving, Reserved, PushFullHead
<1>4. pc[p] \notin Reserved /\ pc'[p] \notin Reserved
  BY DEF IInv, TypeOK, Reserved, Threads, PushFullHead, Goto
<1>. QED
  BY <1>1, <1>2, <1>3, <1>4, LocalPush DEF PushFullHead

LEMMA PushFullTailInv ==
    ASSUME IInv, Timely', NEW p \in Producers, PushFullTail(p)
    PROVE  IInv'
<1>1. TypeOK'
  BY ZenonT(60) DEF IInv, TypeOK, Labels, Threads, PushFullTail, Goto
<1>2. Others(p)
  BY DEF IInv, TypeOK, Others, Threads, PushFullTail, Goto
<1>3. ReserveOf(p)'
  <2>1. ~Same(cons_tail, tail[p])
           => head[p] < prod_head \/ prod_head + 1 < cons_tail + Size
    <3>1. ~Same(cons_tail, tail[p]) => ~Same(head[p] + 1, cons_tail)
      BY DEF IInv, ReserveOf, PushFullTail, Same
    <3>. QED
      BY <3>1, LookRoom DEF PushFullTail, Reserving
  <2>2. /\ \/ pc'[p] = "idle"
           \/ /\ pc'[p] = "push_cas"
              /\ ~Same(cons_tail, tail[p])
              /\ entry'[p] = entry[p]
        /\ UNCHANGED <<prod_head, cons_tail, head, tail>>
    BY DEF IInv, TypeOK, Threads, PushFullTail, Goto
  <2>. QED
    BY <2>1, <2>2 DEF IInv, ReserveOf, Reserving, Reserved, PushFullTail
<1>4. pc[p] \notin Reserved /\ pc'[p] \notin Reserved
  BY DEF IInv, TypeOK, Reserved, Threads, PushFullTail, Goto
<1>. QED
  BY <1>1, <1>2, <1>3, <1>4, LocalPush DEF PushFullTail

LEMMA PushCasInv ==
    ASSUME IInv, Timely', NEW p \in Producers, PushCas(p)
    PROVE  IInv'
<1>1. CASE Same(prod_head, head[p])
  <2>1. /\ head[p] \in Nat /\ prod_head \in Nat /\ cons_tail \in Nat
        /\ head[p] <= prod_head /\ prod_head - head[p] < Size
    BY DEF IInv, TypeOK, Threads, Timely, ReserveOf, Reserving, PushCas
  <2>2. head[p] = prod_head
    BY <1>1, <2>1, SameIsEqual DEF Same
  <2>3. /\ pc[p] = "push_cas" /\ Goto(p, "push_store")
        /\ prod_head' = prod_head + 1
        /\ head' = [head EXCEPT ![p] = prod_head]
        /\ log' = Append(log, entry[p])
        /\ UNCHANGED <<prod_tail, cons_head, cons_tail, ring, tail, entry>>
    BY <1>1 DEF PushCas
  <2>4. entry[p] \in Entries
    BY <2>3 DEF IInv, ReserveOf
  <2>5. /\ pc'[p] = "push_store" /\ head'[p] = prod_head /\ Others(p)
        /\ pc' \in [Threads -> Labels] /\ head' \in [Threads -> Nat]
    BY <2>1, <2>3 DEF IInv, TypeOK, Labels, Threads, Goto, Others
  <2>6. /\ log' \in Seq(Entries) /\ Len(log') = prod_head'
        /\ log'[prod_head + 1] = entry[p]
        /\ \A i \in 0 .. prod_head - 1 : log'[i + 1] = log[i + 1]
    BY SMTT(60), <2>1, <2>3, <2>4 DEF IInv, TypeOK, SlotInv
  <2>7. TypeOK'
    BY SMTT(60), <2>1, <2>3, <2>5, <2>6 DEF IInv, TypeOK
  <2>8. NoOverrun'
    BY SMTT(60), <2>1, <2>2, <2>3, SizeAssumption
    DEF IInv, TypeOK, NoOverrun, ReserveOf
  <2>9. ASSUME NEW q \in Producers PROVE ReserveOf(q)' /\ ReservedOf(q)'
    <3>1. CASE q = p
      BY SMTT(60), <3>1, <2>3, <2>4, <2>5, <2>6
      DEF IInv, TypeOK, NoOverrun, ReserveOf, ReservedOf, Reserving, Reserved
    <3>2. CASE q # p
      <4>1. /\ pc'[q] = pc[q] /\ head'[q] = head[q] /\ entry'[q] = entry[q]
            /\ tail'[q] = tail[q]
        BY <2>5, <3>2 DEF Others, Threads
      <4>2. ReserveOf(q)'
        BY <2>3, <4>1, ProducerFrame
      <4>3. pc[q] \in Reserved => log'[head[q] + 1] = log[head[q] + 1]
        <5>1. pc[q] \in Reserved => head[q] \in 0 .. prod_head - 1
          BY SMTT(60), <2>1 DEF IInv, TypeOK, Threads, ReservedOf
        <5>. QED
          BY <5>1, <2>6
      <4>4. ReservedOf(q)'
        BY ZenonT(60), <2>3, <4>1, <4>3, ProducerSlotFrame
      <4>. QED
        BY <4>2, <4>4
    <3>. QED
      BY <3>1, <3>2
  <2>10. ASSUME NEW c \in Consumers PROVE ClaimOf(c)' /\ ClaimedOf(c)'
    <3>1. pc'[c] = pc[c] /\ head'[c] = head[c] /\ entry'[c] = entry[c]
      BY <2>5, ThreadAssumption DEF Others, Threads
    <3>2. pc[c] \in Claimed => log'[head[c] + 1] = log[head[c] + 1]
      BY SMTT(60), <2>1, <2>6 DEF IInv, TypeOK, Threads, NoOverrun, ClaimedOf
    <3>3. ClaimOf(c)'
      BY <2>3, <3>1, ConsumerFrame
    <3>4. ClaimedOf(c)'
      BY ZenonT(60), <2>3, <3>1, <3>2, ConsumerSlotFrame
    <3>. QED
      BY <3>3, <3>4
  <2>11. OwnSlots'
    <3>1. \A q \in Producers \ {p} : pc'[q] \in Reserved => head'[q] # head'[p]
      BY SMTT(60), <2>1, <2>5 DEF IInv, TypeOK, Threads, ReservedOf, Others
    <3>. QED
      BY <2>5, <3>1, ThreadAssumption DEF IInv, OwnSlots, Others, Threads
  <2>12. SlotInv'
    BY SMTT(60), <2>1, <2>3, <2>6 DEF IInv, TypeOK, NoOverrun, SlotInv, At
  <2>. QED
    BY <2>7, <2>8, <2>9, <2>10, <2>11, <2>12 DEF IInv
<1>2. CASE ~Same(prod_head, head[p])
  <2>1. /\ Goto(p, "retry") /\ pc[p] = "push_cas"
        /\ UNCHANGED <<prod_head, prod_tail, cons_head, cons_tail, ring, head,
                       tail, entry, log>>
    BY <1>2 DEF PushCas
  <2>2. TypeOK'
    BY <2>1 DEF IInv, TypeOK, Labels, Threads, Goto
  <2>3. Others(p)
    BY <2>1 DEF IInv, TypeOK, Others, Threads, Goto
  <2>4. pc'[p] = "retry"
    BY <2>1 DEF IInv, TypeOK, Threads, Goto
  <2>5. ReserveOf(p)'
    BY <2>1, <2>4 DEF IInv, ReserveOf, Reserving
  <2>. QED
    BY <2>1, <2>2, <2>3, <2>4, <2>5, LocalPush DEF Reserved
<1>. QED
  BY <1>1, <1>2

(* Slots in use never collide: fewer than Size slots are in use. *)
LEMMA DistinctSlots ==
    ASSUME IInv, NEW i \in cons_tail .. prod_head - 1,
           NEW j \in cons_tail .. prod_head - 1, i # j
    PROVE  At(i) # At(j)
<1>1. /\ i \in Nat /\ j \in Nat /\ i - j < Size /\ j - i < Size
  BY SMTT(60), SizeAssumption DEF IInv, TypeOK, NoOverrun
<1>. QED
  BY SMTT(60), <1>1, SameIsEqual DEF Same

LEMMA PushStoreInv ==
    ASSUME IInv, Timely', NEW p \in Producers, PushStore(p)
    PROVE  IInv'
<1>1. /\ pc[p] = "push_store" /\ pc'[p] = "push_spin" /\ Others(p)
      /\ pc' \in [Threads -> Labels]
      /\ UNCHANGED <<prod_head, prod_tail, cons_head, cons_tail, head, tail,
                     entry, log>>
  BY DEF IInv, TypeOK, Labels, Threads, Others, PushStore, Goto
<1>2. head[p] \in cons_tail .. prod_head - 1 /\ head[p] \in Nat
  BY SMTT(60), <1>1 DEF IInv, TypeOK, NoOverrun, Threads, ReservedOf, Reserved
<1>3. /\ ring' = [ring EXCEPT ![At(head[p])] = entry[p]]
      /\ ring'[At(head[p])] = entry[p]
      /\ ring' \in [0 .. Size - 1 -> Entries \cup {NoEntry}]
  BY ZenonT(60), <1>2, AtType DEF IInv, TypeOK, Threads, PushStore
<1>4. ASSUME NEW i \in cons_tail .. prod_head - 1, i # head[p]
      PROVE  ring'[At(i)] = ring[At(i)]
  <2>1. At(i) # At(head[p])
    BY <1>2, <1>4, DistinctSlots
  <2>2. At(i) \in 0 .. Size - 1
    BY SMTT(60), AtType DEF IInv, TypeOK
  <2>. QED
    BY <1>3, <2>1, <2>2 DEF IInv, TypeOK
<1>5. TypeOK'
  BY <1>1, <1>3 DEF IInv, TypeOK
<1>6. NoOverrun'
  BY <1>1 DEF IInv, NoOverrun
<1>7. OwnSlots'
  BY <1>1, ThreadAssumption DEF IInv, OwnSlots, Others, Threads, Reserved
<1>8. SlotInv'
  <2>1. \A i \in cons_head .. prod_tail - 1 :
            i \in cons_tail .. prod_head - 1 /\ i # head[p]
    BY SMTT(60), <1>1, <1>2
    DEF IInv, TypeOK, NoOverrun, ReservedOf, Reserved
  <2>2. \A i \in cons_head .. prod_tail - 1 : ring'[At(i)] = log[i + 1]
    BY <1>4, <2>1 DEF IInv, SlotInv
  <2>. QED
    BY <1>1, <2>2 DEF IInv, SlotInv, At
<1>9. ASSUME NEW q \in Producers PROVE ReserveOf(q)' /\ ReservedOf(q)'
  <2>1. CASE q = p
    <3>1. ReserveOf(p)'
      BY <1>1 DEF IInv, ReserveOf, Reserving, Reserved
    <3>2. At(head[p])' = At(head[p])
      BY <1>1 DEF At
    <3>3. ReservedOf(p)'
      BY <1>1, <1>3, <3>2 DEF IInv, ReservedOf, Reserved
    <3>. QED
      BY <2>1, <3>1, <3>3
  <2>2. CASE q # p
    <3>1. /\ pc'[q] = pc[q] /\ head'[q] = head[q] /\ entry'[q] = entry[q]
          /\ tail'[q] = tail[q]
      BY <1>1, <2>2 DEF Others, Threads
    <3>2. pc[q] \in Reserved =>
              head[q] \in cons_tail .. prod_head - 1 /\ head[q] # head[p]
      BY SMTT(60), <1>1, <2>2
      DEF IInv, TypeOK, NoOverrun, Threads, ReservedOf, OwnSlots, Reserved
    <3>3. pc[q] \in Reserved => ring'[At(head[q])] = ring[At(head[q])]
      BY <1>4, <3>2
    <3>4. ReserveOf(q)'
      BY <1>1, <3>1, ProducerFrame
    <3>5. ReservedOf(q)'
      BY <1>1, <3>1, <3>3, ProducerSlotFrame
    <3>. QED
      BY <3>4, <3>5
  <2>. QED
    BY <2>1, <2>2
<1>10. ASSUME NEW c \in Consumers PROVE ClaimOf(c)' /\ ClaimedOf(c)'
  <2>1. pc'[c] = pc[c] /\ head'[c] = head[c] /\ entry'[c] = entry[c]
    BY <1>1, ThreadAssumption DEF Others, Threads
  <2>2. pc[c] \in Claimed =>
            head[c] \in cons_tail .. prod_head - 1 /\ head[c] # head[p]
    BY SMTT(60), <1>1, <1>2
    DEF IInv, TypeOK, NoOverrun, Threads, ReservedOf, ClaimedOf, Reserved
  <2>3. pc[c] \in Claimed => ring'[At(head[c])] = ring[At(head[c])]
    BY <1>4, <2>2
  <2>4. ClaimOf(c)'
    BY <1>1, <2>1, ConsumerFrame
  <2>5. ClaimedOf(c)'
    BY <1>1, <2>1, <2>3, ConsumerSlotFrame
  <2>. QED
    BY <2>4, <2>5
<1>. QED
  BY <1>5, <1>6, <1>7, <1>8, <1>9, <1>10 DEF IInv

LEMMA PushPublishInv ==
    ASSUME IInv, Timely', NEW p \in Producers, PushPublish(p)
    PROVE  IInv'
<1>1. /\ pc[p] = "push_spin" /\ pc'[p] = "idle" /\ Others(p)
      /\ prod_tail' = prod_tail + 1
      /\ UNCHANGED <<prod_head, cons_head, cons_tail, ring, head, tail, log>>
  BY DEF IInv, TypeOK, Labels, Threads, Others, PushPublish, Goto
<1>2. /\ prod_tail \in Nat /\ head[p] \in Nat /\ prod_head \in Nat
      /\ prod_tail <= head[p] /\ head[p] - prod_tail < Size
      /\ head[p] < prod_head
      /\ log[head[p] + 1] = entry[p] /\ ring[At(head[p])] = entry[p]
  BY SMTT(60), <1>1, SizeAssumption
  DEF IInv, TypeOK, NoOverrun, Threads, ReservedOf, Reserved
<1>3. head[p] = prod_tail
  BY <1>2, SameIsEqual DEF PushPublish
<1>4. TypeOK'
  BY SMTT(60), <1>1 DEF IInv, TypeOK, Labels, Threads, PushPublish, Goto
<1>5. NoOverrun'
  BY SMTT(60), <1>1, <1>2, <1>3 DEF IInv, TypeOK, NoOverrun
<1>6. OwnSlots'
  BY <1>1, ThreadAssumption DEF IInv, OwnSlots, Others, Threads, Reserved
<1>7. SlotInv'
  <2>1. \A i \in cons_head .. prod_tail : ring[At(i)] = log[i + 1]
    BY SMTT(60), <1>2, <1>3 DEF IInv, TypeOK, SlotInv
  <2>2. \A i \in cons_head .. prod_tail' - 1 : ring[At(i)] = log[i + 1]
    BY SMTT(60), <1>1, <1>2, <2>1 DEF IInv, TypeOK
  <2>. QED
    BY <1>1, <2>2 DEF IInv, SlotInv, At
<1>8. ASSUME NEW q \in Producers PROVE ReserveOf(q)' /\ ReservedOf(q)'
  <2>1. CASE q = p
    BY <1>1, <2>1 DEF IInv, ReserveOf, ReservedOf, Reserving, Reserved
  <2>2. CASE q # p
    <3>1. /\ pc'[q] = pc[q] /\ head'[q] = head[q] /\ entry'[q] = entry[q]
          /\ tail'[q] = tail[q]
      BY <1>1, <2>2 DEF Others, Threads
    <3>2. ReserveOf(q)'
      BY <1>1, <3>1, ProducerFrame
    <3>3. pc[q] \in Reserved => prod_tail + 1 <= head[q]
      BY SMTT(60), <1>1, <1>2, <1>3, <2>2
      DEF IInv, TypeOK, Threads, ReservedOf, OwnSlots, Reserved
    <3>4. At(head[q])' = At(head[q])
      BY <1>1 DEF At
    <3>5. ReservedOf(q)'
      BY <1>1, <3>1, <3>3, <3>4 DEF IInv, ReservedOf
    <3>. QED
      BY <3>2, <3>5
  <2>. QED
    BY <2>1, <2>2
<1>9. ASSUME NEW c \in Consumers PROVE ClaimOf(c)' /\ ClaimedOf(c)'
  <2>1. pc'[c] = pc[c] /\ head'[c] = head[c] /\ entry'[c] = entry[c]
    BY <1>1, ThreadAssumption DEF Others, Threads
  <2>2. ClaimOf(c)'
    BY <1>1, <2>1, ConsumerFrame
  <2>3. ClaimedOf(c)'
    BY <1>1, <2>1, ConsumerSlotFrame
  <2>. QED
    BY <2>2, <2>3
<1>. QED
  BY <1>4, <1>5, <1>6, <1>7, <1>8, <1>9 DEF IInv

(* A step of pop before the claim only changes local variables. *)
LEMMA LocalPop ==
    ASSUME IInv, Timely', TypeOK', NEW c \in Consumers, Others(c),
           UNCHANGED <<prod_head, prod_tail, cons_head, cons_tail, ring, log>>,
           pc[c] \notin Claimed, pc'[c] \notin Claimed, ClaimOf(c)'
    PROVE  IInv'
<1>1. NoOverrun' /\ SlotInv'
  BY DEF IInv, NoOverrun, SlotInv, At
<1>2. ASSUME NEW q \in Producers PROVE ReserveOf(q)' /\ ReservedOf(q)'
  <2>1. /\ pc'[q] = pc[q] /\ head'[q] = head[q] /\ entry'[q] = entry[q]
        /\ tail'[q] = tail[q]
    BY ThreadAssumption DEF Others, Threads
  <2>2. ReserveOf(q)'
    BY <2>1, ProducerFrame
  <2>3. ReservedOf(q)'
    BY <2>1, ProducerSlotFrame
  <2>. QED
    BY <2>2, <2>3
<1>3. ASSUME NEW d \in Consumers PROVE ClaimOf(d)' /\ ClaimedOf(d)'
  <2>1. CASE d = c
    BY <2>1 DEF ClaimedOf
  <2>2. CASE d # c
    <3>1. pc'[d] = pc[d] /\ head'[d] = head[d] /\ entry'[d] = entry[d]
      BY <2>2 DEF Others, Threads
    <3>2. ClaimOf(d)'
      BY <3>1, ConsumerFrame
    <3>3. ClaimedOf(d)'
      BY <3>1, ConsumerSlotFrame
    <3>. QED
      BY <3>2, <3>3
  <2>. QED
    BY <2>1, <2>2
<1>4. OwnSlots'
  BY ThreadAssumption DEF IInv, OwnSlots, Others, Threads
<1>. QED
  BY <1>1, <1>2, <1>3, <1>4 DEF IInv

LEMMA PopHeadInv ==
    ASSUME IInv, Timely', NEW c \in Consumers, PopHead(c)
    PROVE  IInv'
<1>1. /\ pc[c] \in {"idle", "retry"} /\ pc'[c] = "pop_tail"
      /\ head'[c] = cons_head /\ Others(c)
      /\ UNCHANGED <<prod_head, prod_tail, cons_head, cons_tail, ring, log>>
  BY DEF IInv, TypeOK, Threads, Others, PopHead, Goto
<1>2. TypeOK'
  BY DEF IInv, TypeOK, Labels, Threads, PopHead, Goto
<1>3. ClaimOf(c)'
  <2>1. ~MultiConsumer => cons_head = cons_tail
    BY <1>1 DEF IInv, ClaimOf, Claimed
  <2>2. cons_head <= cons_head
    BY SMTT(60) DEF IInv, TypeOK
  <2>. QED
    BY <1>1, <2>1, <2>2 DEF ClaimOf, Claiming, Claimed
<1>. QED
  BY <1>1, <1>2, <1>3, LocalPop DEF Claimed

LEMMA PopTailInv ==
    ASSUME IInv, Timely', NEW c \in Consumers, PopTail(c)
    PROVE  IInv'
<1>1. /\ pc[c] = "pop_tail" /\ Others(c) /\ TypeOK'
      /\ pc'[c] = IF Same(head[c], prod_tail) THEN "idle" ELSE "pop_cas"
      /\ UNCHANGED <<prod_head, prod_tail, cons_head, cons_tail, ring, head,
                     log>>
  BY DEF IInv, TypeOK, Labels, Threads, Others, PopTail, Goto
<1>2. ~Same(head[c], prod_tail) => head[c] < prod_tail
  BY SMTT(60), <1>1 DEF IInv, TypeOK, Threads, NoOverrun, ClaimOf, Claiming, Same
<1>3. ClaimOf(c)'
  BY <1>1, <1>2 DEF IInv, ClaimOf, Claiming, Claimed
<1>. QED
  BY <1>1, <1>3, LocalPop DEF Claimed

(* The claim of the slot at cons_head, by either kind of pop. *)
LEMMA ClaimSlot ==
    ASSUME IInv, Timely', NEW c \in Consumers,
           pc[c] = "pop_cas", head[c] = cons_head, Goto(c, "pop_take"),
           cons_head' = cons_head + 1,
           UNCHANGED <<prod_head, prod_tail, cons_tail, ring, head, tail,
                       entry, log>>
    PROVE  IInv'
<1>1. pc'[c] = "pop_take" /\ Others(c) /\ TypeOK'
  BY SMTT(60) DEF IInv, TypeOK, Labels, Threads, Others, Goto
<1>2. /\ cons_head \in Nat /\ prod_tail \in Nat /\ cons_head < prod_tail
      /\ cons_tail \in Nat /\ cons_tail <= cons_head
  BY DEF IInv, TypeOK, NoOverrun, ClaimOf
<1>3. ring[At(cons_head)] = log[cons_head + 1]
  BY SMTT(60), <1>2 DEF IInv, SlotInv
<1>4. NoOverrun'
  BY SMTT(60), <1>2 DEF IInv, NoOverrun
<1>5. SlotInv'
  <2>1. \A i \in cons_head + 1 .. prod_tail - 1 : ring[At(i)] = log[i + 1]
    BY SMTT(60), <1>2 DEF IInv, SlotInv
  <2>. QED
    BY <2>1 DEF IInv, SlotInv, At
<1>6. ASSUME NEW q \in Producers PROVE ReserveOf(q)' /\ ReservedOf(q)'
  <2>1. /\ pc'[q] = pc[q] /\ head'[q] = head[q] /\ entry'[q] = entry[q]
        /\ tail'[q] = tail[q]
    BY <1>1, ThreadAssumption DEF Others, Threads
  <2>2. ReserveOf(q)'
    BY <2>1, ProducerFrame
  <2>3. ReservedOf(q)'
    BY <2>1, ProducerSlotFrame
  <2>. QED
    BY <2>2, <2>3
<1>7. ASSUME NEW d \in Consumers PROVE ClaimOf(d)' /\ ClaimedOf(d)'
  <2>1. CASE d = c
    <3>1. ClaimOf(c)'
      BY <1>1, <1>2 DEF IInv, ClaimOf, Claiming, Claimed
    <3>2. At(head[c])' = At(cons_head)
      BY DEF At
    <3>3. ClaimedOf(c)'
      BY SMTT(60), <1>1, <1>2, <1>3, <3>2 DEF ClaimedOf, Claimed
    <3>. QED
      BY <2>1, <3>1, <3>3
  <2>2. CASE d # c
    <3>1. pc'[d] = pc[d] /\ head'[d] = head[d] /\ entry'[d] = entry[d]
      BY <1>1, <2>2 DEF Others, Threads
    <3>2. MultiConsumer
      BY <2>2, ConsumerAssumption
    <3>3. ClaimOf(d)'
      BY <3>1, <3>2, OtherConsumerFrame
    <3>4. ClaimedOf(d)'
      BY <3>1, ConsumerSlotFrame
    <3>. QED
      BY <3>3, <3>4
  <2>. QED
    BY <2>1, <2>2
<1>8. OwnSlots'
  <2>1. \A d \in Consumers \ {c} : pc'[d] \in Claimed => head'[d] # head'[c]
    BY SMTT(60), <1>1, <1>2 DEF IInv, TypeOK, Threads, ClaimedOf, Others
  <2>. QED
    BY <1>1, <2>1, ThreadAssumption DEF IInv, OwnSlots, Others, Threads
<1>. QED
  BY <1>1, <1>4, <1>5, <1>6, <1>7, <1>8 DEF IInv

LEMMA PopCasInv ==
    ASSUME IInv, Timely', NEW c \in Consumers, PopCas(c)
    PROVE  IInv'
<1>1. CASE Same(cons_head, head[c])
  <2>1. /\ head[c] \in Nat /\ cons_head \in Nat /\ head[c] <= cons_head
        /\ cons_head - head[c] < Size
    BY DEF IInv, TypeOK, Threads, Timely, ClaimOf, Claiming, PopCas
  <2>2. head[c] = cons_head
    BY <1>1, <2>1, SameIsEqual DEF Same
  <2>3. head' = head
    BY <1>1, <2>2 DEF IInv, TypeOK, PopCas
  <2>. QED
    BY ZenonT(60), <1>1, <2>2, <2>3, ClaimSlot DEF PopCas
<1>2. CASE ~Same(cons_head, head[c])
  <2>1. /\ pc[c] = "pop_cas" /\ Goto(c, "retry") /\ MultiConsumer
        /\ UNCHANGED <<prod_head, prod_tail, cons_head, cons_tail, ring, head,
                       tail, entry, log>>
    BY <1>2 DEF PopCas
  <2>2. pc'[c] = "retry" /\ Others(c) /\ TypeOK'
    BY <2>1 DEF IInv, TypeOK, Labels, Threads, Others, Goto
  <2>3. ClaimOf(c)'
    BY <2>1, <2>2 DEF ClaimOf, Claiming
  <2>. QED
    BY <2>1, <2>2, <2>3, LocalPop DEF Claimed
<1>. QED
  BY <1>1, <1>2

LEMMA PopSetInv ==
    ASSUME IInv, Timely', NEW c \in Consumers, PopSet(c)
    PROVE  IInv'
<1>1. head[c] = cons_head
  BY DEF IInv, ClaimOf, Claiming, PopSet
<1>. QED
  BY <1>1, ClaimSlot DEF PopSet

LEMMA PopTakeInv ==
    ASSUME IInv, Timely', NEW c \in Consumers, PopTake(c)
    PROVE  IInv'
<1>1. /\ pc[c] = "pop_take" /\ pc'[c] = "pop_spin" /\ Others(c)
      /\ entry'[c] = ring[At(head[c])]
      /\ UNCHANGED <<prod_head, prod_tail, cons_head, cons_tail, ring, head,
                     tail, log>>
  BY DEF IInv, TypeOK, Threads, Others, PopTake, Goto
<1>2. ring[At(head[c])] \in Entries \cup {NoEntry}
  BY AtType DEF IInv, TypeOK, Threads
<1>3. TypeOK'
  BY <1>2 DEF IInv, TypeOK, Labels, Threads, PopTake, Goto
<1>4. NoOverrun' /\ SlotInv'
  BY <1>1 DEF IInv, NoOverrun, SlotInv, At
<1>5. OwnSlots'
  BY SMTT(60), <1>1, ThreadAssumption DEF IInv, OwnSlots, Others, Threads, Claimed
<1>6. ASSUME NEW q \in Producers PROVE ReserveOf(q)' /\ ReservedOf(q)'
  <2>1. /\ pc'[q] = pc[q] /\ head'[q] = head[q] /\ entry'[q] = entry[q]
        /\ tail'[q] = tail[q]
    BY <1>1, ThreadAssumption DEF Others, Threads
  <2>2. ReserveOf(q)'
    BY <1>1, <2>1, ProducerFrame
  <2>3. ReservedOf(q)'
    BY <1>1, <2>1, ProducerSlotFrame
  <2>. QED
    BY <2>2, <2>3
<1>7. ASSUME NEW d \in Consumers PROVE ClaimOf(d)' /\ ClaimedOf(d)'
  <2>1. CASE d = c
    BY <1>1, <2>1 DEF IInv, ClaimOf, ClaimedOf, Claiming, Claimed
  <2>2. CASE d # c
    <3>1. pc'[d] = pc[d] /\ head'[d] = head[d] /\ entry'[d] = entry[d]
      BY <1>1, <2>2 DEF Others, Threads
    <3>2. ClaimOf(d)'
      BY <1>1, <3>1, ConsumerFrame
    <3>3. ClaimedOf(d)'
      BY <1>1, <3>1, ConsumerSlotFrame
    <3>. QED
      BY <3>2, <3>3
  <2>. QED
    BY <2>1, <2>2
<1>. QED
  BY <1>3, <1>4, <1>5, <1>6, <1>7 DEF IInv

(* The release of the slot at cons_tail, by either kind of pop. *)
LEMMA ReleaseSlot ==
    ASSUME IInv, Timely', NEW c \in Consumers,
           pc[c] = "pop_spin", head[c] = cons_tail, Goto(c, "idle"),
           cons_tail' = cons_tail + 1,
           entry' = [entry EXCEPT ![c] = NoEntry],
           UNCHANGED <<prod_head, prod_tail, cons_head, ring, head, tail, log>>
    PROVE  IInv'
<1>1. pc'[c] = "idle" /\ Others(c) /\ TypeOK'
  BY SMTT(60) DEF IInv, TypeOK, Labels, Threads, Others, Goto
<1>2. cons_tail \in Nat /\ cons_head \in Nat /\ cons_tail < cons_head
  BY DEF IInv, TypeOK, ClaimedOf, Claimed
<1>3. NoOverrun'
  BY SMTT(60), <1>2, SizeAssumption DEF IInv, TypeOK, NoOverrun
<1>4. SlotInv'
  BY DEF IInv, SlotInv, At
<1>5. OwnSlots'
  BY <1>1, ThreadAssumption DEF IInv, OwnSlots, Others, Threads, Claimed
<1>6. ASSUME NEW q \in Producers PROVE ReserveOf(q)' /\ ReservedOf(q)'
  <2>1. /\ pc'[q] = pc[q] /\ head'[q] = head[q] /\ entry'[q] = entry[q]
        /\ tail'[q] = tail[q]
    BY <1>1, ThreadAssumption DEF Others, Threads
  <2>2. ReserveOf(q)'
    BY <2>1, ProducerFrame
  <2>3. ReservedOf(q)'
    BY <2>1, ProducerSlotFrame
  <2>. QED
    BY <2>2, <2>3
<1>7. ASSUME NEW d \in Consumers PROVE ClaimOf(d)' /\ ClaimedOf(d)'
  <2>1. CASE d = c
    <3>1. ~MultiConsumer => cons_head = cons_tail + 1
      BY DEF IInv, ClaimOf, Claimed
    <3>. QED
      BY <1>1, <2>1, <3>1 DEF ClaimOf, ClaimedOf, Claiming, Claimed
  <2>2. CASE d # c
    <3>1. pc'[d] = pc[d] /\ head'[d] = head[d] /\ entry'[d] = entry[d]
      BY <1>1, <2>2 DEF Others, Threads
    <3>2. MultiConsumer
      BY <2>2, ConsumerAssumption
    <3>3. ClaimOf(d)'
      BY <3>1, <3>2, OtherConsumerFrame
    <3>4. pc[d] \in Claimed => cons_tail + 1 <= head[d]
      BY SMTT(60), <1>2, <2>2 DEF IInv, TypeOK, Threads, OwnSlots, ClaimedOf, Claimed
    <3>5. At(head[d])' = At(head[d])
      BY DEF At
    <3>6. ClaimedOf(d)'
      BY <3>1, <3>4, <3>5 DEF IInv, ClaimedOf, Claimed
    <3>. QED
      BY <3>3, <3>6
  <2>. QED
    BY <2>1, <2>2
<1>. QED
  BY <1>1, <1>3, <1>4, <1>5, <1>6, <1>7 DEF IInv

LEMMA PopReleaseInv ==
    ASSUME IInv, Timely', NEW c \in Consumers, PopRelease(c)
    PROVE  IInv'
<1>1. /\ cons_tail \in Nat /\ head[c] \in Nat /\ cons_tail <= head[c]
      /\ head[c] - cons_tail < Size
  BY SMTT(60), SizeAssumption
  DEF IInv, TypeOK, Threads, NoOverrun, ClaimedOf, Claimed, PopRelease
<1>2. head[c] = cons_tail
  BY <1>1, SameIsEqual DEF PopRelease
<1>. QED
  BY ZenonT(60), <1>2, ReleaseSlot DEF PopRelease

LEMMA PopReleaseScInv ==
    ASSUME IInv, Timely', NEW c \in Consumers, PopReleaseSc(c)
    PROVE  IInv'
<1>1. head[c] = cons_tail
  BY SMTT(60) DEF IInv, TypeOK, Threads, ClaimOf, ClaimedOf, Claimed, PopReleaseSc
<1>. QED
  BY ZenonT(60), <1>1, ReleaseSlot DEF PopReleaseSc

-----------------------------------------------------------------------------
LEMMA InitInv == Init => IInv
<1>. SUFFICES ASSUME Init PROVE IInv
  OBVIOUS
<1>1. TypeOK
  BY SMTT(60) DEF Init, TypeOK, Labels
<1>2. Timely /\ OwnSlots
  BY DEF Init, Timely, OwnSlots, Threads, Reserved, Claimed
<1>3. NoOverrun /\ SlotInv
  BY SMTT(60), SizeAssumption DEF Init, NoOverrun, SlotInv
<1>4. \A p \in Producers : ReserveOf(p) /\ ReservedOf(p)
  BY DEF Init, ReserveOf, ReservedOf, Threads, Reserving, Reserved
<1>5. \A c \in Consumers : ClaimOf(c) /\ ClaimedOf(c)
  BY DEF Init, ClaimOf, ClaimedOf, Threads, Claiming, Claimed
<1>. QED
  BY <1>1, <1>2, <1>3, <1>4, <1>5 DEF IInv

LEMMA NextInv == IInv /\ [Next /\ Timely']_vars => IInv'
<1>. SUFFICES ASSUME IInv, [Next /\ Timely']_vars PROVE IInv'
  OBVIOUS
<1>1. CASE Next /\ Timely'
  <2>1. ASSUME NEW p \in Producers, PushStep(p) PROVE IInv'
    BY <1>1, <2>1, PushHeadInv, PushTailInv, PushFullHeadInv, PushFullTailInv,
       PushCasInv, PushStoreInv, PushPublishInv DEF PushStep
  <2>2. ASSUME NEW c \in Consumers, PopStep(c) PROVE IInv'
    BY <1>1, <2>2, PopHeadInv, PopTailInv, PopCasInv, PopSetInv, PopTakeInv,
       PopReleaseInv, PopReleaseScInv DEF PopStep
  <2>. QED
    BY <1>1, <2>1, <2>2 DEF Next
<1>2. CASE UNCHANGED vars
  BY <1>2 DEF vars, IInv, TypeOK, Timely, NoOverrun, OwnSlots, SlotInv,
              ReserveOf, ReservedOf, ClaimOf, ClaimedOf, Same, At
<1>. QED
  BY <1>1, <1>2

(* The inductive invariant holds in every reachable state. *)
THEOREM Invariance == Spec => []IInv
  BY InitInv, NextInv, PTL DEF Spec

(* hg_atomic_queue_push never overruns a slot a consumer has not released, *)
(* whatever the ring size and however many threads push and pop.           *)
THEOREM NoOverrunThm == Spec => []NoOverrun
  BY Invariance, PTL DEF IInv

(* Every successful pop returns the entry pushed into the slot it claimed. *)
THEOREM TransferThm == Spec => []Transfer
<1>1. IInv => Transfer
  BY ZenonT(60) DEF IInv, ClaimedOf, Claimed, Transfer
<1>. QED
  BY <1>1, Invariance, PTL
=============================================================================
