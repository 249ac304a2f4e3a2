-------------------------- MODULE BulkTransferProofs --------------------------
(* Proofs about bulk transfers, for any users and identifiers and any       *)
(* number of NA operations, whatever Races allows.                          *)
EXTENDS BulkTransfer, SetSizes, TLAPS

(* Leaves are for Zenon; those that need arithmetic, or that it does not    *)
(* find, cite the SMT solver.                                               *)
USE ZenonT(60)

-----------------------------------------------------------------------------
(* The inductive invariant *)

Marks == {"COMPLETED", "CANCELED", "ERRORED"}
OpType ==
    [status : SUBSET Marks,
     ret_status : Results, op_count : Nat, op_completed_count : Nat,
     extra : BOOLEAN, ret : Results, by : Users \cup {NoId},
     ends : SUBSET Results]
UserType ==
    [pc : {"idle", "get", "start", "post", "posted"} \cup InCancel,
     id : Ids \cup {NoId}, left : Nat, asked : BOOLEAN, canceled : BOOLEAN,
     got : Nat]
NaType == [1..MaxOps -> {"idle"} \cup Outstanding]
Types ==
    /\ op \in [Ids -> OpType] /\ na \in [Ids -> NaType]
    /\ u \in [Users -> UserType]
    /\ pending \subseteq Ids /\ trig \subseteq Ids /\ queued \in [Ids -> Nat]

(* The NA operations of i that will still call back, and what a user has    *)
(* yet to post.                                                             *)
Out(i) == {j \in 1..MaxOps : na[i][j] \in Outstanding}
Left(t) == IF u[t].pc = "post" THEN u[t].left ELSE 0

(* The user has started a transfer and its callback has not been called.    *)
Waits(t) == u[t].pc \in {"post", "posted"} \cup InCancel /\ u[t].got = 0

Unused(i) ==
    /\ Out(i) = {} /\ queued[i] = 0 /\ i \notin trig
    /\ ~op[i].extra /\ op[i].by = NoId

PoolInv == \A i \in pending : Unused(i)

(* An identifier that was taken from the pool has one user. *)
StartInv ==
    \A t \in Users : u[t].pc = "start" =>
        /\ u[t].id \in Ids \ pending /\ Unused(u[t].id) /\ u[t].got = 0
        /\ \A s \in Users \ {t} : u[s].pc = "start" => u[s].id # u[t].id

(* The identifier of a user that waits carries that user's transfer. It is  *)
(* queued, or the operations that were counted, will be counted and are yet *)
(* to be posted are all its operations.                                     *)
Queued(t, i) == queued[i] = 1 /\ Out(i) = {} /\ Left(t) = 0
Counted(t, i) ==
    /\ queued[i] = 0
    /\ op[i].op_completed_count < op[i].op_count
    /\ op[i].op_completed_count + Cardinality(Out(i)) + Left(t) = op[i].op_count
    /\ op[i].op_count <= MaxOps
    /\ \A j \in 1..MaxOps : j > op[i].op_count - Left(t) => na[i][j] = "idle"
WaitInv ==
    \A t \in Users : Waits(t) =>
        /\ u[t].id \in Ids \ pending /\ u[t].id \notin trig
        /\ op[u[t].id].by = t
        /\ Queued(t, u[t].id) \/ Counted(t, u[t].id)

(* Whoever has something to post has not been called back. *)
Unreported(t) == u[t].pc = "get" \/ (u[t].pc = "post" /\ u[t].left > 0)
PostInv == \A t \in Users : Unreported(t) => u[t].got = 0

Carries(i) ==
    op[i].by \in Users /\ Waits(op[i].by) /\ u[op[i].by].id = i
QueueInv == \A i \in Ids : queued[i] > 0 => Carries(i)

(* An operation that will call back belongs to a transfer that a user waits *)
(* for, or to one that failed and can no longer reach its count.            *)
FailedInv ==
    \A i \in Ids : Out(i) # {} =>
        \/ Carries(i)
        \/ op[i].op_completed_count + Cardinality(Out(i)) < op[i].op_count

TriggerInv ==
    \A i \in trig : i \notin pending /\ queued[i] = 0 /\ Out(i) = {}

ExtraInv == \A i \in Ids : op[i].extra => op[i].op_count > StaticMax

IInv ==
    /\ Types /\ PoolInv /\ StartInv /\ WaitInv /\ PostInv /\ QueueInv
    /\ FailedInv /\ TriggerInv /\ ExtraInv

-----------------------------------------------------------------------------
(* Types of the fields, and the counts *)

LEMMA OpFields ==
    ASSUME Types, NEW i \in Ids
    PROVE  /\ op[i] \in OpType
           /\ op[i].op_count \in Nat /\ op[i].op_completed_count \in Nat
           /\ op[i].extra \in BOOLEAN /\ op[i].by \in Users \cup {NoId}
           /\ queued[i] \in Nat
  BY DEF Types, OpType

LEMMA OpStatus ==
    ASSUME NEW o \in OpType, NEW x \in SUBSET Marks
    PROVE  LET n == [o EXCEPT !.status = x] IN
           /\ n \in OpType /\ n.op_count = o.op_count
           /\ n.op_completed_count = o.op_completed_count
           /\ n.extra = o.extra /\ n.by = o.by
  BY DEF OpType

LEMMA UserFields ==
    ASSUME Types, NEW t \in Users
    PROVE  /\ u[t] \in UserType /\ u[t].id \in Ids \cup {NoId}
           /\ u[t].left \in Nat /\ u[t].got \in Nat /\ Left(t) \in Nat
  BY DEF Types, UserType, Left

LEMMA NaStates ==
    ASSUME Types, NEW i \in Ids, NEW j \in 1..MaxOps
    PROVE  na[i][j] = "idle" <=> j \notin Out(i)
  BY ZenonT(60) DEF Types, NaType, Out, Outstanding

LEMMA OutCount ==
    ASSUME SetFacts, NEW i \in Ids
    PROVE  /\ IsFiniteSet(Out(i)) /\ Cardinality(Out(i)) \in Nat
           /\ Cardinality(Out(i)) = 0 <=> Out(i) = {}
<1>1. IsFiniteSet(1..MaxOps)
  BY SMTT(60), ConstantsAssumption DEF SetFacts, IntervalFact
<1>2. IsFiniteSet(Out(i))
  BY ZenonT(60), <1>1 DEF SetFacts, SubsetFact, Out
<1>. QED
  BY <1>2 DEF SetFacts, EmptyFact, CountFact

LEMMA OutAdd ==
    ASSUME SetFacts, NEW i \in Ids, NEW j, j \notin Out(i),
           Out(i)' = Out(i) \cup {j}
    PROVE  Cardinality(Out(i)') = Cardinality(Out(i)) + 1
  BY ZenonT(60), OutCount DEF SetFacts, AddFact

LEMMA OutRemove ==
    ASSUME SetFacts, NEW i \in Ids, NEW j, j \in Out(i), Out(i)' = Out(i) \ {j}
    PROVE  Cardinality(Out(i)') = Cardinality(Out(i)) - 1
  BY ZenonT(60), OutCount DEF SetFacts, RemoveFact

(* The state of NA operation j of i becomes x. *)
NaBecomes(i, j, x) ==
    /\ na' \in [Ids -> NaType]
    /\ i \in Ids /\ j \in 1..MaxOps => na'[i][j] = x
    /\ \A k \in Ids, m \in 1..MaxOps :
            k # i \/ m # j => na'[k][m] = na[k][m]
    /\ (x \in Outstanding <=> na[i][j] \in Outstanding)
            => \A k \in Ids : Out(k)' = Out(k)

LEMMA NaSet ==
    ASSUME Types, NEW i, NEW j, NEW x, na' = [na EXCEPT ![i][j] = x],
           i \in Ids /\ j \in 1..MaxOps => x \in {"idle"} \cup Outstanding
    PROVE  NaBecomes(i, j, x)
<1>1. ASSUME NEW k \in Ids
      PROVE  /\ na'[k] \in NaType
             /\ \A m \in 1..MaxOps :
                    na'[k][m] = IF k = i /\ m = j THEN x ELSE na[k][m]
  <2>1. na[k] \in NaType
    BY DEF Types
  <2>2. CASE k # i
    BY <2>1, <2>2 DEF Types
  <2>3. CASE k = i
    <3>1. na'[k] = [na[k] EXCEPT ![j] = x]
      BY <2>3 DEF Types
    <3>2. CASE j \in 1..MaxOps
      <4>1. x \in {"idle"} \cup Outstanding
        BY <2>3, <3>2
      <4>2. \A m \in 1..MaxOps : na'[k][m] = IF m = j THEN x ELSE na[k][m]
        BY ZenonT(60), <2>1, <3>1 DEF NaType
      <4>3. na'[k] \in NaType
        BY ZenonT(60), <2>1, <3>1, <4>1 DEF NaType
      <4>. QED
        BY <2>3, <4>2, <4>3
    <3>3. CASE j \notin 1..MaxOps
      <4>1. na'[k] = na[k]
        BY ZenonT(60), <2>1, <3>1, <3>3 DEF NaType
      <4>. QED
        BY SMTT(60), <2>1, <3>3, <4>1
    <3>. QED
      BY <3>2, <3>3
  <2>. QED
    BY <2>2, <2>3
<1>2. na' = [k \in Ids |-> na'[k]]
  BY ZenonT(60) DEF Types
<1>3. ASSUME x \in Outstanding <=> na[i][j] \in Outstanding
      PROVE  \A k \in Ids : Out(k)' = Out(k)
  <2>1. \A k \in Ids, m \in 1..MaxOps :
          na'[k][m] \in Outstanding <=> na[k][m] \in Outstanding
    BY SMTT(60), <1>1, <1>3
  <2>. QED
    BY <2>1 DEF Out
<1>4. na' \in [Ids -> NaType]
  BY ZenonT(60), <1>1, <1>2
<1>. QED
  BY ZenonT(60), <1>1, <1>3, <1>4 DEF NaBecomes

-----------------------------------------------------------------------------
(* Steps of one identifier and its user *)

(* What the invariant says of identifier i and user t, when t is a user. *)
OfUser(t, i) ==
    /\ u[t].pc = "start" => /\ u[t].id = i /\ i \notin pending
                            /\ Unused(i) /\ u[t].got = 0
    /\ Waits(t) => /\ u[t].id = i /\ i \notin pending /\ i \notin trig
                   /\ op[i].by = t
                   /\ Queued(t, i) \/ Counted(t, i)
    /\ Unreported(t) => u[t].got = 0
OfId(i) ==
    /\ i \in pending => Unused(i)
    /\ queued[i] > 0 => Carries(i)
    /\ Out(i) # {} =>
        \/ Carries(i)
        \/ op[i].op_completed_count + Cardinality(Out(i)) < op[i].op_count
    /\ i \in trig => i \notin pending /\ queued[i] = 0 /\ Out(i) = {}
    /\ op[i].extra => op[i].op_count > StaticMax

(* The other users have nothing to do with i, nor t with other identifiers. *)
Apart(t, i) ==
    \A s \in Users : Waits(s) \/ u[s].pc = "start" => (s = t <=> u[s].id = i)

LEMMA Local ==
    ASSUME IInv, Types', NEW i \in Ids, NEW t \in Users \cup {NoId},
           Apart(t, i),
           \A k \in Ids \ {i} :
                /\ op'[k] = op[k] /\ queued'[k] = queued[k]
                /\ na'[k] = na[k]
                /\ k \in pending' <=> k \in pending
                /\ k \in trig' <=> k \in trig,
           \A s \in Users \ {t} : u'[s] = u[s],
           t \in Users => OfUser(t, i)', OfId(i)'
    PROVE  IInv'
<1>1. \A k \in Ids \ {i} : /\ Out(k)' = Out(k)
                           /\ Unused(k)' <=> Unused(k)
  BY DEF Out, Unused
<1>2. \A s \in Users \ {t} : /\ Waits(s)' <=> Waits(s)
                             /\ Left(s)' = Left(s)
                             /\ Unreported(s)' <=> Unreported(s)
  BY DEF Waits, Left, Unreported
<1>3. \A s \in Users \ {t}, k \in Ids \ {i} :
            /\ Queued(s, k)' <=> Queued(s, k)
            /\ Counted(s, k)' <=> Counted(s, k)
  BY <1>1, <1>2 DEF Queued, Counted
<1>4. \A k \in Ids \ {i} : Carries(k) => Carries(k)'
  <2>1. SUFFICES ASSUME NEW k \in Ids \ {i}, Carries(k)
                 PROVE  Carries(k)'
    OBVIOUS
  <2>2. op[k].by \in Users \ {t}
    BY <2>1 DEF Carries, Apart
  <2>. QED
    BY <1>2, <2>1, <2>2 DEF Carries
<1>5. PoolInv'
  <2>1. SUFFICES ASSUME NEW k \in Ids, k \in pending'
                 PROVE  Unused(k)'
    BY DEF PoolInv, Types
  <2>. QED
    BY <1>1, <2>1 DEF IInv, PoolInv, OfId
<1>6. StartInv'
  <2>1. ASSUME NEW s \in Users, u'[s].pc = "start"
        PROVE  /\ u'[s].id \in Ids /\ u'[s].id \notin pending'
               /\ Unused(u[s].id)' /\ u'[s].got = 0
               /\ u'[s].id = i <=> s = t
    <3>1. CASE s = t
      BY <2>1, <3>1 DEF OfUser
    <3>2. CASE s # t
      <4>1. u'[s] = u[s] /\ u[s].id \in Ids \ {i} /\ u[s].id \notin pending
        BY <2>1, <3>2 DEF IInv, StartInv, Apart
      <4>. QED
        BY <1>1, <2>1, <3>2, <4>1 DEF IInv, StartInv
    <3>. QED
      BY <3>1, <3>2
  <2>2. ASSUME NEW s \in Users, u'[s].pc = "start",
               NEW r \in Users \ {s}, u'[r].pc = "start"
        PROVE  u'[r].id # u'[s].id
    <3>1. CASE s = t \/ r = t
      BY <2>1, <2>2, <3>1
    <3>2. CASE s # t /\ r # t
      BY SMTT(60), <2>2, <3>2 DEF IInv, StartInv
    <3>. QED
      BY <3>1, <3>2
  <2>. QED
    BY <2>1, <2>2 DEF StartInv
<1>7. WaitInv'
  <2>1. SUFFICES ASSUME NEW s \in Users, Waits(s)'
                 PROVE  /\ u'[s].id \in Ids \ pending' /\ u'[s].id \notin trig'
                        /\ op'[u'[s].id].by = s
                        /\ Queued(s, u[s].id)' \/ Counted(s, u[s].id)'
    BY DEF WaitInv
  <2>2. CASE s = t
    BY <2>1, <2>2 DEF OfUser
  <2>3. CASE s # t
    <3>1. Waits(s) /\ u'[s] = u[s] /\ u[s].id \in Ids \ {i}
      BY <1>2, <2>1, <2>3 DEF IInv, WaitInv, Apart
    <3>2. /\ u[s].id \notin pending /\ u[s].id \notin trig /\ op[u[s].id].by = s
          /\ Queued(s, u[s].id) \/ Counted(s, u[s].id)
      BY <3>1 DEF IInv, WaitInv
    <3>3. Queued(s, u[s].id)' \/ Counted(s, u[s].id)'
      BY <1>3, <2>3, <3>1, <3>2
    <3>. QED
      BY <3>1, <3>2, <3>3
  <2>. QED
    BY <2>2, <2>3
<1>8. PostInv'
  <2>1. SUFFICES ASSUME NEW s \in Users, Unreported(s)'
                 PROVE  u'[s].got = 0
    BY DEF PostInv
  <2>. QED
    BY <1>2, <2>1 DEF IInv, PostInv, OfUser
<1>9. QueueInv' /\ FailedInv'
  BY <1>1, <1>4 DEF IInv, QueueInv, FailedInv, OfId
<1>10. TriggerInv' /\ ExtraInv'
  <2>1. ASSUME NEW k \in Ids
        PROVE  /\ k \in trig' => /\ k \notin pending' /\ queued'[k] = 0
                                 /\ Out(k)' = {}
               /\ op'[k].extra => op'[k].op_count > StaticMax
    BY <1>1 DEF IInv, TriggerInv, ExtraInv, OfId
  <2>. QED
    BY <2>1 DEF TriggerInv, ExtraInv, Types
<1>. QED
  BY <1>5, <1>6, <1>7, <1>8, <1>9, <1>10 DEF IInv

(* Which users are apart from an identifier. *)
LEMMA StartApart ==
    ASSUME IInv, NEW t \in Users, u[t].pc = "start"
    PROVE  /\ Apart(t, u[t].id) /\ u[t].id \in Ids /\ u[t].id \notin pending
           /\ Unused(u[t].id) /\ u[t].got = 0
<1>1. /\ u[t].id \in Ids /\ u[t].id \notin pending /\ Unused(u[t].id)
      /\ u[t].got = 0 /\ op[u[t].id].by = NoId
  BY DEF IInv, StartInv, Unused
<1>2. ASSUME NEW s \in Users \ {t}, Waits(s)
      PROVE  u[s].id # u[t].id
  BY <1>1, <1>2, ConstantsAssumption DEF IInv, WaitInv
<1>3. ASSUME NEW s \in Users \ {t}, u[s].pc = "start"
      PROVE  u[s].id # u[t].id
  BY <1>3 DEF IInv, StartInv
<1>. QED
  BY <1>1, <1>2, <1>3 DEF Apart

LEMMA WaitApart ==
    ASSUME IInv, NEW t \in Users, Waits(t)
    PROVE  /\ Apart(t, u[t].id) /\ u[t].id \in Ids /\ u[t].id \notin pending
           /\ u[t].id \notin trig /\ op[u[t].id].by = t
           /\ Queued(t, u[t].id) \/ Counted(t, u[t].id)
<1>1. /\ u[t].id \in Ids /\ u[t].id \notin pending
      /\ u[t].id \notin trig /\ op[u[t].id].by = t
      /\ Queued(t, u[t].id) \/ Counted(t, u[t].id)
  BY DEF IInv, WaitInv
<1>2. ASSUME NEW s \in Users \ {t}, Waits(s)
      PROVE  u[s].id # u[t].id
  BY <1>1, <1>2 DEF IInv, WaitInv
<1>3. ASSUME NEW s \in Users \ {t}, u[s].pc = "start"
      PROVE  u[s].id # u[t].id
  BY SMTT(60), <1>1, <1>3, ConstantsAssumption DEF IInv, StartInv, Unused
<1>. QED
  BY <1>1, <1>2, <1>3 DEF Apart

LEMMA NobodyApart ==
    ASSUME IInv, NEW i \in Ids, ~Unused(i), ~Carries(i)
    PROVE  Apart(NoId, i)
<1>1. ASSUME NEW s \in Users, Waits(s)
      PROVE  u[s].id # i
  BY <1>1 DEF IInv, WaitInv, Carries
<1>2. ASSUME NEW s \in Users, u[s].pc = "start"
      PROVE  u[s].id # i
  BY <1>2 DEF IInv, StartInv
<1>. QED
  BY <1>1, <1>2, ConstantsAssumption DEF Apart

LEMMA PoolGetStep ==
    ASSUME IInv, NEW t \in Users, PoolGet(t)
    PROVE  IInv'
<1>1. PICK i \in pending :
        pending' = pending \ {i} /\ u' = [u EXCEPT ![t].pc = "start", ![t].id = i]
  BY ZenonT(60) DEF PoolGet
<1>2. /\ op' = op /\ na' = na /\ queued' = queued /\ trig' = trig
      /\ u[t].pc = "get"
  BY DEF PoolGet, At
<1>3. i \in Ids /\ Unused(i)
  BY DEF IInv, Types, PoolInv
<1>4. Types'
  <2>1. u' \in [Users -> UserType]
    BY ZenonT(60), <1>1, <1>3 DEF IInv, Types, UserType
  <2>. QED
    BY <1>1, <1>2, <2>1 DEF IInv, Types
<1>5. /\ u'[t].pc = "start" /\ u'[t].id = i /\ u'[t].got = u[t].got
      /\ \A s \in Users \ {t} : u'[s] = u[s]
  BY <1>1 DEF IInv, Types, UserType
<1>6. u[t].got = 0
  BY <1>2 DEF IInv, PostInv, Unreported
<1>7. Apart(t, i)
  BY <1>2 DEF IInv, StartInv, WaitInv, Apart, Waits, InCancel
<1>8. Unused(i)' /\ i \notin pending'
  BY <1>1, <1>2, <1>3 DEF Unused, Out
<1>9. OfUser(t, i)'
  BY <1>5, <1>6, <1>8 DEF OfUser, Waits, Unreported, InCancel
<1>10. OfId(i)'
  BY SMTT(60), <1>8 DEF OfId, Unused
<1>. QED
  BY ZenonT(60), <1>1, <1>2, <1>3, <1>4, <1>5, <1>7, <1>9, <1>10, Local

LEMMA StartStep ==
    ASSUME IInv, NEW t \in Users, u[t].pc = "start", Types', na' = na,
           pending' = pending, trig' = trig,
           \A k \in Ids \ {u[t].id} : op'[k] = op[k] /\ queued'[k] = queued[k],
           \A s \in Users \ {t} : u'[s] = u[s],
           u'[t].pc = "post", u'[t].id = u[t].id, u'[t].got = u[t].got,
           op'[u[t].id].by = t,
           op'[u[t].id].extra => op'[u[t].id].op_count > StaticMax,
           \A i \in Ids : i = u[t].id => Queued(t, i)' \/ Counted(t, i)'
    PROVE  IInv'
<1>1. PICK i \in Ids : i = u[t].id
  BY StartApart
<1>2. Apart(t, i) /\ i \notin pending /\ Unused(i) /\ u[t].got = 0
  BY <1>1, StartApart
<1>3. Waits(t)' /\ Carries(i)'
  BY <1>1, <1>2 DEF Waits, Carries
<1>4. i \notin trig' /\ Out(i)' = {} /\ i \notin pending'
  BY <1>2 DEF Unused, Out
<1>5. OfUser(t, i)'
  BY <1>1, <1>2, <1>3, <1>4 DEF OfUser
<1>6. OfId(i)'
  BY <1>1, <1>3, <1>4 DEF OfId
<1>. QED
  BY <1>1, <1>2, <1>5, <1>6, Local

LEMMA ResetFields ==
    ASSUME Types, NEW i \in Ids, NEW t \in Users, NEW k \in Nat
    PROVE  /\ Reset(i, t, k) \in OpType
           /\ Reset(i, t, k).op_count = k
           /\ Reset(i, t, k).op_completed_count = 0
           /\ Reset(i, t, k).by = t /\ Reset(i, t, k).extra = op[i].extra
<1>1. op[i] \in OpType
  BY OpFields
<1>. QED
  BY ZenonT(60), <1>1 DEF Reset, OpType, Results

LEMMA CompleteFields ==
    ASSUME NEW o \in OpType, NEW r \in Results
    PROVE  /\ Complete(o, r) \in OpType
           /\ Complete(o, r).op_count = o.op_count
           /\ Complete(o, r).op_completed_count = o.op_completed_count
           /\ Complete(o, r).by = o.by /\ Complete(o, r).extra = o.extra
<1>. DEFINE x == o.status \cup {"COMPLETED"}
<1>1. x \in SUBSET Marks
  BY DEF OpType, Marks
<1>2. Complete(o, r) = [o EXCEPT !.status = x, !.ret = r]
  BY DEF Complete
<1>. HIDE DEF x
<1>. QED
  BY ZenonT(60), <1>1, <1>2 DEF OpType

(* The step stores n in the identifier i and q in its count of the queue. *)
LEMMA OpSet ==
    ASSUME Types, NEW i \in Ids, NEW n \in OpType, op' = [op EXCEPT ![i] = n]
    PROVE  /\ op' \in [Ids -> OpType] /\ op'[i] = n
           /\ \A k \in Ids \ {i} : op'[k] = op[k]
  BY DEF Types

LEMMA QueueSet ==
    ASSUME Types, NEW i \in Ids, NEW q \in Nat, queued' = [queued EXCEPT ![i] = q]
    PROVE  /\ queued' \in [Ids -> Nat] /\ queued'[i] = q
           /\ \A k \in Ids \ {i} : queued'[k] = queued[k]
  BY DEF Types

LEMMA UserPosts ==
    ASSUME Types, NEW t \in Users, NEW k \in Nat,
           u' = [u EXCEPT ![t].pc = "post", ![t].left = k]
    PROVE  /\ u' \in [Users -> UserType]
           /\ u'[t].pc = "post" /\ u'[t].left = k
           /\ u'[t].id = u[t].id /\ u'[t].got = u[t].got
           /\ \A s \in Users \ {t} : u'[s] = u[s]
  BY ZenonT(60) DEF Types, UserType

LEMMA StartSelfStep ==
    ASSUME IInv, NEW t \in Users, StartSelf(t)
    PROVE  IInv'
<1>0. u[t].pc = "start" /\ Types
  BY DEF StartSelf, At, IInv
<1>1. PICK i \in Ids : i = u[t].id
  BY <1>0, StartApart
<1>2. Unused(i)
  BY <1>0, <1>1, StartApart
<1>3. PICK k \in 0..1 : op' = [op EXCEPT ![i] = Complete(Reset(i, t, k), "SUCCESS")]
  BY ZenonT(60), <1>1 DEF StartSelf
<1>. DEFINE n == Complete(Reset(i, t, k), "SUCCESS")
<1>4. n \in OpType /\ n.by = t /\ n.extra = FALSE
  <2>1. Reset(i, t, k) \in OpType /\ Reset(i, t, k).by = t
        /\ Reset(i, t, k).extra = FALSE
    BY SMTT(60), <1>0, <1>2, ResetFields, OpFields DEF Unused
  <2>. QED
    BY <2>1, CompleteFields DEF Results
<1>. HIDE DEF n
<1>5. op' = [op EXCEPT ![i] = n]
  BY <1>3 DEF n
<1>6. /\ op' \in [Ids -> OpType] /\ op'[i] = n
      /\ \A j \in Ids \ {i} : op'[j] = op[j]
  BY ZenonT(60), <1>0, <1>4, <1>5, OpSet
<1>7. queued' = [queued EXCEPT ![i] = 1]
  <2>1. queued' = [queued EXCEPT ![i] = queued[i] + 1] /\ queued[i] = 0
    BY <1>1, <1>2 DEF StartSelf, Unused
  <2>. QED
    BY SMTT(60), <2>1
<1>8. /\ queued' \in [Ids -> Nat] /\ queued'[i] = 1
      /\ \A j \in Ids \ {i} : queued'[j] = queued[j]
  BY ZenonT(60), <1>0, <1>7, QueueSet
<1>9. /\ u' \in [Users -> UserType]
      /\ u'[t].pc = "post" /\ u'[t].left = 0
      /\ u'[t].id = u[t].id /\ u'[t].got = u[t].got
      /\ \A s \in Users \ {t} : u'[s] = u[s]
  BY ZenonT(60), <1>0, UserPosts DEF StartSelf
<1>10. na' = na /\ pending' = pending /\ trig' = trig
  BY DEF StartSelf
<1>11. Types'
  BY <1>0, <1>6, <1>8, <1>9, <1>10 DEF Types
<1>12. Queued(t, i)'
  BY <1>2, <1>8, <1>9, <1>10 DEF Queued, Unused, Out, Left
<1>. QED
  BY <1>0, <1>1, <1>4, <1>6, <1>8, <1>9, <1>10, <1>11, <1>12, StartStep

LEMMA StartNaStep ==
    ASSUME SetFacts, IInv, NEW t \in Users, StartNa(t)
    PROVE  IInv'
<1>0. u[t].pc = "start" /\ Types /\ MaxOps \in Nat /\ StaticMax \in Nat
  BY ConstantsAssumption DEF StartNa, At, IInv
<1>1. PICK i \in Ids : i = u[t].id
  BY <1>0, StartApart
<1>2. Unused(i)
  BY <1>0, <1>1, StartApart
<1>3. PICK k \in 1..MaxOps :
        /\ op' = [op EXCEPT ![i] = [Reset(i, t, k) EXCEPT !.extra = k > StaticMax]]
        /\ u' = [u EXCEPT ![t].pc = "post", ![t].left = k]
  BY ZenonT(60), <1>1 DEF StartNa
<1>. DEFINE n == [Reset(i, t, k) EXCEPT !.extra = k > StaticMax]
<1>4. k \in Nat
  BY SMTT(60), <1>0
<1>5. /\ n \in OpType /\ n.by = t /\ n.op_count = k /\ n.op_completed_count = 0
      /\ n.extra => k > StaticMax
  <2>1. /\ Reset(i, t, k) \in OpType /\ Reset(i, t, k).by = t
        /\ Reset(i, t, k).op_count = k /\ Reset(i, t, k).op_completed_count = 0
    BY SMTT(60), <1>0, <1>4, ResetFields
  <2>2. (k > StaticMax) \in BOOLEAN
    BY SMTT(60), <1>0, <1>4
  <2>. QED
    BY ZenonT(60), <2>1, <2>2 DEF OpType
<1>. HIDE DEF n
<1>6. op' = [op EXCEPT ![i] = n]
  BY <1>3 DEF n
<1>7. /\ op' \in [Ids -> OpType] /\ op'[i] = n
      /\ \A j \in Ids \ {i} : op'[j] = op[j]
  BY ZenonT(60), <1>0, <1>5, <1>6, OpSet
<1>8. /\ u' \in [Users -> UserType]
      /\ u'[t].pc = "post" /\ u'[t].left = k
      /\ u'[t].id = u[t].id /\ u'[t].got = u[t].got
      /\ \A s \in Users \ {t} : u'[s] = u[s]
  BY ZenonT(60), <1>0, <1>3, <1>4, UserPosts
<1>9. na' = na /\ pending' = pending /\ trig' = trig /\ queued' = queued
  BY DEF StartNa
<1>10. Types'
  BY <1>0, <1>7, <1>8, <1>9 DEF Types
<1>11. Counted(t, i)'
  <2>1. Out(i)' = {} /\ Left(t)' = k /\ queued'[i] = 0 /\ Cardinality(Out(i)') = 0
    BY <1>2, <1>8, <1>9 DEF SetFacts, EmptyFact, Unused, Out, Left
  <2>2. \A j \in 1..MaxOps : na'[i][j] = "idle"
    BY <1>0, <1>2, <1>9, NaStates DEF Unused
  <2>. QED
    BY SMTT(60), <1>0, <1>4, <1>5, <1>7, <2>1, <2>2 DEF Counted
<1>. QED
  BY <1>0, <1>1, <1>5, <1>7, <1>8, <1>9, <1>10, <1>11, StartStep

(* A user with something left to post waits, and its transfer is counted. *)
LEMMA Posting ==
    ASSUME IInv, NEW t \in Users, u[t].pc = "post", u[t].left > 0
    PROVE  /\ Waits(t) /\ u[t].id \in Ids /\ Counted(t, u[t].id)
           /\ Left(t) = u[t].left /\ u[t].left \in Nat
<1>1. Waits(t)
  BY DEF IInv, PostInv, Unreported, Waits
<1>2. Left(t) = u[t].left /\ u[t].left \in Nat
  BY UserFields DEF Left, IInv
<1>. QED
  BY SMTT(60), <1>1, <1>2, WaitApart DEF Queued

LEMMA PostFailsStep ==
    ASSUME SetFacts, IInv, NEW t \in Users, PostFails(t)
    PROVE  IInv'
<1>1. /\ op' = op /\ na' = na /\ pending' = pending /\ queued' = queued
      /\ trig' = trig /\ u[t].pc = "post" /\ u[t].left > 0
      /\ u' = [u EXCEPT ![t].pc = "idle"]
  BY DEF PostFails, At, Goto
<1>2. PICK i \in Ids : i = u[t].id
  BY <1>1, Posting
<1>3. /\ Apart(t, i) /\ i \notin pending /\ i \notin trig
      /\ Counted(t, i) /\ Left(t) > 0 /\ Left(t) \in Nat
  BY <1>1, <1>2, Posting, WaitApart
<1>4. Types'
  BY <1>1 DEF IInv, Types, UserType
<1>5. u'[t].pc = "idle" /\ \A s \in Users \ {t} : u'[s] = u[s]
  BY <1>1 DEF IInv, Types, UserType
<1>6. OfUser(t, i)'
  BY <1>5 DEF OfUser, Waits, Unreported, InCancel
<1>7. Out(i)' = Out(i) /\ queued[i] = 0
  BY <1>1, <1>3 DEF Out, Counted
<1>8. op[i].op_completed_count + Cardinality(Out(i)) < op[i].op_count
  <2>1. /\ op[i].op_completed_count \in Nat /\ op[i].op_count \in Nat
        /\ Cardinality(Out(i)) \in Nat
    BY OpFields, OutCount DEF IInv
  <2>. QED
    BY SMTT(60), <1>3, <2>1 DEF Counted
<1>9. OfId(i)'
  <2>1. op[i].extra => op[i].op_count > StaticMax
    BY DEF IInv, ExtraInv
  <2>. QED
    BY SMTT(60), <1>1, <1>3, <1>7, <1>8, <2>1 DEF OfId
<1>. QED
  BY <1>1, <1>3, <1>4, <1>5, <1>6, <1>9, Local

LEMMA PostStep ==
    ASSUME SetFacts, IInv, NEW t \in Users, Post(t)
    PROVE  IInv'
<1>1. /\ op' = op /\ pending' = pending /\ queued' = queued /\ trig' = trig
      /\ u[t].pc = "post" /\ u[t].left > 0 /\ Types
  BY DEF Post, At, IInv
<1>2. PICK i \in Ids : i = u[t].id
  BY <1>1, Posting
<1>3. /\ Apart(t, i) /\ i \notin pending /\ i \notin trig /\ op[i].by = t
      /\ Counted(t, i) /\ Waits(t) /\ Left(t) = u[t].left
  BY <1>1, <1>2, Posting, WaitApart
<1>4. /\ op[i].op_completed_count \in Nat /\ op[i].op_count \in Nat
      /\ Cardinality(Out(i)) \in Nat /\ u[t].left \in Nat
  BY <1>1, OpFields, OutCount, UserFields
<1>5. PICK j \in 1..MaxOps : j = op[i].op_count - u[t].left + 1
  <2>1. op[i].op_count - u[t].left + 1 \in 1..MaxOps
    BY SMTT(60), <1>1, <1>3, <1>4, ConstantsAssumption DEF Counted
  <2>. QED
    BY <2>1
<1>6. PICK k \in Nat : k = u[t].left - 1
  BY SMTT(60), <1>1, <1>4
<1>7. na' = [na EXCEPT ![i][j] = "posted"] /\ u' = [u EXCEPT ![t].left = k]
  BY <1>2, <1>5, <1>6 DEF Post
<1>8. /\ na' \in [Ids -> NaType]
      /\ na'[i][j] = "posted"
      /\ \A a \in Ids, m \in 1..MaxOps :
            a # i \/ m # j => na'[a][m] = na[a][m]
  <2>1. "posted" \in {"idle"} \cup Outstanding
    BY DEF Outstanding
  <2>2. NaBecomes(i, j, "posted")
    BY ZenonT(60), <1>1, <1>7, <2>1, NaSet
  <2>. QED
    BY <2>2 DEF NaBecomes
<1>9. \A a \in Ids \ {i} : na'[a] = na[a]
  BY <1>1, <1>7 DEF Types
<1>10. /\ u' \in [Users -> UserType] /\ u'[t].pc = "post" /\ u'[t].left = k
       /\ u'[t].id = i /\ u'[t].got = u[t].got
       /\ \A s \in Users \ {t} : u'[s] = u[s]
  BY <1>1, <1>2, <1>7 DEF Types, UserType
<1>11. Types'
  BY <1>1, <1>8, <1>10 DEF Types
<1>12. na[i][j] = "idle" /\ j \notin Out(i)
  <2>1. na[i][j] = "idle"
    BY SMTT(60), <1>3, <1>4, <1>5 DEF Counted
  <2>. QED
    BY <1>1, <2>1, NaStates
<1>13. Out(i)' = Out(i) \cup {j}
  BY <1>8 DEF Out, Outstanding
<1>14. Cardinality(Out(i)') = Cardinality(Out(i)) + 1
  BY <1>12, <1>13, OutAdd
<1>15. Left(t)' = k /\ Waits(t)' /\ u'[t].got = 0 /\ Carries(i)'
  BY <1>1, <1>3, <1>10 DEF Left, Waits, Carries
<1>16. Counted(t, i)'
  <2>1. \A m \in 1..MaxOps : m > op[i].op_count - k => na'[i][m] = "idle"
    <3>1. TAKE m \in 1..MaxOps
    <3>2. HAVE m > op[i].op_count - k
    <3>3. m > op[i].op_count - u[t].left /\ m # j
      BY SMTT(60), <1>4, <1>5, <1>6, <3>2
    <3>. QED
      BY <1>3, <1>8, <3>3 DEF Counted
  <2>2. op[i].op_completed_count + (Cardinality(Out(i)) + 1) + k = op[i].op_count
    BY SMTT(60), <1>3, <1>4, <1>6 DEF Counted
  <2>. QED
    BY <1>1, <1>3, <1>14, <1>15, <2>1, <2>2 DEF Counted
<1>17. OfUser(t, i)'
  BY <1>1, <1>3, <1>10, <1>15, <1>16 DEF OfUser
<1>18. OfId(i)'
  <2>1. op[i].extra => op[i].op_count > StaticMax
    BY DEF IInv, ExtraInv
  <2>. QED
    BY <1>1, <1>3, <1>15, <2>1 DEF OfId
<1>. QED
  BY <1>1, <1>3, <1>9, <1>10, <1>11, <1>17, <1>18, Local

-----------------------------------------------------------------------------
(* Steps without an effect on the counts *)

(* NaStates in the next state. *)
LEMMA NaStatesNext ==
    ASSUME Types', NEW i \in Ids, NEW j \in 1..MaxOps
    PROVE  na'[i][j] = "idle" <=> j \notin Out(i)'
  BY ZenonT(60) DEF Types, NaType, Out, Outstanding

(* A step that starts, posts, counts, reports and releases nothing. *)
LEMMA Frame ==
    ASSUME IInv, Types', pending' = pending, trig' = trig, queued' = queued,
           \A i \in Ids :
                /\ op'[i].op_count = op[i].op_count
                /\ op'[i].op_completed_count = op[i].op_completed_count
                /\ op'[i].extra = op[i].extra /\ op'[i].by = op[i].by
                /\ Out(i)' = Out(i),
           \A t \in Users :
                /\ Waits(t)' <=> Waits(t)
                /\ u'[t].pc = "start" <=> u[t].pc = "start"
                /\ Waits(t) \/ u[t].pc = "start" => u'[t].id = u[t].id
                /\ u[t].pc = "start" => u'[t].got = u[t].got
                /\ Waits(t) => Left(t)' = Left(t),
           PostInv'
    PROVE  IInv'
<1>1. \A i \in Ids : Unused(i)' <=> Unused(i)
  BY DEF Unused
<1>2. PoolInv' /\ TriggerInv' /\ ExtraInv'
  BY <1>1 DEF IInv, Types, PoolInv, TriggerInv, ExtraInv
<1>3. StartInv'
  BY SMTT(60), <1>1 DEF IInv, StartInv
<1>4. \A i \in Ids, j \in 1..MaxOps : na'[i][j] = "idle" <=> na[i][j] = "idle"
  <2>1. TAKE i \in Ids, j \in 1..MaxOps
  <2>2. na'[i][j] = "idle" <=> j \notin Out(i)'
    BY NaStatesNext
  <2>. QED
    BY <2>2, NaStates DEF IInv
<1>5. ASSUME NEW t \in Users, Waits(t), NEW i \in Ids
      PROVE  (Queued(t, i)' <=> Queued(t, i)) /\ (Counted(t, i)' <=> Counted(t, i))
  BY <1>4, <1>5 DEF Queued, Counted
<1>6. WaitInv'
  BY SMTT(60), <1>5 DEF IInv, WaitInv
<1>7. \A i \in Ids : Carries(i)' <=> Carries(i)
  BY DEF Carries
<1>8. QueueInv' /\ FailedInv'
  BY <1>7 DEF IInv, QueueInv, FailedInv
<1>. QED
  BY <1>2, <1>3, <1>6, <1>8 DEF IInv

LEMMA BeginStep ==
    ASSUME IInv, NEW t \in Users, Begin(t)
    PROVE  IInv'
<1>1. /\ op' = op /\ na' = na /\ pending' = pending /\ queued' = queued
      /\ trig' = trig /\ ~Waits(t) /\ u[t].pc # "start"
  BY SMTT(60) DEF Begin, At, Waits, InCancel
<1>2. u' = [u EXCEPT ![t] = [pc |-> "get", id |-> NoId, left |-> 0,
                             asked |-> FALSE, canceled |-> FALSE, got |-> 0]]
  BY DEF Begin
<1>3. Types'
  BY <1>1, <1>2 DEF IInv, Types, UserType
<1>4. u'[t].pc = "get" /\ u'[t].got = 0 /\ \A s \in Users \ {t} : u'[s] = u[s]
  BY <1>2 DEF IInv, Types
<1>5. PostInv'
  BY <1>4 DEF IInv, PostInv, Unreported
<1>6. \A s \in Users :
        /\ Waits(s)' <=> Waits(s)
        /\ u'[s].pc = "start" <=> u[s].pc = "start"
        /\ s # t => Left(s)' = Left(s)
  BY SMTT(60), <1>1, <1>4 DEF Waits, Left, InCancel
<1>7. \A i \in Ids : Out(i)' = Out(i)
  BY <1>1 DEF Out
<1>8. \A s \in Users :
        /\ Waits(s) \/ u[s].pc = "start" => u'[s] = u[s]
        /\ Waits(s) => Left(s)' = Left(s)
  BY <1>1, <1>4, <1>6
<1>. QED
  BY <1>1, <1>3, <1>5, <1>6, <1>7, <1>8, Frame

LEMMA PoolFailsStep ==
    ASSUME IInv, NEW t \in Users, PoolFails(t)
    PROVE  IInv'
<1>1. /\ op' = op /\ na' = na /\ pending' = pending /\ queued' = queued
      /\ trig' = trig /\ u[t].pc = "get" /\ u' = [u EXCEPT ![t].pc = "idle"]
  BY DEF PoolFails, At, Goto
<1>2. Types'
  BY <1>1 DEF IInv, Types, UserType
<1>3. u'[t].pc = "idle" /\ \A s \in Users \ {t} : u'[s] = u[s]
  BY <1>1 DEF IInv, Types, UserType
<1>4. PostInv'
  BY <1>3 DEF IInv, PostInv, Unreported
<1>5. \A s \in Users :
        /\ Waits(s)' <=> Waits(s)
        /\ u'[s].pc = "start" <=> u[s].pc = "start"
        /\ s # t => Left(s)' = Left(s)
  BY SMTT(60), <1>1, <1>3 DEF Waits, Left, InCancel
<1>6. ~Waits(t) /\ u[t].pc # "start"
  BY <1>1 DEF Waits, InCancel
<1>7. \A i \in Ids : Out(i)' = Out(i)
  BY <1>1 DEF Out
<1>8. \A s \in Users :
        /\ Waits(s) \/ u[s].pc = "start" => u'[s] = u[s]
        /\ Waits(s) => Left(s)' = Left(s)
  BY <1>1, <1>3, <1>5, <1>6
<1>. QED
  BY <1>1, <1>2, <1>4, <1>5, <1>7, <1>8, Frame

(* A user that waits moves on inside transfer or cancel. *)
LEMMA WaiterMoves ==
    ASSUME IInv, NEW t \in Users, Types', pending' = pending, trig' = trig,
           queued' = queued,
           \A i \in Ids :
                /\ op'[i].op_count = op[i].op_count
                /\ op'[i].op_completed_count = op[i].op_completed_count
                /\ op'[i].extra = op[i].extra /\ op'[i].by = op[i].by
                /\ Out(i)' = Out(i),
           \A s \in Users \ {t} : u'[s] = u[s],
           u'[t].id = u[t].id, u'[t].got = u[t].got,
           u[t].pc \in {"post", "posted"} \cup InCancel,
           u'[t].pc \in {"posted"} \cup InCancel,
           Left(t) = 0
    PROVE  IInv'
<1>1. PostInv'
  BY DEF IInv, PostInv, Unreported, InCancel
<1>3. Left(t)' = 0 /\ u'[t].pc # "start" /\ u[t].pc # "start"
  BY DEF Left, InCancel
<1>4. Waits(t)' <=> Waits(t)
  BY DEF Waits
<1>2. \A s \in Users :
        /\ Waits(s)' <=> Waits(s)
        /\ u'[s].pc = "start" <=> u[s].pc = "start"
        /\ Left(s)' = Left(s)
        /\ u'[s].id = u[s].id /\ u'[s].got = u[s].got
  <2>1. TAKE s \in Users
  <2>2. CASE s = t
    BY <1>3, <1>4, <2>2
  <2>3. CASE s # t
    BY <2>3 DEF Waits, Left
  <2>. QED
    BY <2>2, <2>3
<1>. QED
  BY <1>1, <1>2, Frame

LEMMA PostDoneStep ==
    ASSUME IInv, NEW t \in Users, PostDone(t)
    PROVE  IInv'
<1>1. /\ op' = op /\ na' = na /\ pending' = pending /\ queued' = queued
      /\ trig' = trig /\ u[t].pc = "post" /\ u[t].left = 0
      /\ u' = [u EXCEPT ![t].pc = "posted"]
  BY DEF PostDone, At, Goto
<1>2. Types'
  BY <1>1 DEF IInv, Types, UserType
<1>3. /\ u'[t].pc = "posted" /\ u'[t].id = u[t].id /\ u'[t].got = u[t].got
      /\ \A s \in Users \ {t} : u'[s] = u[s]
  BY <1>1 DEF IInv, Types, UserType
<1>. QED
  BY <1>1, <1>2, <1>3, WaiterMoves DEF Out, Left

LEMMA CancelTestStep ==
    ASSUME IInv, NEW t \in Users, CancelTest(t)
    PROVE  IInv'
<1>1. PICK pc \in {"posted", "mark"} :
        u' = [u EXCEPT ![t].asked = TRUE, ![t].pc = pc]
  BY ZenonT(60) DEF CancelTest, At
<1>2. /\ op' = op /\ na' = na /\ pending' = pending /\ queued' = queued
      /\ trig' = trig /\ u[t].pc = "posted"
  BY DEF CancelTest, At
<1>3. Types'
  <2>1. u' \in [Users -> UserType]
    BY ZenonT(60), <1>1 DEF IInv, Types, UserType, InCancel
  <2>. QED
    BY <1>2, <2>1 DEF IInv, Types
<1>4. /\ u'[t].pc = pc /\ u'[t].id = u[t].id /\ u'[t].got = u[t].got
      /\ \A s \in Users \ {t} : u'[s] = u[s]
  BY <1>1 DEF IInv, Types, UserType
<1>. QED
  BY <1>2, <1>3, <1>4, WaiterMoves DEF Out, Left, InCancel

LEMMA CancelMarkStep ==
    ASSUME IInv, NEW t \in Users, CancelMark(t)
    PROVE  IInv'
<1>1. PICK pc \in {"posted", "cancel"}, k \in Nat :
        u' = [u EXCEPT ![t].canceled = TRUE, ![t].left = k, ![t].pc = pc]
  BY ZenonT(60) DEF CancelMark, At
<1>2. /\ na' = na /\ pending' = pending /\ queued' = queued
      /\ trig' = trig /\ u[t].pc = "mark"
      /\ op' = [op EXCEPT ![u[t].id].status = @ \cup {"CANCELED"}]
  BY DEF CancelMark, At
<1>3. /\ u' \in [Users -> UserType]
      /\ u'[t].pc = pc /\ u'[t].id = u[t].id /\ u'[t].got = u[t].got
      /\ \A s \in Users \ {t} : u'[s] = u[s]
  <2>1. u'[t] = [u[t] EXCEPT !.canceled = TRUE, !.left = k, !.pc = pc]
    BY <1>1 DEF IInv, Types
  <2>2. u'[t] \in UserType /\ u'[t].pc = pc /\ u'[t].id = u[t].id
        /\ u'[t].got = u[t].got
    BY ZenonT(60), <2>1, UserFields DEF IInv, UserType, InCancel
  <2>3. \A s \in Users \ {t} : u'[s] = u[s]
    BY <1>1 DEF IInv, Types
  <2>4. u' = [s \in Users |-> u'[s]]
    BY ZenonT(60), <1>1 DEF IInv, Types
  <2>. QED
    BY <2>2, <2>3, <2>4 DEF IInv, Types
<1>4. /\ op' \in [Ids -> OpType]
      /\ \A i \in Ids :
            /\ op'[i].op_count = op[i].op_count
            /\ op'[i].op_completed_count = op[i].op_completed_count
            /\ op'[i].extra = op[i].extra /\ op'[i].by = op[i].by
  <2>1. ASSUME NEW i \in Ids
        PROVE  /\ op'[i] \in OpType
               /\ op'[i].op_count = op[i].op_count
               /\ op'[i].op_completed_count = op[i].op_completed_count
               /\ op'[i].extra = op[i].extra /\ op'[i].by = op[i].by
    <3>1. op[i] \in OpType
      BY OpFields DEF IInv
    <3>2. CASE i # u[t].id
      BY <1>2, <3>1, <3>2 DEF IInv, Types
    <3>3. CASE i = u[t].id
      <4>. DEFINE x == op[i].status \cup {"CANCELED"}
      <4>1. op'[i] = [op[i] EXCEPT !.status = x]
        BY ZenonT(60), <1>2, <3>3 DEF IInv, Types
      <4>2. x \in SUBSET Marks
        BY <3>1 DEF OpType, Marks
      <4>. HIDE DEF x
      <4>. QED
        BY SMTT(60), <4>1, <4>2, <3>1, OpStatus
    <3>. QED
      BY <3>2, <3>3
  <2>2. op' = [i \in Ids |-> op'[i]]
    BY ZenonT(60), <1>2 DEF IInv, Types
  <2>. QED
    BY <2>1, <2>2
<1>5. Types'
  BY <1>2, <1>3, <1>4 DEF IInv, Types
<1>. QED
  BY <1>2, <1>3, <1>4, <1>5, WaiterMoves DEF Out, Left, InCancel

LEMMA NaEndsStep ==
    ASSUME IInv, NEW i \in Ids, NEW j \in 1..MaxOps, NEW r \in Results,
           NaEnds(i, j, r)
    PROVE  IInv'
<1>1. /\ u' = u /\ pending' = pending /\ queued' = queued /\ trig' = trig
      /\ na[i][j] \in {"posted", "canceling"}
      /\ op' = [op EXCEPT ![i] = Note(op[i], r)]
      /\ na' = [na EXCEPT ![i][j] = "counting"]
  BY DEF NaEnds, IInv, Types
<1>2. na' \in [Ids -> NaType] /\ \A k \in Ids : Out(k)' = Out(k)
  BY ZenonT(60), <1>1, NaSet DEF IInv, Outstanding, NaBecomes
<1>3. op[i] \in OpType
  BY OpFields DEF IInv
<1>4. /\ Note(op[i], r) \in OpType
      /\ Note(op[i], r).op_count = op[i].op_count
      /\ Note(op[i], r).op_completed_count = op[i].op_completed_count
      /\ Note(op[i], r).extra = op[i].extra /\ Note(op[i], r).by = op[i].by
  <2>1. PICK x \in SUBSET Marks, y \in Results, z \in SUBSET Results :
          Note(op[i], r) = [op[i] EXCEPT !.status = x, !.ret_status = y, !.ends = z]
    <3>1. /\ op[i].status \cup (IF r = "ERROR" THEN {"ERRORED"} ELSE {})
                \in SUBSET Marks
          /\ (IF op[i].ret_status = "SUCCESS" THEN r ELSE op[i].ret_status)
                \in Results
          /\ op[i].ends \cup {r} \in SUBSET Results
      BY <1>3 DEF OpType, Marks
    <3>. QED
      BY ZenonT(60), <3>1 DEF Note
  <2>. QED
    BY ZenonT(60), <1>3, <2>1 DEF OpType
<1>5. \A k \in Ids : op'[k] = IF k = i THEN Note(op[i], r) ELSE op[k]
  BY <1>1 DEF IInv, Types
<1>6. op' \in [Ids -> OpType]
  BY <1>1, <1>4 DEF IInv, Types
<1>7. Types'
  BY <1>1, <1>2, <1>6 DEF IInv, Types
<1>8. PostInv'
  BY <1>1 DEF IInv, PostInv, Unreported
<1>9. \A t \in Users : (Waits(t)' <=> Waits(t)) /\ Left(t)' = Left(t)
  BY <1>1 DEF Waits, Left
<1>10. \A k \in Ids : /\ op'[k].op_count = op[k].op_count
                      /\ op'[k].op_completed_count = op[k].op_completed_count
                      /\ op'[k].extra = op[k].extra /\ op'[k].by = op[k].by
  BY <1>4, <1>5
<1>. QED
  BY <1>1, <1>2, <1>7, <1>8, <1>9, <1>10, Frame

LEMMA CancelNaStep ==
    ASSUME IInv, NEW t \in Users, CancelNa(t)
    PROVE  IInv'
<1>. DEFINE i == u[t].id
            j == u[t].left
            x == IF na[i][j] = "posted" THEN "canceling" ELSE na[i][j]
<1>1. /\ op' = op /\ pending' = pending /\ queued' = queued /\ trig' = trig
      /\ u[t].pc = "cancel"
      /\ na' = na \/ na' = [na EXCEPT ![i][j] = x]
      /\ u' = [u EXCEPT ![t].pc = "posted"] \/ u' = [u EXCEPT ![t].left = j + 1]
  BY DEF CancelNa, At, Goto
<1>2. /\ u' \in [Users -> UserType]
      /\ u'[t].pc \in {"posted", "cancel"} /\ u'[t].id = u[t].id
      /\ u'[t].got = u[t].got /\ \A s \in Users \ {t} : u'[s] = u[s]
  <2>1. PICK pc \in {"posted", "cancel"}, k \in Nat :
          u' = [u EXCEPT ![t].pc = pc, ![t].left = k]
    <3>1. u[t].left \in Nat /\ u[t].left + 1 \in Nat
      BY SMTT(60), UserFields DEF IInv
    <3>2. CASE u' = [u EXCEPT ![t].pc = "posted"]
      <4>1. u' = [u EXCEPT ![t].pc = "posted", ![t].left = u[t].left]
        BY ZenonT(60), <3>2 DEF IInv, Types, UserType
      <4>. QED
        BY ZenonT(60), <3>1, <4>1
    <3>3. CASE u' = [u EXCEPT ![t].left = j + 1]
      <4>1. u' = [u EXCEPT ![t].pc = "cancel", ![t].left = u[t].left + 1]
        BY ZenonT(60), <1>1, <3>3 DEF IInv, Types, UserType
      <4>. QED
        BY ZenonT(60), <3>1, <4>1
    <3>. QED
      BY <1>1, <3>2, <3>3
  <2>. QED
    BY ZenonT(60), <2>1 DEF IInv, Types, UserType, InCancel
<1>3. na' \in [Ids -> NaType] /\ \A k \in Ids : Out(k)' = Out(k)
  <2>1. CASE na' = na
    BY <2>1 DEF IInv, Types, Out
  <2>2. CASE na' = [na EXCEPT ![i][j] = x]
    <3>1. /\ i \in Ids /\ j \in 1..MaxOps => x \in {"idle"} \cup Outstanding
          /\ x \in Outstanding <=> na[i][j] \in Outstanding
      BY ZenonT(60) DEF IInv, Types, NaType, Outstanding
    <3>. HIDE DEF i, j, x
    <3>. QED
      BY ZenonT(60), <2>2, <3>1, NaSet DEF IInv, NaBecomes
  <2>. QED
    BY <1>1, <2>1, <2>2
<1>4. Types'
  BY <1>1, <1>2, <1>3 DEF IInv, Types
<1>. QED
  BY <1>1, <1>2, <1>3, <1>4, WaiterMoves DEF Left, InCancel

-----------------------------------------------------------------------------
(* Counted operations, trigger and release *)

(* The part of a counted operation that does not depend on its transfer. *)
LEMMA CountEffect ==
    ASSUME SetFacts, IInv, NEW i \in Ids, NEW j \in 1..MaxOps, Count(i, j)
    PROVE  /\ j \in Out(i) /\ Out(i)' = Out(i) \ {j}
           /\ Cardinality(Out(i)') = Cardinality(Out(i)) - 1
           /\ Cardinality(Out(i)) \in Nat \ {0}
           /\ Types' /\ u' = u /\ pending' = pending /\ trig' = trig
           /\ \A m \in 1..MaxOps : na[i][m] = "idle" => na'[i][m] = "idle"
           /\ \A k \in Ids \ {i} : /\ op'[k] = op[k] /\ queued'[k] = queued[k]
                                   /\ na'[k] = na[k]
           /\ op'[i].op_count = op[i].op_count /\ op'[i].by = op[i].by
           /\ op'[i].extra = op[i].extra
           /\ op'[i].op_completed_count = op[i].op_completed_count + 1
           /\ IF op[i].op_completed_count + 1 = op[i].op_count
              THEN queued'[i] = queued[i] + 1 ELSE queued'[i] = queued[i]
<1>1. /\ Types /\ na[i][j] = "counting" /\ na' = [na EXCEPT ![i][j] = "idle"]
      /\ u' = u /\ pending' = pending /\ trig' = trig
  BY DEF Count, IInv
<1>2. /\ op[i] \in OpType /\ op[i].op_completed_count \in Nat /\ queued[i] \in Nat
      /\ op[i].op_completed_count + 1 \in Nat /\ queued[i] + 1 \in Nat
  BY SMTT(60), <1>1, OpFields
<1>. DEFINE done == op[i].op_completed_count + 1
            c == [op[i] EXCEPT !.op_completed_count = done]
<1>3. /\ c \in OpType /\ c.op_count = op[i].op_count /\ c.by = op[i].by
      /\ c.extra = op[i].extra /\ c.op_completed_count = done
      /\ c.ret_status \in Results
  <2>. HIDE DEF done
  <2>1. done \in Nat
    BY <1>2 DEF done
  <2>. QED
    BY <1>2, <2>1 DEF OpType
<1>4. PICK n \in {c, Complete(c, c.ret_status)}, q \in {queued[i], queued[i] + 1} :
        /\ op' = [op EXCEPT ![i] = n] /\ queued' = [queued EXCEPT ![i] = q]
        /\ q = IF done = op[i].op_count THEN queued[i] + 1 ELSE queued[i]
  <2>1. CASE done = op[i].op_count
    BY <2>1 DEF Count
  <2>2. CASE done # op[i].op_count
    <3>1. queued' = [queued EXCEPT ![i] = queued[i]]
      BY <1>1, <2>2 DEF Count, Types
    <3>. QED
      BY <2>2, <3>1 DEF Count
  <2>. QED
    BY <2>1, <2>2
<1>5. /\ n \in OpType /\ n.op_count = op[i].op_count /\ n.by = op[i].by
      /\ n.extra = op[i].extra /\ n.op_completed_count = done
  <2>. HIDE DEF c, done
  <2>. QED
    BY SMTT(60), <1>3, CompleteFields
<1>. HIDE DEF c
<1>6. /\ op' \in [Ids -> OpType] /\ op'[i] = n
      /\ \A k \in Ids \ {i} : op'[k] = op[k]
  BY ZenonT(60), <1>1, <1>4, <1>5, OpSet
<1>7. /\ queued' \in [Ids -> Nat] /\ queued'[i] = q
      /\ \A k \in Ids \ {i} : queued'[k] = queued[k]
  <2>1. q \in Nat
    BY <1>2
  <2>. QED
    BY ZenonT(60), <1>1, <1>4, <2>1, QueueSet
<1>8. /\ na' \in [Ids -> NaType]
      /\ na'[i][j] = "idle"
      /\ \A a \in Ids, m \in 1..MaxOps :
            a # i \/ m # j => na'[a][m] = na[a][m]
  <2>1. "idle" \in {"idle"} \cup Outstanding
    OBVIOUS
  <2>2. NaBecomes(i, j, "idle")
    BY ZenonT(60), <1>1, <2>1, NaSet
  <2>. QED
    BY <2>2 DEF NaBecomes
<1>9. \A a \in Ids \ {i} : na'[a] = na[a]
  BY <1>1 DEF Types
<1>10. Types'
  BY <1>1, <1>6, <1>7, <1>8 DEF Types
<1>11. j \in Out(i)
  BY <1>1 DEF Out, Outstanding
<1>12. Out(i)' = Out(i) \ {j}
  BY <1>8 DEF Out, Outstanding
<1>13. Cardinality(Out(i)') = Cardinality(Out(i)) - 1
       /\ Cardinality(Out(i)) \in Nat \ {0}
  <2>1. Cardinality(Out(i)') = Cardinality(Out(i)) - 1
    BY ZenonT(60), <1>11, <1>12, OutRemove
  <2>2. Cardinality(Out(i)) \in Nat /\ Cardinality(Out(i)) # 0
    BY ZenonT(60), <1>11, OutCount
  <2>. QED
    BY <2>1, <2>2
<1>14. \A m \in 1..MaxOps : na[i][m] = "idle" => na'[i][m] = "idle"
  BY <1>8
<1>. QED
  BY <1>1, <1>4, <1>5, <1>6, <1>7, <1>9, <1>10, <1>11, <1>12, <1>13, <1>14

LEMMA CountStep ==
    ASSUME SetFacts, IInv, NEW i \in Ids, NEW j \in 1..MaxOps, Count(i, j)
    PROVE  IInv'
<1>1. /\ Out(i) # {} /\ Types' /\ u' = u /\ pending' = pending /\ trig' = trig
      /\ \A k \in Ids \ {i} : /\ op'[k] = op[k] /\ queued'[k] = queued[k]
                              /\ na'[k] = na[k]
      /\ op'[i].op_count = op[i].op_count /\ op'[i].by = op[i].by
      /\ op'[i].extra = op[i].extra
      /\ op'[i].op_completed_count = op[i].op_completed_count + 1
  BY CountEffect
<1>2. /\ op[i].op_completed_count \in Nat /\ op[i].op_count \in Nat
      /\ Cardinality(Out(i)) \in Nat \ {0}
      /\ Cardinality(Out(i)') = Cardinality(Out(i)) - 1
      /\ queued[i] \in Nat
  BY OpFields, CountEffect DEF IInv
<1>3. i \notin trig /\ i \notin pending /\ ~Unused(i)
  BY <1>1 DEF IInv, TriggerInv, PoolInv, Unused
<1>4. op'[i].extra => op'[i].op_count > StaticMax
  BY ZenonT(60), <1>1 DEF IInv, ExtraInv
<1>5. CASE Carries(i)
  <2>1. PICK t \in Users : t = op[i].by /\ Waits(t) /\ u[t].id = i
    BY <1>5 DEF Carries
  <2>2. Apart(t, i) /\ Counted(t, i)
    BY <1>1, <2>1, WaitApart DEF Queued
  <2>3. /\ Left(t) \in Nat /\ Left(t)' = Left(t) /\ Waits(t)' /\ Carries(i)'
        /\ u[t].got = 0 /\ u[t].pc # "start"
    BY ZenonT(60), <1>1, <2>1, UserFields DEF Left, Waits, Carries, IInv, InCancel
  <2>4. ASSUME op[i].op_completed_count + 1 = op[i].op_count
        PROVE  Queued(t, i)' \/ Counted(t, i)'
    <3>1. queued'[i] = queued[i] + 1 /\ queued[i] = 0
      BY ZenonT(60), <2>2, <2>4, CountEffect DEF Counted
    <3>2. Cardinality(Out(i)) = 1 /\ Left(t) = 0
      BY SMTT(60), <1>2, <2>2, <2>3, <2>4 DEF Counted
    <3>3. Cardinality(Out(i)') = 0
      BY SMTT(60), <1>2, <3>2
    <3>4. Out(i)' = {}
      <4>1. IsFiniteSet(Out(i)')
        BY OutCount, CountEffect DEF SetFacts, SubsetFact
      <4>. QED
        BY <3>3, <4>1 DEF SetFacts, EmptyFact
    <3>5. Queued(t, i)'
      BY SMTT(60), <2>3, <3>1, <3>2, <3>4 DEF Queued
    <3>. QED
      BY <3>5
  <2>5. ASSUME op[i].op_completed_count + 1 # op[i].op_count
        PROVE  Queued(t, i)' \/ Counted(t, i)'
    <3>1. queued'[i] = 0
      BY <2>2, <2>5, CountEffect DEF Counted
    <3>2. /\ op[i].op_completed_count + 1 < op[i].op_count
          /\ (op[i].op_completed_count + 1) + (Cardinality(Out(i)) - 1) + Left(t)
                = op[i].op_count
      BY SMTT(60), <1>2, <2>2, <2>3, <2>5 DEF Counted
    <3>3. \A m \in 1..MaxOps : m > op[i].op_count - Left(t) => na'[i][m] = "idle"
      BY SMTT(60), <2>2, CountEffect DEF Counted
    <3>4. Counted(t, i)'
      BY <1>1, <1>2, <2>2, <2>3, <3>1, <3>2, <3>3 DEF Counted
    <3>. QED
      BY <3>4
  <2>6. OfUser(t, i)'
    BY ZenonT(60), <1>1, <1>3, <2>1, <2>3, <2>4, <2>5 DEF OfUser
  <2>7. OfId(i)'
    BY <1>1, <1>3, <1>4, <2>3 DEF OfId
  <2>. QED
    BY <1>1, <2>2, <2>6, <2>7, Local
<1>6. CASE ~Carries(i)
  <2>1. op[i].op_completed_count + Cardinality(Out(i)) < op[i].op_count
    BY <1>1, <1>6 DEF IInv, FailedInv
  <2>2. queued[i] = 0
    BY SMTT(60), <1>2, <1>6 DEF IInv, QueueInv
  <2>3. queued'[i] = 0
    BY SMTT(60), <1>2, <2>1, <2>2, CountEffect
  <2>4. op'[i].op_completed_count + Cardinality(Out(i)') < op'[i].op_count
    BY SMTT(60), <1>1, <1>2, <2>1
  <2>5. OfId(i)'
    BY SMTT(60), <1>1, <1>3, <1>4, <2>3, <2>4 DEF OfId
  <2>6. Apart(NoId, i)
    BY <1>3, <1>6, NobodyApart
  <2>. QED
    BY ZenonT(60), <1>1, <2>5, <2>6, Local, ConstantsAssumption
<1>. QED
  BY <1>5, <1>6

LEMMA TriggerStep ==
    ASSUME IInv, NEW i \in Ids, Trigger(i)
    PROVE  IInv'
<1>1. /\ queued[i] > 0 /\ op' = op /\ na' = na /\ pending' = pending
      /\ trig' = trig \cup {i} /\ queued' = [queued EXCEPT ![i] = queued[i] - 1]
      /\ Types
  BY DEF Trigger, IInv
<1>2. PICK t \in Users : t = op[i].by /\ Waits(t) /\ u[t].id = i
  BY <1>1 DEF IInv, QueueInv, Carries
<1>3. Apart(t, i) /\ i \notin pending /\ Queued(t, i)
  BY SMTT(60), <1>1, <1>2, WaitApart DEF Counted
<1>4. queued[i] = 1 /\ queued' = [queued EXCEPT ![i] = 0] /\ Out(i)' = {}
  BY SMTT(60), <1>1, <1>3 DEF Queued, Out
<1>5. /\ queued' \in [Ids -> Nat] /\ queued'[i] = 0
      /\ \A k \in Ids \ {i} : queued'[k] = queued[k]
  BY ZenonT(60), <1>1, <1>4, QueueSet
<1>6. u' = [u EXCEPT ![t].got = 1]
  <2>1. u' = [u EXCEPT ![t].got = u[t].got + 1] /\ u[t].got = 0
    BY <1>2 DEF Trigger, Waits
  <2>. QED
    BY SMTT(60), <2>1
<1>7. /\ u' \in [Users -> UserType] /\ u'[t].got = 1
      /\ u'[t].pc = u[t].pc /\ u'[t].left = u[t].left
      /\ \A s \in Users \ {t} : u'[s] = u[s]
  BY <1>1, <1>6 DEF Types, UserType
<1>8. Types'
  BY <1>1, <1>5, <1>7 DEF Types
<1>9. u[t].left \in Nat /\ (u[t].pc = "post" => u[t].left = 0)
  BY <1>1, <1>3, UserFields DEF Queued, Left
<1>10. OfUser(t, i)'
  BY SMTT(60), <1>2, <1>7, <1>9 DEF OfUser, Waits, Unreported, InCancel
<1>11. OfId(i)'
  <2>1. op[i].extra => op[i].op_count > StaticMax
    BY DEF IInv, ExtraInv
  <2>. QED
    BY SMTT(60), <1>1, <1>3, <1>4, <1>5, <2>1 DEF OfId
<1>. QED
  BY <1>1, <1>3, <1>5, <1>7, <1>8, <1>10, <1>11, Local

LEMMA ReleaseStep ==
    ASSUME IInv, NEW i \in Ids, Release(i)
    PROVE  IInv'
<1>1. /\ i \in trig /\ na' = na /\ u' = u /\ queued' = queued
      /\ trig' = trig \ {i} /\ pending' = pending \cup {i} /\ Types
  BY DEF Release, OpDestroy, IInv
<1>2. i \notin pending /\ queued[i] = 0 /\ Out(i) = {}
  BY <1>1 DEF IInv, TriggerInv
<1>3. /\ op[i] \in OpType /\ op[i].op_count \in Nat
      /\ op[i].extra => op[i].op_count > StaticMax
  BY <1>1, OpFields DEF IInv, ExtraInv
<1>. DEFINE n == [op[i] EXCEPT !.status = {"COMPLETED"}, !.by = NoId,
                               !.ends = {}, !.extra = FALSE]
<1>4. op' = [op EXCEPT ![i] = n]
  <2>1. (op[i].extra /\ op[i].op_count <= StaticMax) = FALSE
    BY SMTT(60), <1>3, ConstantsAssumption
  <2>2. op' = [op EXCEPT ![i] = [op[i] EXCEPT
                  !.status = {"COMPLETED"}, !.by = NoId, !.ends = {},
                  !.extra = op[i].extra /\ op[i].op_count <= StaticMax]]
    BY ZenonT(60), <1>1, <1>3 DEF Release, OpDestroy, Types, OpType
  <2>. QED
    BY ZenonT(60), <2>1, <2>2
<1>5. n \in OpType /\ n.by = NoId /\ n.extra = FALSE
  BY ZenonT(60), <1>3 DEF OpType, Marks
<1>. HIDE DEF n
<1>6. /\ op' \in [Ids -> OpType] /\ op'[i] = n
      /\ \A k \in Ids \ {i} : op'[k] = op[k]
  BY ZenonT(60), <1>1, <1>4, <1>5, OpSet
<1>7. Types'
  BY <1>1, <1>6 DEF Types
<1>8. Out(i)' = {} /\ Unused(i)'
  BY <1>1, <1>2, <1>5, <1>6 DEF Unused, Out
<1>9. OfId(i)'
  BY SMTT(60), <1>1, <1>2, <1>5, <1>6, <1>8 DEF OfId
<1>10. Apart(NoId, i)
  <2>1. ~Unused(i)
    BY <1>1 DEF Unused
  <2>2. ~Carries(i)
    BY <1>1, WaitApart DEF Carries
  <2>. QED
    BY <2>1, <2>2, NobodyApart
<1>. QED
  BY <1>1, <1>6, <1>7, <1>9, <1>10, Local, ConstantsAssumption

-----------------------------------------------------------------------------
(* The invariant holds, and what follows from it *)

LEMMA IInvInit ==
    ASSUME Init
    PROVE  IInv
<1>1. Types
  BY DEF Init, Types, OpType, UserType, NaType, NewOp, Marks, Results
<1>2. \A i \in Ids : Unused(i)
  BY DEF Init, Unused, Out, Outstanding, NewOp
<1>3. \A t \in Users : u[t].pc = "idle"
  BY DEF Init
<1>4. \A t \in Users : ~Waits(t) /\ u[t].pc # "start" /\ ~Unreported(t)
  BY <1>3 DEF Waits, Unreported, InCancel
<1>5. PoolInv /\ TriggerInv /\ ExtraInv /\ QueueInv /\ FailedInv
  BY SMTT(60), <1>1, <1>2 DEF Types, Init, PoolInv, TriggerInv, ExtraInv, QueueInv,
                    FailedInv, Unused
<1>. QED
  BY <1>1, <1>4, <1>5 DEF IInv, StartInv, WaitInv, PostInv

LEMMA IInvStutter ==
    ASSUME IInv, UNCHANGED vars
    PROVE  IInv'
<1>1. /\ op' = op /\ na' = na /\ u' = u /\ pending' = pending
      /\ trig' = trig /\ queued' = queued
  BY DEF vars
<1>2. Types' /\ PostInv'
  BY <1>1 DEF IInv, Types, PostInv, Unreported
<1>3. \A i \in Ids : Out(i)' = Out(i)
  BY <1>1 DEF Out
<1>4. \A t \in Users : (Waits(t)' <=> Waits(t)) /\ Left(t)' = Left(t)
  BY <1>1 DEF Waits, Left
<1>. QED
  BY <1>1, <1>2, <1>3, <1>4, Frame

LEMMA IInvStep ==
    ASSUME SetFacts, IInv, [Next]_vars
    PROVE  IInv'
<1>1. ASSUME NEW t \in Users,
             Begin(t) \/ CallStep(t) \/ PostFails(t) \/ CancelTest(t)
      PROVE  IInv'
  BY <1>1, BeginStep, PostFailsStep, CancelTestStep, PoolGetStep,
     PoolFailsStep, StartSelfStep, StartNaStep, PostStep, PostDoneStep,
     CancelMarkStep, CancelNaStep DEF CallStep
<1>2. ASSUME NEW i \in Ids, Trigger(i) \/ Release(i)
      PROVE  IInv'
  BY <1>2, TriggerStep, ReleaseStep
<1>3. ASSUME NEW i \in Ids, NEW j \in 1..MaxOps,
             Count(i, j) \/ \E r \in Results : NaEnds(i, j, r)
      PROVE  IInv'
  BY <1>3, CountStep, NaEndsStep
<1>4. CASE UNCHANGED vars
  BY <1>4, IInvStutter
<1>. QED
  BY <1>1, <1>2, <1>3, <1>4 DEF Next

(* A thread that holds an identifier starts with it or waits for it. *)
LEMMA HolderWaits ==
    ASSUME IInv, NEW i \in Ids, Held(i)
    PROVE  i \notin pending /\ i \notin trig /\ queued[i] = 0
<1>1. PICK t \in Users : /\ u[t].id = i
                         /\ u[t].pc = "start" \/ (u[t].pc = "post" /\ u[t].left > 0)
  BY DEF Held, At
<1>2. CASE u[t].pc = "start"
  BY <1>1, <1>2, StartApart DEF Unused
<1>3. CASE u[t].pc = "post" /\ u[t].left > 0
  BY ZenonT(60), <1>1, <1>3, Posting, WaitApart DEF Counted
<1>. QED
  BY <1>1, <1>2, <1>3

LEMMA PoolUnused ==
    ASSUME IInv
    PROVE  PooledIsUnused
<1>1. SUFFICES ASSUME NEW i \in pending
               PROVE  ~Busy(i) /\ ~Reported(i) /\ ~Held(i) /\ ~op[i].extra
  BY DEF PooledIsUnused
<1>2. i \in Ids /\ Unused(i)
  BY <1>1 DEF IInv, Types, PoolInv
<1>3. ~Busy(i)
  BY <1>2 DEF Busy, Unused, Out
<1>4. ~Reported(i)
  BY SMTT(60), <1>2 DEF Reported, Unused
<1>. QED
  BY <1>1, <1>2, <1>3, <1>4, HolderWaits DEF Unused

LEMMA ReportedOver ==
    ASSUME SetFacts, IInv
    PROVE  ReportedIsOver
<1>1. SUFFICES ASSUME NEW i \in Ids
               PROVE  /\ queued[i] + Cardinality({i} \cap trig) <= 1
                      /\ Reported(i) => ~Busy(i) /\ ~Held(i)
  BY DEF ReportedIsOver
<1>2. queued[i] \in Nat /\ (queued[i] > 0 => queued[i] = 1 /\ Out(i) = {}
                                             /\ i \notin trig)
  <2>1. ASSUME queued[i] > 0
        PROVE  queued[i] = 1 /\ Out(i) = {} /\ i \notin trig
    <3>1. PICK t \in Users : Waits(t) /\ u[t].id = i
      BY <1>1, <2>1 DEF IInv, QueueInv, Carries
    <3>. QED
      BY SMTT(60), <1>1, <2>1, <3>1, WaitApart DEF Queued, Counted
  <2>. QED
    BY <1>1, <2>1, OpFields DEF IInv
<1>3. i \in trig => queued[i] = 0 /\ Out(i) = {}
  BY <1>1 DEF IInv, TriggerInv
<1>4. queued[i] + Cardinality({i} \cap trig) <= 1
  <2>1. CASE i \in trig
    <3>1. {i} \cap trig = {i} /\ Cardinality({i}) = 1
      BY ZenonT(60), <2>1 DEF SetFacts, SingletonFact
    <3>. QED
      BY SMTT(60), <1>3, <2>1, <3>1
  <2>2. CASE i \notin trig
    <3>1. {i} \cap trig = {} /\ Cardinality({}) = 0
      BY <2>2 DEF SetFacts, EmptyFact
    <3>2. queued[i] + 0 <= 1
      BY SMTT(60), <1>2
    <3>. QED
      BY <3>1, <3>2
  <2>. QED
    BY <2>1, <2>2
<1>5. Reported(i) => Out(i) = {}
  BY <1>2, <1>3 DEF Reported
<1>6. Reported(i) => ~Busy(i)
  BY <1>5 DEF Busy, Out
<1>7. Reported(i) => ~Held(i)
  BY SMTT(60), <1>1, HolderWaits DEF Reported
<1>. QED
  BY <1>4, <1>6, <1>7

LEMMA TransferKept ==
    ASSUME SetFacts, IInv
    PROVE  NoLostTransfer
<1>1. SUFFICES ASSUME NEW t \in Users,
                      u[t].pc \in {"posted"} \cup InCancel, u[t].got = 0
               PROVE  /\ op[u[t].id].by = t
                      /\ Busy(u[t].id) \/ Reported(u[t].id)
  BY DEF NoLostTransfer
<1>2. Waits(t) /\ Left(t) = 0
  BY <1>1 DEF Waits, Left, InCancel
<1>3. PICK i \in Ids : i = u[t].id
  BY <1>1, <1>2, WaitApart
<1>4. op[i].by = t /\ (Queued(t, i) \/ Counted(t, i))
  BY <1>1, <1>2, <1>3, WaitApart
<1>5. CASE Queued(t, i)
  BY SMTT(60), <1>3, <1>4, <1>5 DEF Queued, Reported
<1>6. CASE Counted(t, i)
  <2>1. /\ op[i].op_completed_count \in Nat /\ op[i].op_count \in Nat
        /\ Cardinality(Out(i)) \in Nat
    BY <1>1, OpFields, OutCount DEF IInv
  <2>2. Cardinality(Out(i)) # 0
    BY SMTT(60), <1>2, <1>6, <2>1 DEF Counted
  <2>3. Out(i) # {}
    BY <2>2, OutCount
  <2>. QED
    BY <1>3, <1>4, <2>3 DEF Busy, Out
<1>. QED
  BY <1>4, <1>5, <1>6

-----------------------------------------------------------------------------
(* The results *)

(* What the callback will report, and the results that have been noted; a   *)
(* transfer is reported with what was noted.                                *)
Noted(i) ==
    /\ op[i].ret_status = "SUCCESS" <=> op[i].ends \subseteq {"SUCCESS"}
    /\ op[i].ret_status \in op[i].ends \cup {"SUCCESS"}
OfResult(i) ==
    /\ op[i].by # NoId => Noted(i)
    /\ Reported(i) => op[i].by # NoId /\ op[i].ret = op[i].ret_status
ResultInv == \A i \in Ids : OfResult(i)

LEMMA ResultFrame ==
    ASSUME NEW i \in Ids, OfResult(i), Reported(i)' => Reported(i),
           op'[i].ret_status = op[i].ret_status, op'[i].ends = op[i].ends,
           op'[i].ret = op[i].ret, op'[i].by = op[i].by
    PROVE  OfResult(i)'
  BY DEF OfResult, Noted

LEMMA CompleteResult ==
    ASSUME NEW o \in OpType, NEW r \in Results
    PROVE  /\ Complete(o, r).ret = r /\ Complete(o, r).ret_status = o.ret_status
           /\ Complete(o, r).ends = o.ends /\ Complete(o, r).by = o.by
  BY ZenonT(60) DEF Complete, OpType

LEMMA ResetResult ==
    ASSUME Types, NEW i \in Ids, NEW t \in Users, NEW k \in Nat
    PROVE  /\ Reset(i, t, k).ret_status = "SUCCESS" /\ Reset(i, t, k).ends = {}
           /\ Reset(i, t, k).by = t
<1>1. op[i] \in OpType
  BY OpFields
<1>. QED
  BY ZenonT(60), <1>1 DEF Reset, OpType

LEMMA NoteResult ==
    ASSUME NEW o \in OpType, NEW r \in Results
    PROVE  /\ Note(o, r).ret_status = IF o.ret_status = "SUCCESS" THEN r
                                      ELSE o.ret_status
           /\ Note(o, r).ends = o.ends \cup {r} /\ Note(o, r).by = o.by
<1>. DEFINE x == o.status \cup (IF r = "ERROR" THEN {"ERRORED"} ELSE {})
            y == IF o.ret_status = "SUCCESS" THEN r ELSE o.ret_status
            z == o.ends \cup {r}
<1>1. Note(o, r) = [o EXCEPT !.status = x, !.ret_status = y, !.ends = z]
  BY DEF Note
<1>. HIDE DEF x, y, z
<1>2. Note(o, r).ret_status = y /\ Note(o, r).ends = z /\ Note(o, r).by = o.by
  BY ZenonT(60), <1>1 DEF OpType
<1>. QED
  BY <1>2 DEF y, z

(* What an NA operation will still call back on is not reported. *)
LEMMA OutIsQuiet ==
    ASSUME SetFacts, IInv, NEW i \in Ids, NEW j \in Out(i)
    PROVE  ~Reported(i)
<1>1. ReportedIsOver
  BY ReportedOver
<1>2. Busy(i)
  BY DEF Out, Busy
<1>. QED
  BY ZenonT(60), <1>1, <1>2 DEF ReportedIsOver

(* A transfer starts with nothing noted, whichever way it goes. *)
LEMMA StartEffect ==
    ASSUME IInv, NEW t \in Users, StartSelf(t) \/ StartNa(t)
    PROVE  \E i \in Ids :
            /\ i = u[t].id /\ Unused(i) /\ u[t].pc = "start"
            /\ na' = na /\ trig' = trig /\ pending' = pending
            /\ refs' = refs + 1
            /\ \A k \in Ids \ {i} : op'[k] = op[k] /\ queued'[k] = queued[k]
            /\ op'[i].ret_status = "SUCCESS" /\ op'[i].ends = {}
            /\ op'[i].by = t
            /\ Reported(i)' => op'[i].ret = "SUCCESS"
            /\ \A s \in Users \ {t} : u'[s] = u[s]
            /\ u'[t].pc = "post" /\ u'[t].id = i
<1>1. Types /\ u[t].pc = "start"
  BY DEF IInv, StartSelf, StartNa, At
<1>2. PICK i \in Ids : i = u[t].id /\ Unused(i)
  BY <1>1, StartApart
<1>3. /\ na' = na /\ trig' = trig /\ pending' = pending /\ refs' = refs + 1
      /\ \A k \in Ids \ {i} : op'[k] = op[k] /\ queued'[k] = queued[k]
  <2>1. PICK n : op' = [op EXCEPT ![i] = n]
    BY ZenonT(60), <1>2 DEF StartSelf, StartNa
  <2>2. PICK q : queued' = [queued EXCEPT ![i] = q]
    <3>1. queued = [queued EXCEPT ![i] = queued[i]]
      BY <1>1 DEF Types
    <3>. QED
      BY ZenonT(60), <1>2, <3>1 DEF StartSelf, StartNa
  <2>3. na' = na /\ trig' = trig /\ pending' = pending /\ refs' = refs + 1
    BY DEF StartSelf, StartNa
  <2>. QED
    BY <1>1, <2>1, <2>2, <2>3 DEF Types
<1>4. /\ \A s \in Users \ {t} : u'[s] = u[s]
      /\ u'[t].pc = "post" /\ u'[t].id = i
  <2>1. PICK m : u' = [u EXCEPT ![t].pc = "post", ![t].left = m]
    BY ZenonT(60) DEF StartSelf, StartNa
  <2>. QED
    BY <1>1, <1>2, <2>1 DEF Types, UserType
<1>5. CASE StartSelf(t)
  <2>1. PICK k \in 0..1 : op'[i] = Complete(Reset(i, t, k), "SUCCESS")
    BY <1>1, <1>2, <1>5 DEF StartSelf, Types
  <2>2. Reset(i, t, k) \in OpType
    BY SMTT(60), <1>1, ResetFields
  <2>3. /\ op'[i].ret = "SUCCESS" /\ op'[i].ret_status = "SUCCESS"
        /\ op'[i].ends = {} /\ op'[i].by = t
    BY SMTT(60), <1>1, <2>1, <2>2, CompleteResult, ResetResult DEF Results
  <2>. QED
    BY ZenonT(60), <1>1, <1>2, <1>3, <1>4, <2>3
<1>6. CASE StartNa(t)
  <2>1. PICK k \in 1..MaxOps :
            op'[i] = [Reset(i, t, k) EXCEPT !.extra = k > StaticMax]
    BY ZenonT(60), <1>1, <1>2, <1>6 DEF StartNa, Types
  <2>2. k \in Nat
    BY SMTT(60), ConstantsAssumption
  <2>3. Reset(i, t, k) \in OpType
    BY <1>1, <2>2, ResetFields
  <2>4. /\ op'[i].ret_status = Reset(i, t, k).ret_status
        /\ op'[i].ends = Reset(i, t, k).ends /\ op'[i].by = Reset(i, t, k).by
    BY ZenonT(60), <2>1, <2>3 DEF OpType
  <2>5. op'[i].ret_status = "SUCCESS" /\ op'[i].ends = {} /\ op'[i].by = t
    BY SMTT(60), <1>1, <2>2, <2>4, ResetResult
  <2>6. ~Reported(i)'
    BY SMTT(60), <1>2, <1>3, <1>6 DEF StartNa, Unused, Reported
  <2>. QED
    BY ZenonT(60), <1>1, <1>2, <1>3, <1>4, <2>5, <2>6
<1>. QED
  BY <1>5, <1>6

LEMMA StartResult ==
    ASSUME IInv, ResultInv, NEW t \in Users, StartSelf(t) \/ StartNa(t)
    PROVE  ResultInv'
<1>1. PICK i \in Ids :
        /\ trig' = trig
        /\ \A k \in Ids \ {i} : op'[k] = op[k] /\ queued'[k] = queued[k]
        /\ op'[i].ret_status = "SUCCESS" /\ op'[i].ends = {} /\ op'[i].by = t
        /\ Reported(i)' => op'[i].ret = "SUCCESS"
  BY ZenonT(60), StartEffect
<1>2. \A k \in Ids \ {i} : OfResult(k)'
  BY <1>1, ResultFrame DEF ResultInv, Reported
<1>3. t # NoId
  BY ConstantsAssumption
<1>4. OfResult(i)'
  BY ZenonT(60), <1>1, <1>3 DEF OfResult, Noted
<1>. QED
  BY <1>2, <1>4 DEF ResultInv

LEMMA NaEndsResult ==
    ASSUME SetFacts, IInv, ResultInv, NEW i \in Ids, NEW j \in 1..MaxOps,
           NEW r \in Results, NaEnds(i, j, r)
    PROVE  ResultInv'
<1>1. op[i] \in OpType /\ op' = [op EXCEPT ![i] = Note(op[i], r)]
  BY OpFields DEF IInv, NaEnds
<1>2. /\ op'[i] = Note(op[i], r) /\ queued' = queued /\ trig' = trig
      /\ \A k \in Ids \ {i} : op'[k] = op[k]
  BY <1>1 DEF IInv, Types, NaEnds
<1>3. \A k \in Ids \ {i} : OfResult(k)'
  BY <1>2, ResultFrame DEF ResultInv, Reported
<1>4. /\ op'[i].ret_status =
            IF op[i].ret_status = "SUCCESS" THEN r ELSE op[i].ret_status
      /\ op'[i].ends = op[i].ends \cup {r} /\ op'[i].by = op[i].by
  BY ZenonT(60), <1>1, <1>2, NoteResult
<1>5. ~Reported(i)'
  <2>1. j \in Out(i)
    BY DEF NaEnds, Out, Outstanding
  <2>. QED
    BY <1>2, <2>1, OutIsQuiet DEF Reported
<1>6. op[i].by # NoId => Noted(i)'
  <2>1. HAVE op[i].by # NoId
  <2>2. Noted(i)
    BY <2>1 DEF ResultInv, OfResult
  <2>. QED
    BY <1>4, <2>2 DEF Noted
<1>7. OfResult(i)'
  BY <1>4, <1>5, <1>6 DEF OfResult
<1>. QED
  BY <1>3, <1>7 DEF ResultInv

LEMMA CountResult ==
    ASSUME SetFacts, IInv, ResultInv, NEW i \in Ids, NEW j \in 1..MaxOps,
           Count(i, j)
    PROVE  ResultInv'
<1>1. /\ op[i] \in OpType /\ op[i].op_completed_count \in Nat
      /\ j \in Out(i) /\ trig' = trig
      /\ \A k \in Ids \ {i} : op'[k] = op[k] /\ queued'[k] = queued[k]
  BY OpFields, CountEffect DEF IInv
<1>2. \A k \in Ids \ {i} : OfResult(k)'
  BY <1>1, ResultFrame DEF ResultInv, Reported
<1>3. PICK d \in Nat : d = op[i].op_completed_count + 1
  BY SMTT(60), <1>1
<1>. DEFINE c == [op[i] EXCEPT !.op_completed_count = d]
<1>4. /\ c \in OpType /\ c.ret_status = op[i].ret_status
      /\ c.ends = op[i].ends /\ c.by = op[i].by /\ c.ret_status \in Results
  BY ZenonT(60), <1>1 DEF OpType
<1>5. \/ op'[i] = c /\ queued'[i] = queued[i]
      \/ op'[i] = Complete(c, c.ret_status)
  BY <1>3 DEF Count, IInv, Types
<1>. HIDE DEF c
<1>6. /\ op'[i].ret_status = op[i].ret_status /\ op'[i].ends = op[i].ends
      /\ op'[i].by = op[i].by
      /\ queued'[i] = queued[i] \/ op'[i].ret = op'[i].ret_status
  BY SMTT(60), <1>4, <1>5, CompleteResult
<1>7. op'[i].by # NoId => Noted(i)'
  BY <1>6 DEF ResultInv, OfResult, Noted
<1>8. ASSUME Reported(i)'
      PROVE  op'[i].by # NoId /\ op'[i].ret = op'[i].ret_status
  <2>1. ~Reported(i)
    BY <1>1, OutIsQuiet
  <2>2. queued'[i] > 0 /\ queued'[i] # queued[i]
    BY <1>1, <1>8, <2>1 DEF Reported
  <2>3. op'[i].by \in Users
    BY <2>2, CountStep DEF IInv, QueueInv, Carries
  <2>. QED
    BY <1>6, <2>2, <2>3, ConstantsAssumption
<1>. QED
  BY <1>2, <1>7, <1>8 DEF ResultInv, OfResult

LEMMA ResultStep ==
    ASSUME SetFacts, IInv, ResultInv, [Next]_vars
    PROVE  ResultInv'
<1>1. ASSUME op' = op, queued' = queued, trig' = trig
      PROVE  ResultInv'
  BY <1>1, ResultFrame DEF ResultInv, Reported
<1>2. ASSUME NEW t \in Users, CancelMark(t)
      PROVE  ResultInv'
  <2>1. /\ queued' = queued /\ trig' = trig
        /\ op' = [op EXCEPT ![u[t].id].status = op[u[t].id].status \cup {"CANCELED"}]
    BY <1>2 DEF CancelMark
  <2>2. ASSUME NEW i \in Ids
        PROVE  /\ op'[i].ret_status = op[i].ret_status
               /\ op'[i].ends = op[i].ends /\ op'[i].ret = op[i].ret
               /\ op'[i].by = op[i].by
    <3>1. op[i] \in OpType
      BY OpFields DEF IInv
    <3>2. \/ op'[i] = op[i]
          \/ op'[i] = [op[i] EXCEPT !.status = op[i].status \cup {"CANCELED"}]
      BY <2>1 DEF IInv, Types
    <3>. QED
      BY ZenonT(60), <3>1, <3>2 DEF OpType
  <2>. QED
    BY <2>1, <2>2, ResultFrame DEF ResultInv, Reported
<1>3. ASSUME NEW i \in Ids, Trigger(i)
      PROVE  ResultInv'
  <2>1. op' = op /\ \A k \in Ids : Reported(k)' => Reported(k)
    BY <1>3 DEF Trigger, Reported, IInv, Types
  <2>. QED
    BY <2>1, ResultFrame DEF ResultInv
<1>4. ASSUME NEW i \in Ids, Release(i)
      PROVE  ResultInv'
  <2>1. /\ queued' = queued /\ trig' = trig \ {i} /\ queued[i] = 0
        /\ \A k \in Ids \ {i} : op'[k] = op[k]
    BY <1>4 DEF Release, OpDestroy, IInv, Types, TriggerInv
  <2>2. op'[i].by = NoId
    BY ZenonT(60), <1>4 DEF Release, OpDestroy, IInv, Types, OpType
  <2>3. ~Reported(i)' /\ \A k \in Ids \ {i} : Reported(k)' => Reported(k)
    BY SMTT(60), <2>1 DEF Reported
  <2>. QED
    BY <2>1, <2>2, <2>3, ResultFrame DEF ResultInv, OfResult
<1>5. ASSUME NEW t \in Users,
             Begin(t) \/ PostFails(t) \/ CancelTest(t) \/ CallStep(t)
      PROVE  ResultInv'
  <2>1. CASE StartSelf(t) \/ StartNa(t)
    BY <2>1, StartResult
  <2>2. CASE CancelMark(t)
    BY <1>2, <2>2
  <2>3. CASE \/ Begin(t) \/ PostFails(t) \/ CancelTest(t) \/ PoolGet(t)
             \/ PoolFails(t) \/ Post(t) \/ PostDone(t) \/ CancelNa(t)
    BY <1>1, <2>3 DEF Begin, PostFails, CancelTest, PoolGet, PoolFails, Post,
       PostDone, CancelNa
  <2>. QED
    BY <1>5, <2>1, <2>2, <2>3 DEF CallStep
<1>6. CASE UNCHANGED vars
  BY <1>1, <1>6 DEF vars
<1>. QED
  BY <1>3, <1>4, <1>5, <1>6, NaEndsResult, CountResult DEF Next

LEMMA ResultInit ==
    ASSUME Init
    PROVE  ResultInv
<1>1. ASSUME NEW i \in Ids
      PROVE  op[i].by = NoId /\ queued[i] = 0 /\ i \notin trig
  BY DEF Init, NewOp
<1>. QED
  BY SMTT(60), <1>1 DEF ResultInv, OfResult, Reported

LEMMA ResultTrue ==
    ASSUME ResultInv
    PROVE  ResultIsTrue
  BY DEF ResultInv, OfResult, Noted, ResultIsTrue

-----------------------------------------------------------------------------
(* Who canceled *)

Touched(i) ==
    "CANCELED" \in op[i].ends \/ \E j \in 1..MaxOps : na[i][j] = "canceling"

(* An operation of a transfer is canceled only after its user asked; a user *)
(* inside cancel has asked and has not been called back.                    *)
OfOwn(i) == Carries(i) /\ Touched(i) => u[op[i].by].asked
CancelInv == \A t \in Users : u[t].pc \in InCancel => u[t].asked /\ u[t].got = 0
OwnInv == CancelInv /\ \A i \in Ids : OfOwn(i)

(* Nobody starts to wait for i, or forgets that it asked. *)
Keeps(t, i) ==
    Waits(t)' /\ u'[t].id = i =>
        Waits(t) /\ u[t].id = i /\ (u[t].asked => u'[t].asked)

LEMMA OwnFrame ==
    ASSUME NEW i \in Ids, OfOwn(i), Touched(i)' => Touched(i),
           op'[i].by \in Users => op'[i].by = op[i].by,
           \A t \in Users : Keeps(t, i)
    PROVE  OfOwn(i)'
  BY ZenonT(60) DEF OfOwn, Carries, Keeps

LEMMA KeepsSame ==
    ASSUME NEW t \in Users, u'[t] = u[t], NEW i \in Ids
    PROVE  Keeps(t, i)
  BY DEF Keeps, Waits

(* Steps of a user that change no transfer. *)
LEMMA OwnUser ==
    ASSUME OwnInv, NEW t \in Users, \A s \in Users \ {t} : u'[s] = u[s],
           \A i \in Ids : (Touched(i)' => Touched(i)) /\ op'[i].by = op[i].by,
           \A i \in Ids : Keeps(t, i),
           u'[t].pc \in InCancel => u'[t].asked /\ u'[t].got = 0
    PROVE  OwnInv'
<1>1. \A i \in Ids : \A s \in Users : Keeps(s, i)
  BY KeepsSame
<1>2. CancelInv'
  BY DEF OwnInv, CancelInv
<1>. QED
  BY <1>1, <1>2, OwnFrame DEF OwnInv

LEMMA BeginOwn ==
    ASSUME IInv, OwnInv, NEW t \in Users,
           Begin(t) \/ PoolGet(t) \/ PoolFails(t) \/ PostFails(t) \/ PostDone(t)
    PROVE  OwnInv'
<1>1. op' = op /\ na' = na
  BY DEF Begin, PoolGet, PoolFails, PostFails, PostDone
<1>2. \A i \in Ids : (Touched(i)' => Touched(i)) /\ op'[i].by = op[i].by
  BY <1>1 DEF Touched
<1>3. \A s \in Users \ {t} : u'[s] = u[s]
  BY DEF IInv, Types, Begin, PoolGet, PoolFails, PostFails, PostDone, Goto
<1>4. \/ u'[t].pc \in {"get", "start", "idle"}
      \/ /\ u[t].pc = "post" /\ u'[t].pc = "posted" /\ u'[t].id = u[t].id
         /\ u'[t].got = u[t].got /\ u'[t].asked = u[t].asked
  <2>1. CASE Begin(t)
    BY <2>1 DEF IInv, Types, Begin
  <2>2. CASE PoolGet(t)
    <3>1. PICK i : u' = [u EXCEPT ![t].pc = "start", ![t].id = i]
      BY ZenonT(60), <2>2 DEF PoolGet
    <3>. QED
      BY <3>1 DEF IInv, Types, UserType
  <2>3. CASE PoolFails(t) \/ PostFails(t)
    BY <2>3 DEF IInv, Types, UserType, PoolFails, PostFails, Goto
  <2>4. CASE PostDone(t)
    BY <2>4 DEF IInv, Types, UserType, PostDone, Goto, At
  <2>. QED
    BY <2>1, <2>2, <2>3, <2>4
<1>5. \A i \in Ids : Keeps(t, i)
  BY <1>4 DEF Keeps, Waits, InCancel
<1>6. u'[t].pc \notin InCancel
  BY <1>4 DEF InCancel
<1>. QED
  BY <1>2, <1>3, <1>5, <1>6, OwnUser

LEMMA PostOwn ==
    ASSUME IInv, OwnInv, NEW t \in Users, Post(t)
    PROVE  OwnInv'
<1>. DEFINE j == op[u[t].id].op_count - u[t].left + 1
<1>1. /\ Types /\ op' = op /\ u[t].pc = "post"
      /\ na' = [na EXCEPT ![u[t].id][j] = "posted"]
  BY DEF IInv, Post, At
<1>. HIDE DEF j
<1>2. \A i \in Ids, m \in 1..MaxOps : na'[i][m] = "canceling" => na[i][m] = "canceling"
  BY SMTT(60), <1>1, NaSet DEF NaBecomes, Outstanding
<1>3. \A i \in Ids : (Touched(i)' => Touched(i)) /\ op'[i].by = op[i].by
  BY <1>1, <1>2 DEF Touched
<1>4. /\ \A s \in Users \ {t} : u'[s] = u[s]
      /\ u'[t].pc = "post" /\ u'[t].id = u[t].id
      /\ u'[t].got = u[t].got /\ u'[t].asked = u[t].asked
  BY SMTT(60), <1>1 DEF Types, UserType, Post
<1>5. \A i \in Ids : Keeps(t, i)
  BY <1>1, <1>4 DEF Keeps, Waits
<1>. QED
  BY <1>3, <1>4, <1>5, OwnUser DEF InCancel

LEMMA StartOwn ==
    ASSUME IInv, OwnInv, NEW t \in Users, StartSelf(t) \/ StartNa(t)
    PROVE  OwnInv'
<1>1. PICK i \in Ids :
        /\ Unused(i) /\ na' = na /\ op'[i].ends = {}
        /\ \A k \in Ids \ {i} : op'[k] = op[k]
        /\ \A s \in Users \ {t} : u'[s] = u[s]
        /\ u'[t].pc = "post" /\ u'[t].id = i
  BY SMTT(60), StartEffect
<1>2. ~Touched(i)'
  BY <1>1 DEF Touched, Unused, Out, Outstanding
<1>3. \A k \in Ids \ {i} : OfOwn(k)'
  <2>1. SUFFICES ASSUME NEW k \in Ids \ {i}
                 PROVE  OfOwn(k)'
    OBVIOUS
  <2>2. \A s \in Users : Keeps(s, k)
    BY <1>1, KeepsSame DEF Keeps
  <2>3. (Touched(k)' => Touched(k)) /\ op'[k].by = op[k].by
    BY <1>1 DEF Touched
  <2>. QED
    BY <2>2, <2>3, OwnFrame DEF OwnInv
<1>4. CancelInv'
  BY <1>1 DEF OwnInv, CancelInv, InCancel
<1>. QED
  BY <1>2, <1>3, <1>4 DEF OwnInv, OfOwn

LEMMA CancelOwn ==
    ASSUME IInv, OwnInv, NEW t \in Users, CancelTest(t) \/ CancelMark(t)
    PROVE  OwnInv'
<1>1. na' = na /\ \A i \in Ids : op'[i].ends = op[i].ends /\ op'[i].by = op[i].by
  <2>1. CASE CancelTest(t)
    BY <2>1 DEF CancelTest
  <2>2. CASE CancelMark(t)
    <3>1. op' = [op EXCEPT ![u[t].id].status = op[u[t].id].status \cup {"CANCELED"}]
      BY <2>2 DEF CancelMark
    <3>2. ASSUME NEW i \in Ids
          PROVE  op'[i].ends = op[i].ends /\ op'[i].by = op[i].by
      <4>1. op[i] \in OpType
        BY OpFields DEF IInv
      <4>2. \/ op'[i] = op[i]
            \/ op'[i] = [op[i] EXCEPT !.status = op[i].status \cup {"CANCELED"}]
        BY <3>1 DEF IInv, Types
      <4>. QED
        BY ZenonT(60), <4>1, <4>2 DEF OpType
    <3>. QED
      BY <2>2, <3>2 DEF CancelMark
  <2>. QED
    BY <2>1, <2>2
<1>2. \A i \in Ids : (Touched(i)' => Touched(i)) /\ op'[i].by = op[i].by
  BY <1>1 DEF Touched
<1>3. /\ \A s \in Users \ {t} : u'[s] = u[s]
      /\ u'[t].id = u[t].id /\ u'[t].got = u[t].got /\ u[t].got = 0
      /\ u'[t].asked /\ u[t].pc \in {"posted"} \cup InCancel
  <2>1. CASE CancelTest(t)
    <3>1. PICK pc : u' = [u EXCEPT ![t].asked = TRUE, ![t].pc = pc]
      BY ZenonT(60), <2>1 DEF CancelTest
    <3>. QED
      BY SMTT(60), <2>1, <3>1 DEF CancelTest, At, IInv, Types, UserType
  <2>2. CASE CancelMark(t)
    <3>1. PICK pc, k :
            u' = [u EXCEPT ![t].canceled = TRUE, ![t].left = k, ![t].pc = pc]
      BY ZenonT(60), <2>2 DEF CancelMark
    <3>2. u[t].pc = "mark" /\ u[t].asked /\ u[t].got = 0
      BY <2>2 DEF CancelMark, At, OwnInv, CancelInv, InCancel
    <3>. QED
      BY <3>1, <3>2 DEF IInv, Types, UserType, InCancel
  <2>. QED
    BY <2>1, <2>2
<1>4. \A i \in Ids : Keeps(t, i)
  BY <1>3 DEF Keeps, Waits
<1>. QED
  BY <1>2, <1>3, <1>4, OwnUser

LEMMA CancelNaOwn ==
    ASSUME IInv, OwnInv, NEW t \in Users, CancelNa(t)
    PROVE  OwnInv'
<1>1. /\ u[t].pc = "cancel" /\ u[t].asked /\ u[t].got = 0 /\ op' = op
  BY DEF CancelNa, At, OwnInv, CancelInv, InCancel
<1>2. Waits(t)
  BY <1>1 DEF Waits, InCancel
<1>3. u[t].id \in Ids /\ op[u[t].id].by = t
  BY <1>2, WaitApart
<1>4. \A i \in Ids \ {u[t].id} : na'[i] = na[i]
  BY DEF CancelNa, IInv, Types
<1>5. /\ \A s \in Users \ {t} : u'[s] = u[s]
      /\ u'[t].id = u[t].id /\ u'[t].got = 0 /\ u'[t].asked
      /\ u'[t].pc \in {"posted", "cancel"}
  <2>1. PICK k : u' = [u EXCEPT ![t].pc = "posted"] \/ u' = [u EXCEPT ![t].left = k]
    BY ZenonT(60) DEF CancelNa, Goto
  <2>. QED
    BY <1>1, <2>1 DEF IInv, Types, UserType
<1>6. \A i \in Ids : \A s \in Users : Keeps(s, i)
  <2>1. \A i \in Ids : Keeps(t, i)
    BY <1>1, <1>2, <1>5 DEF Keeps
  <2>. QED
    BY <1>5, <2>1, KeepsSame
<1>7. \A i \in Ids \ {u[t].id} : OfOwn(i)'
  BY <1>1, <1>4, <1>6, OwnFrame DEF OwnInv, Touched
<1>8. OfOwn(u[t].id)'
  BY <1>1, <1>3, <1>5 DEF OfOwn
<1>9. CancelInv'
  BY <1>5 DEF OwnInv, CancelInv
<1>. QED
  BY <1>5, <1>7, <1>8, <1>9 DEF OwnInv

LEMMA NaOwn ==
    ASSUME SetFacts, IInv, OwnInv, NEW i \in Ids, NEW j \in 1..MaxOps,
           Count(i, j) \/ \E r \in Results : NaEnds(i, j, r)
    PROVE  OwnInv'
<1>1. u' = u
  BY DEF Count, NaEnds
<1>2. op[i] \in OpType /\ op[i].op_completed_count \in Nat
  BY OpFields DEF IInv
<1>3. ASSUME NEW x \in {"idle", "counting"}, na' = [na EXCEPT ![i][j] = x]
      PROVE  \A k \in Ids, m \in 1..MaxOps :
                na'[k][m] = "canceling" => na[k][m] = "canceling"
  BY SMTT(60), <1>3, NaSet DEF NaBecomes, Outstanding, IInv
<1>4. \A k \in Ids : (Touched(k)' => Touched(k)) /\ op'[k].by = op[k].by
  <2>1. CASE Count(i, j)
    <3>1. \A k \in Ids : op'[k].ends = op[k].ends /\ op'[k].by = op[k].by
      <4>1. PICK d \in Nat : d = op[i].op_completed_count + 1
        BY SMTT(60), <1>2
      <4>. DEFINE c == [op[i] EXCEPT !.op_completed_count = d]
      <4>2. /\ c \in OpType /\ c.ret_status \in Results
            /\ c.ends = op[i].ends /\ c.by = op[i].by
        BY ZenonT(60), <1>2 DEF OpType
      <4>3. op'[i] = c \/ op'[i] = Complete(c, c.ret_status)
        BY <2>1, <4>1 DEF Count, IInv, Types
      <4>. HIDE DEF c
      <4>. QED
        BY SMTT(60), <2>1, <4>2, <4>3, CompleteResult, CountEffect
    <3>2. na' = [na EXCEPT ![i][j] = "idle"]
      BY <2>1 DEF Count
    <3>. QED
      BY <1>3, <3>1, <3>2 DEF Touched
  <2>2. ASSUME NEW r \in Results, NaEnds(i, j, r)
        PROVE  \A k \in Ids : (Touched(k)' => Touched(k)) /\ op'[k].by = op[k].by
    <3>1. /\ na' = [na EXCEPT ![i][j] = "counting"]
          /\ r = "CANCELED" => na[i][j] = "canceling"
          /\ op' = [op EXCEPT ![i] = Note(op[i], r)]
      BY <2>2 DEF NaEnds
    <3>2. op'[i].ends = op[i].ends \cup {r} /\ op'[i].by = op[i].by
          /\ \A k \in Ids \ {i} : op'[k] = op[k]
      BY <1>2, <3>1, NoteResult DEF IInv, Types
    <3>3. \A k \in Ids, m \in 1..MaxOps :
                na'[k][m] = "canceling" => na[k][m] = "canceling"
      BY <1>3, <3>1
    <3>. QED
      BY <3>1, <3>2, <3>3 DEF Touched
  <2>. QED
    BY <2>1, <2>2
<1>5. \A k \in Ids : \A s \in Users : Keeps(s, k)
  BY <1>1, KeepsSame
<1>6. CancelInv'
  BY <1>1 DEF OwnInv, CancelInv
<1>. QED
  BY <1>4, <1>5, <1>6, OwnFrame DEF OwnInv

(* The callback does not run inside cancel. *)
LEMMA TriggerOwn ==
    ASSUME "cancel" \notin Races, IInv, OwnInv, NEW i \in Ids,
           Trigger(i) \/ Release(i)
    PROVE  OwnInv'
<1>1. CASE Trigger(i)
  <2>1. PICK t \in Users : t = op[i].by
    BY <1>1 DEF Trigger, IInv, QueueInv, Carries
  <2>2. /\ op' = op /\ na' = na /\ u' = [u EXCEPT ![t].got = u[t].got + 1]
        /\ \A s \in Users : u[s].pc \notin InCancel
    BY <1>1, <2>1 DEF Trigger
  <2>3. /\ u'[t].got = u[t].got + 1 /\ u'[t].pc = u[t].pc
        /\ \A s \in Users \ {t} : u'[s] = u[s]
    BY <2>2 DEF IInv, Types, UserType
  <2>4. u[t].got \in Nat
    BY UserFields DEF IInv
  <2>5. ~Waits(t)'
    BY SMTT(60), <2>3, <2>4 DEF Waits
  <2>6. \A k \in Ids : (Touched(k)' => Touched(k)) /\ op'[k].by = op[k].by
    BY <2>2 DEF Touched
  <2>. QED
    BY <2>2, <2>3, <2>5, <2>6, OwnUser DEF Keeps
<1>2. CASE Release(i)
  <2>1. /\ na' = na /\ u' = u /\ \A k \in Ids \ {i} : op'[k] = op[k]
    BY <1>2 DEF Release, OpDestroy, IInv, Types
  <2>2. op'[i].by = NoId
    BY ZenonT(60), <1>2 DEF Release, OpDestroy, IInv, Types, OpType
  <2>3. \A k \in Ids \ {i} : OfOwn(k)'
    BY <2>1, KeepsSame, OwnFrame DEF OwnInv, Touched
  <2>4. OfOwn(i)'
    BY <2>2, ConstantsAssumption DEF OfOwn, Carries
  <2>. QED
    BY <2>1, <2>3, <2>4 DEF OwnInv, CancelInv
<1>. QED
  BY <1>1, <1>2

LEMMA OwnStep ==
    ASSUME SetFacts, "cancel" \notin Races, IInv, OwnInv, [Next]_vars
    PROVE  OwnInv'
<1>1. ASSUME NEW t \in Users,
             Begin(t) \/ PostFails(t) \/ CancelTest(t) \/ CallStep(t)
      PROVE  OwnInv'
  BY <1>1, BeginOwn, PostOwn, StartOwn, CancelOwn, CancelNaOwn DEF CallStep
<1>2. CASE UNCHANGED vars
  BY <1>2 DEF vars, OwnInv, CancelInv, OfOwn, Carries, Waits, Touched
<1>. QED
  BY <1>1, <1>2, NaOwn, TriggerOwn DEF Next

LEMMA OwnInit ==
    ASSUME Init
    PROVE  OwnInv
  BY DEF Init, OwnInv, CancelInv, OfOwn, Carries, Waits, InCancel

LEMMA OwnCancel ==
    ASSUME IInv, OwnInv
    PROVE  OnlyOwnCancel
  BY DEF IInv, QueueInv, OwnInv, OfOwn, Touched, OnlyOwnCancel

-----------------------------------------------------------------------------
(* The references *)

(* The identifiers with a transfer, whose handles are referenced. *)
Starting(i) == \E t \in Users : At(t, "start") /\ u[t].id = i
Started == {i \in Ids \ pending : ~Starting(i)}
RefsInv == refs = Cardinality(Started)

LEMMA StartedCount ==
    ASSUME SetFacts
    PROVE  IsFiniteSet(Started) /\ Cardinality(Started) \in Nat
<1>1. Started \in SUBSET Ids
  BY DEF Started
<1>2. IsFiniteSet(Started)
  BY ZenonT(60), <1>1, ConstantsAssumption DEF SetFacts, SubsetFact
<1>. QED
  BY <1>2 DEF SetFacts, CountFact

LEMMA StartedSame ==
    ASSUME RefsInv, refs' = refs, pending' = pending,
           \A t \in Users : /\ u'[t].pc = "start" <=> u[t].pc = "start"
                            /\ u[t].pc = "start" => u'[t].id = u[t].id
    PROVE  RefsInv'
<1>1. Started' = Started
  BY DEF Started, Starting, At
<1>. QED
  BY <1>1 DEF RefsInv

LEMMA StartRefs ==
    ASSUME SetFacts, IInv, RefsInv, NEW t \in Users, StartSelf(t) \/ StartNa(t)
    PROVE  RefsInv'
<1>1. PICK i \in Ids :
        /\ i = u[t].id /\ u[t].pc = "start" /\ pending' = pending
        /\ refs' = refs + 1
        /\ \A s \in Users \ {t} : u'[s] = u[s]
        /\ u'[t].pc = "post" /\ u'[t].id = i
  BY SMTT(60), StartEffect
<1>2. i \notin pending /\ \A s \in Users \ {t} : u[s].pc = "start" => u[s].id # i
  BY <1>1 DEF IInv, StartInv
<1>3. i \notin Started /\ Started' = Started \cup {i}
  BY <1>1, <1>2 DEF Started, Starting, At
<1>4. Cardinality(Started') = Cardinality(Started) + 1
  BY ZenonT(60), <1>3, StartedCount DEF SetFacts, AddFact
<1>. QED
  BY <1>1, <1>4 DEF RefsInv

LEMMA ReleaseRefs ==
    ASSUME SetFacts, IInv, RefsInv, NEW i \in Ids, Release(i)
    PROVE  RefsInv'
<1>1. /\ i \in trig /\ refs' = refs - 1 /\ u' = u /\ pending' = pending \cup {i}
  BY DEF Release, OpDestroy
<1>2. i \notin pending /\ \A s \in Users : u[s].pc = "start" => u[s].id # i
  BY <1>1 DEF IInv, StartInv, TriggerInv, Unused
<1>3. i \in Started /\ Started' = Started \ {i}
  BY <1>1, <1>2 DEF Started, Starting, At
<1>4. Cardinality(Started') = Cardinality(Started) - 1
  BY ZenonT(60), <1>3, StartedCount DEF SetFacts, RemoveFact
<1>. QED
  BY <1>1, <1>4 DEF RefsInv

LEMMA PoolGetRefs ==
    ASSUME IInv, RefsInv, NEW t \in Users, PoolGet(t)
    PROVE  RefsInv'
<1>1. PICK i \in pending :
        pending' = pending \ {i} /\ u' = [u EXCEPT ![t].pc = "start", ![t].id = i]
  BY ZenonT(60) DEF PoolGet
<1>2. /\ u'[t].pc = "start" /\ u'[t].id = i /\ u[t].pc = "get"
      /\ \A s \in Users \ {t} : u'[s] = u[s]
  BY SMTT(60), <1>1 DEF IInv, Types, UserType, PoolGet, At
<1>3. \A k \in Ids : k \in Started' <=> k \in Started
  <2>1. \A k \in Ids : Starting(k)' <=> k = i \/ Starting(k)
    BY <1>2 DEF Starting, At
  <2>2. i \notin Started /\ i \notin Started'
    BY <1>1, <2>1 DEF Started
  <2>3. \A k \in Ids \ {i} : k \in Started' <=> k \in Started
    BY <1>1, <2>1 DEF Started
  <2>. QED
    BY <2>2, <2>3
<1>4. Started' = Started
  BY <1>3 DEF Started
<1>. QED
  BY <1>4 DEF RefsInv, PoolGet

LEMMA RefsStep ==
    ASSUME SetFacts, IInv, RefsInv, [Next]_vars
    PROVE  RefsInv'
<1>1. ASSUME NEW t \in Users, NEW pc, pc # "start", u[t].pc # "start",
             \A s \in Users \ {t} : u'[s] = u[s], u'[t].pc = pc,
             refs' = refs, pending' = pending
      PROVE  RefsInv'
  BY <1>1, StartedSame
<1>2. ASSUME NEW t \in Users,
             \/ Begin(t) \/ PoolFails(t) \/ PostFails(t) \/ PostDone(t) \/ Post(t)
             \/ CancelTest(t) \/ CancelMark(t) \/ CancelNa(t)
      PROVE  RefsInv'
  <2>1. CASE Begin(t)
    BY SMTT(60), <1>1, <2>1 DEF Begin, At, IInv, Types
  <2>2. CASE PoolFails(t) \/ PostFails(t) \/ PostDone(t)
    <3>1. PICK pc \in {"idle", "posted"} : u' = [u EXCEPT ![t].pc = pc]
      BY ZenonT(60), <2>2 DEF PoolFails, PostFails, PostDone, Goto
    <3>2. refs' = refs /\ pending' = pending /\ u[t].pc # "start"
      BY <2>2 DEF PoolFails, PostFails, PostDone, At
    <3>3. u'[t].pc = pc /\ \A s \in Users \ {t} : u'[s] = u[s]
      BY <3>1 DEF IInv, Types, UserType
    <3>. QED
      BY <1>1, <3>2, <3>3
  <2>3. CASE Post(t) \/ CancelNa(t)
    <3>1. PICK k : \/ u' = [u EXCEPT ![t].pc = "posted"]
                   \/ u' = [u EXCEPT ![t].left = k]
      BY ZenonT(60), <2>3 DEF Post, CancelNa, Goto
    <3>2. refs' = refs /\ pending' = pending /\ u[t].pc # "start"
      BY <2>3 DEF Post, CancelNa, At
    <3>3. u'[t].pc # "start" /\ \A s \in Users \ {t} : u'[s] = u[s]
      BY <3>1, <3>2 DEF IInv, Types, UserType
    <3>. QED
      BY <1>1, <3>2, <3>3
  <2>4. CASE CancelTest(t)
    <3>1. PICK pc \in {"posted", "mark"} :
              u' = [u EXCEPT ![t].asked = TRUE, ![t].pc = pc]
      BY ZenonT(60), <2>4 DEF CancelTest, At
    <3>2. u'[t].pc = pc /\ \A s \in Users \ {t} : u'[s] = u[s]
      BY <3>1 DEF IInv, Types, UserType
    <3>3. refs' = refs /\ pending' = pending /\ u[t].pc # "start"
      BY <2>4 DEF CancelTest, At
    <3>. QED
      BY <1>1, <3>2, <3>3
  <2>5. CASE CancelMark(t)
    <3>1. PICK pc \in {"posted", "cancel"} :
              u' = [u EXCEPT ![t].canceled = TRUE, ![t].left = 1, ![t].pc = pc]
      BY ZenonT(60), <2>5 DEF CancelMark, At
    <3>2. u'[t].pc = pc /\ \A s \in Users \ {t} : u'[s] = u[s]
      BY <3>1 DEF IInv, Types, UserType
    <3>3. refs' = refs /\ pending' = pending /\ u[t].pc # "start"
      BY <2>5 DEF CancelMark, At
    <3>. QED
      BY <1>1, <3>2, <3>3
  <2>. QED
    BY <1>2, <2>1, <2>2, <2>3, <2>4, <2>5
<1>3. ASSUME NEW i \in Ids, Trigger(i)
      PROVE  RefsInv'
  <2>1. /\ refs' = refs /\ pending' = pending
        /\ u' = [u EXCEPT ![op[i].by].got = u[op[i].by].got + 1]
    BY <1>3 DEF Trigger
  <2>2. \A t \in Users : u'[t].pc = u[t].pc /\ u'[t].id = u[t].id
    BY <2>1 DEF IInv, Types, UserType
  <2>. QED
    BY <2>1, <2>2, StartedSame
<1>4. ASSUME NEW i \in Ids, NEW j \in 1..MaxOps,
             Count(i, j) \/ \E r \in Results : NaEnds(i, j, r)
      PROVE  RefsInv'
  BY <1>4, StartedSame DEF Count, NaEnds
<1>5. CASE UNCHANGED vars
  BY <1>5, StartedSame DEF vars
<1>. QED
  BY <1>2, <1>3, <1>4, <1>5, StartRefs, ReleaseRefs, PoolGetRefs
     DEF Next, CallStep

LEMMA RefsInit ==
    ASSUME SetFacts, Init
    PROVE  RefsInv
<1>1. Started = {}
  BY DEF Init, Started
<1>. QED
  BY <1>1 DEF Init, RefsInv, SetFacts, EmptyFact

LEMMA RefsBalanced ==
    ASSUME RefsInv
    PROVE  RefsBalance
  BY DEF RefsInv, Started, Starting, RefsBalance

-----------------------------------------------------------------------------
(* The theorems *)

INSTANCE FiniteSetTheorems

LEMMA SetFactsHold == SetFacts
<1>1. EmptyFact /\ SingletonFact
  BY FS_EmptySet, FS_Singleton DEF EmptyFact, SingletonFact
<1>2. CountFact /\ SubsetFact
  BY FS_CardinalityType, FS_Subset DEF CountFact, SubsetFact
<1>3. AddFact
  BY FS_AddElement DEF AddFact
<1>4. RemoveFact
  BY FS_RemoveElement DEF RemoveFact
<1>5. IntervalFact
  BY FS_Interval DEF IntervalFact
<1>. QED
  BY <1>1, <1>2, <1>3, <1>4, <1>5 DEF SetFacts

(* The inductive invariant holds in every state of a transfer, from the     *)
(* pool back to the pool. hg_bulk_transfer, its callbacks and cancel.       *)
THEOREM Invariance == Spec => []IInv
<1>1. Init => IInv
  BY IInvInit
<1>2. IInv /\ [Next]_vars => IInv'
  BY IInvStep, SetFactsHold
<1>. QED
  BY <1>1, <1>2, PTL DEF Spec

(* An identifier that the pool offers is used by nobody, whatever fails and *)
(* whoever cancels: no NA operation will call back on it, it is not queued, *)
(* no thread posts with it. hg_bulk_op_destroy.                             *)
THEOREM PoolIsUnused == Spec => []PooledIsUnused
  BY Invariance, PoolUnused, PTL

(* A transfer is in the completion queue at most once, and only after the   *)
(* last of its NA operations was posted and counted. hg_bulk_transfer_cb.   *)
THEOREM ReportedOnce == Spec => []ReportedIsOver
  BY Invariance, ReportedOver, SetFactsHold, PTL

(* A transfer that its user waits for has callbacks to come or is about to  *)
(* be reported. The identifier still carries it. hg_bulk_transfer_cb.       *)
THEOREM TransferIsKept == Spec => []NoLostTransfer
  BY Invariance, TransferKept, SetFactsHold, PTL

(* What a transfer reports is the result of its NA operations: success      *)
(* exactly if all of them succeeded, else the result of one of them.        *)
(* hg_bulk_transfer_cb and hg_bulk_complete.                                *)
THEOREM ResultReported == Spec => []ResultIsTrue
<1>1. Init => IInv /\ ResultInv
  BY IInvInit, ResultInit
<1>2. IInv /\ ResultInv /\ [Next]_vars => IInv' /\ ResultInv'
  BY IInvStep, ResultStep, SetFactsHold
<1>3. ResultInv => ResultIsTrue
  BY ResultTrue
<1>. QED
  BY <1>1, <1>2, <1>3, PTL DEF Spec

(* When trigger does not run inside cancel, a transfer is also canceled     *)
(* only for the user that started it. hg_bulk_cancel.                       *)
THEOREM TrueReports ==
    ASSUME "cancel" \notin Races
    PROVE  Spec => []ReportIsTrue
<1>1. Init => IInv /\ ResultInv /\ OwnInv
  BY IInvInit, ResultInit, OwnInit
<1>2. IInv /\ ResultInv /\ OwnInv /\ [Next]_vars => IInv' /\ ResultInv' /\ OwnInv'
  BY IInvStep, ResultStep, OwnStep, SetFactsHold
<1>3. IInv /\ ResultInv /\ OwnInv => ReportIsTrue
  BY ResultTrue, OwnCancel DEF ReportIsTrue
<1>. QED
  BY <1>1, <1>2, <1>3, PTL DEF Spec

(* Each transfer that has started and is not released references the bulk   *)
(* handles once, whatever fails. hg_bulk_transfer and hg_bulk_trigger_entry. *)
THEOREM BalancedRefs == Spec => []RefsBalance
<1>1. Init => IInv /\ RefsInv
  BY IInvInit, RefsInit, SetFactsHold
<1>2. IInv /\ RefsInv /\ [Next]_vars => IInv' /\ RefsInv'
  BY IInvStep, RefsStep, SetFactsHold
<1>3. RefsInv => RefsBalance
  BY RefsBalanced
<1>. QED
  BY <1>1, <1>2, <1>3, PTL DEF Spec
=============================================================================
