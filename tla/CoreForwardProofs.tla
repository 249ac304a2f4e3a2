-------------------------- MODULE CoreForwardProofs --------------------------
(* Proofs about the origin handle, for every number of trigger threads and *)
(* every bound on forwards and references.                                 *)
EXTENDS CoreForward, SetSizes, TLAPS

(* Leaves are for Zenon; those that need arithmetic, or that it does not    *)
(* find, cite the SMT solver.                                               *)
USE ZenonT(60)

(* What NA reports to a callback. *)
Reported == {"SUCCESS", "CANCELED", "ERROR"}

-----------------------------------------------------------------------------
(* Types of the fields *)

LEMMA Typed ==
    ASSUME IInv
    PROVE  h \in HandleType /\ u \in UserType /\ hist \in HistType
  BY DEF IInv, TypeOK

LEMMA FieldTypes ==
    ASSUME IInv
    PROVE  /\ h.ref_count \in Nat /\ u.refs \in Nat /\ hist.gen \in Nat
           /\ h.na_op_count \in Nat /\ h.na_op_completed_count \in Nat
  BY DEF IInv, TypeOK, HandleType, UserType, HistType

LEMMA ElementType ==
    ASSUME NEW S, NEW s \in Seq(S)
    PROVE  \A i \in 1 .. Len(s) : s[i] \in S
  BY SMTT(60)

LEMMA CallTypes ==
    ASSUME IInv
    PROVE  /\ hist.calls \in Seq([of : Nat, as : Nat])
           /\ DOMAIN hist.calls = 1 .. Len(hist.calls)
           /\ Len(hist.calls) \in Nat
           /\ \A i \in DOMAIN hist.calls : hist.calls[i].of \in Nat
<1>1. hist.calls \in Seq([of : Nat, as : Nat])
  BY Typed DEF HistType
<1>2. DOMAIN hist.calls = 1 .. Len(hist.calls) /\ Len(hist.calls) \in Nat
  BY SMTT(60), <1>1
<1>3. \A i \in 1 .. Len(hist.calls) : hist.calls[i] \in [of : Nat, as : Nat]
  BY ZenonT(60), <1>1, ElementType
<1>. QED
  BY <1>1, <1>2, <1>3

LEMMA BusyType ==
    ASSUME SetFacts
    PROVE  Cardinality(Busy) \in Nat /\ IsFiniteSet(Busy)
  BY TriggersAssumption DEF SetFacts, CountFact, SubsetFact, Busy

-----------------------------------------------------------------------------
(* Facts shared by several actions *)

(* A step that neither starts nor completes an operation, and leaves the   *)
(* entries and the references alone, preserves what relates them.          *)
LEMMA EntryFrame ==
    ASSUME IInv, queue' = queue, trig' = trig,
           hist'.gen = hist.gen, hist'.calls = hist.calls,
           h'.ref_count = h.ref_count, u'.refs = u.refs,
           u'.cancel # "idle" => u.refs > 0,
           "COMPLETED" \in h'.status <=> "COMPLETED" \in h.status,
           "QUEUED" \in h'.status <=> "QUEUED" \in h.status
    PROVE  RefInv' /\ EntryInv' /\ OwnCallback'
<1>1. Busy' = Busy /\ (NotInUse' <=> NotInUse)
  BY DEF Busy, NotInUse
<1>2. RefInv'
  BY <1>1 DEF IInv, RefInv
<1>3. EntryInv'
  BY DEF IInv, EntryInv, Pending, Active
<1>4. OwnCallback'
  BY DEF IInv, OwnCallback
<1>. QED
  BY <1>2, <1>3, <1>4

-----------------------------------------------------------------------------
(* hg_core_forward and hg_core_forward_na *)

LEMMA ForwardStartStep ==
    ASSUME SetFacts, Disciplined, IInv, NEW nr \in BOOLEAN, ForwardStart(nr)
    PROVE  IInv'
<1>1. h' \in HandleType
  <2>1. PICK b \in BOOLEAN : b = (IF nr THEN TRUE ELSE h.no_response)
    BY ZenonT(60), Typed DEF HandleType
  <2>2. PICK n \in Nat : n = h.ref_count + 1
    BY SMTT(60), FieldTypes
  <2>3. h' = [h EXCEPT !.status = {}, !.ref_count = n, !.na_op_count = 1,
                       !.na_op_completed_count = 0,
                       !.ret_status = "SUCCESS", !.ret = "SUCCESS",
                       !.no_response = b]
    BY <2>1, <2>2 DEF ForwardStart, Restarted
  <2>. QED
    BY ZenonT(60), <2>3, Typed DEF HandleType, Rets
<1>2. hist' \in HistType
  <2>1. PICK n \in Nat : n = hist.gen + 1
    BY SMTT(60), FieldTypes
  <2>2. hist' = [hist EXCEPT !.gen = n, !.oneway = nr, !.answered = FALSE]
    BY <2>1 DEF ForwardStart
  <2>. QED
    BY ZenonT(60), <2>2, Typed DEF HistType
<1>3. TypeOK'
  BY ZenonT(60), <1>1, <1>2, Typed DEF IInv, TypeOK, ForwardStart, UserType
<1>4. /\ hist'.gen = hist.gen + 1 /\ hist'.calls = hist.calls
      /\ h'.status = {} /\ h'.ref_count = h.ref_count + 1
      /\ u'.refs = u.refs /\ u'.cancel = u.cancel
  BY Typed DEF HistType, HandleType, UserType, ForwardStart, Restarted
<1>5. RefInv'
  <2>1. Busy' = Busy
    BY DEF Busy, ForwardStart
  <2>2. NotInUse /\ ~NotInUse'
    BY <1>4 DEF ForwardStart, NotInUse
  <2>. QED
    BY SMTT(60), <1>4, <2>1, <2>2, FieldTypes, BusyType DEF IInv, RefInv
<1>6. EntryInv'
  <2>1. \A t \in Triggers : trig[t].at # "popped"
    BY DEF ForwardStart, MayReuse, Disciplined
  <2>2. \A i \in DOMAIN hist.calls :
           hist.calls[i].of \in Nat /\ hist.calls[i].of <= hist.gen
    BY CallTypes DEF IInv, EntryInv
  <2>3. queue = <<>> /\ queue' = queue /\ trig' = trig
    BY DEF IInv, EntryInv, ForwardStart, NotInUse
  <2>. QED
    BY SMTT(60), <1>4, <2>1, <2>2, <2>3, FieldTypes DEF EntryInv
<1>7. OwnCallback'
  BY <1>4 DEF IInv, OwnCallback
<1>8. CompletedIsQuiet' /\ ForwardInv' /\ CountInv' /\ MoreInv'
  BY Typed DEF IInv, TypeOK, ForwardStart, MayReuse, NotInUse, Restarted,
       CompletedIsQuiet, ForwardInv, CountInv, MoreInv, Outstanding, Active,
       HandleType, UserType, Ops, Disciplined
<1>9. AnswerInv' /\ SuccessMeansResponse'
  BY ZenonT(60), Typed DEF IInv, ForwardStart, MayAsk, Restarted, AnswerInv,
       SuccessMeansResponse, HandleType, UserType, HistType, Disciplined
<1>. QED
  BY <1>3, <1>5, <1>6, <1>7, <1>8, <1>9 DEF IInv

LEMMA ForwardRefusedStep ==
    ASSUME Disciplined, IInv, NEW nr \in BOOLEAN, ForwardRefused(nr)
    PROVE  IInv'
<1>1. h' \in HandleType
  BY ZenonT(60), Typed DEF ForwardRefused, MayReuse, NotInUse, MayAsk, Restarted,
       HandleType, Rets, Flags
<1>2. TypeOK'
  BY <1>1, Typed DEF IInv, TypeOK, ForwardRefused, MayReuse, NotInUse,
       MayAsk, Restarted, UserType, HistType, Ops
<1>3. RefInv' /\ EntryInv' /\ OwnCallback'
  BY Typed, FieldTypes, EntryFrame DEF ForwardRefused, MayReuse, NotInUse,
       MayAsk, Restarted, HandleType, UserType, HistType, IInv, RefInv
<1>4. CompletedIsQuiet' /\ ForwardInv' /\ CountInv' /\ MoreInv'
  BY Typed DEF IInv, TypeOK, ForwardRefused, MayReuse, NotInUse, MayAsk,
       Restarted, CompletedIsQuiet, ForwardInv, CountInv, MoreInv, OutCount,
       Out, Outstanding, Active, HandleType, UserType, Ops, Flags,
       Disciplined
<1>5. AnswerInv' /\ SuccessMeansResponse'
  BY Typed DEF IInv, TypeOK, ForwardRefused, MayReuse, NotInUse, MayAsk,
       Restarted, AnswerInv, SuccessMeansResponse, ForwardInv, CountInv,
       MoreInv, EntryInv, Active, Outstanding, HandleType, UserType,
       HistType, Ops, Flags, Disciplined
<1>. QED
  BY <1>2, <1>3, <1>4, <1>5 DEF IInv

LEMMA ForwardNoRecvStep ==
    ASSUME Disciplined, IInv, ForwardNoRecv
    PROVE  IInv'
<1>1. h' \in HandleType
  BY Typed DEF ForwardNoRecv, HandleType, Rets, Flags
<1>2. TypeOK'
  BY ZenonT(60), <1>1, Typed DEF IInv, TypeOK, ForwardNoRecv, UserType, HistType, Ops
<1>3. RefInv' /\ EntryInv' /\ OwnCallback'
  BY Typed, FieldTypes, EntryFrame DEF ForwardNoRecv, HandleType, UserType,
       HistType, IInv, RefInv
<1>4. CompletedIsQuiet' /\ ForwardInv' /\ CountInv' /\ MoreInv'
  BY Typed DEF IInv, TypeOK, ForwardNoRecv, CompletedIsQuiet, ForwardInv,
       CountInv, MoreInv, OutCount, Out, Outstanding, Active, HandleType,
       UserType, Ops, Flags, Disciplined
<1>5. AnswerInv' /\ SuccessMeansResponse'
  BY ZenonT(60), Typed DEF IInv, TypeOK, ForwardNoRecv, AnswerInv, SuccessMeansResponse,
       ForwardInv, CountInv, MoreInv, EntryInv, Active, Outstanding,
       HandleType, UserType, HistType, Ops, Flags, Disciplined
<1>. QED
  BY <1>2, <1>3, <1>4, <1>5 DEF IInv

LEMMA ForwardRecvStep ==
    ASSUME Disciplined, IInv, ForwardRecv
    PROVE  IInv'
<1>1. h' \in HandleType
  BY Typed DEF ForwardRecv, HandleType, Rets, Flags
<1>2. TypeOK'
  BY ZenonT(60), <1>1, Typed DEF IInv, TypeOK, ForwardRecv, UserType, HistType, Ops
<1>3. RefInv' /\ EntryInv' /\ OwnCallback'
  BY Typed, FieldTypes, EntryFrame DEF ForwardRecv, HandleType, UserType,
       HistType, IInv, RefInv
<1>4. CompletedIsQuiet' /\ ForwardInv' /\ CountInv' /\ MoreInv'
  BY Typed DEF IInv, TypeOK, ForwardRecv, CompletedIsQuiet, ForwardInv,
       CountInv, MoreInv, OutCount, Out, Outstanding, Active, HandleType,
       UserType, Ops, Flags, Disciplined
<1>5. AnswerInv' /\ SuccessMeansResponse'
  BY Typed DEF IInv, TypeOK, ForwardRecv, AnswerInv, SuccessMeansResponse,
       ForwardInv, CountInv, MoreInv, EntryInv, Active, Outstanding,
       HandleType, UserType, HistType, Ops, Flags, Disciplined
<1>. QED
  BY <1>2, <1>3, <1>4, <1>5 DEF IInv

(* The error path of forward, with no NA operation left behind. *)
LEMMA ForwardErrorStep ==
    ASSUME SetFacts, IInv, u.forward # "idle", op["recv"] = "idle", ForwardError,
           UNCHANGED <<op, sent, cb, more, queue, trig, hist>>
    PROVE  IInv'
<1>1. Active /\ ~NotInUse /\ NotInUse' /\ h.ref_count > 0
  BY SMTT(60), Typed, FieldTypes, BusyType
     DEF IInv, RefInv, ForwardInv, ForwardError, NotInUse, Active, HandleType
<1>2. PICK n \in Nat : n = h.ref_count - 1
  BY SMTT(60), <1>1, FieldTypes
<1>3. h' = [h EXCEPT !.status = {"COMPLETED"}, !.ref_count = n]
  BY <1>2 DEF ForwardError
<1>4. h' \in HandleType
  BY ZenonT(60), <1>3, Typed DEF HandleType, Flags
<1>5. TypeOK'
  BY <1>4, Typed DEF IInv, TypeOK, ForwardError, UserType
<1>6. /\ h'.ref_count = h.ref_count - 1 /\ h'.status = {"COMPLETED"}
      /\ u'.refs = u.refs /\ u'.cancel = u.cancel
  BY Typed DEF ForwardError, HandleType, UserType
<1>7. RefInv'
  <2>1. Busy' = Busy
    BY DEF Busy
  <2>. QED
    BY SMTT(60), <1>1, <1>6, <2>1, FieldTypes, BusyType DEF IInv, RefInv
<1>8. EntryInv' /\ OwnCallback'
  <2>1. \A t \in Triggers : trig[t].at # "popped"
    BY <1>1 DEF IInv, EntryInv
  <2>2. queue = <<>>
    BY DEF IInv, EntryInv, ForwardInv
  <2>. QED
    BY <1>6, <2>1, <2>2 DEF IInv, EntryInv, Pending, Active, OwnCallback
<1>9. CompletedIsQuiet' /\ ForwardInv' /\ CountInv' /\ MoreInv'
  BY <1>6, Typed DEF IInv, CompletedIsQuiet, ForwardInv, CountInv, MoreInv,
       Outstanding, Active, ForwardError, UserType, Ops
<1>10. AnswerInv' /\ SuccessMeansResponse'
  BY <1>6 DEF AnswerInv, SuccessMeansResponse, Active
<1>. QED
  BY <1>5, <1>7, <1>8, <1>9, <1>10 DEF IInv

LEMMA ForwardRecvFailsStep ==
    ASSUME SetFacts, IInv, ForwardRecvFails
    PROVE  IInv'
  BY ForwardErrorStep DEF ForwardRecvFails, IInv, ForwardInv

LEMMA ForwardCountStep ==
    ASSUME Disciplined, IInv, ForwardCount
    PROVE  IInv'
<1>1. h' \in HandleType
  BY SMTT(60), Typed DEF ForwardCount, HandleType, Rets, Flags
<1>2. TypeOK'
  BY ZenonT(60), <1>1, Typed DEF IInv, TypeOK, ForwardCount, UserType, HistType, Ops
<1>3. RefInv' /\ EntryInv' /\ OwnCallback'
  BY Typed, FieldTypes, EntryFrame DEF ForwardCount, HandleType, UserType,
       HistType, IInv, RefInv
<1>4. CompletedIsQuiet' /\ ForwardInv' /\ CountInv' /\ MoreInv'
  BY SMTT(60), Typed DEF IInv, TypeOK, ForwardCount, CompletedIsQuiet, ForwardInv,
       CountInv, MoreInv, OutCount, Out, Outstanding, Active, HandleType,
       UserType, Ops, Flags, Disciplined
<1>5. AnswerInv' /\ SuccessMeansResponse'
  BY Typed DEF IInv, TypeOK, ForwardCount, AnswerInv, SuccessMeansResponse,
       ForwardInv, CountInv, MoreInv, EntryInv, Active, Outstanding,
       HandleType, UserType, HistType, Ops, Flags, Disciplined
<1>. QED
  BY <1>2, <1>3, <1>4, <1>5 DEF IInv

LEMMA ForwardMarkStep ==
    ASSUME Disciplined, IInv, ForwardMark
    PROVE  IInv'
<1>1. h' \in HandleType
  BY Typed DEF ForwardMark, HandleType, Rets, Flags
<1>2. TypeOK'
  BY ZenonT(60), <1>1, Typed DEF IInv, TypeOK, ForwardMark, UserType, HistType, Ops
<1>3. RefInv' /\ EntryInv' /\ OwnCallback'
  BY Typed, FieldTypes, EntryFrame DEF ForwardMark, HandleType, UserType,
       HistType, IInv, RefInv
<1>4. CompletedIsQuiet' /\ ForwardInv' /\ CountInv' /\ MoreInv'
  BY Typed DEF IInv, TypeOK, ForwardMark, CompletedIsQuiet, ForwardInv,
       CountInv, MoreInv, OutCount, Out, Outstanding, Active, HandleType,
       UserType, Ops, Flags, Disciplined
<1>5. AnswerInv' /\ SuccessMeansResponse'
  BY Typed DEF IInv, TypeOK, ForwardMark, AnswerInv, SuccessMeansResponse,
       ForwardInv, CountInv, MoreInv, EntryInv, Active, Outstanding,
       HandleType, UserType, HistType, Ops, Flags, Disciplined
<1>. QED
  BY <1>2, <1>3, <1>4, <1>5 DEF IInv

LEMMA ForwardSendStep ==
    ASSUME Disciplined, IInv, ForwardSend
    PROVE  IInv'
<1>1. h' \in HandleType
  BY Typed DEF ForwardSend, HandleType, Rets, Flags
<1>2. TypeOK'
  BY ZenonT(60), <1>1, Typed DEF IInv, TypeOK, ForwardSend, UserType, HistType, Ops
<1>3. RefInv' /\ EntryInv' /\ OwnCallback'
  BY Typed, FieldTypes, EntryFrame DEF ForwardSend, HandleType, UserType,
       HistType, IInv, RefInv
<1>4. CompletedIsQuiet' /\ ForwardInv' /\ CountInv' /\ MoreInv'
  BY SMTT(60), Typed DEF IInv, TypeOK, ForwardSend, CompletedIsQuiet, ForwardInv,
       CountInv, MoreInv, OutCount, Out, Outstanding, Active, HandleType,
       UserType, Ops, Flags, Disciplined
<1>5. AnswerInv' /\ SuccessMeansResponse'
  BY Typed DEF IInv, TypeOK, ForwardSend, AnswerInv, SuccessMeansResponse,
       ForwardInv, CountInv, MoreInv, EntryInv, Active, Outstanding,
       HandleType, UserType, HistType, Ops, Flags, Disciplined
<1>. QED
  BY <1>2, <1>3, <1>4, <1>5 DEF IInv

LEMMA ForwardSendFailsStep ==
    ASSUME Disciplined, IInv, ForwardSendFails
    PROVE  IInv'
<1>1. h.na_op_count - 1 = 1
  BY SMTT(60) DEF IInv, ForwardInv, ForwardSendFails
<1>2. h' = [h EXCEPT !.status = (h.status \ {"POSTED"})
                                \cup {"ERRORED", "CANCELED"},
                     !.na_op_count = 1, !.ret_status = "ERROR"]
  BY ZenonT(60), <1>1 DEF ForwardSendFails
<1>3. h' \in HandleType
  BY ZenonT(60), <1>2, Typed DEF HandleType, Rets, Flags
<1>4. TypeOK'
  BY ZenonT(60), <1>3, Typed DEF IInv, TypeOK, ForwardSendFails, UserType
<1>5. RefInv' /\ EntryInv' /\ OwnCallback'
  BY Typed, EntryFrame
     DEF ForwardSendFails, HandleType, UserType, IInv, RefInv
<1>6. CompletedIsQuiet' /\ ForwardInv' /\ CountInv' /\ MoreInv'
  BY SMTT(60), <1>2, Typed DEF IInv, ForwardSendFails, CompletedIsQuiet, ForwardInv,
       CountInv, MoreInv, Outstanding, Active, HandleType, UserType
<1>7. AnswerInv' /\ SuccessMeansResponse'
  BY Typed DEF IInv, ForwardSendFails, AnswerInv, SuccessMeansResponse,
       ForwardInv, Active, HandleType
<1>. QED
  BY <1>4, <1>5, <1>6, <1>7 DEF IInv

LEMMA ForwardSendRefusedStep ==
    ASSUME SetFacts, IInv, ForwardSendRefused
    PROVE  IInv'
  BY ForwardErrorStep DEF ForwardSendRefused, IInv, ForwardInv

LEMMA ForwardCancelStep ==
    ASSUME Disciplined, IInv, ForwardCancel
    PROVE  IInv'
<1>1. h' \in HandleType
  BY Typed DEF ForwardCancel, NA_Cancel, HandleType, Rets, Flags
<1>2. TypeOK'
  BY ZenonT(60), <1>1, Typed DEF IInv, TypeOK, ForwardCancel, NA_Cancel, UserType,
       HistType, Ops
<1>3. RefInv' /\ EntryInv' /\ OwnCallback'
  BY Typed, FieldTypes, EntryFrame DEF ForwardCancel, NA_Cancel, HandleType,
       UserType, HistType, IInv, RefInv
<1>4. CompletedIsQuiet' /\ ForwardInv' /\ CountInv' /\ MoreInv'
  BY SMTT(60), Typed DEF IInv, TypeOK, ForwardCancel, NA_Cancel, CompletedIsQuiet,
       ForwardInv, CountInv, MoreInv, OutCount, Out, Outstanding, Active,
       HandleType, UserType, Ops, Flags, Disciplined
<1>5. AnswerInv' /\ SuccessMeansResponse'
  BY Typed DEF IInv, TypeOK, ForwardCancel, NA_Cancel, AnswerInv,
       SuccessMeansResponse, ForwardInv, CountInv, MoreInv, EntryInv,
       Active, Outstanding, HandleType, UserType, HistType, Ops, Flags,
       Disciplined
<1>. QED
  BY <1>2, <1>3, <1>4, <1>5 DEF IInv

-----------------------------------------------------------------------------
(* NA callbacks *)

LEMMA SendInputCbStep ==
    ASSUME Disciplined, IInv, NEW r \in Reported, SendInputCb(r)
    PROVE  IInv'
<1>1. h' \in HandleType
  BY ZenonT(60), Typed DEF SendInputCb, Delivered, NoteResult, KeepFirst, HandleType,
       Rets, Flags, Reported
<1>2. TypeOK'
  BY <1>1, Typed DEF IInv, TypeOK, SendInputCb, Delivered, NoteResult,
       KeepFirst, UserType, HistType, Ops
<1>3. RefInv' /\ EntryInv' /\ OwnCallback'
  BY Typed, FieldTypes, EntryFrame DEF SendInputCb, Delivered, NoteResult,
       KeepFirst, HandleType, UserType, HistType, IInv, RefInv
<1>4. CompletedIsQuiet' /\ ForwardInv' /\ CountInv' /\ MoreInv'
  BY Typed DEF IInv, TypeOK, SendInputCb, Delivered, NoteResult, KeepFirst,
       CompletedIsQuiet, ForwardInv, CountInv, MoreInv, OutCount, Out,
       Outstanding, Active, HandleType, UserType, Ops, Flags, Outcomes,
       ThreadFree, Disciplined
<1>5. AnswerInv' /\ SuccessMeansResponse'
  BY Typed DEF IInv, TypeOK, SendInputCb, Delivered, NoteResult, KeepFirst,
       AnswerInv, SuccessMeansResponse, ForwardInv, CountInv, MoreInv,
       EntryInv, Active, Outstanding, HandleType, UserType, HistType, Ops,
       Flags, Outcomes, ThreadFree, Disciplined, Reported
<1>. QED
  BY <1>2, <1>3, <1>4, <1>5 DEF IInv

LEMMA SendInputCancelStep ==
    ASSUME Disciplined, IInv, SendInputCancel
    PROVE  IInv'
<1>1. h' \in HandleType
  BY Typed DEF SendInputCancel, NA_Cancel, HandleType, Rets, Flags
<1>2. TypeOK'
  BY <1>1, Typed DEF IInv, TypeOK, SendInputCancel, NA_Cancel, UserType,
       HistType, Ops
<1>3. RefInv' /\ EntryInv' /\ OwnCallback'
  BY Typed, FieldTypes, EntryFrame DEF SendInputCancel, NA_Cancel,
       HandleType, UserType, HistType, IInv, RefInv
<1>4. CompletedIsQuiet' /\ ForwardInv' /\ CountInv' /\ MoreInv'
  BY Typed DEF IInv, TypeOK, SendInputCancel, NA_Cancel, CompletedIsQuiet,
       ForwardInv, CountInv, MoreInv, OutCount, Out, Outstanding, Active,
       HandleType, UserType, Ops, Flags
<1>5. AnswerInv' /\ SuccessMeansResponse'
  BY Typed DEF IInv, TypeOK, SendInputCancel, NA_Cancel, AnswerInv,
       SuccessMeansResponse, ForwardInv, CountInv, MoreInv, EntryInv,
       Active, Outstanding, HandleType, UserType, HistType, Ops, Flags
<1>. QED
  BY <1>2, <1>3, <1>4, <1>5 DEF IInv

LEMMA RecvOutputFailsStep ==
    ASSUME Disciplined, IInv, NEW r \in Reported, RecvOutputFails(r)
    PROVE  IInv'
<1>1. h' \in HandleType
  BY ZenonT(60), Typed DEF RecvOutputFails, Delivered, NoteResult, KeepFirst,
       HandleType, Rets, Flags, Reported
<1>2. TypeOK'
  BY SMTT(60), <1>1, Typed DEF IInv, TypeOK, RecvOutputFails, Delivered, NoteResult,
       KeepFirst, UserType, HistType, Ops
<1>3. RefInv' /\ EntryInv' /\ OwnCallback'
  BY Typed, FieldTypes, EntryFrame DEF RecvOutputFails, Delivered,
       NoteResult, KeepFirst, HandleType, UserType, HistType, IInv, RefInv
<1>4. CompletedIsQuiet' /\ ForwardInv' /\ CountInv' /\ MoreInv'
  BY SMTT(60), Typed DEF IInv, TypeOK, RecvOutputFails, Delivered, NoteResult,
       KeepFirst, CompletedIsQuiet, ForwardInv, CountInv, MoreInv, OutCount,
       Out, Outstanding, Active, HandleType, UserType, Ops, Flags, Outcomes,
       ThreadFree, Disciplined
<1>5. AnswerInv' /\ SuccessMeansResponse'
  BY Typed DEF IInv, TypeOK, RecvOutputFails, Delivered, NoteResult,
       KeepFirst, AnswerInv, SuccessMeansResponse, ForwardInv, CountInv,
       MoreInv, EntryInv, Active, Outstanding, HandleType, UserType,
       HistType, Ops, Flags, Outcomes, ThreadFree, Disciplined, Reported
<1>. QED
  BY <1>2, <1>3, <1>4, <1>5 DEF IInv

LEMMA RecvOutputCbStep ==
    ASSUME Disciplined, IInv, NEW rc \in Rets, RecvOutputCb(rc)
    PROVE  IInv'
<1>1. h' \in HandleType
  BY Typed DEF RecvOutputCb, Delivered, HandleType, Rets, Flags
<1>2. TypeOK'
  BY ZenonT(60), <1>1, Typed DEF IInv, TypeOK, RecvOutputCb, Delivered, UserType,
       HistType, Ops
<1>3. RefInv' /\ EntryInv' /\ OwnCallback'
  BY Typed, FieldTypes, EntryFrame DEF RecvOutputCb, Delivered, HandleType,
       UserType, HistType, IInv, RefInv
<1>4. CompletedIsQuiet' /\ ForwardInv' /\ CountInv' /\ MoreInv'
  BY Typed DEF IInv, TypeOK, RecvOutputCb, Delivered, CompletedIsQuiet,
       ForwardInv, CountInv, MoreInv, OutCount, Out, Outstanding, Active,
       HandleType, UserType, Ops, Flags, Outcomes, ThreadFree, Disciplined
<1>5. AnswerInv' /\ SuccessMeansResponse'
  BY Typed DEF IInv, TypeOK, RecvOutputCb, Delivered, AnswerInv,
       SuccessMeansResponse, ForwardInv, CountInv, MoreInv, EntryInv,
       Active, Outstanding, HandleType, UserType, HistType, Ops, Flags,
       Outcomes, ThreadFree, Disciplined
<1>. QED
  BY <1>2, <1>3, <1>4, <1>5 DEF IInv

LEMMA RecvOutputMoreStep ==
    ASSUME Disciplined, IInv, NEW rc \in Rets, RecvOutputMore(rc)
    PROVE  IInv'
<1>1. Races = {}
  BY DEF Disciplined, RecvOutputMore
<1>2. /\ op["recv"] # "idle" /\ ~Outstanding("send")
      /\ op' = [op EXCEPT !["recv"] = "idle"]
      /\ cb' = [cb EXCEPT !["recv"] = "defer"]
      /\ \A o \in Ops : cb[o] = "none"
  BY <1>1 DEF RecvOutputMore, Delivered, Outcomes, ThreadFree
<1>3. Active /\ u.forward = "idle" /\ ~more /\ ~Outstanding("ack")
  BY <1>2 DEF RecvOutputMore, Delivered, Outcomes, IInv, CompletedIsQuiet,
       Outstanding, Ops, ForwardInv, MoreInv, Active
<1>4. h' \in HandleType
  BY Typed DEF RecvOutputMore, HandleType
<1>5. TypeOK'
  BY <1>2, <1>4 DEF IInv, TypeOK, RecvOutputMore, Ops
<1>6. RefInv' /\ EntryInv' /\ OwnCallback'
  BY Typed, EntryFrame DEF RecvOutputMore, HandleType, IInv, RefInv
<1>7. MoreInv'
  BY <1>2, <1>3 DEF IInv, TypeOK, MoreInv, RecvOutputMore, Outstanding, Ops
<1>8. CompletedIsQuiet' /\ ForwardInv' /\ CountInv'
  BY <1>2, <1>3, Typed DEF IInv, TypeOK, RecvOutputMore, CompletedIsQuiet,
       ForwardInv, CountInv, OutCount, Out, Outstanding, Active, HandleType,
       Ops
<1>9. AnswerInv' /\ SuccessMeansResponse'
  BY <1>3, Typed DEF IInv, RecvOutputMore, AnswerInv, SuccessMeansResponse,
       EntryInv, Active, HandleType
<1>. QED
  BY <1>5, <1>6, <1>7, <1>8, <1>9 DEF IInv

LEMMA RecvOutputNoMoreStep ==
    ASSUME Disciplined, IInv, NEW rc \in Rets, RecvOutputNoMore(rc)
    PROVE  IInv'
<1>1. h' \in HandleType
  BY ZenonT(60), Typed DEF RecvOutputNoMore, Delivered, HandleType, Rets, Flags
<1>2. TypeOK'
  BY <1>1, Typed DEF IInv, TypeOK, RecvOutputNoMore, Delivered, UserType,
       HistType, Ops
<1>3. RefInv' /\ EntryInv' /\ OwnCallback'
  BY Typed, FieldTypes, EntryFrame DEF RecvOutputNoMore, Delivered,
       HandleType, UserType, HistType, IInv, RefInv
<1>4. CompletedIsQuiet' /\ ForwardInv' /\ CountInv' /\ MoreInv'
  BY Typed DEF IInv, TypeOK, RecvOutputNoMore, Delivered, CompletedIsQuiet,
       ForwardInv, CountInv, MoreInv, OutCount, Out, Outstanding, Active,
       HandleType, UserType, Ops, Flags, Outcomes, ThreadFree, Disciplined
<1>5. AnswerInv' /\ SuccessMeansResponse'
  BY Typed DEF IInv, TypeOK, RecvOutputNoMore, Delivered, AnswerInv,
       SuccessMeansResponse, ForwardInv, CountInv, MoreInv, EntryInv,
       Active, Outstanding, HandleType, UserType, HistType, Ops, Flags,
       Outcomes, ThreadFree, Disciplined
<1>. QED
  BY <1>2, <1>3, <1>4, <1>5 DEF IInv

LEMMA AckCbStep ==
    ASSUME Disciplined, IInv, NEW r \in Reported, AckCb(r)
    PROVE  IInv'
<1>1. h' \in HandleType
  BY ZenonT(60), Typed DEF AckCb, Delivered, NoteResult, KeepFirst, HandleType, Rets,
       Flags, Reported
<1>2. TypeOK'
  BY <1>1, Typed DEF IInv, TypeOK, AckCb, Delivered, NoteResult, KeepFirst,
       UserType, HistType, Ops
<1>3. RefInv' /\ EntryInv' /\ OwnCallback'
  BY Typed, FieldTypes, EntryFrame DEF AckCb, Delivered, NoteResult,
       KeepFirst, HandleType, UserType, HistType, IInv, RefInv
<1>4. CompletedIsQuiet' /\ ForwardInv' /\ CountInv' /\ MoreInv'
  BY Typed DEF IInv, TypeOK, AckCb, Delivered, NoteResult, KeepFirst,
       CompletedIsQuiet, ForwardInv, CountInv, MoreInv, OutCount, Out,
       Outstanding, Active, HandleType, UserType, Ops, Flags, Outcomes,
       ThreadFree, Disciplined
<1>5. AnswerInv' /\ SuccessMeansResponse'
  BY Typed DEF IInv, TypeOK, AckCb, Delivered, NoteResult, KeepFirst,
       AnswerInv, SuccessMeansResponse, ForwardInv, CountInv, MoreInv,
       EntryInv, Active, Outstanding, HandleType, UserType, HistType, Ops,
       Flags, Outcomes, ThreadFree, Disciplined, Reported
<1>. QED
  BY <1>2, <1>3, <1>4, <1>5 DEF IInv

(* hg_core_complete turns the operation in progress into its entry. *)
LEMMA CompleteEntry ==
    ASSUME IInv, Active, NEW g \in HandleType, g.ref_count = h.ref_count,
           Complete(g), u' = u, trig' = trig, hist'.gen = hist.gen,
           hist'.calls = hist.calls
    PROVE  h' \in HandleType /\ queue' \in Seq(Nat) /\ RefInv' /\ EntryInv'
<1>1. h' \in HandleType
  BY ZenonT(60) DEF Complete, HandleType, Flags
<1>2. "QUEUED" \notin h.status /\ queue = <<>>
  BY DEF IInv, EntryInv, Active
<1>3. queue' = <<hist.gen>>
  BY SMTT(60), <1>2, FieldTypes DEF Complete
<1>4. queue' \in Seq(Nat)
  BY SMTT(60), <1>3, FieldTypes
<1>5. /\ "COMPLETED" \in h'.status /\ "QUEUED" \in h'.status
      /\ h'.ref_count = g.ref_count
  BY DEF Complete, HandleType
<1>6. RefInv'
  <2>1. Busy' = Busy
    BY DEF Busy
  <2>2. ~NotInUse /\ ~NotInUse'
    BY <1>5 DEF NotInUse, Active
  <2>. QED
    BY <1>5, <2>1, <2>2 DEF IInv, RefInv
<1>7. EntryInv'
  <2>1. \A t \in Triggers : trig[t].at # "popped"
    BY DEF IInv, EntryInv
  <2>2. \A i \in DOMAIN hist.calls :
           hist.calls[i].of < hist.gen /\ hist.calls[i].of <= hist.gen
    BY DEF IInv, EntryInv, Pending
  <2>. QED
    BY <1>3, <1>5, <2>1, <2>2 DEF EntryInv
<1>. QED
  BY <1>1, <1>4, <1>6, <1>7

(* An NA callback that ends is one operation less in flight. *)
LEMMA OneLess ==
    ASSUME IInv, NEW o \in Ops, CompleteNa(o)
    PROVE  /\ OutCount \in Nat /\ OutCount' = OutCount - 1
           /\ OutCount = 1 => \A p \in Ops : ~Outstanding(p)'
<1>1. /\ ~Outstanding(o)' /\ Outstanding(o)
      /\ \A p \in Ops \ {o} : Outstanding(p)' <=> Outstanding(p)
  BY DEF IInv, TypeOK, MoreInv, CompleteNa, Outstanding
<1>2. CASE o = "send"
  BY SMTT(60), <1>1, <1>2 DEF OutCount, Out, Ops
<1>3. CASE o = "recv"
  BY SMTT(60), <1>1, <1>3 DEF OutCount, Out, Ops
<1>4. CASE o = "ack"
  BY SMTT(60), <1>1, <1>4 DEF OutCount, Out, Ops
<1>. QED
  BY <1>2, <1>3, <1>4 DEF Ops

LEMMA CompleteNaStep ==
    ASSUME Disciplined, IInv, NEW o \in Ops, CompleteNa(o)
    PROVE  IInv'
<1> DEFINE g == [h EXCEPT !.na_op_completed_count =
                             h.na_op_completed_count + 1]
<1>1. /\ g \in HandleType /\ g.ref_count = h.ref_count
      /\ g.status = h.status /\ g.ret_status = h.ret_status
      /\ g.na_op_completed_count = h.na_op_completed_count + 1
      /\ g.na_op_count = h.na_op_count
  <2>1. PICK n \in Nat : n = h.na_op_completed_count + 1
    BY SMTT(60), FieldTypes
  <2>2. g = [h EXCEPT !.na_op_completed_count = n]
    BY <2>1
  <2>. QED
    BY <2>1, <2>2, Typed DEF HandleType
<1>2. Active /\ u.forward = "idle" /\ Outstanding(o)
  BY DEF CompleteNa, IInv, CompletedIsQuiet, Active, Outstanding, ForwardInv
<1>3. CASE g.na_op_completed_count = g.na_op_count /\ cb[o] = "finish"
  <2>1. Complete(g)
    BY <1>3 DEF CompleteNa
  <2>2. h' \in HandleType /\ queue' \in Seq(Nat) /\ RefInv' /\ EntryInv'
    BY ZenonT(60), <1>1, <1>2, <2>1, CompleteEntry DEF CompleteNa
  <2>3. TypeOK'
    BY <2>2 DEF IInv, TypeOK, CompleteNa
  <2>4. OutCount = 1 /\ ~more
    BY SMTT(60), <1>1, <1>2, <1>3, FieldTypes
       DEF IInv, CountInv, MoreInv, OutCount, Out, Ops, Outstanding
  <2>5. /\ "COMPLETED" \in h'.status /\ h'.ret = h.ret_status
        /\ h'.no_response = h.no_response /\ h'.ret_status = h.ret_status
    BY <1>1, <2>1, Typed DEF Complete, HandleType
  <2>6. CompletedIsQuiet'
    BY ZenonT(60), <2>4, OneLess DEF CompletedIsQuiet, CompleteNa
  <2>7. ForwardInv' /\ CountInv' /\ AnswerInv'
    BY <1>2, <2>5 DEF CompleteNa, ForwardInv, CountInv, AnswerInv, Active
  <2>8. MoreInv'
    BY <2>4, <2>5, <2>6 DEF IInv, TypeOK, MoreInv, CompleteNa, Ops,
         CompletedIsQuiet, Outstanding
  <2>9. OwnCallback'
    BY DEF IInv, OwnCallback, CompleteNa
  <2>10. SuccessMeansResponse'
    BY <1>2, <2>4, <2>5, <2>6 DEF IInv, SuccessMeansResponse, AnswerInv,
         CompletedIsQuiet, Outstanding, CompleteNa, Ops
  <2>. QED
    BY <2>2, <2>3, <2>6, <2>7, <2>8, <2>9, <2>10 DEF IInv
<1>4. CASE ~(g.na_op_completed_count = g.na_op_count /\ cb[o] = "finish")
  <2>1. h' = g /\ queue' = queue
    BY <1>4 DEF CompleteNa
  <2>2. TypeOK'
    BY <1>1, <2>1 DEF IInv, TypeOK, CompleteNa
  <2>3. RefInv' /\ EntryInv' /\ OwnCallback'
    BY <1>1, <2>1, EntryFrame DEF IInv, RefInv, CompleteNa
  <2>4. CountInv'
    <3>1. /\ h'.na_op_completed_count = h.na_op_completed_count + 1
          /\ h'.na_op_count = h.na_op_count
      BY <1>1, <2>1
    <3>2. OutCount = 1 => more
      BY <1>1, <1>2, <1>4, FieldTypes
         DEF IInv, CountInv, MoreInv, CompleteNa
    <3>3. h.na_op_completed_count + OutCount = h.na_op_count
      BY <1>2 DEF IInv, CountInv
    <3>4. (h.na_op_completed_count + 1) + (OutCount - 1) = h.na_op_count
      BY SMTT(60), <3>3, OneLess, FieldTypes
    <3>5. h'.na_op_completed_count + OutCount' = h'.na_op_count
      BY <3>1, <3>4, OneLess
    <3>6. OutCount - 1 = 0 => more
      BY SMTT(60), <3>2, OneLess
    <3>7. OutCount' = 0 => more'
      BY ZenonT(60), <3>6, OneLess DEF CompleteNa
    <3>. QED
      BY <3>5, <3>7 DEF CountInv
  <2>5. CompletedIsQuiet' /\ ForwardInv'
    BY <1>1, <1>2, <2>1 DEF CompletedIsQuiet, ForwardInv, CompleteNa, Active
  <2>6. AnswerInv' /\ SuccessMeansResponse'
    BY <1>1, <1>2, <2>1, Typed DEF IInv, AnswerInv, SuccessMeansResponse,
         CompleteNa, Active, EntryInv, HandleType
  <2>7. MoreInv'
    BY DEF IInv, TypeOK, MoreInv, CompleteNa, Ops, Outstanding
  <2>. QED
    BY <2>2, <2>3, <2>4, <2>5, <2>6, <2>7 DEF IInv
<1>. QED
  BY <1>3, <1>4

(* The extra data ends when no NA operation is left. *)
LEMMA MoreIsLast ==
    ASSUME Disciplined, IInv, more, ThreadFree
    PROVE  /\ Active /\ u.forward = "idle"
           /\ \A o \in Ops : ~Outstanding(o)
  BY DEF Disciplined, IInv, MoreInv, ThreadFree, CompletedIsQuiet,
       ForwardInv, Active, Outstanding, Ops

LEMMA SendAckAbortsStep ==
    ASSUME Disciplined, IInv, NEW r \in {"CANCELED", "ERROR"},
           SendAckAborts(r)
    PROVE  IInv'
<1> DEFINE g == [h EXCEPT !.ret_status = KeepFirst(r),
                          !.status = IF r = "ERROR"
                                     THEN h.status \cup {"ERRORED"}
                                     ELSE h.status]
<1>1. g \in HandleType /\ g.ref_count = h.ref_count
  BY ZenonT(60), Typed DEF HandleType, KeepFirst, Rets, Flags
<1>2. /\ Active /\ u.forward = "idle"
      /\ \A o \in Ops : ~Outstanding(o)
  BY MoreIsLast DEF SendAckAborts
<1>3. h' \in HandleType /\ queue' \in Seq(Nat) /\ RefInv' /\ EntryInv'
  BY ZenonT(60), <1>1, <1>2, CompleteEntry DEF SendAckAborts
<1>4. TypeOK'
  BY ZenonT(60), <1>3 DEF IInv, TypeOK, SendAckAborts
<1>5. "COMPLETED" \in h'.status /\ h'.ret # "SUCCESS"
  BY Typed DEF SendAckAborts, Complete, KeepFirst, HandleType
<1>6. CompletedIsQuiet' /\ ForwardInv' /\ CountInv' /\ MoreInv'
  BY <1>2, <1>5 DEF IInv, SendAckAborts, CompletedIsQuiet, ForwardInv,
       CountInv, MoreInv, Outstanding, Active, Ops
<1>7. AnswerInv' /\ SuccessMeansResponse' /\ OwnCallback'
  BY <1>5 DEF IInv, SendAckAborts, AnswerInv, SuccessMeansResponse,
       OwnCallback, Active
<1>. QED
  BY <1>3, <1>4, <1>6, <1>7 DEF IInv

LEMMA SendAckStep ==
    ASSUME Disciplined, IInv, SendAck
    PROVE  IInv'
<1>1. h' \in HandleType
  BY SMTT(60), Typed DEF SendAck, HandleType, Rets, Flags
<1>2. TypeOK'
  BY ZenonT(60), <1>1, Typed DEF IInv, TypeOK, SendAck, UserType, HistType, Ops
<1>3. RefInv' /\ EntryInv' /\ OwnCallback'
  BY Typed, FieldTypes, EntryFrame DEF SendAck, HandleType, UserType,
       HistType, IInv, RefInv
<1>4. CompletedIsQuiet' /\ ForwardInv' /\ CountInv' /\ MoreInv'
  BY SMTT(60), Typed DEF IInv, TypeOK, SendAck, CompletedIsQuiet, ForwardInv,
       CountInv, MoreInv, OutCount, Out, Outstanding, Active, HandleType,
       UserType, Ops, Flags, ThreadFree, Disciplined
<1>5. AnswerInv' /\ SuccessMeansResponse'
  BY Typed DEF IInv, TypeOK, SendAck, AnswerInv, SuccessMeansResponse,
       ForwardInv, CountInv, MoreInv, EntryInv, Active, Outstanding,
       HandleType, UserType, HistType, Ops, Flags, ThreadFree, Disciplined
<1>. QED
  BY <1>2, <1>3, <1>4, <1>5 DEF IInv

LEMMA SendAckFailsStep ==
    ASSUME Disciplined, IInv, SendAckFails
    PROVE  IInv'
<1> DEFINE g == [h EXCEPT !.na_op_count = h.na_op_count + 1,
                          !.status = h.status \cup {"ERRORED"}]
<1>1. g \in HandleType /\ g.ref_count = h.ref_count
  <2>1. PICK n \in Nat : n = h.na_op_count + 1
    BY SMTT(60), FieldTypes
  <2>2. g = [h EXCEPT !.na_op_count = n, !.status = h.status \cup {"ERRORED"}]
    BY <2>1
  <2>. QED
    BY ZenonT(60), <2>2, Typed DEF HandleType, Flags
<1>2. /\ Active /\ u.forward = "idle"
      /\ \A o \in Ops : ~Outstanding(o)
  BY MoreIsLast DEF SendAckFails
<1>3. h' \in HandleType /\ queue' \in Seq(Nat) /\ RefInv' /\ EntryInv'
  BY ZenonT(60), <1>1, <1>2, CompleteEntry, Typed DEF SendAckFails, HistType
<1>4. TypeOK'
  BY ZenonT(60), <1>3, Typed DEF IInv, TypeOK, SendAckFails, HistType
<1>5. "COMPLETED" \in h'.status /\ hist'.answered /\ hist'.calls = hist.calls
  BY Typed DEF SendAckFails, Complete, HandleType, HistType
<1>6. CompletedIsQuiet' /\ ForwardInv' /\ CountInv' /\ MoreInv'
  BY <1>2, <1>5 DEF IInv, SendAckFails, CompletedIsQuiet, ForwardInv,
       CountInv, MoreInv, Outstanding, Active, Ops
<1>7. AnswerInv' /\ SuccessMeansResponse' /\ OwnCallback'
  BY <1>5 DEF IInv, AnswerInv, SuccessMeansResponse, OwnCallback, Active
<1>. QED
  BY <1>3, <1>4, <1>6, <1>7 DEF IInv

-----------------------------------------------------------------------------
(* hg_core_cancel *)

LEMMA CancelCheckStep ==
    ASSUME Disciplined, IInv, CancelCheck
    PROVE  IInv'
<1>1. h' \in HandleType
  BY Typed DEF CancelCheck, HandleType, Rets, Flags
<1>2. TypeOK'
  BY <1>1, Typed DEF IInv, TypeOK, CancelCheck, UserType, HistType, Ops
<1>3. RefInv' /\ EntryInv' /\ OwnCallback'
  BY Typed, FieldTypes, EntryFrame DEF CancelCheck, HandleType, UserType,
       HistType, IInv, RefInv
<1>4. CompletedIsQuiet' /\ ForwardInv' /\ CountInv' /\ MoreInv'
  BY Typed DEF IInv, TypeOK, CancelCheck, CompletedIsQuiet, ForwardInv,
       CountInv, MoreInv, OutCount, Out, Outstanding, Active, HandleType,
       UserType, Ops, Flags
<1>5. AnswerInv' /\ SuccessMeansResponse'
  BY Typed DEF IInv, TypeOK, CancelCheck, AnswerInv, SuccessMeansResponse,
       ForwardInv, CountInv, MoreInv, EntryInv, Active, Outstanding,
       HandleType, UserType, HistType, Ops, Flags
<1>. QED
  BY <1>2, <1>3, <1>4, <1>5 DEF IInv

LEMMA CancelFlagStep ==
    ASSUME Disciplined, IInv, CancelFlag
    PROVE  IInv'
<1>1. h' \in HandleType
  BY Typed DEF CancelFlag, HandleType, Rets, Flags
<1>2. TypeOK'
  BY ZenonT(60), <1>1, Typed DEF IInv, TypeOK, CancelFlag, UserType, HistType, Ops
<1>3. RefInv' /\ EntryInv' /\ OwnCallback'
  BY Typed, FieldTypes, EntryFrame DEF CancelFlag, HandleType, UserType,
       HistType, IInv, RefInv
<1>4. CompletedIsQuiet' /\ ForwardInv' /\ CountInv' /\ MoreInv'
  BY Typed DEF IInv, TypeOK, CancelFlag, CompletedIsQuiet, ForwardInv,
       CountInv, MoreInv, OutCount, Out, Outstanding, Active, HandleType,
       UserType, Ops, Flags
<1>5. AnswerInv' /\ SuccessMeansResponse'
  BY Typed DEF IInv, TypeOK, CancelFlag, AnswerInv, SuccessMeansResponse,
       ForwardInv, CountInv, MoreInv, EntryInv, Active, Outstanding,
       HandleType, UserType, HistType, Ops, Flags
<1>. QED
  BY <1>2, <1>3, <1>4, <1>5 DEF IInv

LEMMA CancelOpStep ==
    ASSUME Disciplined, IInv, NEW o \in Ops, CancelOp(o)
    PROVE  IInv'
<1>1. h' \in HandleType
  BY Typed DEF CancelOp, NA_Cancel, HandleType, Rets, Flags
<1>2. TypeOK'
  BY ZenonT(60), <1>1, Typed DEF IInv, TypeOK, CancelOp, NA_Cancel, UserType, HistType,
       Ops
<1>3. RefInv' /\ EntryInv' /\ OwnCallback'
  BY Typed, FieldTypes, EntryFrame DEF CancelOp, NA_Cancel, HandleType,
       UserType, HistType, IInv, RefInv
<1>4. CompletedIsQuiet' /\ ForwardInv' /\ CountInv' /\ MoreInv'
  BY Typed DEF IInv, TypeOK, CancelOp, NA_Cancel, CompletedIsQuiet,
       ForwardInv, CountInv, MoreInv, OutCount, Out, Outstanding, Active,
       HandleType, UserType, Ops, Flags
<1>5. AnswerInv' /\ SuccessMeansResponse'
  BY Typed DEF IInv, TypeOK, CancelOp, NA_Cancel, AnswerInv,
       SuccessMeansResponse, ForwardInv, CountInv, MoreInv, EntryInv,
       Active, Outstanding, HandleType, UserType, HistType, Ops, Flags
<1>. QED
  BY <1>2, <1>3, <1>4, <1>5 DEF IInv

-----------------------------------------------------------------------------
(* hg_core_trigger_entry *)

LEMMA TriggerPopStep ==
    ASSUME SetFacts, Disciplined, IInv, NEW t \in Triggers, TriggerPop(t)
    PROVE  IInv'
<1>1. h' \in HandleType
  BY Typed DEF TriggerPop, HandleType
<1>2. "QUEUED" \in h.status /\ ~Active /\ queue = <<hist.gen>>
  BY DEF TriggerPop, IInv, EntryInv, Active
<1>3. queue' = <<>> /\ trig' = [trig EXCEPT ![t] =
                                  [at |-> "popped", of |-> hist.gen]]
  BY SMTT(60), <1>2, FieldTypes DEF TriggerPop
<1>4. TypeOK'
  BY SMTT(60), <1>1, <1>3, FieldTypes DEF IInv, TypeOK, TriggerPop
<1>5. RefInv'
  <2>1. t \notin Busy /\ Busy' = Busy \cup {t}
    BY DEF TriggerPop, Busy, IInv, TypeOK
  <2>2. Cardinality(Busy') = Cardinality(Busy) + 1
    BY <2>1, BusyType DEF SetFacts, AddFact
  <2>3. ~NotInUse /\ NotInUse'
    BY <1>2, Typed DEF TriggerPop, NotInUse, Active, HandleType
  <2>4. h'.ref_count = h.ref_count /\ u' = u
    BY Typed DEF TriggerPop, HandleType
  <2>. QED
    BY SMTT(60), <2>2, <2>3, <2>4, BusyType, FieldTypes DEF IInv, RefInv
<1>6. EntryInv' /\ OwnCallback'
  <2>1. \A v \in Triggers : trig[v].at # "popped"
    BY <1>2 DEF IInv, EntryInv
  <2>2. "QUEUED" \notin h'.status /\ ~Active'
    BY <1>2, Typed DEF TriggerPop, Active, HandleType
  <2>3. \A i \in DOMAIN hist.calls :
           hist.calls[i].of < hist.gen /\ hist.calls[i].of <= hist.gen
    BY <1>2 DEF IInv, EntryInv, Pending
  <2>. QED
    BY SMTT(60), <1>3, <2>1, <2>2, <2>3
       DEF IInv, TypeOK, EntryInv, TriggerPop, OwnCallback
<1>7. CompletedIsQuiet' /\ ForwardInv' /\ CountInv' /\ MoreInv'
  BY <1>2, Typed DEF IInv, TriggerPop, CompletedIsQuiet, ForwardInv,
       CountInv, MoreInv, Outstanding, Active, HandleType
<1>8. AnswerInv' /\ SuccessMeansResponse'
  BY <1>2, Typed DEF IInv, TriggerPop, AnswerInv, SuccessMeansResponse,
       Active, HandleType
<1>. QED
  BY <1>4, <1>5, <1>6, <1>7, <1>8 DEF IInv

LEMMA TriggerCallStep ==
    ASSUME Disciplined, IInv, NEW t \in Triggers, TriggerCall(t)
    PROVE  IInv'
<1> DEFINE e == [of |-> trig[t].of, as |-> hist.gen]
           c == hist.calls
           n == Len(hist.calls) + 1
<1>1. e \in [of : Nat, as : Nat] /\ e.of = hist.gen /\ e.as = hist.gen
  BY FieldTypes DEF IInv, TypeOK, EntryInv, TriggerCall
<1>2. hist' = [hist EXCEPT !.calls = Append(c, e)]
  BY DEF TriggerCall
<1>3. Append(c, e) \in Seq([of : Nat, as : Nat])
  BY SMTT(60), <1>1, CallTypes
<1>4. /\ hist' \in HistType /\ hist'.calls = Append(c, e)
      /\ hist'.gen = hist.gen
  BY ZenonT(60), <1>2, <1>3, Typed DEF HistType
<1>5. /\ DOMAIN hist'.calls = 1 .. n
      /\ \A i \in 1 .. n - 1 : hist'.calls[i] = c[i]
      /\ hist'.calls[n] = e
  BY SMTT(60), <1>1, <1>4, CallTypes
<1>6. n \in Nat /\ n > 0 /\ DOMAIN c = 1 .. n - 1
  BY SMTT(60), CallTypes
<1>7. \A i \in 1 .. n - 1 : c[i].of < hist.gen
  BY <1>6 DEF IInv, EntryInv, Pending, TriggerCall
<1>8. \A i \in 1 .. n - 1 : /\ c[i].as = c[i].of
                            /\ \A j \in 1 .. i - 1 : c[j].of < c[i].of
  BY <1>6 DEF IInv, OwnCallback
<1>. HIDE DEF e, c, n
<1>9. OwnCallback'
  <2>1. SUFFICES ASSUME NEW i \in 1 .. n
                 PROVE  /\ hist'.calls[i].as = hist'.calls[i].of
                        /\ \A j \in 1 .. i - 1 :
                              hist'.calls[j].of < hist'.calls[i].of
    BY <1>5 DEF OwnCallback
  <2>2. \A j \in 1 .. i - 1 : j \in 1 .. n - 1
    BY SMTT(60), <1>6
  <2>3. CASE i = n
    BY <1>1, <1>5, <1>6, <1>7, <2>2, <2>3
  <2>4. CASE i \in 1 .. n - 1
    BY <1>5, <1>8, <2>2, <2>4
  <2>. QED
    BY SMTT(60), <1>6, <2>3, <2>4
<1>10. \A i \in 1 .. n : hist'.calls[i].of <= hist.gen
  <2>1. SUFFICES ASSUME NEW i \in 1 .. n
                 PROVE  hist'.calls[i].of <= hist.gen
    OBVIOUS
  <2>2. CASE i = n
    BY SMTT(60), <1>1, <1>5, <2>2, FieldTypes
  <2>3. CASE i \in 1 .. n - 1
    <3>1. c[i].of < hist.gen /\ c[i].of \in Nat
      BY ZenonT(60), <1>6, <1>7, <2>3, CallTypes DEF c
    <3>. QED
      BY SMTT(60), <1>5, <2>3, <3>1, FieldTypes
  <2>. QED
    BY SMTT(60), <1>6, <2>2, <2>3
<1>11. TypeOK'
  BY <1>4 DEF IInv, TypeOK, TriggerCall
<1>12. EntryInv'
  <2>1. \A v \in Triggers : trig'[v].at # "popped"
    BY DEF IInv, TypeOK, EntryInv, TriggerCall
  <2>2. ~Active /\ "QUEUED" \notin h.status
    BY DEF IInv, EntryInv, TriggerCall
  <2>. QED
    BY ZenonT(60), <1>4, <1>5, <1>10, <2>1, <2>2
       DEF IInv, EntryInv, Pending, Active, TriggerCall
<1>13. RefInv'
  <2>1. Busy' = Busy
    BY DEF TriggerCall, Busy, IInv, TypeOK
  <2>. QED
    BY <2>1 DEF IInv, RefInv, NotInUse, TriggerCall
<1>14. CompletedIsQuiet' /\ ForwardInv' /\ CountInv' /\ MoreInv'
  BY DEF IInv, TriggerCall, CompletedIsQuiet, ForwardInv, CountInv, MoreInv,
       OutCount, Out, Outstanding, Active
<1>15. AnswerInv' /\ SuccessMeansResponse'
  <2>1. hist'.oneway = hist.oneway /\ hist'.answered = hist.answered
    BY <1>2, Typed DEF HistType
  <2>. QED
    BY <2>1 DEF IInv, AnswerInv, SuccessMeansResponse, Active, TriggerCall
<1>. QED
  BY <1>9, <1>11, <1>12, <1>13, <1>14, <1>15 DEF IInv

LEMMA TriggerDestroyStep ==
    ASSUME SetFacts, Disciplined, IInv, NEW t \in Triggers, TriggerDestroy(t)
    PROVE  IInv'
<1>1. t \in Busy /\ Busy' = Busy \ {t}
  BY DEF TriggerDestroy, Busy, IInv, TypeOK
<1>2. Cardinality(Busy') = Cardinality(Busy) - 1 /\ Cardinality(Busy') \in Nat
  BY <1>1, BusyType DEF SetFacts, CountFact, RemoveFact
<1>3. h.ref_count > 0
  BY SMTT(60), <1>2, BusyType, FieldTypes DEF IInv, RefInv
<1>4. h' \in HandleType
  BY SMTT(60), <1>3, Typed DEF TriggerDestroy, HandleType
<1>5. TypeOK'
  BY ZenonT(60), <1>4 DEF IInv, TypeOK, TriggerDestroy
<1>6. /\ h'.ref_count = h.ref_count - 1 /\ h'.status = h.status
      /\ h'.ret = h.ret /\ h'.ret_status = h.ret_status
      /\ h'.na_op_count = h.na_op_count
      /\ h'.na_op_completed_count = h.na_op_completed_count
      /\ h'.no_response = h.no_response
  BY Typed DEF TriggerDestroy, HandleType
<1>7. RefInv'
  BY SMTT(60), <1>2, <1>6, BusyType, FieldTypes
     DEF IInv, RefInv, NotInUse, TriggerDestroy
<1>8. EntryInv' /\ OwnCallback'
  BY <1>6 DEF IInv, TypeOK, EntryInv, OwnCallback, Pending, Active,
       TriggerDestroy
<1>9. CompletedIsQuiet' /\ ForwardInv' /\ CountInv' /\ MoreInv'
  BY SMTT(60), <1>6 DEF IInv, TriggerDestroy, CompletedIsQuiet, ForwardInv, CountInv,
       MoreInv, OutCount, Out, Outstanding, Active
<1>10. AnswerInv' /\ SuccessMeansResponse'
  BY <1>6 DEF IInv, TriggerDestroy, AnswerInv, SuccessMeansResponse, Active
<1>. QED
  BY <1>5, <1>7, <1>8, <1>9, <1>10 DEF IInv

-----------------------------------------------------------------------------
(* HG_Core_reset, HG_Core_ref_incr, HG_Core_destroy *)

LEMMA ResetStep ==
    ASSUME Disciplined, IInv, Reset
    PROVE  IInv'
<1>1. h' \in HandleType
  BY ZenonT(60), Typed DEF Reset, MayReuse, NotInUse, HandleType, Rets, Flags
<1>2. TypeOK'
  BY <1>1, Typed DEF IInv, TypeOK, Reset, MayReuse, NotInUse, UserType,
       HistType, Ops
<1>3. RefInv' /\ EntryInv' /\ OwnCallback'
  BY Typed, FieldTypes, EntryFrame DEF Reset, MayReuse, NotInUse,
       HandleType, UserType, HistType, IInv, RefInv
<1>4. CompletedIsQuiet' /\ ForwardInv' /\ CountInv' /\ MoreInv'
  BY Typed DEF IInv, TypeOK, Reset, MayReuse, NotInUse, CompletedIsQuiet,
       ForwardInv, CountInv, MoreInv, OutCount, Out, Outstanding, Active,
       HandleType, UserType, Ops, Flags
<1>5. AnswerInv' /\ SuccessMeansResponse'
  BY ZenonT(60), Typed DEF IInv, TypeOK, Reset, MayReuse, NotInUse, AnswerInv,
       SuccessMeansResponse, ForwardInv, CountInv, MoreInv, EntryInv,
       Active, Outstanding, HandleType, UserType, HistType, Ops, Flags
<1>. QED
  BY <1>2, <1>3, <1>4, <1>5 DEF IInv

(* A step that only changes references. *)
LEMMA OnlyRefs ==
    ASSUME IInv, UNCHANGED <<op, sent, cb, more, queue, trig, hist>>,
           h'.status = h.status, h'.na_op_count = h.na_op_count,
           h'.na_op_completed_count = h.na_op_completed_count,
           h'.ret_status = h.ret_status, h'.ret = h.ret,
           h'.no_response = h.no_response,
           u'.forward = u.forward, u'.cancel = u.cancel,
           u.forward # "idle" => u'.refs > 0
    PROVE  /\ CompletedIsQuiet' /\ ForwardInv' /\ CountInv' /\ MoreInv'
           /\ EntryInv' /\ AnswerInv' /\ OwnCallback'
           /\ SuccessMeansResponse'
<1>1. CompletedIsQuiet' /\ ForwardInv' /\ CountInv' /\ MoreInv'
  BY DEF IInv, CompletedIsQuiet, ForwardInv, CountInv, MoreInv, OutCount,
       Out, Outstanding, Active
<1>2. EntryInv' /\ AnswerInv' /\ OwnCallback' /\ SuccessMeansResponse'
  BY DEF IInv, EntryInv, AnswerInv, OwnCallback, SuccessMeansResponse,
       Pending, Active
<1>. QED
  BY <1>1, <1>2

LEMMA RefIncrStep ==
    ASSUME SetFacts, Disciplined, IInv, RefIncr
    PROVE  IInv'
<1>1. h' \in HandleType
  BY SMTT(60), Typed DEF HandleType, RefIncr
<1>2. u' \in UserType
  BY SMTT(60), Typed DEF UserType, RefIncr
<1>3. TypeOK'
  BY <1>1, <1>2 DEF IInv, TypeOK, RefIncr
<1>4. /\ h'.ref_count = h.ref_count + 1 /\ h'.status = h.status
      /\ u'.refs = u.refs + 1
      /\ u'.cancel = u.cancel /\ u'.forward = u.forward
  BY Typed DEF RefIncr, HandleType, UserType
<1>5. u.forward # "idle" \/ u.cancel # "idle" => u'.refs > 0
  BY SMTT(60), <1>4, FieldTypes DEF RefIncr
<1>6. RefInv'
  <2>1. Busy' = Busy
    BY DEF Busy, RefIncr
  <2>. QED
    BY SMTT(60), <1>4, <1>5, <2>1, FieldTypes, BusyType DEF IInv, RefInv, NotInUse
<1>7. /\ CompletedIsQuiet' /\ ForwardInv' /\ CountInv' /\ MoreInv'
      /\ EntryInv' /\ AnswerInv' /\ OwnCallback' /\ SuccessMeansResponse'
  BY <1>4, <1>5, Typed, OnlyRefs DEF RefIncr, HandleType
<1>. QED
  BY <1>3, <1>6, <1>7 DEF IInv

LEMMA DestroyStep ==
    ASSUME SetFacts, Disciplined, IInv, Destroy
    PROVE  IInv'
<1>1. u.refs > 0 /\ h.ref_count > 0
  BY SMTT(60), FieldTypes, BusyType DEF Destroy, IInv, RefInv
<1>2. h' \in HandleType
  BY SMTT(60), <1>1, Typed DEF HandleType, Destroy
<1>3. u' \in UserType
  BY SMTT(60), <1>1, Typed DEF UserType, Destroy
<1>4. TypeOK'
  BY <1>2, <1>3 DEF IInv, TypeOK, Destroy
<1>5. /\ h'.ref_count = h.ref_count - 1 /\ h'.status = h.status
      /\ u'.refs = u.refs - 1
      /\ u'.cancel = u.cancel /\ u'.forward = u.forward
  BY Typed DEF Destroy, HandleType, UserType
<1>6. u.forward # "idle" \/ u.cancel # "idle" => u'.refs > 0
  BY SMTT(60), <1>5, FieldTypes DEF Destroy
<1>7. RefInv'
  <2>1. Busy' = Busy
    BY DEF Busy, Destroy
  <2>. QED
    BY SMTT(60), <1>5, <1>6, <2>1, FieldTypes, BusyType DEF IInv, RefInv, NotInUse
<1>8. /\ CompletedIsQuiet' /\ ForwardInv' /\ CountInv' /\ MoreInv'
      /\ EntryInv' /\ AnswerInv' /\ OwnCallback' /\ SuccessMeansResponse'
  BY <1>5, <1>6, Typed, OnlyRefs DEF Destroy, HandleType
<1>. QED
  BY <1>4, <1>7, <1>8 DEF IInv

-----------------------------------------------------------------------------
(* The invariant *)

LEMMA InitInv ==
    ASSUME SetFacts, Init
    PROVE  IInv
<1>1. TypeOK
  <2>1. h \in HandleType
    BY DEF Init, HandleType, Rets, Flags
  <2>2. u \in UserType
    BY DEF Init, UserType
  <2>3. hist \in HistType
    BY SMTT(60) DEF Init, HistType
  <2>4. trig \in [Triggers -> [at : {"idle", "popped", "called"}, of : Nat]]
    BY DEF Init
  <2>5. op \in [Ops -> {"idle", "posted", "canceled"}]
    BY DEF Init
  <2>6. cb \in [Ops -> {"none", "cancel", "finish", "defer"}]
    BY DEF Init
  <2>7. queue \in Seq(Nat)
    BY SMTT(60) DEF Init
  <2>8. sent \in BOOLEAN /\ more \in BOOLEAN
    BY Zenon DEF Init
  <2>. QED
    BY <2>1, <2>2, <2>3, <2>4, <2>5, <2>6, <2>7, <2>8 DEF TypeOK
<1>2. Busy = {} /\ Cardinality(Busy) = 0
  BY ZenonT(60) DEF SetFacts, EmptyFact, Init, Busy
<1>3. RefInv
  BY SMTT(60), <1>2 DEF Init, RefInv, NotInUse
<1>4. /\ CompletedIsQuiet /\ ForwardInv /\ CountInv /\ MoreInv /\ AnswerInv
      /\ SuccessMeansResponse
  BY DEF Init, CompletedIsQuiet, ForwardInv, CountInv, MoreInv, AnswerInv,
       SuccessMeansResponse, Outstanding, Active, Ops
<1>5. EntryInv /\ OwnCallback
  BY SMTT(60) DEF Init, EntryInv, OwnCallback, Active, Pending
<1>. QED
  BY <1>1, <1>3, <1>4, <1>5 DEF IInv

LEMMA StutterInv ==
    ASSUME IInv, UNCHANGED vars
    PROVE  IInv'
<1>1. h' = h /\ u' = u /\ hist' = hist /\ queue' = queue /\ trig' = trig
  BY DEF vars
<1>2. op' = op /\ cb' = cb /\ sent' = sent /\ more' = more
  BY DEF vars
<1>3. TypeOK'
  BY <1>1, <1>2 DEF IInv, TypeOK
<1>4. RefInv' /\ EntryInv' /\ OwnCallback'
  BY <1>1, EntryFrame DEF IInv, RefInv
<1>5. CompletedIsQuiet' /\ ForwardInv' /\ CountInv' /\ MoreInv'
  BY <1>1, <1>2 DEF IInv, CompletedIsQuiet, ForwardInv, CountInv, MoreInv,
       OutCount, Out, Outstanding, Active
<1>6. AnswerInv' /\ SuccessMeansResponse'
  BY <1>1, <1>2 DEF IInv, AnswerInv, SuccessMeansResponse, Active
<1>. QED
  BY <1>3, <1>4, <1>5, <1>6 DEF IInv

LEMMA NextInv ==
    ASSUME SetFacts, Disciplined, IInv, [Next]_vars
    PROVE  IInv'
<1>1. CASE Forward
  BY <1>1, ForwardStartStep, ForwardRefusedStep, ForwardNoRecvStep,
     ForwardRecvStep, ForwardRecvFailsStep, ForwardCountStep,
     ForwardMarkStep, ForwardSendStep, ForwardSendFailsStep,
     ForwardSendRefusedStep, ForwardCancelStep DEF Forward, ForwardStep
<1>2. CASE Delivery
  BY <1>2, SendInputCbStep, RecvOutputFailsStep, RecvOutputCbStep,
     RecvOutputMoreStep, RecvOutputNoMoreStep, AckCbStep, SendAckAbortsStep,
     SendAckStep, SendAckFailsStep DEF Delivery, Reported, Rets
<1>3. CASE CallbackStep
  BY <1>3, SendInputCancelStep, CompleteNaStep DEF CallbackStep
<1>4. CASE CancelCheck \/ CancelStep
  BY <1>4, CancelCheckStep, CancelFlagStep, CancelOpStep DEF CancelStep
<1>5. CASE Trigger
  BY <1>5, TriggerPopStep, TriggerCallStep, TriggerDestroyStep DEF Trigger
<1>6. CASE Reset \/ RefIncr \/ Destroy
  BY <1>6, ResetStep, RefIncrStep, DestroyStep
<1>7. CASE UNCHANGED vars
  BY <1>7, StutterInv
<1>. QED
  BY <1>1, <1>2, <1>3, <1>4, <1>5, <1>6, <1>7 DEF Next

LEMMA Unreferenced ==
    ASSUME SetFacts, IInv
    PROVE  FreedUnused
<1>. SUFFICES ASSUME h.ref_count = 0
              PROVE  /\ ~more /\ \A o \in Ops : ~Outstanding(o)
                     /\ u.forward = "idle" /\ u.cancel = "idle"
                     /\ queue = <<>> /\ \A t \in Triggers : trig[t].at = "idle"
  BY DEF FreedUnused
<1>1. u.refs = 0 /\ NotInUse /\ Cardinality(Busy) = 0
  BY SMTT(60), FieldTypes, BusyType DEF IInv, RefInv
<1>2. Busy = {}
  BY <1>1, BusyType DEF SetFacts, EmptyFact
<1>3. ~more /\ (\A o \in Ops : ~Outstanding(o)) /\ u.forward = "idle"
  BY <1>1 DEF IInv, CompletedIsQuiet, NotInUse, ForwardInv, Active
<1>4. u.cancel = "idle" /\ queue = <<>>
  BY SMTT(60), <1>1 DEF IInv, RefInv, EntryInv, NotInUse
<1>. QED
  BY <1>2, <1>3, <1>4 DEF Busy

-----------------------------------------------------------------------------
(* The theorems *)

INSTANCE FiniteSetTheorems

LEMMA SetFactsHold == SetFacts
<1>1. EmptyFact /\ SingletonFact
  BY FS_EmptySet, FS_Singleton DEF EmptyFact, SingletonFact
<1>2. CountFact /\ SubsetFact
  BY FS_CardinalityType, FS_Subset DEF CountFact, SubsetFact
<1>3. AddFact
  BY FS_AddElement DEF AddFact
<1>4. RemoveFact
  BY FS_RemoveElement DEF RemoveFact
<1>5. IntervalFact
  BY FS_Interval DEF IntervalFact
<1>. QED
  BY <1>1, <1>2, <1>3, <1>4, <1>5 DEF SetFacts

(* For users and plugins that exclude the races named in CoreForward, the  *)
(* counts of hg_core_complete_na, the references of hg_core_destroy and    *)
(* the entries of hg_core_trigger_entry stay consistent.                   *)
THEOREM Invariance ==
    ASSUME Disciplined
    PROVE  Spec => []IInv
<1>1. Init => IInv
  BY InitInv, SetFactsHold
<1>2. IInv /\ [Next]_vars => IInv'
  BY NextInv, SetFactsHold
<1>. QED
  BY <1>1, <1>2, PTL DEF Spec

(* A completed handle has no NA operation, no NA callback and no transfer  *)
(* of extra data that still refers to it (hg_core_complete_na).            *)
THEOREM CompletionIsQuiet ==
    ASSUME Disciplined
    PROVE  Spec => []CompletedIsQuiet
<1>1. IInv => CompletedIsQuiet
  BY DEF IInv
<1>. QED
  BY <1>1, Invariance, PTL

(* A handle whose last reference is dropped is used by nobody              *)
(* (hg_core_destroy).                                                      *)
THEOREM FreeIsSafe ==
    ASSUME Disciplined
    PROVE  Spec => []FreedUnused
  BY Invariance, Unreferenced, SetFactsHold, PTL

(* Every forward is reported at most once, in order, to its own callback   *)
(* (hg_core_complete, hg_core_trigger_entry).                              *)
THEOREM CallbackIsOwn ==
    ASSUME Disciplined
    PROVE  Spec => []OwnCallback
<1>1. IInv => OwnCallback
  BY DEF IInv
<1>. QED
  BY <1>1, Invariance, PTL

(* As long as a forward that returned is not completed, something is in    *)
(* flight that will complete it (hg_core_complete_na, hg_core_send_ack).   *)
THEOREM CompletionIsNotLost ==
    ASSUME Disciplined
    PROVE  Spec => []NoLostCompletion
<1>1. IInv => NoLostCompletion
  BY SMTT(60) DEF IInv, CountInv, NoLostCompletion, OutCount, Out, Active, Ops
<1>. QED
  BY <1>1, Invariance, PTL

(* A forward that asked for a response and reports HG_SUCCESS has got one  *)
(* (hg_core_process_output).                                               *)
THEOREM SuccessIsAnswered ==
    ASSUME Disciplined
    PROVE  Spec => []SuccessMeansResponse
<1>1. IInv => SuccessMeansResponse
  BY DEF IInv
<1>. QED
  BY <1>1, Invariance, PTL
=============================================================================
