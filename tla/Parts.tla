------------------------------- MODULE Parts --------------------------------
(* The small components: those of Sharing, and a completion queue from      *)
(* which several threads trigger, RPCs to self, the segments of a bulk      *)
(* transfer and the function map. One of them, the value of part, moves in  *)
(* a behaviour.                                                             *)
EXTENDS Sharing

CONSTANTS
    Overlap, MaxForwards,               \* of CoreSelf
    MaxSegments, MaxLen,                \* of BulkSegments
    Infos, NoInfo,                      \* of Registration
    Capacity, MaxCount, MaxEntries      \* of Completion

(* A handle is forwarded again when the callbacks of the forward before     *)
(* have returned. There is an info that is none. The atomic queue has room  *)
(* for every completion, so that the backfill list is not used.             *)
ASSUME SelfAssumption == Overlap = FALSE /\ MaxForwards \in Nat
ASSUME InfoAssumption == NoInfo \notin Infos
ASSUME RoomAssumption ==
    /\ Capacity \in Nat /\ MaxEntries \in Nat /\ MaxCount \in Nat \ {0}
    /\ MaxEntries <= Capacity

VARIABLES
    self, entries, more, self_trig, origin, rpc, lost,
    bulk, pos, moved,
    func_map, info, caller, rpc_info,
    c_queue, c_backfill, c_count, c_event, c_must, c_comp, c_trig, c_prog,
    c_self, c_added, c_done

Self == INSTANCE CoreSelf WITH Triggers <- Two, trig <- self_trig
Seg == INSTANCE BulkSegments
Reg == INSTANCE Registration WITH Threads <- Two, RegRaces <- {}
Cq == INSTANCE Completion
    WITH Completers <- Two, Triggers <- Three, Progress <- {},
         StalePops <- FALSE,
         queue <- c_queue, backfill <- c_backfill, count <- c_count,
         event <- c_event, must <- c_must, comp <- c_comp, trig <- c_trig,
         prog <- c_prog, self <- c_self, added <- c_added, done <- c_done

selfVars == <<self, entries, more, self_trig, origin, rpc, lost>>
segVars == <<bulk, pos, moved>>
regVars == <<func_map, info, caller, rpc_info>>
cqVars == <<c_queue, c_backfill, c_count, c_event, c_must, c_comp, c_trig,
            c_prog, c_self, c_added, c_done>>
vars == <<part, sharingVars, selfVars, segVars, regVars, cqVars>>

Init ==
    /\ part \in {"pool", "mem", "request", "na", "workers", "tags", "self",
                 "segments", "registration", "completion"}
    /\ SharingInit /\ Self!Init /\ Reg!Init /\ Cq!Init
    /\ IF part = "segments" THEN Seg!Init
       ELSE bulk = <<>> /\ pos = <<>> /\ moved = {}

Next ==
    \/ /\ SharingNext
       /\ UNCHANGED <<part, selfVars, segVars, regVars, cqVars>>
    \/ /\ part = "self" /\ Self!Next
       /\ UNCHANGED <<part, sharingVars, segVars, regVars, cqVars>>
    \/ /\ part = "segments" /\ Seg!Next
       /\ UNCHANGED <<part, sharingVars, selfVars, regVars, cqVars>>
    \/ /\ part = "registration" /\ Reg!Next
       /\ UNCHANGED <<part, sharingVars, selfVars, segVars, cqVars>>
    \/ /\ part = "completion" /\ Cq!Next
       /\ UNCHANGED <<part, sharingVars, selfVars, segVars, regVars>>

Spec == Init /\ [][Next]_vars

(* Calls that have started go on; extra data comes; users respond. A wait   *)
(* may time out or not.                                                     *)
Fairness ==
    /\ \A t \in Three : /\ WF_poolVars(part = "pool" /\ Pool!Step(t))
                        /\ WF_memVars(part = "mem" /\ Mem!Step(t))
                        /\ WF_reqVars(part = "request" /\ Req!Step(t))
    /\ \A w \in Two : /\ WF_workersVars(part = "workers" /\ Workers!Take(w))
                      /\ WF_workersVars(part = "workers" /\ Workers!Run(w))
                      /\ WF_selfVars(part = "self" /\ Self!TriggerStep(w))
    /\ WF_workersVars(part = "workers" /\ Workers!Join)
    /\ WF_selfVars(part = "self" /\ Self!MoreDataComplete)
    /\ WF_selfVars(part = "self" /\ Self!Respond)

FairSpec == Spec /\ Fairness

-----------------------------------------------------------------------------
(* The properties of the components, which their modules explain. *)

(* Of the threads that trigger none waits while there is a completion that  *)
(* nobody is about to tell it of (hg_core_completion_add, hg_core_trigger), *)
(* and every completion is triggered by one of them.                        *)
TriggersShare == Cq!NoLostWakeup /\ Cq!TriggeredOnce

(* Nothing is freed in use: the references of a handle forwarded to self    *)
(* are counted exactly and it is queued once (hg_core_forward_self,         *)
(* hg_core_respond_self); what a lookup of the function map returned stays  *)
(* while the ID is registered again (HG_Core_register, hg_core_set_rpc).    *)
LiveWhileUsed ==
    /\ Self!RefsExact /\ Self!QueuedOnce
    /\ Reg!UsedIsLive

(* The segments of a bulk transfer are moved byte for byte to their place,  *)
(* by as many operations as hg_bulk_transfer_get_op_count counted.          *)
SegmentsMoved == (part = "segments") => Seg!BytesMoved /\ Seg!CountedRight

(* Waiting ends: hg_bulk_op_pool_get returns; hg_mem_pool_alloc returns     *)
(* unless a block could not be allocated; a request whose operation arrives *)
(* is completed by whichever thread makes progress (hg_request_wait); every *)
(* task runs and hg_thread_pool_destroy returns; the callback of a forward  *)
(* to self is called, unless its input or output could not be acquired.     *)
WaitsEnd ==
    /\ (part = "pool") => Pool!GetReturns
    /\ (part = "mem") => Mem!AllocReturns
    /\ (part = "request") => Req!Completes
    /\ (part = "workers") => Workers!PoolEnds
    /\ (part = "self") => Self!Answered

(* The callback and the data of an ID stay until it is deregistered         *)
(* (HG_Core_register, HG_Core_register_data).                               *)
RegistrationKept == Reg!RegistrationKept
=============================================================================
