------------------------------ MODULE Sharing -------------------------------
(* The components in which threads share a pool, a lock or a counter: the   *)
(* pools of bulk operation identifiers, of registered buffers and of worker *)
(* threads, the waits for requests, NA_Progress and the request tags. They  *)
(* share no state with each other, so one of them, the value of part, moves *)
(* in a behaviour and the others rest in their initial states: the states   *)
(* of the components add up.                                                *)
EXTENDS Integers, Sequences, FiniteSets

CONSTANTS
    Two, Three,                         \* sets of threads
    InitCount, MaxIds, MaxGets,         \* of OpPool
    ChunkCount, MaxBlocks, MaxAllocs,   \* of MemPool
    MaxCalls,                           \* of NaProgress
    Works,                              \* of ThreadPool
    Tagger, MaxTag, Width               \* of RequestTag, one thread

(* The threads can be counted, and the pool of threads has one. A task is   *)
(* not a place of a worker. The tags of the plugin are values of the        *)
(* counter.                                                                 *)
ASSUME ThreadsAssumption ==
    IsFiniteSet(Two) /\ IsFiniteSet(Three) /\ Two # {}
ASSUME WorksAssumption == Works \cap {"lock", "wait", "woken", "exit"} = {}
ASSUME TagAssumption == MaxTag \in Nat /\ Width \in Nat /\ MaxTag < Width

VARIABLES
    part,
    free, count, extending, getter,
    chunks, mem_extending, alloc,
    state, progressing, waiter,
    num, locked, call, gave_up,
    queue, sleeping, shutdown, worker, accepted, ran,
    tag, tagger, recent

Pool == INSTANCE OpPool WITH Threads <- Three
Mem == INSTANCE MemPool WITH Threads <- Three
Req == INSTANCE Request WITH Threads <- Three, Hasty <- Two
Na == INSTANCE NaProgress WITH Threads <- Three
Workers == INSTANCE ThreadPool WITH Workers <- Two
Tags == INSTANCE RequestTag WITH Threads <- {Tagger}

poolVars == <<free, count, extending, getter>>
memVars == <<chunks, mem_extending, alloc>>
reqVars == <<state, progressing, waiter>>
naVars == <<num, locked, call, gave_up>>
workersVars == <<queue, sleeping, shutdown, worker, accepted, ran>>
tagsVars == <<tag, tagger, recent>>
sharingVars ==
    <<poolVars, memVars, reqVars, naVars, workersVars, tagsVars>>

SharingInit ==
    /\ Pool!Init /\ Mem!Init /\ Req!Init /\ Na!Init /\ Workers!Init
    /\ Tags!Init

SharingNext ==
    \/ /\ part = "pool" /\ Pool!Next
       /\ UNCHANGED <<memVars, reqVars, naVars, workersVars, tagsVars>>
    \/ /\ part = "mem" /\ Mem!Next
       /\ UNCHANGED <<poolVars, reqVars, naVars, workersVars, tagsVars>>
    \/ /\ part = "request" /\ Req!Next
       /\ UNCHANGED <<poolVars, memVars, naVars, workersVars, tagsVars>>
    \/ /\ part = "na" /\ Na!Next
       /\ UNCHANGED <<poolVars, memVars, reqVars, workersVars, tagsVars>>
    \/ /\ part = "workers" /\ Workers!Next
       /\ UNCHANGED <<poolVars, memVars, reqVars, naVars, tagsVars>>
    \/ /\ part = "tags" /\ Tags!Next
       /\ UNCHANGED <<poolVars, memVars, reqVars, naVars, workersVars>>

(* Whatever part does, these components take their steps or rest. *)
SharingSpec == SharingInit /\ [][SharingNext]_sharingVars

-----------------------------------------------------------------------------
(* The properties of the components, which their modules explain. A part    *)
(* that rests satisfies its invariants by its initial state.                *)

(* Whoever waits on a condition has a thread before it that will wake it,   *)
(* and what that thread does it does alone: it extends the pool of          *)
(* identifiers (hg_bulk_op_pool_get), makes progress for the others         *)
(* (hg_request_wait), is in the plugin (NA_Progress; but for a thread that  *)
(* gave up), or is a worker that takes the task (hg_thread_pool_post).      *)
WaitersHaveAWaker ==
    /\ Pool!OneExtends
    /\ Req!WaitsForProgress
    /\ Na!OneInPlugin /\ Na!WokenOrLocked
    /\ Workers!SomeoneAwake

(* What is given out is given once: a chunk of memory, with the             *)
(* registration of its own block (hg_mem_pool_alloc, hg_mem_pool_free); a   *)
(* task, and all of them before hg_thread_pool_destroy returns; a request   *)
(* tag, until all others were used (hg_core_gen_request_tag).               *)
GivenOnce ==
    /\ Mem!ChunkOnce
    /\ Workers!JoinedIsDone
    /\ Tags!TagsTellApart
=============================================================================
