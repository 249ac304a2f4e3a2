------------------------------ MODULE MemPool -------------------------------
(* The pool of registered buffers, util/mercury_mem_pool.c: blocks of       *)
(* chunks; a thread that finds no free chunk adds a block while the others  *)
(* that find none wait on a condition.                                      *)
EXTENDS Naturals, FiniteSets

CONSTANTS
    Threads,      \* threads that allocate and free
    ChunkCount,   \* chunks of a block
    MaxBlocks,    \* bound: blocks that are added
    MaxAllocs     \* bound: allocations of each thread

VARIABLES
    chunks,       \* free chunks of each block, in the order of the blocks
    mem_extending, \* TRUE while a thread adds a block
    alloc         \* where each thread is, its block and its chunk

vars == <<chunks, mem_extending, alloc>>

(* Block b has the registration b and the chunks <<b, 1>>, <<b, 2>> ... *)
Block(b) == {<<b, k>> : k \in 1..ChunkCount}
NoChunk == <<0, 0>>

Init ==
    /\ chunks = [b \in {1} |-> Block(b)]
    /\ mem_extending = FALSE
    /\ alloc = [t \in Threads |->
            [at |-> "idle", block |-> 0, chunk |-> NoChunk, n |-> 0]]

Alloc(t) ==
    /\ alloc[t].at = "idle" /\ alloc[t].n < MaxAllocs
    /\ alloc' = [alloc EXCEPT ![t].at = "find", ![t].n = @ + 1]
    /\ UNCHANGED <<chunks, mem_extending>>

(* The first block with a free chunk, under the block lock. *)
Find(t) ==
    LET some == {b \in DOMAIN chunks : chunks[b] # {}} IN
    /\ alloc[t].at = "find"
    /\ \/ some = {} /\ alloc' = [alloc EXCEPT ![t].at = "lock"]
       \/ \E b \in some :
            /\ \A c \in some : b <= c
            /\ alloc' = [alloc EXCEPT ![t].at = "pick", ![t].block = b]
    /\ UNCHANGED <<chunks, mem_extending>>

Lock(t) ==
    /\ alloc[t].at = "lock"
    /\ alloc' = [alloc EXCEPT ![t].at = IF mem_extending THEN "wait" ELSE "extend"]
    /\ mem_extending' = TRUE
    /\ UNCHANGED chunks

(* A block is allocated, registered and added ... *)
Extend(t) ==
    LET b == Cardinality(DOMAIN chunks) + 1 IN
    /\ alloc[t].at = "extend" /\ b <= MaxBlocks
    /\ chunks' = [c \in DOMAIN chunks \cup {b} |->
                    IF c = b THEN Block(b) ELSE chunks[c]]
    /\ alloc' = [alloc EXCEPT ![t].at = "wake", ![t].block = b]
    /\ UNCHANGED mem_extending

(* ... or cannot be: extending stays set, and nobody is woken. *)
ExtendFails(t) ==
    /\ alloc[t].at = "extend"
    /\ alloc' = [alloc EXCEPT ![t].at = "idle"]
    /\ UNCHANGED <<chunks, mem_extending>>

(* Mutant: nobody is woken. *)
Woken_Silent(t) ==
    /\ alloc[t].at = "wake"
    /\ mem_extending' = FALSE
    /\ alloc' = [alloc EXCEPT ![t].at = "pick"]
    /\ UNCHANGED chunks

Woken(t) ==
    /\ alloc[t].at = "wake"
    /\ mem_extending' = FALSE
    /\ alloc' = [s \in Threads |->
            IF s = t THEN [alloc[s] EXCEPT !.at = "pick"]
            ELSE IF alloc[s].at = "wait" THEN [alloc[s] EXCEPT !.at = "find"]
            ELSE alloc[s]]
    /\ UNCHANGED chunks

(* A chunk of the block that was found; it may be empty by now. *)
Pick(t) ==
    LET b == alloc[t].block IN
    /\ alloc[t].at = "pick"
    /\ IF chunks[b] = {}
       THEN alloc' = [alloc EXCEPT ![t].at = "find"] /\ UNCHANGED chunks
       ELSE \E c \in chunks[b] :
            /\ alloc' = [alloc EXCEPT ![t].at = "have", ![t].chunk = c]
            /\ chunks' = [chunks EXCEPT ![b] = @ \ {c}]
    /\ UNCHANGED mem_extending

(* Mutant: the chunk goes to the first block, whatever its registration. *)
Free_First(t) ==
    /\ alloc[t].at = "have"
    /\ chunks' = [chunks EXCEPT ![1] = @ \cup {alloc[t].chunk}]
    /\ alloc' = [alloc EXCEPT ![t].at = "idle", ![t].block = 0,
                              ![t].chunk = NoChunk]
    /\ UNCHANGED mem_extending

(* The chunk goes back to the block with its registration. *)
Free(t) ==
    /\ alloc[t].at = "have"
    /\ chunks' = [chunks EXCEPT ![alloc[t].block] = @ \cup {alloc[t].chunk}]
    /\ alloc' = [alloc EXCEPT ![t].at = "idle", ![t].block = 0,
                              ![t].chunk = NoChunk]
    /\ UNCHANGED mem_extending

Step(t) == Find(t) \/ Lock(t) \/ Extend(t) \/ ExtendFails(t) \/ Woken(t) \/ Pick(t)
Next == \E t \in Threads : Alloc(t) \/ Step(t) \/ Free(t)

Spec == Init /\ [][Next]_vars

(* A chunk is given to one thread, with the registration of its own block,  *)
(* and every chunk is free or given to a thread: the look for a block and   *)
(* the taking of a chunk are under different locks.                         *)
ChunkOnce ==
    /\ \A b \in DOMAIN chunks :
        chunks[b] = Block(b) \ {alloc[t].chunk : t \in Threads}
    /\ \A s, t \in Threads :
        /\ alloc[s].at = "have" => alloc[s].chunk \in Block(alloc[s].block)
        /\ (s # t /\ alloc[s].at = "have") => alloc[s].chunk # alloc[t].chunk

(* A block could not be allocated: extending is set and no thread extends.  *)
Stuck ==
    mem_extending /\ \A t \in Threads : alloc[t].at \notin {"extend", "wake"}

(* hg_mem_pool_alloc returns, unless a block could not be allocated.        *)
AllocReturns ==
    \A t \in Threads :
        (alloc[t].at = "find") ~> (alloc[t].at \in {"have", "idle"} \/ Stuck)

(* It always returns: the threads that wait for a block that could not be   *)
(* allocated, and all that come later, wait for ever.                       *)
AllocAlwaysReturns ==
    \A t \in Threads :
        (alloc[t].at = "find") ~> (alloc[t].at \in {"have", "idle"})
=============================================================================
