----------------------------- MODULE SharingProofs -----------------------------
(* Proofs about the small components, for any threads and any bounds.       *)
EXTENDS Sharing, SetSizes, TLAPS

(* Leaves are for Zenon; those that need arithmetic, or that it does not    *)
(* find, cite the SMT solver.                                               *)
USE ZenonT(60)

(* Each instance has its own name for the size of a set. *)
LEMMA PoolCard == \A S : Pool!Cardinality(S) = Cardinality(S)
  BY DEF Pool!Cardinality, Cardinality
LEMMA MemCard == \A S : Mem!Cardinality(S) = Cardinality(S)
  BY DEF Mem!Cardinality, Cardinality
LEMMA ReqCard == \A S : Req!Cardinality(S) = Cardinality(S)
  BY DEF Req!Cardinality, Cardinality
LEMMA WorkersCard == \A S : Workers!Cardinality(S) = Cardinality(S)
  BY DEF Workers!Cardinality, Cardinality
LEMMA NaCard == \A S : Na!Cardinality(S) = Cardinality(S)
  BY DEF Na!Cardinality, Cardinality

-----------------------------------------------------------------------------
(* The pool of registered buffers (MemPool) *)

MemPlaces == {"idle", "find", "lock", "wait", "extend", "wake", "pick", "have"}
Chunk == Nat \X Nat
AllocType == [Three -> [at : MemPlaces, block : Nat, chunk : Chunk, n : Nat]]

(* The blocks are numbered from 1. A thread that has found, added or been   *)
(* given a block names one that exists, and only a thread that has been     *)
(* given a chunk names a chunk.                                             *)
BlocksNumbered ==
    /\ \E k \in Nat \ {0} : DOMAIN chunks = 1..k
    /\ chunks = [b \in DOMAIN chunks |-> chunks[b]]

Named ==
    \A t \in Three :
        /\ alloc[t].at \in {"wake", "pick", "have"} =>
                alloc[t].block \in DOMAIN chunks
        /\ alloc[t].at # "have" => alloc[t].chunk = Mem!NoChunk

MemTypes == BlocksNumbered /\ alloc \in AllocType /\ Named

MemInv == MemTypes /\ Mem!ChunkOnce

LEMMA MemInit == Mem!Init => MemInv
<1>. SUFFICES ASSUME Mem!Init PROVE MemInv
  OBVIOUS
<1>1. DOMAIN chunks = 1..1 /\ chunks[1] = Mem!Block(1)
  BY SMTT(60) DEF Mem!Init
<1>2. MemTypes
  BY SMTT(60), <1>1
     DEF Mem!Init, MemTypes, BlocksNumbered, Named, AllocType, MemPlaces, Chunk, Mem!NoChunk
<1>3. \A k \in Nat : <<1, k>> # Mem!NoChunk
  BY SMTT(60) DEF Mem!NoChunk
<1>4. Mem!ChunkOnce
  BY SMTT(60), <1>1, <1>3 DEF Mem!Init, Mem!ChunkOnce, Mem!Block
<1>. QED
  BY <1>2, <1>4 DEF MemInv

(* A step that moves no chunk. *)
LEMMA MemChunksStay ==
    ASSUME MemInv, chunks' = chunks, MemTypes',
           \A t \in Three : /\ alloc'[t].chunk = alloc[t].chunk
                            /\ alloc'[t].at = "have" <=> alloc[t].at = "have"
                            /\ alloc[t].at = "have" =>
                                  alloc'[t].block = alloc[t].block
    PROVE  Mem!ChunkOnce'
  BY SMTT(60) DEF MemInv, Mem!ChunkOnce, Mem!Block

LEMMA MemAllocStep ==
    ASSUME MemInv, NEW t \in Three, Mem!Alloc(t)
    PROVE  MemInv'
<1>1. PICK k \in Nat : alloc' = [alloc EXCEPT ![t].at = "find", ![t].n = k]
  <2>1. alloc[t].n + 1 \in Nat
    BY SMTT(60) DEF MemInv, MemTypes, AllocType
  <2>. QED
    BY ZenonT(60), <2>1 DEF Mem!Alloc
<1>2. MemTypes'
  <2>1. /\ alloc'[t].at = "find" /\ alloc'[t].chunk = alloc[t].chunk
        /\ \A v \in Three \ {t} : alloc'[v] = alloc[v]
    BY SMTT(60), <1>1 DEF MemInv, MemTypes, AllocType
  <2>2. alloc' \in AllocType
    <3>1. PICK w : /\ w = [alloc[t] EXCEPT !.at = "find", !.n = k]
                   /\ alloc' = [alloc EXCEPT ![t] = w]
      BY <1>1
    <3>2. w \in [at : MemPlaces, block : Nat, chunk : Chunk, n : Nat]
      BY <3>1 DEF MemInv, MemTypes, AllocType, MemPlaces
    <3>. QED
      BY <3>1, <3>2 DEF MemInv, MemTypes, AllocType
  <2>3. chunks' = chunks /\ alloc[t].at # "have"
    BY DEF Mem!Alloc
  <2>4. Named'
    BY <2>1, <2>3 DEF MemInv, MemTypes, Named
  <2>. QED
    BY <2>2, <2>3, <2>4 DEF MemInv, MemTypes, BlocksNumbered
<1>. QED
  BY SMTT(60), <1>1, <1>2, MemChunksStay DEF MemInv, MemTypes, AllocType, Mem!Alloc

LEMMA MemFindStep ==
    ASSUME MemInv, NEW t \in Three, Mem!Find(t)
    PROVE  MemInv'
<1>1. DOMAIN chunks \subseteq Nat
  BY SMTT(60) DEF MemInv, MemTypes, BlocksNumbered
<1>. alloc[t].at = "find" /\ chunks' = chunks
  BY DEF Mem!Find
<1>2. CASE alloc' = [alloc EXCEPT ![t].at = "lock"]
  <2>1. MemTypes'
    BY ZenonT(60), <1>2 DEF MemInv, MemTypes, BlocksNumbered, Named, AllocType, MemPlaces
  <2>. QED
    BY <1>2, <2>1, MemChunksStay DEF MemInv, MemTypes, AllocType
<1>3. ASSUME NEW b \in DOMAIN chunks,
             alloc' = [alloc EXCEPT ![t].at = "pick", ![t].block = b]
      PROVE  MemInv'
  <2>1. MemTypes'
    BY ZenonT(60), <1>1, <1>3 DEF MemInv, MemTypes, BlocksNumbered, Named, AllocType, MemPlaces
  <2>. QED
    BY <1>3, <2>1, MemChunksStay DEF MemInv, MemTypes, AllocType
<1>. QED
  BY <1>2, <1>3 DEF Mem!Find

LEMMA MemLockStep ==
    ASSUME MemInv, NEW t \in Three, Mem!Lock(t)
    PROVE  MemInv'
<1>1. MemTypes'
  BY ZenonT(60) DEF MemInv, MemTypes, BlocksNumbered, Named, AllocType, MemPlaces, Mem!Lock
<1>. QED
  BY <1>1, MemChunksStay DEF MemInv, MemTypes, AllocType, Mem!Lock

(* A new block has a new number, so that its chunks are in nobody's hands.  *)
LEMMA MemExtendStep ==
    ASSUME SetFacts, MemInv, NEW t \in Three, Mem!Extend(t)
    PROVE  MemInv'
<1>1. PICK k \in Nat \ {0} : DOMAIN chunks = 1..k
  BY DEF MemInv, MemTypes, BlocksNumbered
<1>. DEFINE b == k + 1
<1>2. Mem!Cardinality(DOMAIN chunks) + 1 = b
  BY SMTT(60), <1>1, MemCard DEF SetFacts, IntervalFact
<1>3. /\ chunks' = [c \in DOMAIN chunks \cup {b} |->
                      IF c = b THEN Mem!Block(b) ELSE chunks[c]]
      /\ alloc' = [alloc EXCEPT ![t].at = "wake", ![t].block = b]
      /\ alloc[t].at = "extend"
  BY ZenonT(60), <1>2 DEF Mem!Extend
<1>4. DOMAIN chunks' = 1..b /\ b \in Nat \ {0} /\ b \notin DOMAIN chunks
  BY SMTT(60), <1>1, <1>3
<1>5. MemTypes'
  <2>1. \A s \in Three :
          /\ alloc'[s].at \in {"wake", "pick", "have"} =>
                  alloc'[s].block \in DOMAIN chunks'
          /\ alloc'[s].at # "have" => alloc'[s].chunk = Mem!NoChunk
    BY <1>1, <1>3, <1>4 DEF MemInv, MemTypes, Named, AllocType
  <2>2. alloc' \in AllocType
    BY ZenonT(60), <1>3, <1>4 DEF MemInv, MemTypes, AllocType, MemPlaces
  <2>3. chunks' = [c \in DOMAIN chunks' |-> chunks'[c]]
    BY <1>3
  <2>. QED
    BY <1>4, <2>1, <2>2, <2>3 DEF MemTypes, BlocksNumbered, Named
<1>6. \A s \in Three :
        /\ alloc'[s].chunk = alloc[s].chunk
        /\ alloc'[s].at = IF s = t THEN "wake" ELSE alloc[s].at
        /\ s # t => alloc'[s].block = alloc[s].block
  BY <1>3 DEF MemInv, MemTypes, AllocType
<1>7. \A s \in Three : alloc[s].chunk \notin Mem!Block(b)
  <2>1. TAKE s \in Three
  <2>2. CASE alloc[s].at = "have"
    BY SMTT(60), <1>4, <2>2 DEF MemInv, MemTypes, Named, Mem!ChunkOnce, Mem!Block
  <2>3. CASE alloc[s].at # "have"
    BY SMTT(60), <1>4, <2>3 DEF MemInv, MemTypes, Named, Mem!NoChunk, Mem!Block
  <2>. QED
    BY <2>2, <2>3
<1>8. Mem!ChunkOnce'
  <2>1. \A c \in DOMAIN chunks' :
          chunks'[c] = Mem!Block(c) \ {alloc'[s].chunk : s \in Three}
    <3>1. chunks'[b] = Mem!Block(b) /\ \A c \in DOMAIN chunks : chunks'[c] = chunks[c]
      BY <1>3, <1>4
    <3>2. Mem!Block(b) = Mem!Block(b) \ {alloc[s].chunk : s \in Three}
      BY <1>7
    <3>3. DOMAIN chunks' = DOMAIN chunks \cup {b}
      BY <1>3
    <3>4. \A c \in DOMAIN chunks :
            chunks[c] = Mem!Block(c) \ {alloc[s].chunk : s \in Three}
      BY DEF MemInv, Mem!ChunkOnce
    <3>. QED
      BY SMTT(60), <1>6, <3>1, <3>2, <3>3, <3>4
  <2>2. \A r, s \in Three :
          /\ alloc'[s].at = "have" => alloc'[s].chunk \in Mem!Block(alloc'[s].block)
          /\ (s # r /\ alloc'[s].at = "have") => alloc'[s].chunk # alloc'[r].chunk
    BY SMTT(60), <1>6 DEF MemInv, Mem!ChunkOnce
  <2>. QED
    BY <2>1, <2>2 DEF Mem!ChunkOnce, Mem!Block
<1>. QED
  BY <1>5, <1>8 DEF MemInv

LEMMA MemExtendFailsStep ==
    ASSUME MemInv, NEW t \in Three, Mem!ExtendFails(t)
    PROVE  MemInv'
<1>1. MemTypes'
  BY ZenonT(60) DEF MemInv, MemTypes, BlocksNumbered, Named, AllocType, MemPlaces, Mem!ExtendFails
<1>. QED
  BY <1>1, MemChunksStay DEF MemInv, MemTypes, AllocType, Mem!ExtendFails

LEMMA MemWokenStep ==
    ASSUME MemInv, NEW t \in Three, Mem!Woken(t)
    PROVE  MemInv'
<1>1. MemTypes'
  BY ZenonT(60) DEF MemInv, MemTypes, BlocksNumbered, Named, AllocType, MemPlaces, Mem!Woken
<1>. QED
  BY ZenonT(60), <1>1, MemChunksStay DEF MemInv, MemTypes, AllocType, Mem!Woken

(* The chunk that is picked was free, so nobody else has it. *)
LEMMA MemPickStep ==
    ASSUME MemInv, NEW t \in Three, Mem!Pick(t)
    PROVE  MemInv'
<1>. DEFINE b == alloc[t].block
<1>1. b \in DOMAIN chunks /\ b \in Nat /\ alloc[t].chunk = Mem!NoChunk
  BY DEF MemInv, MemTypes, Named, AllocType, Mem!Pick
<1>2. CASE chunks[b] = {}
  <2>1. MemTypes'
    <3>1. alloc' = [alloc EXCEPT ![t].at = "find"] /\ chunks' = chunks
      BY <1>2 DEF Mem!Pick
    <3>. QED
      BY ZenonT(60), <1>1, <3>1 DEF MemInv, MemTypes, BlocksNumbered, Named, AllocType, MemPlaces
  <2>. QED
    BY SMTT(60), <1>2, <2>1, MemChunksStay DEF MemInv, MemTypes, AllocType, Mem!Pick
<1>3. CASE chunks[b] # {}
  <2>1. PICK c \in chunks[b] :
          /\ alloc' = [alloc EXCEPT ![t].at = "have", ![t].chunk = c]
          /\ chunks' = [chunks EXCEPT ![b] = @ \ {c}]
    BY <1>3 DEF Mem!Pick
  <2>2. c \in Mem!Block(b) /\ (\A s \in Three : alloc[s].chunk # c)
    BY SMTT(60), <1>1 DEF MemInv, Mem!ChunkOnce
  <2>3. c \in Nat \X Nat /\ c[1] = b
    BY SMTT(60), <1>1, <2>2 DEF Mem!Block
  <2>4. MemTypes'
    <3>1. alloc' \in AllocType
      <4>1. c \in Chunk
        BY <2>3 DEF Chunk
      <4>. QED
        BY ZenonT(60), <2>1, <4>1 DEF MemInv, MemTypes, AllocType, MemPlaces
    <3>2. DOMAIN chunks' = DOMAIN chunks /\ chunks' = [d \in DOMAIN chunks' |-> chunks'[d]]
      BY ZenonT(60), <2>1 DEF MemInv, MemTypes, BlocksNumbered
    <3>3. Named'
      BY SMTT(60), <1>1, <2>1, <3>2 DEF MemInv, MemTypes, Named, AllocType
    <3>. QED
      BY <3>1, <3>2, <3>3 DEF MemInv, MemTypes, BlocksNumbered
  <2>5. \A s \in Three :
          /\ alloc'[s].chunk = IF s = t THEN c ELSE alloc[s].chunk
          /\ alloc'[s].block = alloc[s].block
          /\ s # t => alloc'[s].at = alloc[s].at
    BY <2>1 DEF MemInv, MemTypes, AllocType
  <2>6. \A d \in DOMAIN chunks' :
          chunks'[d] = Mem!Block(d) \ {alloc'[s].chunk : s \in Three}
    <3>1. \A d \in DOMAIN chunks : Mem!NoChunk \notin Mem!Block(d) /\ (c \in Mem!Block(d) => d = b)
      BY SMTT(60), <2>3 DEF MemInv, MemTypes, BlocksNumbered, Mem!Block, Mem!NoChunk
    <3>2. \A d \in DOMAIN chunks :
            chunks[d] = Mem!Block(d) \ {alloc[s].chunk : s \in Three}
      BY DEF MemInv, Mem!ChunkOnce
    <3>3. DOMAIN chunks' = DOMAIN chunks
      BY <2>1
    <3>4. \A d \in DOMAIN chunks :
            chunks'[d] = IF d = b THEN chunks[b] \ {c} ELSE chunks[d]
      BY <1>1, <2>1
    <3>. QED
      BY SMTT(60), <1>1, <2>5, <3>1, <3>2, <3>3, <3>4
  <2>7. \A r, s \in Three :
          /\ alloc'[s].at = "have" => alloc'[s].chunk \in Mem!Block(alloc'[s].block)
          /\ (s # r /\ alloc'[s].at = "have") => alloc'[s].chunk # alloc'[r].chunk
    <3>1. c # Mem!NoChunk
      BY <1>1, <2>2 DEF MemInv, MemTypes, BlocksNumbered, Mem!Block, Mem!NoChunk
    <3>. QED
      BY SMTT(60), <2>2, <2>5, <3>1 DEF MemInv, Mem!ChunkOnce
  <2>. QED
    BY <2>4, <2>6, <2>7 DEF MemInv, Mem!ChunkOnce, Mem!Block
<1>. QED
  BY <1>2, <1>3

(* The chunk that is freed goes back to its block, and nobody else has it.  *)
LEMMA MemFreeStep ==
    ASSUME MemInv, NEW t \in Three, Mem!Free(t)
    PROVE  MemInv'
<1>. DEFINE b == alloc[t].block
            c == alloc[t].chunk
<1>1. b \in DOMAIN chunks /\ b \in Nat /\ c \in Mem!Block(b)
  BY DEF MemInv, MemTypes, Named, AllocType, Mem!ChunkOnce, Mem!Free
<1>2. /\ alloc' = [alloc EXCEPT ![t].at = "idle", ![t].block = 0,
                                ![t].chunk = Mem!NoChunk]
      /\ chunks' = [chunks EXCEPT ![b] = @ \cup {c}]
      /\ alloc[t].at = "have"
  BY DEF Mem!Free
<1>3. MemTypes'
  <2>1. alloc' \in AllocType
    <3>1. PICK k \in Nat, d \in Chunk : k = 0 /\ d = Mem!NoChunk
      BY ZenonT(60) DEF Mem!NoChunk, Chunk
    <3>2. alloc' = [alloc EXCEPT ![t].at = "idle", ![t].block = k, ![t].chunk = d]
      BY <1>2, <3>1
    <3>. QED
      BY ZenonT(60), <3>2 DEF MemInv, MemTypes, AllocType, MemPlaces
  <2>2. DOMAIN chunks' = DOMAIN chunks /\ chunks' = [d \in DOMAIN chunks' |-> chunks'[d]]
    BY ZenonT(60), <1>2 DEF MemInv, MemTypes, BlocksNumbered
  <2>3. Named'
    BY SMTT(60), <1>2, <2>2 DEF MemInv, MemTypes, Named, AllocType
  <2>. QED
    BY <2>1, <2>2, <2>3 DEF MemInv, MemTypes, BlocksNumbered
<1>4. \A s \in Three :
        /\ alloc'[s].chunk = IF s = t THEN Mem!NoChunk ELSE alloc[s].chunk
        /\ alloc'[s].at = IF s = t THEN "idle" ELSE alloc[s].at
        /\ s # t => alloc'[s].block = alloc[s].block
  BY <1>2 DEF MemInv, MemTypes, AllocType
<1>5. \A s \in Three \ {t} : alloc[s].chunk # c
  BY <1>2 DEF MemInv, Mem!ChunkOnce
<1>6. \A d \in DOMAIN chunks' :
        chunks'[d] = Mem!Block(d) \ {alloc'[s].chunk : s \in Three}
  <2>1. \A d \in DOMAIN chunks : Mem!NoChunk \notin Mem!Block(d) /\ (c \in Mem!Block(d) => d = b)
    BY SMTT(60), <1>1 DEF MemInv, MemTypes, BlocksNumbered, Mem!Block, Mem!NoChunk
  <2>2. \A d \in DOMAIN chunks :
          chunks[d] = Mem!Block(d) \ {alloc[s].chunk : s \in Three}
    BY DEF MemInv, Mem!ChunkOnce
  <2>3. DOMAIN chunks' = DOMAIN chunks
    BY <1>2
  <2>4. \A d \in DOMAIN chunks :
          chunks'[d] = IF d = b THEN chunks[b] \cup {c} ELSE chunks[d]
    BY <1>1, <1>2
  <2>. QED
    BY SMTT(60), <1>1, <1>4, <1>5, <2>1, <2>2, <2>3, <2>4
<1>7. \A r, s \in Three :
        /\ alloc'[s].at = "have" => alloc'[s].chunk \in Mem!Block(alloc'[s].block)
        /\ (s # r /\ alloc'[s].at = "have") => alloc'[s].chunk # alloc'[r].chunk
  <2>1. \A s \in Three : alloc[s].at = "have" => alloc[s].chunk # Mem!NoChunk
    BY SMTT(60)
       DEF MemInv, MemTypes, Named, BlocksNumbered, Mem!ChunkOnce, Mem!Block, Mem!NoChunk
  <2>. QED
    BY SMTT(60), <1>4, <2>1 DEF MemInv, Mem!ChunkOnce
<1>. QED
  BY <1>3, <1>6, <1>7 DEF MemInv, Mem!ChunkOnce

LEMMA MemNext ==
    ASSUME SetFacts, MemInv, [Mem!Next]_memVars
    PROVE  MemInv'
<1>1. CASE UNCHANGED memVars
  BY <1>1, MemChunksStay DEF MemInv, MemTypes, BlocksNumbered, Named, memVars
<1>2. ASSUME NEW t \in Three, Mem!Alloc(t) \/ Mem!Step(t) \/ Mem!Free(t)
      PROVE  MemInv'
  BY <1>2, MemAllocStep, MemFindStep, MemLockStep, MemExtendStep,
     MemExtendFailsStep, MemWokenStep, MemPickStep, MemFreeStep DEF Mem!Step
<1>. QED
  BY <1>1, <1>2 DEF Mem!Next

-----------------------------------------------------------------------------
(* The pool of worker threads (ThreadPool) *)

Doing == Works \cup {"lock", "wait", "woken", "exit"}
Done == {ran[k] : k \in 1 .. Len(ran)}
Sleeping == {w \in Two : worker[w] \in {"wait", "woken"}}

WorkersTypes ==
    /\ queue \in Seq(Works) /\ ran \in Seq(Works)
    /\ worker \in [Two -> Doing] /\ sleeping \in Nat
    /\ accepted \subseteq Works /\ shutdown \in {"no", "joining", "joined"}

(* The workers that sleep are counted, those that were woken included; no   *)
(* worker sleeps after shutdown, and none leaves before it or while there   *)
(* are tasks.                                                               *)
SleepInv ==
    /\ sleeping = Cardinality(Sleeping)
    /\ \A w \in Two : /\ worker[w] = "wait" => shutdown = "no"
                      /\ worker[w] = "exit" => shutdown # "no" /\ queue = <<>>
    /\ shutdown = "joined" => \A w \in Two : worker[w] = "exit"

(* An accepted task is in the queue, at a worker or done, and in one place. *)
TaskInv ==
    /\ \A j, k \in 1 .. Len(queue) : queue[j] = queue[k] => j = k
    /\ \A k \in 1 .. Len(queue) :
        /\ queue[k] \in accepted /\ queue[k] \notin Done
        /\ \A w \in Two : worker[w] # queue[k]
    /\ \A w \in Two : worker[w] \in Works =>
        /\ worker[w] \in accepted /\ worker[w] \notin Done
        /\ \A v \in Two : worker[v] = worker[w] => v = w
    /\ Done \subseteq accepted
    /\ \A x \in accepted : \/ x \in Done
                           \/ \E k \in 1 .. Len(queue) : queue[k] = x
                           \/ \E w \in Two : worker[w] = x
    /\ IsFiniteSet(Done) /\ Cardinality(Done) = Len(ran)

WorkersInv == WorkersTypes /\ SleepInv /\ Workers!SomeoneAwake /\ TaskInv

LEMMA NoTask ==
    ASSUME NEW x \in Works
    PROVE  x \notin {"lock", "wait", "woken", "exit"}
  BY WorksAssumption

LEMMA SleepingType ==
    ASSUME SetFacts
    PROVE  IsFiniteSet(Sleeping) /\ Cardinality(Sleeping) \in Nat
  BY ThreadsAssumption DEF SetFacts, SubsetFact, CountFact, Sleeping

LEMMA WorkersInit ==
    ASSUME SetFacts, Workers!Init
    PROVE  WorkersInv
<1>1. /\ queue = <<>> /\ sleeping = 0 /\ shutdown = "no" /\ accepted = {}
      /\ ran = <<>> /\ worker = [w \in Two |-> "lock"]
  BY DEF Workers!Init
<1>2. /\ WorkersTypes /\ Len(queue) = 0 /\ Len(ran) = 0
      /\ \A w \in Two : worker[w] = "lock"
  BY SMTT(60), <1>1 DEF WorkersTypes, Doing
<1>3. Sleeping = {} /\ Done = {}
  BY SMTT(60), <1>2 DEF Sleeping, Done
<1>4. SleepInv /\ Workers!SomeoneAwake
  BY <1>1, <1>2, <1>3
     DEF SetFacts, EmptyFact, SleepInv, Workers!SomeoneAwake
<1>5. \A w \in Two : worker[w] \notin Works
  BY <1>2, NoTask
<1>6. TaskInv
  BY SMTT(60), <1>1, <1>2, <1>3, <1>5 DEF SetFacts, EmptyFact, TaskInv
<1>. QED
  BY <1>2, <1>4, <1>6 DEF WorkersInv

LEMMA PostStep ==
    ASSUME SetFacts, WorkersInv, NEW x \in Works, Workers!Post(x)
    PROVE  WorkersInv'
<1>1. /\ x \notin accepted /\ shutdown = "no" /\ queue' = Append(queue, x)
      /\ accepted' = accepted \cup {x} /\ sleeping' = sleeping
      /\ shutdown' = shutdown /\ ran' = ran
  BY DEF Workers!Post
<1>2. /\ Len(queue) \in Nat /\ Len(queue') = Len(queue) + 1
      /\ queue' \in Seq(Works) /\ queue'[Len(queue) + 1] = x
      /\ \A k \in 1 .. Len(queue) : queue'[k] = queue[k]
  BY SMTT(60), <1>1 DEF WorkersInv, WorkersTypes
<1>3. /\ worker' \in [Two -> Doing]
      /\ \A w \in Two : \/ worker'[w] = worker[w]
                        \/ worker[w] = "wait" /\ worker'[w] = "woken"
  BY DEF WorkersInv, WorkersTypes, Workers!Post, Workers!Sleepers, Doing
<1>4. WorkersTypes'
  BY <1>1, <1>2, <1>3 DEF WorkersInv, WorkersTypes
<1>5. Sleeping' = Sleeping
  BY ZenonT(60), <1>3 DEF Sleeping
<1>6. SleepInv'
  BY <1>1, <1>3, <1>5 DEF WorkersInv, SleepInv
<1>7. \E w \in Two : worker'[w] \notin {"wait", "exit"}
  <2>1. CASE sleeping > 0 /\ Workers!Sleepers # {}
    BY <2>1 DEF WorkersInv, WorkersTypes, Workers!Post, Workers!Sleepers
  <2>2. CASE Workers!Sleepers = {}
    BY <1>1, <1>3, <2>2, ThreadsAssumption
       DEF WorkersInv, SleepInv, Workers!Sleepers
  <2>3. CASE sleeping = 0
    <3>1. Cardinality(Sleeping) = 0
      BY <2>3 DEF WorkersInv, SleepInv
    <3>2. Sleeping = {}
      BY ZenonT(60), <3>1, SleepingType DEF SetFacts, EmptyFact
    <3>. QED
      BY <2>2, <3>2 DEF Sleeping, Workers!Sleepers
  <2>. QED
    BY SMTT(60), <2>1, <2>2, <2>3 DEF WorkersInv, WorkersTypes
<1>8. Done' = Done /\ \A w \in Two : worker'[w] \in Works => worker'[w] = worker[w]
  BY <1>1, <1>3, NoTask DEF Done
<1>9. TaskInv'
  <2>1. \A w \in Two : worker'[w] # x /\ x \notin Done
    BY SMTT(60), <1>1, <1>8 DEF WorkersInv, TaskInv
  <2>2. \A j, k \in 1 .. Len(queue') : queue'[j] = queue'[k] => j = k
    BY SMTT(60), <1>1, <1>2 DEF WorkersInv, TaskInv
  <2>3. \A k \in 1 .. Len(queue') :
            /\ queue'[k] \in accepted' /\ queue'[k] \notin Done'
            /\ \A w \in Two : worker'[w] # queue'[k]
    BY SMTT(60), <1>1, <1>2, <1>3, <1>8, <2>1, NoTask
       DEF WorkersInv, WorkersTypes, TaskInv
  <2>4. \A w \in Two : worker'[w] \in Works =>
            /\ worker'[w] \in accepted' /\ worker'[w] \notin Done'
            /\ \A v \in Two : worker'[v] = worker'[w] => v = w
    BY ZenonT(60), <1>1, <1>8 DEF WorkersInv, TaskInv
  <2>5. \A y \in accepted' : \/ y \in Done'
                             \/ \E k \in 1 .. Len(queue') : queue'[k] = y
                             \/ \E w \in Two : worker'[w] = y
    BY SMTT(60), <1>1, <1>2, <1>3, <1>8, NoTask DEF WorkersInv, WorkersTypes, TaskInv
  <2>. QED
    BY <1>1, <1>8, <2>2, <2>3, <2>4, <2>5 DEF WorkersInv, TaskInv
<1>. QED
  BY <1>4, <1>6, <1>7, <1>9 DEF WorkersInv, Workers!SomeoneAwake

(* The count of a worker that falls asleep, and of one that wakes up. *)
LEMMA SleepMore ==
    ASSUME SetFacts, NEW w, w \notin Sleeping, Sleeping' = Sleeping \cup {w}
    PROVE  Cardinality(Sleeping') = Cardinality(Sleeping) + 1
  BY ZenonT(60), SleepingType DEF SetFacts, AddFact

LEMMA SleepLess ==
    ASSUME SetFacts, NEW w, w \in Sleeping, Sleeping' = Sleeping \ {w}
    PROVE  Cardinality(Sleeping') = Cardinality(Sleeping) - 1
  BY ZenonT(60), SleepingType DEF SetFacts, RemoveFact

(* A worker finds no task: it sleeps, or leaves. *)
LEMMA TakeNoneStep ==
    ASSUME SetFacts, WorkersInv, NEW w \in Two, NEW p \in {"wait", "exit"},
           worker[w] \in {"lock", "woken"}, queue = <<>>,
           p = "wait" <=> shutdown = "no",
           worker' = [worker EXCEPT ![w] = p],
           NEW awake, awake = IF worker[w] = "woken" THEN sleeping - 1 ELSE sleeping,
           sleeping' = IF p = "wait" THEN awake + 1 ELSE awake,
           UNCHANGED <<queue, shutdown, accepted, ran>>
    PROVE  WorkersInv'
<1>1. /\ worker' \in [Two -> Doing] /\ worker'[w] = p
      /\ \A v \in Two \ {w} : worker'[v] = worker[v]
  BY DEF WorkersInv, WorkersTypes, Doing
<1>2. sleeping' = Cardinality(Sleeping')
  <2>1. sleeping = Cardinality(Sleeping) /\ Cardinality(Sleeping) \in Nat
    BY SleepingType DEF WorkersInv, SleepInv
  <2>2. CASE worker[w] = "woken" /\ p = "wait"
    <3>1. Sleeping' = Sleeping
      BY ZenonT(60), <1>1, <2>2 DEF Sleeping
    <3>. QED
      BY SMTT(60), <2>1, <2>2, <3>1
  <2>3. CASE worker[w] = "woken" /\ p = "exit"
    <3>1. w \in Sleeping /\ Sleeping' = Sleeping \ {w}
      BY ZenonT(60), <1>1, <2>3 DEF Sleeping
    <3>2. Cardinality(Sleeping') = Cardinality(Sleeping) - 1
      BY ZenonT(60), <3>1, SleepLess
    <3>. QED
      BY <2>1, <2>3, <3>2
  <2>4. CASE worker[w] = "lock" /\ p = "wait"
    <3>1. w \notin Sleeping /\ Sleeping' = Sleeping \cup {w}
      BY ZenonT(60), <1>1, <2>4 DEF Sleeping
    <3>2. Cardinality(Sleeping') = Cardinality(Sleeping) + 1
      BY ZenonT(60), <3>1, SleepMore
    <3>. QED
      BY <2>1, <2>4, <3>2
  <2>5. CASE worker[w] = "lock" /\ p = "exit"
    <3>1. Sleeping' = Sleeping
      BY ZenonT(60), <1>1, <2>5 DEF Sleeping
    <3>. QED
      BY <2>1, <2>5, <3>1
  <2>. QED
    BY <2>2, <2>3, <2>4, <2>5
<1>3. sleeping' \in Nat
  <2>1. Cardinality(Sleeping') \in Nat
    BY <1>1, ThreadsAssumption DEF SetFacts, SubsetFact, CountFact, Sleeping
  <2>. QED
    BY <1>2, <2>1
<1>4. WorkersTypes'
  BY <1>1, <1>3 DEF WorkersInv, WorkersTypes
<1>5. SleepInv'
  BY <1>1, <1>2 DEF WorkersInv, SleepInv
<1>6. p \notin Works /\ worker[w] \notin Works
  BY NoTask
<1>7. TaskInv'
  <2>1. Done' = Done /\ Len(queue) = 0 /\ Len(queue') = 0
    BY DEF Done
  <2>2. \A v \in Two : worker'[v] \in Works =>
            /\ worker'[v] \in accepted' /\ worker'[v] \notin Done'
            /\ \A z \in Two : worker'[z] = worker'[v] => z = v
    BY ZenonT(60), <1>1, <1>6, <2>1 DEF WorkersInv, TaskInv
  <2>3. \A x \in accepted' : x \in Done' \/ \E v \in Two : worker'[v] = x
    BY SMTT(60), <1>1, <1>6, <2>1 DEF WorkersInv, WorkersTypes, TaskInv
  <2>. QED
    BY SMTT(60), <2>1, <2>2, <2>3 DEF WorkersInv, TaskInv
<1>. QED
  BY <1>4, <1>5, <1>7 DEF WorkersInv, Workers!SomeoneAwake

(* A worker takes the first task. *)
LEMMA TakeOneStep ==
    ASSUME SetFacts, WorkersInv, NEW w \in Two, queue # <<>>,
           worker[w] \in {"lock", "woken"},
           worker' = [worker EXCEPT ![w] = Head(queue)], queue' = Tail(queue),
           sleeping' = IF worker[w] = "woken" THEN sleeping - 1 ELSE sleeping,
           UNCHANGED <<shutdown, accepted, ran>>
    PROVE  WorkersInv'
<1>1. PICK x \in Works : x = Head(queue) /\ x = queue[1]
  BY SMTT(60) DEF WorkersInv, WorkersTypes
<1>2. /\ Len(queue) \in Nat \ {0} /\ Len(queue') = Len(queue) - 1
      /\ queue' \in Seq(Works)
      /\ \A k \in 1 .. Len(queue') : queue'[k] = queue[k + 1]
  BY SMTT(60) DEF WorkersInv, WorkersTypes
<1>3. /\ worker' = [worker EXCEPT ![w] = x]
      /\ worker' \in [Two -> Doing] /\ worker'[w] = x
      /\ \A v \in Two \ {w} : worker'[v] = worker[v]
  BY <1>1 DEF WorkersInv, WorkersTypes, Doing
<1>4. x \notin {"lock", "wait", "woken", "exit"} /\ worker[w] \notin Works
  BY NoTask
<1>5. sleeping' = Cardinality(Sleeping')
  <2>1. sleeping = Cardinality(Sleeping) /\ Cardinality(Sleeping) \in Nat
    BY SleepingType DEF WorkersInv, SleepInv
  <2>2. CASE worker[w] = "woken"
    <3>1. w \in Sleeping /\ Sleeping' = Sleeping \ {w}
      BY ZenonT(60), <1>3, <1>4, <2>2 DEF Sleeping
    <3>2. Cardinality(Sleeping') = Cardinality(Sleeping) - 1
      BY ZenonT(60), <3>1, SleepLess
    <3>. QED
      BY <2>1, <2>2, <3>2
  <2>3. CASE worker[w] = "lock"
    <3>1. Sleeping' = Sleeping
      BY ZenonT(60), <1>3, <1>4, <2>3 DEF Sleeping
    <3>. QED
      BY <2>1, <2>3, <3>1
  <2>. QED
    BY <2>2, <2>3
<1>6. sleeping' \in Nat
  <2>1. Cardinality(Sleeping') \in Nat
    BY <1>3, ThreadsAssumption DEF SetFacts, SubsetFact, CountFact, Sleeping
  <2>. QED
    BY <1>5, <2>1
<1>7. WorkersTypes'
  BY <1>2, <1>3, <1>6 DEF WorkersInv, WorkersTypes
<1>8. SleepInv'
  <2>1. \A v \in Two : worker[v] # "exit" /\ shutdown # "joined"
    BY DEF WorkersInv, SleepInv
  <2>. QED
    BY <1>3, <1>4, <1>5, <2>1 DEF WorkersInv, SleepInv
<1>9. Done' = Done /\ x \in accepted /\ x \notin Done /\ \A v \in Two : worker[v] # x
  <2>1. Done' = Done
    BY DEF Done
  <2>. QED
    BY SMTT(60), <1>1, <1>2, <2>1 DEF WorkersInv, TaskInv
<1>10. TaskInv'
  <2>1. \A j, k \in 1 .. Len(queue') : queue'[j] = queue'[k] => j = k
    BY SMTT(60), <1>2 DEF WorkersInv, TaskInv
  <2>2. \A k \in 1 .. Len(queue') :
            /\ queue'[k] \in accepted' /\ queue'[k] \notin Done'
            /\ queue'[k] # x /\ \A v \in Two : worker[v] # queue'[k]
    BY SMTT(60), <1>1, <1>2, <1>9 DEF WorkersInv, TaskInv
  <2>3. ASSUME NEW v \in Two, worker'[v] \in Works
        PROVE  /\ worker'[v] \in accepted' /\ worker'[v] \notin Done'
               /\ \A z \in Two : worker'[z] = worker'[v] => z = v
    <3>1. CASE v = w
      BY <1>3, <1>9, <3>1
    <3>2. CASE v # w
      BY SMTT(60), <1>3, <1>9, <2>3, <3>2 DEF WorkersInv, TaskInv
    <3>. QED
      BY <3>1, <3>2
  <2>4. ASSUME NEW y \in accepted'
        PROVE  \/ y \in Done'
               \/ \E k \in 1 .. Len(queue') : queue'[k] = y
               \/ \E v \in Two : worker'[v] = y
    <3>1. CASE \E k \in 1 .. Len(queue) : queue[k] = y
      <4>1. PICK k \in 1 .. Len(queue) : queue[k] = y
        BY <3>1
      <4>2. CASE k = 1
        BY <1>1, <1>3, <4>1, <4>2
      <4>3. CASE k # 1
        <5>1. k - 1 \in 1 .. Len(queue') /\ queue'[k - 1] = y
          BY SMTT(60), <1>2, <4>1, <4>3
        <5>. QED
          BY <5>1
      <4>. QED
        BY <4>2, <4>3
    <3>2. CASE \E v \in Two : worker[v] = y
      BY <1>3, <1>4, <3>2, <2>4 DEF WorkersInv, WorkersTypes
    <3>. QED
      BY <1>9, <2>4, <3>1, <3>2 DEF WorkersInv, TaskInv
  <2>5. \A k \in 1 .. Len(queue') : \A v \in Two : worker'[v] # queue'[k]
    BY ZenonT(60), <1>3, <2>2
  <2>. QED
    BY <1>9, <2>1, <2>2, <2>3, <2>4, <2>5 DEF WorkersInv, TaskInv
<1>. QED
  BY <1>3, <1>4, <1>7, <1>8, <1>10 DEF WorkersInv, Workers!SomeoneAwake

LEMMA TakeStep ==
    ASSUME SetFacts, WorkersInv, NEW w \in Two, Workers!Take(w)
    PROVE  WorkersInv'
<1>1. worker[w] \in {"lock", "woken"} /\ UNCHANGED <<shutdown, accepted, ran>>
  BY DEF Workers!Take
<1>2. PICK awake : awake = IF worker[w] = "woken" THEN sleeping - 1 ELSE sleeping
  OBVIOUS
<1>3. \/ /\ shutdown = "no" /\ queue = <<>>
         /\ sleeping' = awake + 1
         /\ worker' = [worker EXCEPT ![w] = "wait"] /\ UNCHANGED queue
      \/ /\ shutdown # "no" /\ queue = <<>>
         /\ sleeping' = awake
         /\ worker' = [worker EXCEPT ![w] = "exit"] /\ UNCHANGED queue
      \/ /\ queue # <<>>
         /\ sleeping' = awake
         /\ worker' = [worker EXCEPT ![w] = Head(queue)]
         /\ queue' = Tail(queue)
  BY ZenonT(60), <1>2 DEF Workers!Take
<1>4. CASE queue = <<>> /\ shutdown = "no"
  BY <1>1, <1>2, <1>3, <1>4, TakeNoneStep
<1>5. CASE queue = <<>> /\ shutdown # "no"
  BY <1>1, <1>2, <1>3, <1>5, TakeNoneStep
<1>6. CASE queue # <<>>
  BY <1>1, <1>2, <1>3, <1>6, TakeOneStep
<1>. QED
  BY <1>4, <1>5, <1>6

LEMMA RunStep ==
    ASSUME SetFacts, WorkersInv, NEW w \in Two, Workers!Run(w)
    PROVE  WorkersInv'
<1>1. /\ UNCHANGED <<queue, sleeping, shutdown, accepted>>
      /\ worker' = [worker EXCEPT ![w] = "lock"]
  BY DEF Workers!Run
<1>2. PICK x \in Works : x = worker[w] /\ ran' = Append(ran, x)
  BY DEF Workers!Run
<1>3. /\ worker' \in [Two -> Doing] /\ worker'[w] = "lock"
      /\ \A v \in Two \ {w} : worker'[v] = worker[v]
  BY <1>1 DEF WorkersInv, WorkersTypes, Doing
<1>4. x \notin {"lock", "wait", "woken", "exit"} /\ "lock" \notin Works
  BY NoTask
<1>5. /\ ran' \in Seq(Works) /\ Len(ran) \in Nat /\ Len(ran') = Len(ran) + 1
      /\ ran'[Len(ran) + 1] = x /\ \A k \in 1 .. Len(ran) : ran'[k] = ran[k]
  BY SMTT(60), <1>2 DEF WorkersInv, WorkersTypes
<1>6. Done' = Done \cup {x}
  <2>1. \A k \in 1 .. Len(ran') : k \in 1 .. Len(ran) \/ k = Len(ran) + 1
    BY SMTT(60), <1>5
  <2>2. 1 .. Len(ran) \subseteq 1 .. Len(ran') /\ Len(ran) + 1 \in 1 .. Len(ran')
    BY SMTT(60), <1>5
  <2>. QED
    BY ZenonT(60), <1>5, <2>1, <2>2 DEF Done
<1>7. x \in accepted /\ x \notin Done
  BY <1>2 DEF WorkersInv, TaskInv
<1>8. IsFiniteSet(Done') /\ Cardinality(Done') = Len(ran')
  <2>1. IsFiniteSet(Done') /\ Cardinality(Done') = Cardinality(Done) + 1
    BY ZenonT(60), <1>6, <1>7 DEF SetFacts, AddFact, WorkersInv, TaskInv
  <2>. QED
    BY <1>5, <2>1 DEF WorkersInv, TaskInv
<1>9. WorkersTypes'
  BY <1>1, <1>3, <1>5 DEF WorkersInv, WorkersTypes
<1>10. Sleeping' = Sleeping
  BY ZenonT(60), <1>2, <1>3, <1>4 DEF Sleeping
<1>11. SleepInv'
  BY <1>1, <1>2, <1>3, <1>4, <1>10 DEF WorkersInv, SleepInv
<1>12. TaskInv'
  <2>1. \A k \in 1 .. Len(queue') :
            /\ queue'[k] \in accepted' /\ queue'[k] \notin Done'
            /\ \A v \in Two : worker'[v] # queue'[k]
    BY SMTT(60), <1>1, <1>2, <1>3, <1>4, <1>6 DEF WorkersInv, WorkersTypes, TaskInv
  <2>2. ASSUME NEW v \in Two, worker'[v] \in Works
        PROVE  /\ worker'[v] \in accepted' /\ worker'[v] \notin Done'
               /\ \A z \in Two : worker'[z] = worker'[v] => z = v
    BY <1>1, <1>2, <1>3, <1>4, <1>6, <2>2 DEF WorkersInv, TaskInv
  <2>3. ASSUME NEW y \in accepted'
        PROVE  \/ y \in Done'
               \/ \E k \in 1 .. Len(queue') : queue'[k] = y
               \/ \E v \in Two : worker'[v] = y
    BY <1>1, <1>2, <1>3, <1>6, <2>3 DEF WorkersInv, TaskInv
  <2>4. Done' \subseteq accepted'
    BY <1>1, <1>6, <1>7 DEF WorkersInv, TaskInv
  <2>5. \A j, k \in 1 .. Len(queue') : queue'[j] = queue'[k] => j = k
    BY <1>1 DEF WorkersInv, TaskInv
  <2>. QED
    BY <1>8, <2>1, <2>2, <2>3, <2>4, <2>5 DEF TaskInv
<1>. QED
  BY <1>3, <1>9, <1>11, <1>12 DEF WorkersInv, Workers!SomeoneAwake

LEMMA DestroyStep ==
    ASSUME WorkersInv, Workers!Destroy \/ Workers!Join
    PROVE  WorkersInv'
<1>1. /\ UNCHANGED <<queue, sleeping, accepted, ran>>
      /\ shutdown' \in {"joining", "joined"}
      /\ shutdown' = "joined" => \A w \in Two : worker'[w] = "exit"
  BY DEF Workers!Destroy, Workers!Join
<1>2. /\ worker' \in [Two -> Doing]
      /\ \A w \in Two : /\ worker'[w] # "wait"
                        /\ \/ worker'[w] = worker[w]
                           \/ worker[w] = "wait" /\ worker'[w] = "woken"
  BY DEF WorkersInv, WorkersTypes, SleepInv, Doing, Workers!Destroy, Workers!Join
<1>3. WorkersTypes'
  BY <1>1, <1>2 DEF WorkersInv, WorkersTypes
<1>4. Sleeping' = Sleeping
  BY ZenonT(60), <1>2 DEF Sleeping
<1>5. SleepInv'
  BY <1>1, <1>2, <1>4 DEF WorkersInv, SleepInv
<1>6. Workers!SomeoneAwake'
  BY <1>1, <1>2 DEF WorkersInv, Workers!SomeoneAwake
<1>7. Done' = Done
  BY <1>1 DEF Done
<1>8. \A w \in Two, x \in Works : worker'[w] = x <=> worker[w] = x
  BY ZenonT(60), <1>2, NoTask
<1>9. TaskInv'
  <2>1. \A k \in 1 .. Len(queue) : queue[k] \in Works
    BY SMTT(60) DEF WorkersInv, WorkersTypes
  <2>2. \A k \in 1 .. Len(queue') :
            /\ queue'[k] \in accepted' /\ queue'[k] \notin Done'
            /\ \A w \in Two : worker'[w] # queue'[k]
    BY ZenonT(60), <1>1, <1>7, <1>8, <2>1 DEF WorkersInv, TaskInv
  <2>3. ASSUME NEW w \in Two, worker'[w] \in Works
        PROVE  /\ worker'[w] \in accepted' /\ worker'[w] \notin Done'
               /\ \A v \in Two : worker'[v] = worker'[w] => v = w
    BY ZenonT(60), <1>1, <1>7, <1>8, <2>3 DEF WorkersInv, TaskInv
  <2>4. \A x \in accepted' : \/ x \in Done'
                             \/ \E k \in 1 .. Len(queue') : queue'[k] = x
                             \/ \E w \in Two : worker'[w] = x
    BY ZenonT(60), <1>1, <1>7, <1>8 DEF WorkersInv, WorkersTypes, TaskInv
  <2>. QED
    BY SMTT(60), <1>1, <1>7, <2>2, <2>3, <2>4 DEF WorkersInv, TaskInv
<1>. QED
  BY <1>3, <1>5, <1>6, <1>9 DEF WorkersInv

LEMMA WorkersNext ==
    ASSUME SetFacts, WorkersInv, [Workers!Next]_workersVars
    PROVE  WorkersInv'
<1>1. CASE UNCHANGED workersVars
  <2>1. UNCHANGED <<queue, sleeping, shutdown, worker, accepted, ran>>
    BY <1>1 DEF workersVars
  <2>2. Sleeping' = Sleeping /\ Done' = Done
    BY <2>1 DEF Sleeping, Done
  <2>3. WorkersTypes' /\ SleepInv' /\ Workers!SomeoneAwake'
    BY <2>1, <2>2 DEF WorkersInv, WorkersTypes, SleepInv, Workers!SomeoneAwake
  <2>4. TaskInv'
    BY <2>1, <2>2 DEF WorkersInv, TaskInv
  <2>. QED
    BY <2>3, <2>4 DEF WorkersInv
<1>. QED
  BY <1>1, PostStep, TakeStep, RunStep, DestroyStep DEF Workers!Next

LEMMA WorkersHold ==
    ASSUME SetFacts, WorkersInv
    PROVE  Workers!SomeoneAwake /\ Workers!JoinedIsDone
<1>1. ASSUME shutdown = "joined"
      PROVE  /\ Len(ran) = Cardinality(accepted)
             /\ \A x \in accepted : \E k \in DOMAIN ran : ran[k] = x
  <2>1. \A w \in Two : worker[w] = "exit"
    BY <1>1 DEF WorkersInv, SleepInv
  <2>2. queue = <<>> /\ Len(queue) = 0
    BY SMTT(60), <2>1, ThreadsAssumption DEF WorkersInv, SleepInv
  <2>3. \A k \in 1 .. Len(queue) : FALSE
    BY SMTT(60), <2>2
  <2>4. \A w \in Two, x \in Works : worker[w] # x
    BY <2>1, NoTask
  <2>5. accepted = Done
    <3>1. \A x \in accepted : x \in Works
      BY DEF WorkersInv, WorkersTypes
    <3>. QED
      BY ZenonT(60), <2>3, <2>4, <3>1 DEF WorkersInv, TaskInv
  <2>6. DOMAIN ran = 1 .. Len(ran)
    BY SMTT(60) DEF WorkersInv, WorkersTypes
  <2>7. \A x \in accepted : \E k \in DOMAIN ran : ran[k] = x
    BY ZenonT(60), <2>5, <2>6 DEF Done
  <2>. QED
    BY <2>5, <2>7 DEF WorkersInv, TaskInv
<1>. QED
  BY <1>1, WorkersCard DEF WorkersInv, Workers!JoinedIsDone

-----------------------------------------------------------------------------
(* The request tags (RequestTag) *)

(* v is the tag that was given d tags before a, round the numbers up to      *)
(* MaxTag.                                                                  *)
Behind(v, a, d) == v \in 0 .. MaxTag /\ (v = a - d \/ v = a - d + MaxTag + 1)

NextTag(a) == IF a = MaxTag THEN 0 ELSE a + 1

(* The tags were given in order, and the last one is the counter.           *)
TagsInv ==
    /\ tag \in 0 .. MaxTag /\ recent \in Seq(Nat) /\ Len(recent) <= MaxTag + 1
    /\ tagger \in [{Tagger} -> {"idle", "incr"}]
    /\ tagger[Tagger] = "incr" => tag < MaxTag
    /\ \A k \in 1 .. Len(recent) : Behind(recent[k], tag, Len(recent) - k)

LEMMA TagsInit ==
    ASSUME Tags!Init
    PROVE  TagsInv
  BY SMTT(60), TagAssumption DEF Tags!Init, TagsInv

LEMMA Round ==
    ASSUME NEW a \in 0 .. MaxTag, NEW d \in Nat, d < MaxTag,
           NEW v, Behind(v, a, d)
    PROVE  Behind(v, NextTag(a), d + 1)
  BY SMTT(60), TagAssumption DEF Behind, NextTag

LEMMA GiveStep ==
    ASSUME TagsInv, NEW g \in 0 .. MaxTag, g = NextTag(tag), tag' = g, Tags!Give(g),
           tagger' \in [{Tagger} -> {"idle", "incr"}], tagger'[Tagger] = "idle"
    PROVE  TagsInv'
<1>1. recent \in Seq(Nat) /\ Len(recent) \in Nat
  BY SMTT(60) DEF TagsInv
<1>2. /\ Len(recent) \in Nat /\ MaxTag \in Nat /\ tag \in 0 .. MaxTag
      /\ Len(recent) <= MaxTag + 1
  BY <1>1, TagAssumption DEF TagsInv
<1>3. CASE Len(recent) = MaxTag + 1
  <2>1. recent' = Append(Tail(recent), g) /\ Tail(recent) \in Seq(Nat) /\ g \in Nat
    BY SMTT(60), <1>1, <1>2, <1>3 DEF Tags!Give
  <2>2. Len(recent') = MaxTag + 1 /\ recent'[MaxTag + 1] = g
    BY SMTT(60), <1>1, <1>2, <1>3, <2>1
  <2>3. \A k \in 1 .. MaxTag : recent'[k] = recent[k + 1]
    BY SMTT(60), <1>1, <1>2, <1>3, <2>1
  <2>4. ASSUME NEW k \in 1 .. Len(recent')
        PROVE  Behind(recent'[k], g, Len(recent') - k)
    <3>1. CASE k = MaxTag + 1
      <4>1. recent'[k] = g /\ Len(recent') - k = 0
        BY SMTT(60), <1>2, <1>3, <2>2, <3>1
      <4>. QED
        BY SMTT(60), <1>2, <4>1 DEF Behind
    <3>2. CASE k # MaxTag + 1
      <4>1. /\ k + 1 \in 1 .. Len(recent)
            /\ Len(recent) - (k + 1) \in Nat /\ Len(recent) - (k + 1) < MaxTag
            /\ Len(recent') - k = Len(recent) - (k + 1) + 1
        BY SMTT(60), <1>2, <1>3, <2>2, <3>2
      <4>2. recent'[k] = recent[k + 1]
        BY SMTT(60), <1>2, <1>3, <2>2, <2>3, <3>2
      <4>3. Behind(recent[k + 1], tag, Len(recent) - (k + 1))
        BY ZenonT(60), <4>1 DEF TagsInv
      <4>. QED
        BY ZenonT(60), <1>2, <4>1, <4>2, <4>3, Round
    <3>. QED
      BY <3>1, <3>2
  <2>5. recent' \in Seq(Nat)
    BY SMTT(60), <1>1, <2>1
  <2>. QED
    BY SMTT(60), <1>2, <2>2, <2>4, <2>5 DEF TagsInv
<1>4. CASE Len(recent) # MaxTag + 1
  <2>1. recent' = Append(recent, g) /\ g \in Nat
    BY SMTT(60), <1>2, <1>4 DEF Tags!Give
  <2>2. /\ Len(recent') = Len(recent) + 1 /\ recent'[Len(recent) + 1] = g
        /\ Len(recent') <= MaxTag + 1
    BY SMTT(60), <1>1, <1>2, <1>4, <2>1
  <2>3. \A k \in 1 .. Len(recent) : recent'[k] = recent[k]
    BY SMTT(60), <1>1, <2>1
  <2>4. ASSUME NEW k \in 1 .. Len(recent')
        PROVE  Behind(recent'[k], g, Len(recent') - k)
    <3>1. CASE k = Len(recent) + 1
      <4>1. recent'[k] = g /\ Len(recent') - k = 0
        BY SMTT(60), <1>2, <1>4, <2>2, <3>1
      <4>. QED
        BY SMTT(60), <1>2, <4>1 DEF Behind
    <3>2. CASE k # Len(recent) + 1
      <4>1. /\ k \in 1 .. Len(recent)
            /\ Len(recent) - k \in Nat /\ Len(recent) - k < MaxTag
            /\ Len(recent') - k = Len(recent) - k + 1
        BY SMTT(60), <1>2, <1>4, <2>2, <3>2
      <4>2. recent'[k] = recent[k]
        BY SMTT(60), <1>2, <1>4, <2>2, <2>3, <3>2
      <4>3. Behind(recent[k], tag, Len(recent) - k)
        BY ZenonT(60), <4>1 DEF TagsInv
      <4>. QED
        BY ZenonT(60), <1>2, <4>1, <4>2, <4>3, Round
    <3>. QED
      BY <3>1, <3>2
  <2>5. recent' \in Seq(Nat)
    BY SMTT(60), <1>1, <2>1
  <2>. QED
    BY <1>2, <2>2, <2>4, <2>5 DEF TagsInv
<1>. QED
  BY <1>3, <1>4

LEMMA TagsNext ==
    ASSUME TagsInv, [Tags!Next]_tagsVars
    PROVE  TagsInv'
<1>1. CASE UNCHANGED tagsVars
  BY <1>1 DEF TagsInv, tagsVars
<1>2. CASE Tags!Cas(Tagger)
  <2>1. CASE tag = MaxTag
    BY SMTT(60), <1>2, <2>1, GiveStep, TagAssumption DEF Tags!Cas, TagsInv, NextTag
  <2>2. CASE tag # MaxTag
    BY SMTT(60), <1>2, <2>2, TagAssumption DEF Tags!Cas, TagsInv
  <2>. QED
    BY <2>1, <2>2
<1>3. CASE Tags!Incr(Tagger)
  <2>1. tag \in Nat /\ tag + 1 \in 0 .. MaxTag /\ tag + 1 < Width /\ Width \in Nat
    BY SMTT(60), <1>3, TagAssumption DEF Tags!Incr, TagsInv
  <2>2. (tag + 1) % Width = tag + 1
    BY SMTT(60), <2>1
  <2>3. /\ tag' = tag + 1 /\ Tags!Give(tag + 1)
        /\ tagger' = [tagger EXCEPT ![Tagger] = "idle"]
    BY <1>3, <2>2 DEF Tags!Incr
  <2>4. tag + 1 = NextTag(tag)
    BY SMTT(60), <2>1 DEF NextTag
  <2>. QED
    BY <2>1, <2>3, <2>4, GiveStep DEF TagsInv
<1>. QED
  BY <1>1, <1>2, <1>3 DEF Tags!Next

(* Two tags that are equal were given at the same time. *)
LEMMA SameTag ==
    ASSUME NEW a \in 0 .. MaxTag, NEW d \in 0 .. MaxTag, NEW e \in 0 .. MaxTag,
           NEW v, Behind(v, a, d), Behind(v, a, e)
    PROVE  d = e
  BY SMTT(60), TagAssumption DEF Behind

LEMMA TagsHold ==
    ASSUME TagsInv
    PROVE  Tags!TagsTellApart
<1>1. /\ DOMAIN recent = 1 .. Len(recent) /\ Len(recent) \in Nat
      /\ Len(recent) <= MaxTag + 1 /\ tag \in 0 .. MaxTag /\ MaxTag \in Nat
  BY SMTT(60), TagAssumption DEF TagsInv
<1>2. \A k \in DOMAIN recent :
        k \in Int /\ Len(recent) - k \in 0 .. MaxTag
  BY SMTT(60), <1>1
<1>3. \A k \in DOMAIN recent : Behind(recent[k], tag, Len(recent) - k)
  BY <1>1 DEF TagsInv
<1>4. \A k \in DOMAIN recent : recent[k] <= MaxTag
  BY SMTT(60), <1>1, <1>3 DEF Behind
<1>5. ASSUME NEW j \in DOMAIN recent, NEW k \in DOMAIN recent, recent[j] = recent[k]
      PROVE  j = k
  <2>1. Len(recent) - j = Len(recent) - k
    BY ZenonT(60), <1>1, <1>2, <1>3, <1>5, SameTag
  <2>. QED
    BY SMTT(60), <1>1, <1>2, <2>1
<1>. QED
  BY <1>4, <1>5 DEF Tags!TagsTellApart

-----------------------------------------------------------------------------
(* The pool of bulk operation identifiers (OpPool) *)

PoolPlaces == {"idle", "pop", "lock", "wait", "create", "have"}
GetterType == [Three -> [at : PoolPlaces, i : Nat, gets : Nat]]

Creating == {t \in Three : getter[t].at = "create"}

(* extending is set exactly while one thread creates identifiers, and a     *)
(* thread waits only then.                                                  *)
PoolInv ==
    /\ getter \in GetterType
    /\ extending \in BOOLEAN
    /\ extending => \E t \in Three : Creating = {t}
    /\ ~extending => Creating = {}
    /\ (\E t \in Three : getter[t].at = "wait") => extending

(* A step of a thread that neither begins nor ends an extension, nor waits. *)
LEMMA PoolElsewhere ==
    ASSUME PoolInv, getter' \in GetterType, extending' = extending,
           \A s \in Three :
                /\ getter'[s].at = "create" <=> getter[s].at = "create"
                /\ getter'[s].at = "wait" => getter[s].at = "wait"
    PROVE  PoolInv'
<1>1. Creating' = Creating
  BY DEF Creating
<1>. QED
  BY <1>1 DEF PoolInv

LEMMA PoolOutsideStep ==
    ASSUME PoolInv, NEW t \in Three, Pool!Get(t) \/ Pool!Pop(t) \/ Pool!Create(t) \/ Pool!Put(t)
    PROVE  PoolInv'
<1>1. extending' = extending
  BY DEF Pool!Get, Pool!Pop, Pool!Create, Pool!Put
<1>2. CASE Pool!Get(t)
  <2>1. getter[t].gets + 1 \in Nat
    BY SMTT(60) DEF PoolInv, GetterType
  <2>2. PICK n \in Nat : getter' = [getter EXCEPT ![t].at = "pop", ![t].gets = n]
    BY ZenonT(60), <1>2, <2>1 DEF Pool!Get
  <2>3. getter' \in GetterType
    BY ZenonT(60), <2>2 DEF PoolInv, GetterType, PoolPlaces
  <2>. QED
    BY <1>1, <1>2, <2>2, <2>3, PoolElsewhere DEF PoolInv, GetterType, Pool!Get
<1>3. CASE Pool!Create(t)
  <2>1. getter[t].i + 1 \in Nat
    BY SMTT(60) DEF PoolInv, GetterType
  <2>2. PICK n \in Nat : getter' = [getter EXCEPT ![t].i = n]
    BY ZenonT(60), <1>3, <2>1 DEF Pool!Create
  <2>3. getter' \in GetterType
    BY <2>2 DEF PoolInv, GetterType, PoolPlaces
  <2>. QED
    BY <1>1, <1>3, <2>2, <2>3, PoolElsewhere DEF PoolInv, GetterType
<1>4. ASSUME NEW pc \in {"have", "lock", "idle"}, Pool!Goto(t, pc),
             getter[t].at # "create"
      PROVE  PoolInv'
  <2>1. getter' \in GetterType
    BY <1>4 DEF PoolInv, GetterType, PoolPlaces, Pool!Goto
  <2>. QED
    BY <1>1, <1>4, <2>1, PoolElsewhere DEF PoolInv, GetterType, Pool!Goto
<1>. QED
  BY <1>2, <1>3, <1>4 DEF Pool!Pop, Pool!Put

(* The extension begins, or the thread waits for the one that extends. *)
LEMMA PoolLockStep ==
    ASSUME PoolInv, NEW t \in Three, Pool!Lock(t)
    PROVE  PoolInv'
<1>1. CASE extending
  <2>1. getter' \in GetterType
    BY <1>1 DEF PoolInv, GetterType, PoolPlaces, Pool!Lock, Pool!Goto
  <2>2. \A s \in Three :
          getter'[s].at = IF s = t THEN "wait" ELSE getter[s].at
    BY <1>1 DEF PoolInv, GetterType, Pool!Lock, Pool!Goto
  <2>3. Creating' = Creating
    BY <2>2 DEF Creating, Pool!Lock
  <2>. QED
    BY <1>1, <2>1, <2>3 DEF PoolInv, Pool!Lock
<1>2. CASE ~extending
  <2>1. PICK n \in Nat : getter' = [getter EXCEPT ![t].at = "create", ![t].i = n]
    BY <1>2 DEF Pool!Lock
  <2>2. getter' \in GetterType
    BY ZenonT(60), <2>1 DEF PoolInv, GetterType, PoolPlaces
  <2>3. \A s \in Three :
          getter'[s].at = IF s = t THEN "create" ELSE getter[s].at
    BY <2>1 DEF PoolInv, GetterType
  <2>4. Creating' = {t}
    BY <1>2, <2>3 DEF PoolInv, Creating
  <2>. QED
    BY <1>2, <2>2, <2>4 DEF PoolInv, Pool!Lock
<1>. QED
  BY <1>1, <1>2 DEF PoolInv

(* The extension ends, with or without an error, and wakes everybody who    *)
(* waits.                                                                   *)
LEMMA PoolWakeStep ==
    ASSUME PoolInv, NEW t \in Three, getter[t].at = "create",
           NEW pc \in {"idle", "pop"}, Pool!Wake(t, pc)
    PROVE  PoolInv'
<1>1. \A s \in Three : getter'[s] =
        IF s = t THEN [getter[s] EXCEPT !.at = pc, !.i = 0]
        ELSE IF getter[s].at = "wait" THEN [getter[s] EXCEPT !.at = "pop"]
        ELSE getter[s]
  BY ZenonT(60) DEF Pool!Wake
<1>2. getter' \in GetterType
  <2>1. ASSUME NEW s \in Three
        PROVE  getter'[s] \in [at : PoolPlaces, i : Nat, gets : Nat]
    <3>1. getter[s] \in [at : PoolPlaces, i : Nat, gets : Nat]
      BY DEF PoolInv, GetterType
    <3>2. PICK n \in Nat : n = 0
      OBVIOUS
    <3>3. CASE s = t
      <4>1. getter'[s] = [getter[s] EXCEPT !.at = pc, !.i = n]
        BY ZenonT(60), <1>1, <3>2, <3>3
      <4>. QED
        BY ZenonT(60), <3>1, <4>1 DEF PoolPlaces
    <3>4. CASE s # t
      BY ZenonT(60), <1>1, <3>1, <3>4 DEF PoolPlaces
    <3>. QED
      BY <3>3, <3>4
  <2>. QED
    BY ZenonT(60), <2>1 DEF Pool!Wake, GetterType
<1>3. Creating = {t}
  BY DEF PoolInv, Creating
<1>4. \A s \in Three : getter'[s].at # "create" /\ getter'[s].at # "wait"
  <2>1. ASSUME NEW s \in Three
        PROVE  getter'[s].at # "create" /\ getter'[s].at # "wait"
    <3>1. getter[s] \in [at : PoolPlaces, i : Nat, gets : Nat]
      BY DEF PoolInv, GetterType
    <3>2. s # t => getter[s].at # "create"
      BY <1>3 DEF Creating
    <3>3. CASE s = t
      <4>1. getter'[s].at = pc
        BY ZenonT(60), <1>1, <3>1, <3>3
      <4>. QED
        BY ZenonT(60), <4>1
    <3>4. CASE s # t /\ getter[s].at = "wait"
      <4>1. getter'[s].at = "pop"
        BY ZenonT(60), <1>1, <3>1, <3>4
      <4>. QED
        BY <4>1
    <3>5. CASE s # t /\ getter[s].at # "wait"
      BY ZenonT(60), <1>1, <3>2, <3>5
    <3>. QED
      BY <3>3, <3>4, <3>5
  <2>. QED
    BY ZenonT(60), <2>1
<1>5. Creating' = {}
  BY <1>4 DEF Creating
<1>. QED
  BY ZenonT(60), <1>2, <1>4, <1>5 DEF PoolInv, Pool!Wake

LEMMA PoolInit ==
    ASSUME Pool!Init
    PROVE  PoolInv
<1>1. getter \in GetterType /\ \A t \in Three : getter[t].at = "idle"
  BY DEF Pool!Init, GetterType, PoolPlaces
<1>2. Creating = {} /\ extending = FALSE
  BY <1>1 DEF Pool!Init, Creating
<1>. QED
  BY ZenonT(60), <1>1, <1>2 DEF PoolInv

LEMMA PoolNext ==
    ASSUME PoolInv, [Pool!Next]_poolVars
    PROVE  PoolInv'
<1>1. CASE UNCHANGED poolVars
  BY <1>1, PoolElsewhere DEF PoolInv, poolVars
<1>2. ASSUME NEW t \in Three, Pool!Get(t) \/ Pool!Step(t) \/ Pool!Put(t)
      PROVE  PoolInv'
  <2>1. CASE Pool!CreateFails(t) \/ Pool!Extended(t)
    BY <2>1, PoolWakeStep DEF Pool!CreateFails, Pool!Extended
  <2>. QED
    BY <1>2, <2>1, PoolOutsideStep, PoolLockStep DEF Pool!Step
<1>. QED
  BY <1>1, <1>2 DEF Pool!Next

LEMMA PoolHolds ==
    ASSUME SetFacts, PoolInv
    PROVE  Pool!OneExtends
  BY ZenonT(60), PoolCard
     DEF SetFacts, SingletonFact, EmptyFact, PoolInv, Pool!OneExtends, Creating

-----------------------------------------------------------------------------
(* Waiting for requests (Request) *)

ReqPlaces == {"trigger", "test", "lock", "wait", "progress", "unlock", "next",
           "returned"}
WaiterType ==
    [Three -> [at : ReqPlaces, completed : BOOLEAN, late : BOOLEAN]]

Making == {t \in Three : waiter[t].at \in {"progress", "unlock"}}

(* progressing is set exactly while one thread makes progress, and a thread *)
(* waits only then.                                                         *)
ReqInv ==
    /\ waiter \in WaiterType
    /\ progressing \in BOOLEAN
    /\ progressing => \E t \in Three : Making = {t}
    /\ ~progressing => Making = {}
    /\ (\E t \in Three : waiter[t].at = "wait") => progressing

(* A step of a thread that neither takes nor leaves its turn, nor waits.    *)
LEMMA ReqElsewhere ==
    ASSUME ReqInv, waiter' \in WaiterType, progressing' = progressing,
           \A s \in Three :
                /\ waiter'[s].at \in {"progress", "unlock"} <=>
                        waiter[s].at \in {"progress", "unlock"}
                /\ waiter'[s].at = "wait" => waiter[s].at = "wait"
    PROVE  ReqInv'
<1>1. Making' = Making
  BY DEF Making
<1>. QED
  BY <1>1 DEF ReqInv

LEMMA ReqOutsideStep ==
    ASSUME ReqInv, NEW t \in Three,
           \/ Req!Arrive(t) \/ Req!Deadline(t) \/ Req!Trigger(t) \/ Req!TriggerNone(t)
           \/ Req!Test(t) \/ Req!Progress(t) \/ Req!ProgressTimeout(t) \/ Req!Continue(t)
           \/ Req!WaitTimeout(t)
    PROVE  ReqInv'
<1>1. progressing' = progressing
  <2>1. CASE Req!Arrive(t) \/ Req!Deadline(t) \/ Req!Trigger(t) \/ Req!TriggerNone(t)
    BY <2>1 DEF Req!Arrive, Req!Deadline, Req!Trigger, Req!TriggerNone
  <2>2. CASE Req!Test(t) \/ Req!Progress(t) \/ Req!ProgressTimeout(t)
    BY <2>2 DEF Req!Test, Req!Progress, Req!ProgressTimeout
  <2>3. CASE Req!Continue(t) \/ Req!WaitTimeout(t)
    BY <2>3 DEF Req!Continue, Req!WaitTimeout
  <2>. QED
    BY <2>1, <2>2, <2>3
<1>2. CASE UNCHANGED waiter
  BY <1>1, <1>2, ReqElsewhere DEF ReqInv
<1>3. CASE Req!Deadline(t)
  <2>1. waiter' \in WaiterType
    BY ZenonT(60), <1>3 DEF ReqInv, WaiterType, Req!Deadline
  <2>. QED
    BY <1>1, <1>3, <2>1, ReqElsewhere DEF ReqInv, WaiterType, Req!Deadline
<1>4. CASE Req!Test(t)
  <2>1. PICK c \in BOOLEAN, pc \in {"returned", "lock"} :
          waiter' = [waiter EXCEPT ![t].completed = c, ![t].at = pc]
    BY ZenonT(60), <1>4 DEF Req!Test
  <2>2. waiter' \in WaiterType
    BY ZenonT(60), <2>1 DEF ReqInv, WaiterType, ReqPlaces
  <2>3. waiter[t].at = "test"
    BY <1>4 DEF Req!Test
  <2>. QED
    BY <1>1, <2>1, <2>2, <2>3, ReqElsewhere DEF ReqInv, WaiterType
<1>5. ASSUME NEW pc \in ReqPlaces, Req!Goto(t, pc), pc # "wait",
             waiter[t].at \in {"progress", "unlock"} <=>
                pc \in {"progress", "unlock"}
      PROVE  ReqInv'
  <2>1. waiter' \in WaiterType
    BY <1>5 DEF ReqInv, WaiterType, Req!Goto
  <2>. QED
    BY <1>1, <1>5, <2>1, ReqElsewhere DEF ReqInv, WaiterType, Req!Goto
<1>. QED
  BY <1>2, <1>3, <1>4, <1>5 DEF Req!Arrive, Req!Trigger, Req!TriggerNone, Req!Progress,
     Req!ProgressTimeout, Req!Continue, Req!WaitTimeout, ReqPlaces

(* The turn is taken, or the thread waits for the one that has it. *)
LEMMA ReqLockStep ==
    ASSUME ReqInv, NEW t \in Three, Req!Lock(t)
    PROVE  ReqInv'
<1>1. waiter' \in WaiterType
  BY DEF ReqInv, WaiterType, ReqPlaces, Req!Lock, Req!Goto
<1>2. CASE progressing
  <2>1. \A s \in Three :
          waiter'[s].at = IF s = t THEN "wait" ELSE waiter[s].at
    BY <1>2 DEF ReqInv, WaiterType, Req!Lock, Req!Goto
  <2>2. Making' = Making
    BY <2>1 DEF Making, Req!Lock
  <2>. QED
    BY <1>1, <1>2, <2>2 DEF ReqInv, Req!Lock
<1>3. CASE ~progressing
  <2>1. \A s \in Three :
          waiter'[s].at = IF s = t THEN "progress" ELSE waiter[s].at
    BY <1>3 DEF ReqInv, WaiterType, Req!Lock, Req!Goto
  <2>2. Making' = {t}
    BY <1>3, <2>1 DEF ReqInv, Making
  <2>. QED
    BY <1>1, <2>2 DEF ReqInv, Req!Lock
<1>. QED
  BY <1>2, <1>3 DEF ReqInv

(* The turn is left, and everybody who waits is woken. *)
LEMMA ReqUnlockStep ==
    ASSUME ReqInv, NEW t \in Three, Req!Unlock(t)
    PROVE  ReqInv'
<1>1. waiter' \in WaiterType
  BY DEF ReqInv, WaiterType, ReqPlaces, Req!Unlock
<1>2. Making = {t}
  BY DEF ReqInv, Making, Req!Unlock
<1>3. \A s \in Three :
        waiter'[s].at = IF s = t \/ waiter[s].at = "wait" THEN "next"
                        ELSE waiter[s].at
  BY DEF ReqInv, WaiterType, Req!Unlock
<1>4. Making' = {}
  BY <1>2, <1>3 DEF Making
<1>5. \A s \in Three : waiter'[s].at # "wait"
  BY <1>3
<1>. QED
  BY ZenonT(60), <1>1, <1>4, <1>5 DEF ReqInv, Req!Unlock

LEMMA ReqInit ==
    ASSUME Req!Init
    PROVE  ReqInv
<1>1. waiter \in WaiterType /\ \A t \in Three : waiter[t].at = "trigger"
  BY DEF Req!Init, WaiterType, ReqPlaces
<1>2. Making = {} /\ progressing = FALSE
  BY <1>1 DEF Req!Init, Making
<1>. QED
  BY ZenonT(60), <1>1, <1>2 DEF ReqInv

LEMMA ReqNext ==
    ASSUME ReqInv, [Req!Next]_reqVars
    PROVE  ReqInv'
<1>1. CASE UNCHANGED reqVars
  BY <1>1, ReqElsewhere DEF ReqInv, reqVars
<1>2. ASSUME NEW t \in Three, Req!Arrive(t) \/ Req!Deadline(t) \/ Req!Step(t)
      PROVE  ReqInv'
  BY <1>2, ReqOutsideStep, ReqLockStep, ReqUnlockStep DEF Req!Step
<1>. QED
  BY <1>1, <1>2 DEF Req!Next

LEMMA ReqHolds ==
    ASSUME SetFacts, ReqInv
    PROVE  Req!WaitsForProgress
  BY ZenonT(60), ReqCard
     DEF SetFacts, SingletonFact, EmptyFact, ReqInv, Req!WaitsForProgress, Making

-----------------------------------------------------------------------------
(* NA_Progress (NaProgress) *)

NaPlaces == {"out", "get", "cas", "in", "leave", "mutex", "wait", "signal"}
CallType == [Three -> [at : NaPlaces, time : BOOLEAN, old : Nat, n : Nat]]

NaIn == {t \in Three : call[t].at = "in"}
NaInside == {t \in Three : call[t].at \notin {"out", "signal"}}

(* The lock is had by the one thread in the plugin, the counter is exact,   *)
(* and a thread that waits is not left alone with a free lock.              *)
NaTypes ==
    call \in CallType /\ num \in Nat /\ locked \in BOOLEAN /\ gave_up \in BOOLEAN
NaLock ==
    /\ locked => \E t \in Three : NaIn = {t}
    /\ ~locked => NaIn = {}
NaInv == NaTypes /\ NaLock /\ num = Cardinality(NaInside) /\ Na!WokenOrLocked

LEMMA NaCounterType ==
    ASSUME SetFacts
    PROVE  IsFiniteSet(NaInside) /\ Cardinality(NaInside) \in Nat
  BY ThreadsAssumption DEF SetFacts, SubsetFact, CountFact, NaInside

(* A step of a thread that neither enters nor leaves, nor takes or releases *)
(* the lock, and after which nobody is left alone.                          *)
LEMMA NaElsewhere ==
    ASSUME NaInv, NaTypes', num' = num, locked' = locked, Na!WokenOrLocked',
           \A s \in Three :
                /\ call'[s].at = "in" <=> call[s].at = "in"
                /\ call'[s].at \in {"out", "signal"} <=>
                        call[s].at \in {"out", "signal"}
    PROVE  NaInv'
<1>1. NaIn' = NaIn /\ NaInside' = NaInside
  BY DEF NaIn, NaInside
<1>. QED
  BY <1>1 DEF NaInv, NaLock

LEMMA NaEnterStep ==
    ASSUME SetFacts, NaInv, NEW t \in Three, Na!Enter(t)
    PROVE  NaInv'
<1>1. PICK time \in BOOLEAN, k \in Nat :
        call' = [call EXCEPT ![t].at = "get", ![t].time = time, ![t].n = k]
  <2>1. call[t].n + 1 \in Nat
    BY SMTT(60) DEF NaInv, NaTypes, CallType
  <2>. QED
    BY ZenonT(60), <2>1 DEF Na!Enter
<1>2. /\ call[t].at = "out" /\ num' = num + 1
      /\ locked' = locked /\ gave_up' = gave_up
  BY DEF Na!Enter
<1>3. NaTypes'
  <2>1. call' \in CallType
    BY ZenonT(60), <1>1 DEF NaInv, NaTypes, CallType, NaPlaces
  <2>. QED
    BY SMTT(60), <1>2, <2>1 DEF NaInv, NaTypes
<1>4. \A s \in Three : call'[s].at = IF s = t THEN "get" ELSE call[s].at
  BY <1>1 DEF NaInv, NaTypes, CallType
<1>5. NaInside' = NaInside \cup {t} /\ t \notin NaInside /\ NaIn' = NaIn
  BY <1>2, <1>4 DEF NaInside, NaIn
<1>6. num' = Cardinality(NaInside')
  BY ZenonT(60), <1>2, <1>5, NaCounterType DEF SetFacts, AddFact, NaInv
<1>7. Na!WokenOrLocked'
  BY <1>4 DEF Na!WokenOrLocked, Na!Coming
<1>. QED
  BY <1>2, <1>3, <1>5, <1>6, <1>7 DEF NaInv, NaLock

LEMMA NaGetStep ==
    ASSUME NaInv, NEW t \in Three, Na!Get(t)
    PROVE  NaInv'
<1>1. NaTypes'
  BY ZenonT(60) DEF NaInv, NaTypes, CallType, NaPlaces, Na!Get
<1>2. \A s \in Three : call'[s].at = IF s = t THEN "cas" ELSE call[s].at
  BY DEF NaInv, NaTypes, CallType, Na!Get
<1>3. Na!WokenOrLocked'
  BY <1>2 DEF Na!WokenOrLocked, Na!Coming
<1>4. call[t].at = "get" /\ num' = num /\ locked' = locked
  BY DEF Na!Get
<1>. QED
  BY <1>1, <1>2, <1>3, <1>4, NaElsewhere

LEMMA NaCasStep ==
    ASSUME NaInv, NEW t \in Three, Na!Cas(t)
    PROVE  NaInv'
<1>1. NaTypes'
  BY ZenonT(60) DEF NaInv, NaTypes, CallType, NaPlaces, Na!Cas
<1>2. \A s \in Three : call'[s].at = IF s = t THEN "in" ELSE call[s].at
  BY DEF NaInv, NaTypes, CallType, Na!Cas
<1>3. call[t].at = "cas" /\ ~locked /\ locked' /\ num' = num
  BY DEF Na!Cas
<1>4. NaIn' = {t}
  BY <1>2, <1>3 DEF NaInv, NaLock, NaIn
<1>5. NaInside' = NaInside
  BY <1>2, <1>3 DEF NaInside
<1>. QED
  BY <1>1, <1>3, <1>4, <1>5 DEF NaInv, NaLock, Na!WokenOrLocked

LEMMA NaCasFailsStep ==
    ASSUME NaInv, NEW t \in Three, Na!CasFails(t)
    PROVE  NaInv'
<1>1. PICK pc \in {"mutex", "leave"} :
        /\ call' = [call EXCEPT ![t].old = 0, ![t].at = pc]
        /\ pc = "leave" => locked \/ gave_up'
        /\ gave_up => gave_up'
        /\ gave_up' \in BOOLEAN
  BY DEF NaInv, NaTypes, CallType, Na!CasFails
<1>2. call[t].at = "cas" /\ num' = num /\ locked' = locked
  BY DEF Na!CasFails
<1>3. NaTypes'
  BY <1>1, <1>2 DEF NaInv, NaTypes, CallType, NaPlaces
<1>4. \A s \in Three : call'[s].at = IF s = t THEN pc ELSE call[s].at
  BY <1>1 DEF NaInv, NaTypes, CallType
<1>5. Na!WokenOrLocked'
  BY ZenonT(60), <1>1, <1>2, <1>4 DEF Na!WokenOrLocked, Na!Coming
<1>. QED
  BY <1>2, <1>3, <1>4, <1>5, NaElsewhere

(* A thread that does not have the lock leaves. *)
LEMMA NaLeaveStep ==
    ASSUME SetFacts, NaInv, NEW t \in Three, Na!Leave(t) \/ Na!WaitTimeout(t)
    PROVE  NaInv'
<1>1. /\ call' = [call EXCEPT ![t].at = "out"] /\ num' = num - 1
      /\ locked' = locked /\ gave_up' = gave_up
      /\ call[t].at \in {"leave", "wait"}
  BY DEF Na!Leave, Na!WaitTimeout, Na!Goto
<1>2. \A s \in Three : call'[s].at = IF s = t THEN "out" ELSE call[s].at
  BY <1>1 DEF NaInv, NaTypes, CallType
<1>3. NaInside' = NaInside \ {t} /\ t \in NaInside /\ NaIn' = NaIn
  BY SMTT(60), <1>1, <1>2 DEF NaInside, NaIn
<1>4. num' = Cardinality(NaInside') /\ num' \in Nat
  <2>1. Cardinality(NaInside') = Cardinality(NaInside) - 1
    BY ZenonT(60), <1>3, NaCounterType DEF SetFacts, RemoveFact
  <2>2. IsFiniteSet(NaInside')
    BY <1>3, NaCounterType DEF SetFacts, SubsetFact
  <2>. QED
    BY <1>1, <2>1, <2>2 DEF SetFacts, CountFact, NaInv
<1>5. NaTypes'
  BY <1>1, <1>4 DEF NaInv, NaTypes, CallType, NaPlaces
<1>6. Na!WokenOrLocked'
  <2>1. CASE Na!Waiting'
    <3>1. locked \/ Na!Coming \/ gave_up
      BY <1>2, <2>1 DEF NaInv, Na!WokenOrLocked, Na!Waiting
    <3>. QED
      BY <1>1, <1>2, <3>1 DEF Na!WokenOrLocked, Na!Coming
  <2>. QED
    BY <2>1 DEF Na!WokenOrLocked
<1>. QED
  BY <1>1, <1>3, <1>4, <1>5, <1>6 DEF NaInv, NaLock

LEMMA NaWaitStep ==
    ASSUME NaInv, NEW t \in Three, Na!Wait(t)
    PROVE  NaInv'
<1>1. PICK pc \in {"wait", "get"}, time \in BOOLEAN :
        /\ call' = [call EXCEPT ![t].at = pc, ![t].time = time]
        /\ pc = "wait" => locked
  <2>1. CASE locked
    <3>1. call' = [call EXCEPT ![t].at = "wait", ![t].time = call[t].time]
      BY <2>1 DEF Na!Wait, Na!Goto, NaInv, NaTypes, CallType
    <3>2. call[t].time \in BOOLEAN
      BY DEF NaInv, NaTypes, CallType
    <3>. QED
      BY ZenonT(60), <2>1, <3>1, <3>2
  <2>2. CASE ~locked
    BY <2>2 DEF Na!Wait
  <2>. QED
    BY <2>1, <2>2
<1>2. /\ call[t].at = "mutex" /\ num' = num
      /\ locked' = locked /\ gave_up' = gave_up
  BY DEF Na!Wait
<1>3. NaTypes'
  <2>1. call' \in CallType
    BY ZenonT(60), <1>1 DEF NaInv, NaTypes, CallType, NaPlaces
  <2>. QED
    BY <1>2, <2>1 DEF NaInv, NaTypes
<1>4. \A s \in Three : call'[s].at = IF s = t THEN pc ELSE call[s].at
  BY <1>1 DEF NaInv, NaTypes, CallType
<1>5. Na!WokenOrLocked'
  BY ZenonT(60), <1>1, <1>2, <1>4 DEF Na!WokenOrLocked, Na!Coming
<1>. QED
  BY <1>2, <1>3, <1>4, <1>5, NaElsewhere

(* The lock is released. If a thread waits, the counter shows it. *)
LEMMA NaUnlockStep ==
    ASSUME SetFacts, NaInv, NEW t \in Three, Na!Unlock(t)
    PROVE  NaInv'
<1>1. PICK pc \in {"signal", "out"} :
        /\ call' = [call EXCEPT ![t].at = pc]
        /\ num > 1 => pc = "signal"
  BY ZenonT(60) DEF Na!Unlock, Na!Goto
<1>2. /\ call[t].at = "in" /\ num' = num - 1 /\ locked' = FALSE
      /\ gave_up' = gave_up
  BY DEF Na!Unlock
<1>3. \A s \in Three : call'[s].at = IF s = t THEN pc ELSE call[s].at
  BY <1>1 DEF NaInv, NaTypes, CallType
<1>4. NaInside' = NaInside \ {t} /\ t \in NaInside
  BY <1>2, <1>3 DEF NaInside
<1>5. /\ num' = Cardinality(NaInside') /\ num' \in Nat
      /\ IsFiniteSet(NaInside')
  <2>1. Cardinality(NaInside') = Cardinality(NaInside) - 1
    BY ZenonT(60), <1>4, NaCounterType DEF SetFacts, RemoveFact
  <2>2. IsFiniteSet(NaInside')
    BY <1>4, NaCounterType DEF SetFacts, SubsetFact
  <2>. QED
    BY <1>2, <2>1, <2>2 DEF SetFacts, CountFact, NaInv
<1>6. NaTypes'
  <2>1. call' \in CallType
    BY <1>1 DEF NaInv, NaTypes, CallType, NaPlaces
  <2>. QED
    BY ZenonT(60), <1>2, <1>5, <2>1 DEF NaInv, NaTypes
<1>7. NaIn' = {}
  <2>1. NaIn = {t}
    BY <1>2 DEF NaInv, NaLock, NaIn
  <2>. QED
    BY <1>3, <2>1 DEF NaIn
<1>8. Na!WokenOrLocked'
  <2>1. ASSUME NEW s \in Three, call'[s].at = "wait"
        PROVE  pc = "signal"
    <3>1. s \in NaInside'
      BY <2>1 DEF NaInside
    <3>2. Cardinality(NaInside') # 0
      BY <1>5, <3>1 DEF SetFacts, EmptyFact
    <3>3. num > 1
      BY SMTT(60), <1>2, <1>5, <3>2 DEF NaInv, NaTypes
    <3>. QED
      BY <1>1, <3>3
  <2>2. Na!Waiting' => pc = "signal"
    BY <2>1 DEF Na!Waiting
  <2>. QED
    BY <1>3, <2>2 DEF Na!WokenOrLocked, Na!Coming
<1>. QED
  BY <1>2, <1>5, <1>6, <1>7, <1>8 DEF NaInv, NaLock

(* Another thread is woken, if one waits. *)
LEMMA NaSignalStep ==
    ASSUME NaInv, NEW t \in Three, Na!Signal(t)
    PROVE  NaInv'
<1>1. /\ call[t].at = "signal" /\ num' = num
      /\ locked' = locked /\ gave_up' = gave_up
  BY DEF Na!Signal
<1>2. ASSUME NEW w \in Three, NEW time \in BOOLEAN, call[w].at = "wait",
             call' = [call EXCEPT ![t].at = "out", ![w].at = "get",
                                  ![w].time = time]
      PROVE  NaInv'
  <2>1. call' \in CallType
    <3>. DEFINE mid == [call EXCEPT ![t].at = "out"]
    <3>1. mid \in CallType
      BY DEF NaInv, NaTypes, CallType, NaPlaces
    <3>2. call' = [mid EXCEPT ![w].at = "get", ![w].time = time]
      BY <1>2
    <3>. HIDE DEF mid
    <3>. QED
      BY ZenonT(60), <3>1, <3>2 DEF CallType, NaPlaces
  <2>2. \A s \in Three : call'[s].at =
          IF s = w THEN "get" ELSE IF s = t THEN "out" ELSE call[s].at
    BY <1>1, <1>2 DEF NaInv, NaTypes, CallType
  <2>3. Na!WokenOrLocked'
    BY <2>2 DEF Na!WokenOrLocked, Na!Coming
  <2>4. NaTypes'
    BY <1>1, <2>1 DEF NaInv, NaTypes
  <2>5. \A s \in Three :
          /\ call'[s].at = "in" <=> call[s].at = "in"
          /\ call'[s].at \in {"out", "signal"} <=>
                  call[s].at \in {"out", "signal"}
    <3>1. TAKE s \in Three
    <3>2. call[t].at = "signal" /\ call[w].at = "wait"
      BY <1>1, <1>2
    <3>3. CASE s = w
      BY <2>2, <3>2, <3>3
    <3>4. CASE s = t
      BY <2>2, <3>2, <3>4
    <3>5. CASE s # w /\ s # t
      BY <2>2, <3>5
    <3>. QED
      BY <3>3, <3>4, <3>5
  <2>. QED
    BY <1>1, <2>3, <2>4, <2>5, NaElsewhere
<1>3. ASSUME \A s \in Three : call[s].at # "wait",
             call' = [call EXCEPT ![t].at = "out"]
      PROVE  NaInv'
  <2>1. call' \in CallType
    BY <1>3 DEF NaInv, NaTypes, CallType, NaPlaces
  <2>2. \A s \in Three : call'[s].at = IF s = t THEN "out" ELSE call[s].at
    BY <1>3 DEF NaInv, NaTypes, CallType
  <2>3. Na!WokenOrLocked'
    BY SMTT(60), <1>3, <2>2 DEF Na!WokenOrLocked, Na!Waiting
  <2>. QED
    BY <1>1, <2>1, <2>2, <2>3, NaElsewhere DEF NaInv, NaTypes
<1>. QED
  BY ZenonT(60), <1>2, <1>3 DEF Na!Signal, Na!Goto

LEMMA NaInit ==
    ASSUME SetFacts, Na!Init
    PROVE  NaInv
<1>1. call \in CallType /\ \A t \in Three : call[t].at = "out"
  BY DEF Na!Init, CallType, NaPlaces
<1>2. NaIn = {} /\ NaInside = {} /\ ~Na!Waiting
  BY <1>1 DEF NaIn, NaInside, Na!Waiting
<1>. QED
  BY ZenonT(60), <1>1, <1>2 DEF SetFacts, EmptyFact, Na!Init, NaInv, NaTypes, NaLock, Na!WokenOrLocked

LEMMA NaNext ==
    ASSUME SetFacts, NaInv, [Na!Next]_naVars
    PROVE  NaInv'
<1>1. CASE UNCHANGED naVars
  BY <1>1, NaElsewhere DEF NaInv, NaTypes, Na!WokenOrLocked, Na!Waiting, Na!Coming, naVars
<1>2. ASSUME NEW t \in Three, Na!Enter(t) \/ Na!Step(t) \/ Na!WaitTimeout(t)
      PROVE  NaInv'
  BY <1>2, NaEnterStep, NaGetStep, NaCasStep, NaCasFailsStep, NaLeaveStep, NaWaitStep,
     NaUnlockStep, NaSignalStep DEF Na!Step
<1>. QED
  BY <1>1, <1>2 DEF Na!Next

LEMMA NaHolds ==
    ASSUME SetFacts, NaInv
    PROVE  Na!OneInPlugin /\ Na!WokenOrLocked
  BY ZenonT(60), NaCard
     DEF SetFacts, EmptyFact, SingletonFact, NaInv, NaLock, Na!OneInPlugin,
         NaIn, NaInside

-----------------------------------------------------------------------------
(* The theorems *)

(* A step of the composition is a step of each component, or leaves it. *)
LEMMA Components ==
    ASSUME [SharingNext]_sharingVars
    PROVE  /\ [Pool!Next]_poolVars /\ [Mem!Next]_memVars /\ [Req!Next]_reqVars
           /\ [Na!Next]_naVars /\ [Workers!Next]_workersVars
           /\ [Tags!Next]_tagsVars
  BY ZenonT(60) DEF SharingNext, sharingVars

SharingInv ==
    /\ PoolInv /\ MemInv /\ ReqInv /\ NaInv /\ WorkersInv /\ TagsInv

INSTANCE FiniteSetTheorems

LEMMA SetFactsHold == SetFacts
<1>1. EmptyFact /\ SingletonFact
  BY FS_EmptySet, FS_Singleton DEF EmptyFact, SingletonFact
<1>2. CountFact /\ SubsetFact
  BY FS_CardinalityType, FS_Subset DEF CountFact, SubsetFact
<1>3. AddFact
  BY FS_AddElement DEF AddFact
<1>4. RemoveFact
  BY FS_RemoveElement DEF RemoveFact
<1>5. IntervalFact
  BY FS_Interval DEF IntervalFact
<1>. QED
  BY <1>1, <1>2, <1>3, <1>4, <1>5 DEF SetFacts

LEMMA Invariance == SharingSpec => []SharingInv
<1>1. SharingInit => SharingInv
  BY SetFactsHold, PoolInit, MemInit, ReqInit, NaInit, WorkersInit, TagsInit
     DEF SharingInit, SharingInv
<1>2. SharingInv /\ [SharingNext]_sharingVars => SharingInv'
  BY SetFactsHold, Components, PoolNext, MemNext, ReqNext, NaNext, WorkersNext,
     TagsNext DEF SharingInv
<1>. QED
  BY <1>1, <1>2, PTL DEF SharingSpec

(* For any threads and any bounds: one thread extends the pool of           *)
(* identifiers, makes progress for the requests of all or is in the plugin, *)
(* and whoever waits in hg_bulk_op_pool_get, hg_request_wait or NA_Progress *)
(* waits for that thread, which has yet to wake it; a task that was posted  *)
(* to the thread pool does not wait while all workers sleep.                *)
THEOREM WaitersAreWoken == SharingSpec => []WaitersHaveAWaker
<1>1. SharingInv => WaitersHaveAWaker
  BY SetFactsHold, PoolHolds, ReqHolds, NaHolds, WorkersHold
     DEF SharingInv, WaitersHaveAWaker
<1>. QED
  BY <1>1, Invariance, PTL

(* For any threads and any bounds: a chunk of registered memory is free or  *)
(* in the hands of one thread, with the registration of its own block;      *)
(* every task that hg_thread_pool_post accepted has run once when           *)
(* hg_thread_pool_destroy returns; and of MaxTag + 1 request tags in a row, *)
(* generated by one thread, no two are equal and all are in range.          *)
THEOREM EverythingGivenOnce == SharingSpec => []GivenOnce
<1>1. SharingInv => GivenOnce
  BY SetFactsHold, WorkersHold, TagsHold DEF SharingInv, GivenOnce, MemInv
<1>. QED
  BY <1>1, Invariance, PTL
=============================================================================
