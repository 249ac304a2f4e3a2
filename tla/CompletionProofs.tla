-------------------------- MODULE CompletionProofs --------------------------
(* Proofs about the completion queue, for any threads, any capacity of the  *)
(* atomic queue, any max_count and any number of completions.               *)
EXTENDS Completion, TLAPS, FiniteSetTheorems, SequenceTheorems

(* Leaves are for Zenon; those that need arithmetic, or that it does not    *)
(* find, cite the SMT solver.                                               *)
USE ZenonT(60)

-----------------------------------------------------------------------------
(* Sequences without repetition *)

LEMMA AppendEntry ==
    ASSUME NEW S, NEW s \in Seq(S), NEW e \in S
    PROVE  /\ Append(s, e) \in Seq(S) /\ Append(s, e) # <<>>
           /\ Len(Append(s, e)) = Len(s) + 1
           /\ Range(Append(s, e)) = Range(s) \cup {e}
           /\ IsInjective(s) /\ e \notin Range(s) => IsInjective(Append(s, e))
<1>1. /\ Append(s, e) \in Seq(S) /\ Len(s) \in Nat /\ DOMAIN s = 1..Len(s)
      /\ Len(Append(s, e)) = Len(s) + 1
      /\ DOMAIN Append(s, e) = 1..(Len(s) + 1)
      /\ Append(s, e)[Len(s) + 1] = e
      /\ \A i \in 1..Len(s) : Append(s, e)[i] = s[i]
  BY SMTT(60)
<1>2. Range(Append(s, e)) = Range(s) \cup {e}
  <2>1. \A x : x \in Range(Append(s, e)) => x \in Range(s) \cup {e}
    BY SMTT(60), <1>1 DEF Range
  <2>2. \A x \in Range(s) : x \in Range(Append(s, e))
    BY SMTT(60), <1>1 DEF Range
  <2>3. e \in Range(Append(s, e))
    BY SMTT(60), <1>1 DEF Range
  <2>. QED
    BY <2>1, <2>2, <2>3
<1>3. ASSUME IsInjective(s), e \notin Range(s)
      PROVE  IsInjective(Append(s, e))
  BY SMTT(60), <1>1, <1>3 DEF IsInjective, Range
<1>4. Append(s, e) # <<>>
  BY SMTT(60), <1>1
<1>. QED
  BY <1>1, <1>2, <1>3, <1>4

LEMMA TakeHead ==
    ASSUME NEW S, NEW s \in Seq(S), s # <<>>
    PROVE  /\ Head(s) \in S /\ Head(s) \in Range(s) /\ Tail(s) \in Seq(S)
           /\ Len(Tail(s)) = Len(s) - 1
           /\ Range(Tail(s)) \subseteq Range(s)
           /\ IsInjective(s) => /\ IsInjective(Tail(s))
                                /\ Range(Tail(s)) = Range(s) \ {Head(s)}
<1>1. /\ Head(s) \in S /\ Tail(s) \in Seq(S) /\ Len(s) \in Nat \ {0}
      /\ Len(Tail(s)) = Len(s) - 1 /\ Head(s) = s[1]
      /\ DOMAIN s = 1..Len(s) /\ DOMAIN Tail(s) = 1..(Len(s) - 1)
      /\ \A i \in 1..(Len(s) - 1) : Tail(s)[i] = s[i + 1]
  BY SMTT(60), HeadTailProperties, EmptySeq, LenProperties
<1>2. Head(s) \in Range(s)
  BY SMTT(60), <1>1 DEF Range
<1>3. Range(Tail(s)) \subseteq Range(s)
  BY SMTT(60), <1>1 DEF Range
<1>4. ASSUME IsInjective(s)
      PROVE  IsInjective(Tail(s)) /\ Range(Tail(s)) = Range(s) \ {Head(s)}
  <2>1. IsInjective(Tail(s))
    BY SMTT(60), <1>1, <1>4 DEF IsInjective
  <2>2. Head(s) \notin Range(Tail(s))
    BY SMTT(60), <1>1, <1>4 DEF IsInjective, Range
  <2>3. ASSUME NEW x \in Range(s), x # Head(s)
        PROVE  x \in Range(Tail(s))
    <3>1. PICK i \in 1..Len(s) : x = s[i]
      BY <1>1 DEF Range
    <3>2. i - 1 \in 1..(Len(s) - 1) /\ (i - 1) + 1 = i
      BY SMTT(60), <1>1, <2>3, <3>1
    <3>3. Tail(s)[i - 1] = x
      BY <1>1, <3>1, <3>2
    <3>. QED
      BY ZenonT(60), <1>1, <3>2, <3>3 DEF Range
  <2>. QED
    BY <1>3, <2>1, <2>2, <2>3
<1>. QED
  BY <1>1, <1>2, <1>3, <1>4

LEMMA RangeCount ==
    ASSUME NEW S, NEW s \in Seq(S), IsInjective(s)
    PROVE  IsFiniteSet(Range(s)) /\ Cardinality(Range(s)) = Len(s)
<1>1. Len(s) \in Nat /\ DOMAIN s = 1..Len(s) /\ s \in [1..Len(s) -> S]
  BY LenProperties
<1>2. s \in [1..Len(s) -> Range(s)]
  BY <1>1 DEF Range
<1>3. s \in Bijection(1..Len(s), Range(s))
  BY <1>1, <1>2 DEF Bijection, Injection, Surjection, IsInjective, Range
<1>4. IsFiniteSet(1..Len(s)) /\ Cardinality(1..Len(s)) = Len(s)
  BY SMTT(60), <1>1, FS_Interval
<1>5. ExistsBijection(1..Len(s), Range(s))
  BY <1>3 DEF ExistsBijection
<1>. QED
  BY <1>4, <1>5, FS_Bijection

-----------------------------------------------------------------------------
(* Every entry is in one place *)

CompPlaces == {"idle", "backfill", "signal", "notify"}
TrigPlaces == {"idle", "pop", "count", "take", "wait", "waiting", "run"}
CompType == [Completers -> [at : CompPlaces, e : {0} \cup Entries]]
TrigType == [Triggers -> [at : TrigPlaces, e : {0} \cup Entries, count : Nat]]
ProgType == [Progress -> {"idle", "poll", "event", "other", "get"}]
Types ==
    /\ queue \in Seq(Entries) /\ backfill \in Seq(Entries) /\ done \in Seq(Entries)
    /\ comp \in CompType /\ trig \in TrigType /\ prog \in ProgType
    /\ count \in Int /\ event \in Nat /\ must \in BOOLEAN
    /\ added \in 0..MaxEntries

(* The entries that completers are about to put in the list, and those that *)
(* triggers are about to run. Together they are Held.                       *)
Filling == {comp[c].e : c \in {d \in Completers : comp[d].at = "backfill"}}
Running == {trig[t].e : t \in {v \in Triggers : trig[v].at = "run"}}

(* Each entry that was added is in exactly one of five sets, and no thread  *)
(* and no sequence has it twice.                                            *)
Placed(Q, B, D, F, R, n) ==
    /\ Q \cup B \cup D \cup F \cup R = 1..n
    /\ Q \cap B = {} /\ Q \cap D = {} /\ Q \cap F = {} /\ Q \cap R = {}
    /\ B \cap D = {} /\ B \cap F = {} /\ B \cap R = {}
    /\ D \cap F = {} /\ D \cap R = {} /\ F \cap R = {}
OneHolder ==
    /\ \A c, d \in Completers :
          comp[c].at = "backfill" /\ comp[d].at = "backfill"
          /\ comp[c].e = comp[d].e => c = d
    /\ \A t, v \in Triggers :
          trig[t].at = "run" /\ trig[v].at = "run"
          /\ trig[t].e = trig[v].e => t = v
Injective == IsInjective(queue) /\ IsInjective(backfill) /\ IsInjective(done)
Everywhere ==
    Placed(Range(queue), Range(backfill), Range(done), Filling, Running, added)
IInv == Types /\ Injective /\ OneHolder /\ Everywhere

LEMMA CompMoves ==
    ASSUME Types, NEW c \in Completers, NEW at \in CompPlaces,
           comp' = [comp EXCEPT ![c].at = at]
    PROVE  /\ comp' \in CompType
           /\ \A d \in Completers :
                /\ comp'[d].at = IF d = c THEN at ELSE comp[d].at
                /\ comp'[d].e = comp[d].e
  BY DEF Types, CompType

LEMMA TrigMoves ==
    ASSUME Types, NEW t \in Triggers, NEW at \in TrigPlaces,
           trig' = [trig EXCEPT ![t].at = at]
    PROVE  /\ trig' \in TrigType
           /\ \A v \in Triggers :
                /\ trig'[v].at = IF v = t THEN at ELSE trig[v].at
                /\ trig'[v].e = trig[v].e
  BY ZenonT(60) DEF Types, TrigType

(* A step that moves no entry. *)
LEMMA Stays ==
    ASSUME IInv, Types', queue' = queue, backfill' = backfill, done' = done,
           added' = added,
           \A c \in Completers :
              /\ comp'[c].at = "backfill" <=> comp[c].at = "backfill"
              /\ comp[c].at = "backfill" => comp'[c].e = comp[c].e,
           \A t \in Triggers :
              /\ trig'[t].at = "run" <=> trig[t].at = "run"
              /\ trig[t].at = "run" => trig'[t].e = trig[t].e
    PROVE  IInv'
<1>1. Filling' = Filling /\ Running' = Running
  BY SMTT(60) DEF Filling, Running
<1>2. OneHolder'
  BY SMTT(60) DEF IInv, OneHolder
<1>. QED
  BY <1>1, <1>2 DEF IInv, Injective, Everywhere

LEMMA FillingAdds ==
    ASSUME NEW c \in Completers, comp[c].at # "backfill",
           comp'[c].at = "backfill",
           \A d \in Completers \ {c} : comp'[d] = comp[d]
    PROVE  Filling' = Filling \cup {comp'[c].e}
  BY SMTT(60) DEF Filling

LEMMA RunningAdds ==
    ASSUME NEW t \in Triggers, trig[t].at # "run", trig'[t].at = "run",
           \A v \in Triggers \ {t} : trig'[v] = trig[v]
    PROVE  Running' = Running \cup {trig'[t].e}
  BY SMTT(60) DEF Running

LEMMA AddStep ==
    ASSUME IInv, NEW c \in Completers, Add(c)
    PROVE  IInv'
<1>. DEFINE e == added + 1
<1>1. /\ Types /\ comp[c].at = "idle" /\ added' = e /\ backfill' = backfill
      /\ count' = count /\ event' = event /\ must' = must /\ trig' = trig
      /\ prog' = prog /\ done' = done
  BY DEF Add, IInv
<1>2. e \in Entries /\ e \in 1..e /\ 1..e = (1..added) \cup {e} /\ e \notin 1..added
      /\ e \in 0..MaxEntries
  BY SMTT(60), <1>1, CompletionAssumption DEF Add, Types, Entries
<1>3. Running' = Running
  BY <1>1 DEF Running
<1>4. /\ e \notin Range(queue) /\ e \notin Range(backfill) /\ e \notin Range(done)
      /\ e \notin Filling /\ e \notin Running
  BY <1>2 DEF IInv, Everywhere, Placed
<1>. HIDE DEF e
<1>5. CASE /\ queue' = Append(queue, e)
           /\ comp' = [comp EXCEPT ![c] = [at |-> "signal", e |-> e]]
  <2>1. /\ comp' \in CompType /\ comp'[c].at = "signal"
        /\ \A d \in Completers \ {c} : comp'[d] = comp[d]
    BY <1>1, <1>2, <1>5 DEF Types, CompType, CompPlaces
  <2>2. Filling' = Filling
    BY SMTT(60), <1>1, <2>1 DEF Filling
  <2>3. /\ queue' \in Seq(Entries) /\ Range(queue') = Range(queue) \cup {e}
        /\ IsInjective(queue')
    BY SMTT(60), <1>1, <1>2, <1>4, <1>5, AppendEntry DEF Types, IInv, Injective
  <2>4. Types'
    BY <1>1, <1>2, <2>1, <2>3 DEF Types
  <2>5. OneHolder'
    BY <1>1, <2>1 DEF IInv, OneHolder
  <2>6. Placed(Range(queue) \cup {e}, Range(backfill), Range(done), Filling,
               Running, e)
    BY SMTT(60), <1>2, <1>4 DEF IInv, Everywhere, Placed
  <2>7. Everywhere'
    BY <1>1, <1>3, <2>2, <2>3, <2>6 DEF Everywhere
  <2>. QED
    BY <1>1, <2>3, <2>4, <2>5, <2>7 DEF IInv, Injective
<1>6. CASE /\ queue' = queue
           /\ comp' = [comp EXCEPT ![c] = [at |-> "backfill", e |-> e]]
  <2>1. /\ comp' \in CompType /\ comp'[c].at = "backfill" /\ comp'[c].e = e
        /\ \A d \in Completers \ {c} : comp'[d] = comp[d]
    BY <1>1, <1>2, <1>6 DEF Types, CompType, CompPlaces
  <2>2. Filling' = Filling \cup {e}
    BY <1>1, <2>1, FillingAdds
  <2>3. Types'
    BY <1>1, <1>2, <1>6, <2>1 DEF Types
  <2>4. \A d \in Completers : comp[d].at = "backfill" => comp[d].e # e
    BY <1>4 DEF Filling
  <2>5. OneHolder'
    BY <1>1, <2>1, <2>4 DEF IInv, OneHolder
  <2>6. Placed(Range(queue), Range(backfill), Range(done), Filling \cup {e},
               Running, e)
    BY SMTT(60), <1>2, <1>4 DEF IInv, Everywhere, Placed
  <2>7. Everywhere'
    BY <1>1, <1>3, <1>6, <2>2, <2>6 DEF Everywhere
  <2>. QED
    BY <1>1, <1>6, <2>3, <2>5, <2>7 DEF IInv, Injective
<1>. QED
  <2>1. CASE Len(queue) < Capacity
    BY <1>5, <2>1 DEF Add, e
  <2>2. CASE ~(Len(queue) < Capacity)
    BY <1>6, <2>2 DEF Add, e
  <2>. QED
    BY <2>1, <2>2

LEMMA AddBackfillStep ==
    ASSUME IInv, NEW c \in Completers, AddBackfill(c)
    PROVE  IInv'
<1>. DEFINE e == comp[c].e
<1>1. /\ Types /\ comp[c].at = "backfill" /\ backfill' = Append(backfill, e)
      /\ count' = count + 1 /\ comp' = [comp EXCEPT ![c].at = "signal"]
      /\ queue' = queue /\ event' = event /\ must' = must /\ trig' = trig
      /\ prog' = prog /\ added' = added /\ done' = done
  BY DEF AddBackfill, IInv
<1>2. /\ comp' \in CompType
      /\ \A d \in Completers :
            /\ comp'[d].at = IF d = c THEN "signal" ELSE comp[d].at
            /\ comp'[d].e = comp[d].e
  BY ZenonT(60), <1>1, CompMoves DEF CompPlaces
<1>3. e \in Filling
  BY <1>1 DEF Filling
<1>4. /\ e \in Entries /\ e \notin Range(queue) /\ e \notin Range(backfill)
      /\ e \notin Range(done) /\ e \notin Running
  <2>1. e \in 1..added /\ 1..added \subseteq Entries
    BY SMTT(60), <1>1, <1>3, CompletionAssumption
       DEF IInv, Everywhere, Placed, Types, Entries
  <2>. QED
    BY <1>3, <2>1 DEF IInv, Everywhere, Placed
<1>5. Filling' = Filling \ {e}
  BY SMTT(60), <1>1, <1>2 DEF Filling, IInv, OneHolder
<1>6. Running' = Running
  BY <1>1 DEF Running
<1>7. OneHolder'
  BY SMTT(60), <1>1, <1>2 DEF IInv, OneHolder
<1>. HIDE DEF e
<1>8. /\ backfill' \in Seq(Entries) /\ Range(backfill') = Range(backfill) \cup {e}
      /\ IsInjective(backfill')
  BY <1>1, <1>4, AppendEntry DEF Types, IInv, Injective
<1>9. Types'
  BY SMTT(60), <1>1, <1>2, <1>8 DEF Types
<1>10. Placed(Range(queue), Range(backfill) \cup {e}, Range(done), Filling \ {e},
              Running, added)
  BY <1>3, <1>4 DEF IInv, Everywhere, Placed
<1>11. Everywhere'
  BY <1>1, <1>5, <1>6, <1>8, <1>10 DEF Everywhere
<1>. QED
  BY <1>1, <1>7, <1>8, <1>9, <1>11 DEF IInv, Injective

LEMMA AddSignalStep ==
    ASSUME IInv, NEW c \in Completers, AddSignal(c)
    PROVE  IInv'
<1>1. /\ Types /\ comp[c].at = "signal" /\ queue' = queue /\ backfill' = backfill
      /\ count' = count /\ event' = event /\ must' = must
      /\ prog' = prog /\ added' = added /\ done' = done
  BY DEF AddSignal, IInv
<1>2. PICK at \in CompPlaces \ {"backfill"} : comp' = [comp EXCEPT ![c].at = at]
  BY ZenonT(60) DEF AddSignal, CompPlaces
<1>3. /\ comp' \in CompType
      /\ \A d \in Completers :
            /\ comp'[d].at = IF d = c THEN at ELSE comp[d].at
            /\ comp'[d].e = comp[d].e
  BY ZenonT(60), <1>1, <1>2, CompMoves
<1>4. /\ trig' \in TrigType
      /\ \A t \in Triggers : /\ trig'[t].at = "run" <=> trig[t].at = "run"
                             /\ trig'[t].e = trig[t].e
  <2>1. CASE UNCHANGED trig
    BY <1>1, <2>1 DEF Types
  <2>2. ASSUME NEW t \in Triggers, trig[t].at = "waiting",
               trig' = [trig EXCEPT ![t].at = "pop"]
        PROVE  /\ trig' \in TrigType
               /\ \A v \in Triggers : /\ trig'[v].at = "run" <=> trig[v].at = "run"
                                      /\ trig'[v].e = trig[v].e
    <3>1. "pop" \in TrigPlaces
      BY DEF TrigPlaces
    <3>2. /\ trig' \in TrigType
          /\ \A v \in Triggers :
                /\ trig'[v].at = IF v = t THEN "pop" ELSE trig[v].at
                /\ trig'[v].e = trig[v].e
      BY ZenonT(60), <1>1, <2>2, <3>1, TrigMoves
    <3>. QED
      BY SMTT(60), <2>2, <3>2
  <2>. QED
    BY <2>1, <2>2 DEF AddSignal
<1>5. Types'
  BY <1>1, <1>3, <1>4 DEF Types
<1>. QED
  BY <1>1, <1>3, <1>4, <1>5, Stays

LEMMA AddNotifyStep ==
    ASSUME IInv, NEW c \in Completers, AddNotify(c)
    PROVE  IInv'
<1>1. /\ Types /\ comp[c].at = "notify" /\ queue' = queue /\ backfill' = backfill
      /\ count' = count /\ must' = must /\ trig' = trig
      /\ prog' = prog /\ added' = added /\ done' = done
      /\ comp' = [comp EXCEPT ![c].at = "idle"] /\ event' \in {event, event + 1}
  BY DEF AddNotify, IInv
<1>2. /\ comp' \in CompType
      /\ \A d \in Completers :
            /\ comp'[d].at = IF d = c THEN "idle" ELSE comp[d].at
            /\ comp'[d].e = comp[d].e
  BY ZenonT(60), <1>1, CompMoves DEF CompPlaces
<1>3. Types'
  BY SMTT(60), <1>1, <1>2 DEF Types
<1>. QED
  BY SMTT(60), <1>1, <1>2, <1>3, Stays

(* The steps of trigger that move no entry. *)
LEMMA TrigMovesStep ==
    ASSUME IInv, NEW t \in Triggers, NEW at \in TrigPlaces \ {"run"},
           trig[t].at # "run", trig' = [trig EXCEPT ![t].at = at],
           UNCHANGED <<queue, backfill, event, must, comp, prog, self, added, done>>,
           count' \in Int
    PROVE  IInv'
<1>1. /\ trig' \in TrigType
      /\ \A v \in Triggers :
            /\ trig'[v].at = IF v = t THEN at ELSE trig[v].at
            /\ trig'[v].e = trig[v].e
  BY ZenonT(60), TrigMoves DEF IInv
<1>2. Types'
  BY <1>1 DEF IInv, Types
<1>. QED
  BY <1>1, <1>2, Stays

LEMMA TriggerStartStep ==
    ASSUME IInv, NEW t \in Triggers, TriggerStart(t)
    PROVE  IInv'
<1>1. /\ Types /\ trig[t].at = "idle"
      /\ trig' = [trig EXCEPT ![t] = [at |-> "pop", e |-> 0, count |-> 0]]
      /\ UNCHANGED <<queue, backfill, count, event, must, comp, prog, added, done>>
  BY DEF TriggerStart, IInv
<1>2. /\ trig' \in TrigType /\ trig'[t].at = "pop"
      /\ \A v \in Triggers \ {t} : trig'[v] = trig[v]
  BY <1>1 DEF Types, TrigType, TrigPlaces
<1>3. Types'
  BY <1>1, <1>2 DEF Types
<1>. QED
  BY <1>1, <1>2, <1>3, Stays

LEMMA TriggerLooksStep ==
    ASSUME IInv, NEW t \in Triggers,
           TriggerPopNull(t) \/ TriggerCount(t) \/ TriggerWait(t) \/ TriggerTimeout(t)
    PROVE  IInv'
<1>0. count \in Int
  BY DEF IInv, Types
<1>1. CASE TriggerPopNull(t)
  BY ZenonT(60), <1>0, <1>1, TrigMovesStep DEF TriggerPopNull, TrigPlaces
<1>2. CASE TriggerCount(t)
  <2>1. PICK at \in {"take", "wait", "idle"} : trig' = [trig EXCEPT ![t].at = at]
    BY ZenonT(60), <1>2 DEF TriggerCount
  <2>. QED
    BY ZenonT(60), <1>0, <1>2, <2>1, TrigMovesStep DEF TriggerCount, TrigPlaces
<1>3. CASE TriggerWait(t)
  <2>1. PICK at \in {"waiting", "pop"} : trig' = [trig EXCEPT ![t].at = at]
    BY ZenonT(60), <1>3 DEF TriggerWait
  <2>. QED
    BY ZenonT(60), <1>0, <1>3, <2>1, TrigMovesStep DEF TriggerWait, TrigPlaces
<1>4. CASE TriggerTimeout(t)
  BY ZenonT(60), <1>0, <1>4, TrigMovesStep DEF TriggerTimeout, TrigPlaces
<1>. QED
  BY <1>1, <1>2, <1>3, <1>4

(* A trigger takes the entry e. *)
LEMMA Takes ==
    ASSUME Types, NEW t \in Triggers, NEW e \in Entries,
           trig' = [trig EXCEPT ![t].at = "run", ![t].e = e]
    PROVE  /\ trig' \in TrigType /\ trig'[t].at = "run" /\ trig'[t].e = e
           /\ \A v \in Triggers \ {t} : trig'[v] = trig[v]
  BY ZenonT(60) DEF Types, TrigType, TrigPlaces

LEMMA HolderTakes ==
    ASSUME OneHolder, NEW t \in Triggers, NEW e, e \notin Running, comp' = comp,
           trig'[t].e = e, \A v \in Triggers \ {t} : trig'[v] = trig[v]
    PROVE  OneHolder'
<1>1. \A v \in Triggers : trig[v].at = "run" => trig[v].e # e
  BY DEF Running
<1>2. ASSUME NEW v \in Triggers, NEW w \in Triggers, trig'[v].at = "run",
             trig'[w].at = "run", trig'[v].e = trig'[w].e
      PROVE  v = w
  BY <1>1, <1>2 DEF OneHolder
<1>. QED
  BY <1>2 DEF OneHolder

LEMMA TriggerPopStep ==
    ASSUME IInv, NEW t \in Triggers, TriggerPop(t)
    PROVE  IInv'
<1>. DEFINE e == Head(queue)
<1>1. /\ Types /\ trig[t].at = "pop" /\ queue # <<>> /\ queue' = Tail(queue)
      /\ trig' = [trig EXCEPT ![t].at = "run", ![t].e = e]
      /\ UNCHANGED <<backfill, count, event, must, comp, prog, added, done>>
  BY DEF TriggerPop, IInv
<1>2. /\ e \in Entries /\ e \in Range(queue) /\ queue' \in Seq(Entries)
      /\ IsInjective(queue') /\ Range(queue') = Range(queue) \ {e}
  BY <1>1, TakeHead DEF IInv, Injective, Types
<1>. HIDE DEF e
<1>3. /\ trig' \in TrigType /\ trig'[t].at = "run" /\ trig'[t].e = e
      /\ \A v \in Triggers \ {t} : trig'[v] = trig[v]
  BY ZenonT(60), <1>1, <1>2, Takes
<1>4. Running' = Running \cup {e}
  BY ZenonT(60), <1>1, <1>3, RunningAdds
<1>5. Filling' = Filling
  BY <1>1 DEF Filling
<1>6. e \notin Running
  BY <1>2 DEF IInv, Everywhere, Placed
<1>7. OneHolder'
  BY ZenonT(60), <1>1, <1>3, <1>6, HolderTakes DEF IInv
<1>8. Types'
  BY <1>1, <1>2, <1>3 DEF Types
<1>9. Placed(Range(queue) \ {e}, Range(backfill), Range(done), Filling,
             Running \cup {e}, added)
  BY <1>2 DEF IInv, Everywhere, Placed
<1>10. Everywhere'
  BY ZenonT(60), <1>1, <1>2, <1>4, <1>5, <1>9 DEF Everywhere
<1>. QED
  BY <1>1, <1>2, <1>7, <1>8, <1>10 DEF IInv, Injective

LEMMA TriggerTakeStep ==
    ASSUME IInv, NEW t \in Triggers, TriggerTake(t)
    PROVE  IInv'
<1>0. /\ Types /\ trig[t].at = "take" /\ count' = count - 1 /\ count' \in Int
      /\ UNCHANGED <<queue, event, must, comp, prog, self, added, done>>
  BY SMTT(60) DEF TriggerTake, IInv, Types
<1>1. CASE backfill = <<>>
  BY <1>0, <1>1, TrigMovesStep DEF TriggerTake, TrigPlaces
<1>2. CASE backfill # <<>>
  <2>. DEFINE e == Head(backfill)
  <2>1. /\ backfill' = Tail(backfill)
        /\ trig' = [trig EXCEPT ![t].at = "run", ![t].e = e]
    BY <1>2 DEF TriggerTake
  <2>2. /\ e \in Entries /\ e \in Range(backfill) /\ backfill' \in Seq(Entries)
        /\ IsInjective(backfill') /\ Range(backfill') = Range(backfill) \ {e}
    BY <1>0, <1>2, <2>1, TakeHead DEF IInv, Injective, Types
  <2>. HIDE DEF e
  <2>3. /\ trig' \in TrigType /\ trig'[t].at = "run" /\ trig'[t].e = e
        /\ \A v \in Triggers \ {t} : trig'[v] = trig[v]
    BY ZenonT(60), <1>0, <2>1, <2>2, Takes
  <2>4. Running' = Running \cup {e}
    BY <1>0, <2>3, RunningAdds
  <2>5. Filling' = Filling
    BY <1>0 DEF Filling
  <2>6. e \notin Running
    BY <2>2 DEF IInv, Everywhere, Placed
  <2>7. OneHolder'
    BY <1>0, <2>3, <2>6, HolderTakes DEF IInv
  <2>8. Types'
    BY <1>0, <2>2, <2>3 DEF Types
  <2>9. Placed(Range(queue), Range(backfill) \ {e}, Range(done), Filling,
               Running \cup {e}, added)
    BY <2>2 DEF IInv, Everywhere, Placed
  <2>10. Everywhere'
    BY <1>0, <2>2, <2>4, <2>5, <2>9 DEF Everywhere
  <2>. QED
    BY <1>0, <2>2, <2>7, <2>8, <2>10 DEF IInv, Injective
<1>. QED
  BY <1>1, <1>2

LEMMA TriggerRunStep ==
    ASSUME IInv, NEW t \in Triggers, TriggerRun(t)
    PROVE  IInv'
<1>. DEFINE e == trig[t].e
<1>1. /\ Types /\ trig[t].at = "run" /\ done' = Append(done, e)
      /\ UNCHANGED <<queue, backfill, count, event, must, comp, prog, added>>
  BY DEF TriggerRun, IInv
<1>2. PICK at \in {"pop", "idle"}, n \in Nat :
        trig' = [trig EXCEPT ![t] = [at |-> at, e |-> 0, count |-> n]]
  <2>1. trig[t].count \in Nat /\ trig[t].count + 1 \in Nat
    BY SMTT(60), <1>1 DEF Types, TrigType
  <2>. QED
    BY ZenonT(60), <2>1 DEF TriggerRun
<1>3. /\ trig' \in TrigType /\ trig'[t].at = at
      /\ \A v \in Triggers \ {t} : trig'[v] = trig[v]
  BY <1>1, <1>2 DEF Types, TrigType, TrigPlaces
<1>4. e \in Running
  BY <1>1 DEF Running
<1>5. /\ e \in Entries /\ e \notin Range(queue) /\ e \notin Range(backfill)
      /\ e \notin Range(done) /\ e \notin Filling
  <2>1. e \in 1..added /\ 1..added \subseteq Entries
    BY SMTT(60), <1>1, <1>4, CompletionAssumption
       DEF IInv, Everywhere, Placed, Types, Entries
  <2>. QED
    BY <1>4, <2>1 DEF IInv, Everywhere, Placed
<1>6. Running' = Running \ {e}
  BY SMTT(60), <1>1, <1>3 DEF Running, IInv, OneHolder
<1>7. Filling' = Filling
  BY <1>1 DEF Filling
<1>8. OneHolder'
  BY <1>1, <1>3 DEF IInv, OneHolder
<1>. HIDE DEF e
<1>9. /\ done' \in Seq(Entries) /\ Range(done') = Range(done) \cup {e}
      /\ IsInjective(done')
  BY <1>1, <1>5, AppendEntry DEF Types, IInv, Injective
<1>10. Types'
  BY <1>1, <1>3, <1>9 DEF Types
<1>11. Placed(Range(queue), Range(backfill), Range(done) \cup {e}, Filling,
              Running \ {e}, added)
  BY <1>4, <1>5 DEF IInv, Everywhere, Placed
<1>12. Everywhere'
  BY <1>1, <1>6, <1>7, <1>9, <1>11 DEF Everywhere
<1>. QED
  BY <1>1, <1>8, <1>9, <1>10, <1>12 DEF IInv, Injective

LEMMA PollStep ==
    ASSUME IInv, NEW p \in Progress, Poll(p)
    PROVE  IInv'
<1>1. UNCHANGED <<queue, backfill, count, comp, trig, self, added, done>>
  BY DEF Poll, ProgressWait, PollWakes, PollClear, PollGet
<1>2. prog' \in ProgType /\ event' \in Nat /\ must' \in BOOLEAN
  <2>1. prog \in ProgType /\ event \in Nat /\ must \in BOOLEAN
    BY DEF IInv, Types
  <2>2. CASE ProgressWait(p)
    BY <2>1, <2>2 DEF ProgressWait, ProgType
  <2>3. CASE PollWakes(p)
    BY <2>1, <2>3 DEF PollWakes, ProgType
  <2>4. CASE PollClear(p)
    BY ZenonT(60), <2>1, <2>4 DEF PollClear, ProgType
  <2>5. CASE PollGet(p)
    BY SMTT(60), <2>1, <2>5 DEF PollGet, ProgType
  <2>. QED
    BY <2>2, <2>3, <2>4, <2>5 DEF Poll
<1>3. Types'
  BY <1>1, <1>2 DEF IInv, Types
<1>. QED
  BY <1>1, <1>3, Stays

LEMMA IInvInit ==
    ASSUME Init
    PROVE  IInv
<1>1. Types
  <2>1. comp \in CompType
    BY DEF Init, CompType, CompPlaces
  <2>2. trig \in TrigType
    BY DEF Init, TrigType, TrigPlaces
  <2>3. prog \in ProgType /\ <<>> \in Seq(Entries) /\ 0 \in 0..MaxEntries
    BY SMTT(60), CompletionAssumption DEF Init, ProgType
  <2>4. /\ queue = <<>> /\ backfill = <<>> /\ done = <<>> /\ added = 0
        /\ count \in Int /\ event \in Nat
    BY SMTT(60) DEF Init
  <2>5. must \in BOOLEAN
    BY Zenon DEF Init
  <2>. QED
    BY <2>1, <2>2, <2>3, <2>4, <2>5 DEF Types
<1>2. Range(<<>>) = {} /\ IsInjective(<<>>)
  BY SMTT(60) DEF Range, IsInjective
<1>3. Filling = {} /\ Running = {} /\ OneHolder
  BY DEF Init, Filling, Running, OneHolder
<1>4. Placed({}, {}, {}, {}, {}, 0)
  BY SMTT(60) DEF Placed
<1>5. Everywhere /\ Injective
  BY ZenonT(60), <1>2, <1>3, <1>4 DEF Init, Everywhere, Injective
<1>. QED
  BY <1>1, <1>3, <1>5 DEF IInv

LEMMA IInvStep ==
    ASSUME IInv, [Next]_vars
    PROVE  IInv'
<1>1. ASSUME NEW c \in Completers, Add(c) \/ Complete(c)
      PROVE  IInv'
  BY <1>1, AddStep, AddBackfillStep, AddSignalStep, AddNotifyStep DEF Complete
<1>2. ASSUME NEW t \in Triggers,
             TriggerStart(t) \/ TriggerStep(t) \/ TriggerTimeout(t)
      PROVE  IInv'
  BY <1>2, TriggerStartStep, TriggerLooksStep, TriggerPopStep, TriggerTakeStep,
     TriggerRunStep DEF TriggerStep
<1>3. CASE UNCHANGED vars
  <2>1. Types'
    BY <1>3 DEF vars, IInv, Types
  <2>. QED
    BY <1>3, <2>1, Stays DEF vars
<1>. QED
  BY <1>1, <1>2, <1>3, PollStep DEF Next

LEMMA DisjointUnion ==
    ASSUME NEW S, NEW T, IsFiniteSet(S), IsFiniteSet(T), S \cap T = {}
    PROVE  /\ IsFiniteSet(S \cup T)
           /\ Cardinality(S \cup T) = Cardinality(S) + Cardinality(T)
<1>1. /\ IsFiniteSet(S \cup T)
      /\ Cardinality(S \cup T) = Cardinality(S) + Cardinality(T) - Cardinality(S \cap T)
  BY FS_Union
<1>2. Cardinality(S \cap T) = 0 /\ Cardinality(S) \in Nat /\ Cardinality(T) \in Nat
  BY FS_EmptySet, FS_CardinalityType
<1>. QED
  BY SMTT(60), <1>1, <1>2

LEMMA Counts ==
    ASSUME IInv
    PROVE  TriggeredOnce
<1>. DEFINE Q == Range(queue)
            B == Range(backfill)
            D == Range(done)
<1>1. Held = Filling \cup Running
  BY DEF Held, Filling, Running
<1>2. Placed(Q, B, D, Filling, Running, added) /\ added \in Nat
  BY SMTT(60) DEF IInv, Everywhere, Types
<1>3. /\ IsFiniteSet(Q) /\ Cardinality(Q) = Len(queue) /\ Len(queue) \in Nat
      /\ IsFiniteSet(B) /\ Cardinality(B) = Len(backfill) /\ Len(backfill) \in Nat
      /\ IsFiniteSet(D) /\ Cardinality(D) = Len(done) /\ Len(done) \in Nat
  BY RangeCount, LenProperties DEF IInv, Types, Injective
<1>. HIDE DEF Q, B, D
<1>4. IsFiniteSet(1..added) /\ Cardinality(1..added) = added
  BY SMTT(60), <1>2, FS_Interval
<1>5. IsFiniteSet(Held) /\ Cardinality(Held) \in Nat
  <2>1. Held \subseteq 1..added
    BY <1>1, <1>2 DEF Placed
  <2>. QED
    BY ZenonT(60), <1>4, <2>1, FS_Subset, FS_CardinalityType
<1>6. /\ Q \cup B \cup D \cup Held = 1..added
      /\ Q \cap B = {} /\ (Q \cup B) \cap D = {} /\ (Q \cup B \cup D) \cap Held = {}
  BY <1>1, <1>2 DEF Placed
<1>7. IsFiniteSet(Q \cup B) /\ Cardinality(Q \cup B) = Len(queue) + Len(backfill)
  BY ZenonT(60), <1>3, <1>6, DisjointUnion
<1>8. /\ IsFiniteSet(Q \cup B \cup D)
      /\ Cardinality(Q \cup B \cup D) = Len(queue) + Len(backfill) + Len(done)
  BY ZenonT(60), <1>3, <1>6, <1>7, DisjointUnion
<1>9. Cardinality(Q \cup B \cup D \cup Held) =
        Len(queue) + Len(backfill) + Len(done) + Cardinality(Held)
  BY ZenonT(60), <1>3, <1>5, <1>6, <1>8, DisjointUnion
<1>. QED
  BY ZenonT(60), <1>4, <1>6, <1>9 DEF TriggeredOnce, Q, B, D

(* Every completion is triggered exactly once, however many threads add and *)
(* trigger, though the atomic queue may be full or a pop fail.              *)
(* hg_core_completion_add and hg_core_trigger.                              *)
THEOREM EveryCompletionOnce == Spec => []TriggeredOnce
<1>1. Init => IInv
  BY IInvInit
<1>2. IInv /\ [Next]_vars => IInv'
  BY IInvStep
<1>3. IInv => TriggeredOnce
  BY Counts
<1>. QED
  BY <1>1, <1>2, <1>3, PTL DEF Spec

-----------------------------------------------------------------------------
(* One thread that triggers and one that makes progress *)

OneTrigger == \A s, t \in Triggers : s = t
OneProgress == \A p, q \in Progress : p = q

(* The list is not empty when the one thread that takes from it is about to *)
(* do so; it waits only for entries of which a signal is still to come.     *)
TakeInv == \A t \in Triggers : trig[t].at = "take" => backfill # <<>>
SignalInv ==
    \A t \in Triggers :
        trig[t].at = "waiting" /\ (queue # <<>> \/ backfill # <<>>) =>
            \E c \in Completers : comp[c].at = "signal"
MustInv == \A p \in Progress : prog[p] = "poll" => must
OneInv ==
    /\ IInv /\ CountIsLength /\ TakeInv /\ SignalInv /\ MustInv /\ PollNotified

LEMMA Lengths ==
    ASSUME IInv
    PROVE  /\ Len(queue) \in Nat /\ Len(backfill) \in Nat /\ count \in Int
           /\ (Len(backfill) = 0 <=> backfill = <<>>)
           /\ (queue = <<>> => Range(queue) = {})
           /\ (backfill = <<>> => Range(backfill) = {})
<1>1. queue \in Seq(Entries) /\ backfill \in Seq(Entries) /\ count \in Int
  BY DEF IInv, Types
<1>2. Range(<<>>) = {}
  BY SMTT(60) DEF Range
<1>. QED
  BY <1>1, <1>2, LenProperties, EmptySeq

LEMMA PollStays ==
    ASSUME OneInv, prog' = prog, must' = must, event' = event, self' = self,
           Range(queue') \subseteq Range(queue),
           Range(backfill') \subseteq Range(backfill), comp' = comp
    PROVE  MustInv' /\ PollNotified'
  BY DEF OneInv, MustInv, PollNotified

LEMMA OneAdd ==
    ASSUME OneInv, NEW c \in Completers, Add(c), IInv'
    PROVE  OneInv'
<1>1. /\ comp[c].at = "idle" /\ backfill' = backfill /\ count' = count
      /\ event' = event /\ must' = must /\ trig' = trig /\ prog' = prog
  BY DEF Add
<1>. DEFINE e == added + 1
<1>2. self' = self \/ self' = self \cup {e}
  BY DEF Add
<1>3. /\ comp'[c].e = e /\ comp'[c].at \in {"signal", "backfill"}
      /\ queue' # queue => comp'[c].at = "signal" /\ Range(queue') = Range(queue) \cup {e}
      /\ \A d \in Completers \ {c} : comp'[d] = comp[d]
  <2>1. Types /\ e \in Entries
    BY SMTT(60), CompletionAssumption DEF Add, OneInv, IInv, Types, Entries
  <2>2. Range(Append(queue, e)) = Range(queue) \cup {e}
    BY <2>1, AppendEntry DEF Types
  <2>3. PICK at \in {"signal", "backfill"} :
          /\ comp' = [comp EXCEPT ![c] = [at |-> at, e |-> e]]
          /\ queue' # queue => at = "signal" /\ queue' = Append(queue, e)
    BY ZenonT(60) DEF Add
  <2>. HIDE DEF e
  <2>. QED
    BY ZenonT(60), <2>1, <2>2, <2>3 DEF Types, CompType
<1>. HIDE DEF e
<1>4. CountIsLength' /\ TakeInv' /\ MustInv'
  BY <1>1 DEF OneInv, CountIsLength, TakeInv, MustInv
<1>5. SignalInv'
  <2>1. \A d \in Completers : comp[d].at = "signal" => comp'[d].at = "signal"
    BY <1>1, <1>3
  <2>2. CASE queue' = queue
    BY <1>1, <2>1, <2>2 DEF OneInv, SignalInv
  <2>3. CASE queue' # queue
    BY <1>1, <1>3, <2>3 DEF SignalInv
  <2>. QED
    BY <2>2, <2>3
<1>6. PollNotified'
  <2>1. SUFFICES ASSUME NEW p \in Progress, prog[p] = "poll",
                        NEW x \in self' \cap (Range(queue') \cup Range(backfill')),
                        ~(event > 0)
                 PROVE  \E d \in Completers : comp'[d].e = x /\ comp'[d].at # "idle"
    BY <1>1 DEF PollNotified
  <2>2. CASE x = e
    BY <1>3, <2>2
  <2>3. CASE x # e
    <3>1. x \in self \cap (Range(queue) \cup Range(backfill))
      BY <1>1, <1>2, <1>3, <2>1, <2>3
    <3>2. PICK d \in Completers : comp[d].e = x /\ comp[d].at # "idle"
      BY <2>1, <3>1 DEF OneInv, PollNotified
    <3>. QED
      BY <1>1, <1>3, <3>2
  <2>. QED
    BY <2>2, <2>3
<1>. QED
  BY <1>4, <1>5, <1>6 DEF OneInv

LEMMA OneAddBackfill ==
    ASSUME OneInv, NEW c \in Completers, AddBackfill(c), IInv'
    PROVE  OneInv'
<1>1. /\ comp[c].at = "backfill" /\ backfill' = Append(backfill, comp[c].e)
      /\ count' = count + 1 /\ queue' = queue /\ event' = event /\ must' = must
      /\ trig' = trig /\ prog' = prog /\ self' = self
      /\ comp' = [comp EXCEPT ![c].at = "signal"] /\ Types
  BY DEF AddBackfill, OneInv, IInv
<1>2. \A d \in Completers : /\ comp'[d].at = IF d = c THEN "signal" ELSE comp[d].at
                            /\ comp'[d].e = comp[d].e
  BY ZenonT(60), <1>1, CompMoves DEF CompPlaces
<1>3. /\ Len(backfill') = Len(backfill) + 1 /\ backfill' # <<>>
      /\ Range(backfill') = Range(backfill) \cup {comp[c].e}
  <2>1. comp[c].e \in Filling
    BY <1>1 DEF Filling
  <2>2. comp[c].e \in Entries
    BY SMTT(60), <1>1, <2>1, CompletionAssumption
       DEF OneInv, IInv, Everywhere, Placed, Types, Entries
  <2>. QED
    BY SMTT(60), <1>1, <2>2, AppendEntry DEF Types
<1>4. CountIsLength' /\ TakeInv' /\ MustInv'
  BY <1>1, <1>3 DEF OneInv, CountIsLength, TakeInv, MustInv
<1>5. SignalInv'
  BY <1>2 DEF SignalInv
<1>6. PollNotified'
  BY SMTT(60), <1>1, <1>2, <1>3 DEF OneInv, PollNotified
<1>. QED
  BY <1>4, <1>5, <1>6 DEF OneInv

LEMMA OneAddSignal ==
    ASSUME OneInv, OneTrigger, NEW c \in Completers, AddSignal(c), IInv'
    PROVE  OneInv'
<1>1. /\ comp[c].at = "signal" /\ backfill' = backfill /\ count' = count
      /\ queue' = queue /\ event' = event /\ must' = must
      /\ prog' = prog /\ self' = self /\ Types
  BY DEF AddSignal, OneInv, IInv
<1>2. PICK at \in CompPlaces :
        /\ comp' = [comp EXCEPT ![c].at = at]
        /\ comp[c].e \in self => at # "idle"
  BY ZenonT(60) DEF AddSignal, CompPlaces
<1>3. \A d \in Completers : /\ comp'[d].at = IF d = c THEN at ELSE comp[d].at
                            /\ comp'[d].e = comp[d].e
  BY ZenonT(60), <1>1, <1>2, CompMoves
<1>4. \A t \in Triggers : /\ trig'[t].at # "waiting"
                          /\ trig'[t].at = "take" => trig[t].at = "take"
  <2>1. CASE \A t \in Triggers : trig[t].at # "waiting"
    BY <2>1 DEF AddSignal
  <2>2. ASSUME NEW t \in Triggers, trig' = [trig EXCEPT ![t].at = "pop"]
        PROVE  trig'[t].at = "pop"
    BY <1>1, <2>2 DEF Types, TrigType
  <2>. QED
    BY <2>1, <2>2 DEF AddSignal, OneTrigger
<1>5. CountIsLength' /\ MustInv'
  BY <1>1 DEF OneInv, CountIsLength, MustInv
<1>6. TakeInv'
  BY <1>1, <1>4 DEF OneInv, TakeInv
<1>7. SignalInv'
  BY <1>4 DEF SignalInv
<1>8. PollNotified'
  BY SMTT(60), <1>1, <1>2, <1>3 DEF OneInv, PollNotified
<1>. QED
  BY <1>5, <1>6, <1>7, <1>8 DEF OneInv

LEMMA OneAddNotify ==
    ASSUME OneInv, NEW c \in Completers, AddNotify(c), IInv'
    PROVE  OneInv'
<1>1. /\ comp[c].at = "notify" /\ backfill' = backfill /\ count' = count
      /\ queue' = queue /\ must' = must /\ trig' = trig
      /\ prog' = prog /\ self' = self /\ event' = IF must THEN event + 1 ELSE event
      /\ comp' = [comp EXCEPT ![c].at = "idle"] /\ Types
  BY DEF AddNotify, OneInv, IInv
<1>2. \A d \in Completers : comp'[d].at = IF d = c THEN "idle" ELSE comp[d].at
  BY ZenonT(60), <1>1, CompMoves DEF CompPlaces
<1>3. CountIsLength' /\ TakeInv' /\ MustInv'
  BY <1>1 DEF OneInv, CountIsLength, TakeInv, MustInv
<1>4. SignalInv'
  <2>1. \A d \in Completers : comp[d].at = "signal" => comp'[d].at = "signal"
    BY <1>1, <1>2
  <2>. QED
    BY <1>1, <2>1 DEF OneInv, SignalInv
<1>5. PollNotified'
  <2>1. SUFFICES ASSUME NEW p \in Progress, prog[p] = "poll"
                 PROVE  event' > 0
    BY <1>1 DEF PollNotified
  <2>2. must /\ event \in Nat
    BY <1>1, <2>1 DEF OneInv, MustInv, Types
  <2>3. event' = event + 1
    BY <1>1, <2>2
  <2>. QED
    BY SMTT(60), <2>2, <2>3
<1>. QED
  BY <1>3, <1>4, <1>5 DEF OneInv

LEMMA OneTrig ==
    ASSUME OneInv, OneTrigger, IInv', NEW t \in Triggers,
           UNCHANGED <<event, must, comp, prog, self>>,
           CountIsLength', Range(queue') \subseteq Range(queue),
           Range(backfill') \subseteq Range(backfill),
           trig'[t].at = "take" => backfill' # <<>>,
           trig'[t].at = "waiting" => queue' = <<>> /\ backfill' = <<>>
    PROVE  OneInv'
<1>1. TakeInv' /\ SignalInv'
  BY DEF OneTrigger, TakeInv, SignalInv
<1>2. MustInv' /\ PollNotified'
  BY PollStays
<1>. QED
  BY <1>1, <1>2 DEF OneInv

(* The steps of trigger that leave the queues alone. *)
LEMMA OneTrigMoves ==
    ASSUME OneInv, OneTrigger, IInv', NEW t \in Triggers,
           UNCHANGED <<queue, backfill, count, event, must, comp, prog, self>>,
           trig'[t].at = "take" => count # 0,
           trig'[t].at = "waiting" => queue = <<>> /\ count = 0
    PROVE  OneInv'
<1>1. /\ CountIsLength /\ CountIsLength'
      /\ (count # 0 => backfill # <<>>) /\ (count = 0 => backfill = <<>>)
  BY Lengths DEF OneInv, CountIsLength
<1>. QED
  BY <1>1, OneTrig

LEMMA OneTriggerStep ==
    ASSUME OneInv, OneTrigger, IInv', NEW t \in Triggers,
           TriggerStart(t) \/ TriggerStep(t) \/ TriggerTimeout(t)
    PROVE  OneInv'
<1>0. Types
  BY DEF OneInv, IInv
<1>1. CASE TriggerStart(t)
  <2>1. trig'[t].at = "pop"
    BY <1>0, <1>1 DEF TriggerStart, Types, TrigType
  <2>. QED
    BY <1>1, <2>1, OneTrigMoves DEF TriggerStart
<1>2. CASE TriggerTimeout(t)
  <2>1. trig'[t].at = "idle"
    BY <1>0, <1>2 DEF TriggerTimeout, Types, TrigType
  <2>. QED
    BY <1>2, <2>1, OneTrigMoves DEF TriggerTimeout
<1>3. CASE TriggerPopNull(t)
  <2>1. trig'[t].at = "count"
    BY <1>0, <1>3 DEF TriggerPopNull, Types, TrigType
  <2>. QED
    BY <1>3, <2>1, OneTrigMoves DEF TriggerPopNull
<1>4. CASE TriggerCount(t)
  <2>1. PICK at \in {"take", "wait", "idle"} :
          trig' = [trig EXCEPT ![t].at = at] /\ (at = "take" => count # 0)
    BY ZenonT(60), <1>4 DEF TriggerCount
  <2>2. trig'[t].at = at
    BY <1>0, <2>1 DEF Types, TrigType
  <2>. QED
    BY <1>4, <2>1, <2>2, OneTrigMoves DEF TriggerCount
<1>5. CASE TriggerWait(t)
  <2>1. PICK at \in {"waiting", "pop"} :
          /\ trig' = [trig EXCEPT ![t].at = at]
          /\ at = "waiting" => queue = <<>> /\ count = 0
    BY ZenonT(60), <1>5 DEF TriggerWait
  <2>2. trig'[t].at = at
    BY <1>0, <2>1 DEF Types, TrigType
  <2>. QED
    BY <1>5, <2>1, <2>2, OneTrigMoves DEF TriggerWait
<1>6. CASE TriggerRun(t)
  <2>1. trig'[t].at \in {"pop", "idle"}
    BY SMTT(60), <1>0, <1>6 DEF TriggerRun, Types, TrigType
  <2>. QED
    BY <1>6, <2>1, OneTrigMoves DEF TriggerRun
<1>7. CASE TriggerPop(t)
  <2>1. trig'[t].at = "run"
    BY <1>0, <1>7 DEF TriggerPop, Types, TrigType
  <2>2. Range(queue') \subseteq Range(queue)
    BY <1>0, <1>7, TakeHead DEF TriggerPop, Types
  <2>3. CountIsLength'
    BY <1>7 DEF TriggerPop, OneInv, CountIsLength
  <2>. QED
    BY ZenonT(60), <1>7, <2>1, <2>2, <2>3, OneTrig DEF TriggerPop
<1>8. CASE TriggerTake(t)
  <2>0. backfill # <<>> /\ backfill' = Tail(backfill) /\ count' = count - 1
    BY <1>8 DEF TriggerTake, OneInv, TakeInv
  <2>1. trig'[t].at = "run"
    BY <1>0, <1>8, <2>0 DEF TriggerTake, Types, TrigType
  <2>2. Range(backfill') \subseteq Range(backfill) /\ Len(backfill') = Len(backfill) - 1
    BY <1>0, <2>0, TakeHead DEF Types
  <2>3. CountIsLength'
    BY <2>0, <2>2 DEF OneInv, CountIsLength
  <2>. QED
    BY <1>8, <2>1, <2>2, <2>3, OneTrig DEF TriggerTake
<1>. QED
  BY <1>1, <1>2, <1>3, <1>4, <1>5, <1>6, <1>7, <1>8 DEF TriggerStep

LEMMA OnePoll ==
    ASSUME OneInv, OneProgress, NEW p \in Progress, Poll(p), IInv'
    PROVE  OneInv'
<1>1. UNCHANGED <<queue, backfill, count, comp, trig, self>>
  BY DEF Poll, ProgressWait, PollWakes, PollClear, PollGet
<1>2. CountIsLength' /\ TakeInv' /\ SignalInv'
  BY <1>1 DEF OneInv, CountIsLength, TakeInv, SignalInv
<1>3. prog \in ProgType
  BY DEF OneInv, IInv, Types
<1>4. CASE ProgressWait(p)
  <2>1. queue = <<>> /\ must' /\ ~(count > 0)
    BY <1>4 DEF ProgressWait
  <2>2. Range(queue) = {} /\ Range(backfill) = {}
    BY SMTT(60), <2>1, Lengths DEF OneInv, CountIsLength
  <2>. QED
    BY <1>1, <1>2, <2>1, <2>2 DEF OneInv, MustInv, PollNotified
<1>5. CASE ~ProgressWait(p)
  <2>1. prog'[p] # "poll"
    BY <1>3, <1>5 DEF Poll, PollWakes, PollClear, PollGet, ProgType
  <2>. QED
    BY <1>2, <2>1 DEF OneProgress, OneInv, MustInv, PollNotified
<1>. QED
  BY <1>4, <1>5

LEMMA OneInvInit ==
    ASSUME Init
    PROVE  OneInv
<1>1. IInv
  BY IInvInit
<1>2. CountIsLength
  BY DEF Init, CountIsLength
<1>3. TakeInv /\ SignalInv /\ MustInv /\ PollNotified
  BY DEF Init, TakeInv, SignalInv, MustInv, PollNotified
<1>. QED
  BY <1>1, <1>2, <1>3 DEF OneInv

LEMMA OneInvStep ==
    ASSUME OneTrigger, OneProgress, OneInv, [Next]_vars
    PROVE  OneInv'
<1>0. IInv'
  BY IInvStep DEF OneInv
<1>1. ASSUME NEW c \in Completers, Add(c) \/ Complete(c)
      PROVE  OneInv'
  BY <1>0, <1>1, OneAdd, OneAddBackfill, OneAddSignal, OneAddNotify DEF Complete
<1>2. CASE UNCHANGED vars
  BY <1>0, <1>2 DEF vars, OneInv, CountIsLength, TakeInv, SignalInv, MustInv,
     PollNotified
<1>. QED
  BY <1>0, <1>1, <1>2, OneTriggerStep, OnePoll DEF Next

(* When one thread triggers and one makes progress, however many complete:  *)
(* backfill_queue_count is the length of the list. hg_core_trigger.         *)
THEOREM OneTriggerCounts ==
    ASSUME OneTrigger, OneProgress
    PROVE  Spec => []CountIsLength
<1>1. OneInv => CountIsLength
  BY DEF OneInv
<1>. QED
  BY <1>1, OneInvInit, OneInvStep, PTL DEF Spec

(* The thread that waits in hg_core_trigger is signalled of every entry.    *)
(* hg_core_completion_add.                                                  *)
THEOREM OneTriggerIsWoken ==
    ASSUME OneTrigger, OneProgress
    PROVE  Spec => []NoLostWakeup
<1>1. OneInv => NoLostWakeup
  BY DEF OneInv, SignalInv, NoLostWakeup
<1>. QED
  BY <1>1, OneInvInit, OneInvStep, PTL DEF Spec

(* The thread that blocks in hg_core_poll_wait is told of every completion  *)
(* to self: the event is set, or a completer is about to set it.            *)
THEOREM OneProgressIsNotified ==
    ASSUME OneTrigger, OneProgress
    PROVE  Spec => []PollNotified
<1>1. OneInv => PollNotified
  BY DEF OneInv
<1>. QED
  BY <1>1, OneInvInit, OneInvStep, PTL DEF Spec
=============================================================================
