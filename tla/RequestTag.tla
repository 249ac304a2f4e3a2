----------------------------- MODULE RequestTag -----------------------------
(* The tags of requests, hg_core_gen_request_tag of mercury_core.c: a       *)
(* shared counter that a compare-and-swap sets to 0 at the largest tag and  *)
(* that is incremented otherwise.                                           *)
EXTENDS Naturals, Sequences, FiniteSets

CONSTANTS
    Threads,   \* threads that forward
    MaxTag,    \* request_max_tag
    Width      \* values of the counter, 2^32 in the code

VARIABLES
    tag,       \* request_tag
    tagger,    \* where each thread is
    recent     \* the last tags, at most MaxTag + 1

vars == <<tag, tagger, recent>>

Init ==
    tag = 0 /\ tagger = [t \in Threads |-> "idle"] /\ recent = <<>>

(* Tag g is returned. *)
Give(g) ==
    recent' = IF Len(recent) = MaxTag + 1 THEN Append(Tail(recent), g)
              ELSE Append(recent, g)

(* Mutant: the counter is set to 0 one too late. *)
Cas_Late(t) ==
    /\ tagger[t] = "idle"
    /\ IF tag = MaxTag + 1
       THEN tag' = 0 /\ Give(0) /\ UNCHANGED tagger
       ELSE tagger' = [tagger EXCEPT ![t] = "incr"] /\ UNCHANGED <<tag, recent>>

(* The compare-and-swap at the largest tag ... *)
Cas(t) ==
    /\ tagger[t] = "idle"
    /\ IF tag = MaxTag
       THEN tag' = 0 /\ Give(0) /\ UNCHANGED tagger
       ELSE tagger' = [tagger EXCEPT ![t] = "incr"] /\ UNCHANGED <<tag, recent>>

(* ... and the increment, by a second atomic step. *)
Incr(t) ==
    /\ tagger[t] = "incr"
    /\ tag' = (tag + 1) % Width
    /\ Give(tag')
    /\ tagger' = [tagger EXCEPT ![t] = "idle"]

Next == \E t \in Threads : Cas(t) \/ Incr(t)

Spec == Init /\ [][Next]_vars

(* A tag that is given is one the plugin can send, and no tag is given      *)
(* again before all others were: the responses of as many forwards as there *)
(* are tags are told apart. Two threads that forward at once may both miss  *)
(* the largest tag and leave the range.                                     *)
TagsTellApart ==
    /\ \A k \in DOMAIN recent : recent[k] <= MaxTag
    /\ \A j, k \in DOMAIN recent : j # k => recent[j] # recent[k]
=============================================================================
