----------------------------- MODULE BoundedFifo -----------------------------
(***************************************************************************)
(* What the atomic queue promises to the code that uses it (the completion *)
(* queues of mercury_core.c and na.c): a first-in first-out buffer of      *)
(* bounded capacity.  Every entry whose push succeeded is handed to        *)
(* exactly one consumer, in the order in which the pushes took effect.     *)
(*                                                                         *)
(* `fifo' holds the entries that a pop can return, `held[c]' the entry     *)
(* that consumer c's pop in progress returns (NoEntry when c is not in a   *)
(* pop that has taken an entry).                                           *)
(***************************************************************************)
EXTENDS Naturals, Sequences

CONSTANTS Consumers, Entries, NoEntry, Capacity

VARIABLES fifo, held

vars == <<fifo, held>>

Init == /\ fifo = <<>>
        /\ held = [c \in Consumers |-> NoEntry]

(* A push takes effect: its entry becomes visible behind all the others. *)
Push(e) == /\ Len(fifo) < Capacity
           /\ fifo' = Append(fifo, e)
           /\ UNCHANGED held

(* A pop takes effect: the consumer takes the oldest entry. *)
Pop(c) == /\ held[c] = NoEntry
          /\ fifo # <<>>
          /\ held' = [held EXCEPT ![c] = Head(fifo)]
          /\ fifo' = Tail(fifo)

(* The pop returns the entry it took. *)
Return(c) == /\ held[c] # NoEntry
             /\ held' = [held EXCEPT ![c] = NoEntry]
             /\ UNCHANGED fifo

Next == \/ \E e \in Entries : Push(e)
        \/ \E c \in Consumers : Pop(c) \/ Return(c)

Spec == Init /\ [][Next]_vars
=============================================================================
