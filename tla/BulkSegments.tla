---------------------------- MODULE BulkSegments ----------------------------
(* How mercury_bulk.c splits a transfer between two lists of segments into  *)
(* copies or NA operations that each stay inside one segment on both sides. *)
EXTENDS Naturals, Sequences, FiniteSets

CONSTANTS
    MaxSegments,   \* bound: segments of a handle
    MaxLen         \* bound: length of a segment

VARIABLES
    bulk,      \* the lists of lengths, the offsets and the size
    pos,       \* index and offset on both sides, what remains, and count
    moved      \* the bytes of origin and local that were paired

vars == <<bulk, pos, moved>>

(* Offset of the first byte of segment i. *)
Before(len, i) ==
    LET sum[k \in Nat] == IF k = 0 THEN 0 ELSE sum[k - 1] + len[k]
    IN  sum[i - 1]

Total(len) == Before(len, Len(len) + 1)

(* hg_bulk_offset_translate *)
Translate(len, offset) ==
    LET from[i \in Nat] ==
            IF i > Len(len) THEN [index |-> 1, offset |-> offset - Total(len)]
            ELSE IF offset < Before(len, i + 1)
                 THEN [index |-> i, offset |-> offset - Before(len, i)]
                 ELSE from[i + 1]
    IN  from[1]

Start(b) ==
    [o |-> IF b.origin_offset = 0 THEN [index |-> 1, offset |-> 0]
           ELSE Translate(b.origin, b.origin_offset),
     l |-> IF b.local_offset = 0 THEN [index |-> 1, offset |-> 0]
           ELSE Translate(b.local, b.local_offset),
     remaining |-> b.size, count |-> 0]

Least(S) == CHOOSE x \in S : \A y \in S : x <= y

(* The size of the next piece. *)
Piece(b, p) ==
    Least({b.origin[p.o.index] - p.o.offset,
           b.local[p.l.index] - p.l.offset, p.remaining})

InRange(b, p) ==
    p.remaining > 0 /\ p.o.index <= Len(b.origin) /\ p.l.index <= Len(b.local)

(* Mutant: the offset is kept for the next segment. *)
Advance_KeepOffset(len, side, n) ==
    IF side.offset + n >= len[side.index]
    THEN [side EXCEPT !.index = @ + 1]
    ELSE [side EXCEPT !.offset = @ + n]

(* One side moves on by n bytes. *)
Advance(len, side, n) ==
    IF side.offset + n >= len[side.index]
    THEN [index |-> side.index + 1, offset |-> 0]
    ELSE [side EXCEPT !.offset = @ + n]

(* The end of the loop's body. *)
After(b, p, n) ==
    LET next == [p EXCEPT !.remaining = @ - n, !.count = @ + 1]
    IN  IF p.remaining = n THEN next
        ELSE [next EXCEPT !.o = Advance(b.origin, @, n),
                          !.l = Advance(b.local, @, n)]

(* Mutant: an operation is counted per segment of the origin. *)
OpCount_Segments(b) == Len(b.origin)

(* hg_bulk_transfer_get_op_count *)
OpCount(b) ==
    LET from[k \in Nat] ==   \* the position before piece k + 1
            IF k = 0 THEN Start(b)
            ELSE LET p == from[k - 1]
                 IN  IF InRange(b, p) THEN After(b, p, Piece(b, p)) ELSE p
    IN  from[Len(b.origin) + Len(b.local)].count

(* The transfers that hg_bulk_transfer accepts. *)
Lists == UNION {[1..n -> 0..MaxLen] : n \in 1..MaxSegments}
Init ==
    /\ \E o \in Lists, l \in Lists :
        \E oo \in 0..Total(o), lo \in 0..Total(l), n \in 1..Total(o) :
            /\ oo + n <= Total(o) /\ lo + n <= Total(l)
            /\ bulk = [origin |-> o, local |-> l, origin_offset |-> oo,
                       local_offset |-> lo, size |-> n]
    /\ pos = Start(bulk)
    /\ moved = {}

(* One turn of the loop of hg_bulk_transfer_segments_na or _self. *)
Move ==
    LET n == Piece(bulk, pos) IN
    /\ InRange(bulk, pos)
    /\ moved' = moved \cup
            {<<Before(bulk.origin, pos.o.index) + pos.o.offset + k,
               Before(bulk.local, pos.l.index) + pos.l.offset + k>> : k \in 0..n - 1}
    /\ pos' = After(bulk, pos, n)
    /\ UNCHANGED bulk

Next == Move
Spec == Init /\ [][Next]_vars

Over == ~InRange(bulk, pos)

(* The loop moves every byte of the transfer to its place and no other, and *)
(* never asks for a byte outside of a segment.                              *)
BytesMoved ==
    /\ Over => moved = {<<bulk.origin_offset + k, bulk.local_offset + k>> :
                            k \in 0..bulk.size - 1}
    /\ InRange(bulk, pos) => /\ pos.o.offset <= bulk.origin[pos.o.index]
                             /\ pos.l.offset <= bulk.local[pos.l.index]

(* The bytes of the transfer at which a segment begins on either side.      *)
Cuts(b) ==
    {k \in 1..b.size - 1 :
        \/ \E i \in DOMAIN b.origin : Before(b.origin, i) = b.origin_offset + k
        \/ \E i \in DOMAIN b.local : Before(b.local, i) = b.local_offset + k}

Empty(b) == 0 \in {b.origin[i] : i \in DOMAIN b.origin} \cup
                  {b.local[i] : i \in DOMAIN b.local}

(* The loop issues as many operations as were counted before it, so that    *)
(* each has an identifier and the last one to complete ends the transfer;   *)
(* they are one more than the cuts, unless there are empty segments.        *)
CountedRight ==
    /\ IF Over THEN pos.count = OpCount(bulk) ELSE pos.count < OpCount(bulk)
    /\ Over => IF Empty(bulk) THEN pos.count > Cardinality(Cuts(bulk))
               ELSE pos.count = Cardinality(Cuts(bulk)) + 1
=============================================================================
