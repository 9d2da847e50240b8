------------------------------ MODULE ImageFile ------------------------------
(***************************************************************************)
(* The image file, for every component that writes one.  It is an array of *)
(* allocation units (1 << blockAlignmentShift bytes).  A structure written *)
(* at a unit covers `span' units: its size after compression, chosen       *)
(* freely.  Each unit remembers the structure it belongs to, so a          *)
(* structure is readable exactly while every unit it was given still       *)
(* belongs to it: what the CRC64 of each block lets a verifier see.        *)
(* Unit 0 is the header.                                                   *)
(***************************************************************************)
EXTENDS Integers

CONSTANTS
    MaxSpan,        \* Bound: units of the largest structure
    MaxTear,        \* Bound: units that reach the file of a write that fails
    MaxUnit         \* Bound: the last unit of the file

Larger(a, b) == IF a > b THEN a ELSE b

Units == 0..MaxUnit
Spans == 1..MaxSpan

Hole == [kind |-> "hole", span |-> 1]

(* A unit that no complete structure owns. *)
NoCell == [start |-> 0, obj |-> Hole]

(* fwrite of a whole structure, and of a prefix of one. *)
Put(f, p, o) ==
    [q \in Units |->
        IF p <= q /\ q < p + o.span THEN [start |-> p, obj |-> o] ELSE f[q]]
Tear(f, p, n) ==
    [q \in Units |-> IF p <= q /\ q < p + n THEN NoCell ELSE f[q]]

Fits(p, span) == p + span <= MaxUnit + 1

(* The reader finds a structure of this kind, whole, at this unit. *)
Intact(f, p, kind) ==
    /\ f[p].obj.kind = kind
    /\ f[p].start = p
    /\ Fits(p, f[p].obj.span)
    /\ \A q \in Units : p <= q /\ q < p + f[p].obj.span => f[q] = f[p]

(* The units a structure was given. *)
Region(f, p) == p..(p + f[p].obj.span - 1)
=============================================================================
