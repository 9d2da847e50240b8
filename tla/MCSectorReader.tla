--------------------------- MODULE MCSectorReader ---------------------------
(* SectorReader for TLC: what happens to an image of each kind of media. *)
EXTENDS SectorReader

Profile(media, s, d, f, r) ==
    [media |-> media, sessions |-> s, damage |-> d, faults |-> f, reads |-> r,
     plain |-> IF media = "wiiu" THEN {} ELSE {0, 1}]

(* Recovery and resuming with plain media, groups with game discs. *)
MCProfiles ==
    {Profile("plain", 1, 2, 0, 1), Profile("plain", 1, 1, 1, 1), Profile("plain", 2, 1, 0, 1),
     Profile("ps3", 1, 1, 0, 2), Profile("wiiu", 1, 1, 0, 2), Profile("wii", 1, 1, 0, 1),
     Profile("wii", 1, 0, 1, 2), Profile("gc", 1, 0, 0, 1)}

OneSession == {Profile("plain", 1, 1, 0, 0)}

SameSize == <<[kind |-> "meta", span |-> 1], [kind |-> "key", span |-> 1]>>

(* The tracks are shorter than the tag of the keys. *)
OtherSize == <<[kind |-> "meta", span |-> 1], [kind |-> "key", span |-> 2]>>
=============================================================================
