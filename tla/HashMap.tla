------------------------------- MODULE HashMap -------------------------------
(***************************************************************************)
(* The map that finds the entry of a sector from the hash of its content,  *)
(* ddt/hash_map.c: a table with open addressing and linear probing, where  *)
(* the key 0 marks an empty slot, that grows when it is three quarters     *)
(* full.  Nothing is ever removed from it.  The loop that moves the        *)
(* entries of the old table into the new one is modelled slot by slot:     *)
(* the call that grew the table goes on after the last of them.            *)
(***************************************************************************)
EXTENDS LinearProbing, FiniteSets

CONSTANTS Hashes,       \* the keys the writer asks for
          Entries,      \* the values it stores
          Absent,       \* stands for no value
          MinSize,      \* INITIAL_SIZE
          LargeMap,     \* LARGE_MAP_THRESHOLD
          AskedSizes    \* the sizes create_map is asked for

(* With fewer slots a table could fill before it grows; the code has 1024. *)
ASSUME MapSizeAssumption ==
    /\ MinSize \in Nat /\ MinSize >= 5
    /\ LargeMap \in Nat /\ LargeMap >= 8
    /\ AskedSizes \subseteq Nat

ASSUME HashesAssumption == Hashes \subseteq Nat /\ Absent \notin Entries

VARIABLES
    slots,      \* map->table
    size,       \* map->size
    count,      \* map->count
    old,        \* old_table, while the entries are moved
    oldSize,    \* old_size, 0 when the table is not growing
    next,       \* the slot of old_table the loop is at
    pending,    \* what the call that grew the table will insert
    stored      \* the entry each hash was stored with

mapVars == <<slots, size, count, old, oldSize, next, pending, stored>>

Slots == [key : Hashes \cup {0}, value : Entries \cup {Absent}]
EmptySlot == [key |-> 0, value |-> Absent]
EmptyTable(n) == [i \in 0..(n - 1) |-> EmptySlot]

Growing == oldSize # 0

(* Mutant of FreeSlotFor: the home slot of the old table is kept. *)
FreeSlotForOldSize(t, n, k) == FirstIn(k % oldSize, Free(t, n), n)

(* The slot resize_map moves an entry to: it does not compare keys. *)
FreeSlotFor(t, n, k) == FirstIn(k % n, Free(t, n), n)

(* lookup_map: a key of 0 stops at no slot but an empty one. *)
Lookup(k) ==
    LET found == slots[Probe(slots, size, k)]
    IN  IF k # 0 /\ found.key = k THEN found.value ELSE Absent

(***************************************************************************)
(* create_map and insert_map.                                              *)
(***************************************************************************)
MapInit ==
    /\ \E asked \in AskedSizes : size = IF asked < MinSize THEN MinSize ELSE asked
    /\ slots = EmptyTable(size)
    /\ count = 0
    /\ old = <<>> /\ oldSize = 0 /\ next = 0
    /\ pending = EmptySlot
    /\ stored = [k \in Hashes |-> Absent]

(* Mutant of Overloaded: the table grows when its last slot is taken. *)
OverloadedWhenFull == count >= size

(* More than three quarters of the slots are used: LOAD_FACTOR. *)
Overloaded == 4 * count > 3 * size

(* calculate_new_size *)
GrownSize(n) == IF n < LargeMap THEN 2 * n ELSE (5 * n) \div 4

(* The key is put in the free slot its probe ends at.  A key of 0 ends at  *)
(* an empty slot, which already has that key: nothing is stored.           *)
Place(k, v) ==
    LET i == Probe(slots, size, k)
    IN  IF slots[i].key = k
        THEN UNCHANGED <<slots, count, stored>>
        ELSE /\ slots' = [slots EXCEPT ![i] = [key |-> k, value |-> v]]
             /\ count' = count + 1
             /\ stored' = [stored EXCEPT ![k] = v]

InsertMap(k, v) ==
    /\ ~Growing
    /\ ~Overloaded
    /\ Place(k, v)
    /\ UNCHANGED <<size, old, oldSize, next, pending>>

(* insert_map calls resize_map first. *)
BeginResize(k, v) ==
    /\ ~Growing
    /\ Overloaded
    /\ old' = slots
    /\ oldSize' = size
    /\ next' = 0
    /\ size' = GrownSize(size)
    /\ slots' = EmptyTable(GrownSize(size))
    /\ count' = 0
    /\ pending' = [key |-> k, value |-> v]
    /\ UNCHANGED stored

MoveSlot ==
    /\ next < oldSize
    /\ next' = next + 1
    /\ IF old[next].key # 0
       THEN /\ slots' = [slots EXCEPT ![FreeSlotFor(slots, size, old[next].key)] = old[next]]
            /\ count' = count + 1
       ELSE UNCHANGED <<slots, count>>
    /\ UNCHANGED <<size, old, oldSize, pending, stored>>

(* The old table is freed, and insert_map goes on with the new one. *)
InsertPending ==
    /\ Growing
    /\ next = oldSize
    /\ Place(pending.key, pending.value)
    /\ old' = <<>> /\ oldSize' = 0 /\ next' = 0
    /\ pending' = EmptySlot
    /\ UNCHANGED size

MapNext ==
    \/ \E k \in Hashes, v \in Entries : InsertMap(k, v) \/ BeginResize(k, v)
    \/ MoveSlot
    \/ InsertPending

MapSpec == MapInit /\ [][MapNext]_mapVars

(***************************************************************************)
(* Properties.                                                             *)
(***************************************************************************)
MapTypeOK ==
    /\ size \in Nat /\ size >= 5
    /\ slots \in [0..(size - 1) -> Slots]
    /\ count \in Nat
    /\ oldSize \in Nat
    /\ next \in 0..oldSize
    /\ pending \in Slots
    /\ stored \in [Hashes -> Entries \cup {Absent}]
    /\ oldSize # 0 =>
        /\ oldSize >= 5
        /\ old \in [0..(oldSize - 1) -> Slots]
        /\ size = GrownSize(oldSize)

(* The loops of insert_map, lookup_map and resize_map end: whatever was    *)
(* inserted, and in the middle of growing, a slot of the table is empty.   *)
(* The code has no other exit for a key that is absent (hash_map.c:232).   *)
ProbesEnd == Free(slots, size) # {}

(* What the writer deduplicates against: a lookup gives the entry the hash *)
(* was first stored with, and nothing for a hash never stored, through     *)
(* collisions, wrapped probes and any number of resizes.  Of the hash 0    *)
(* nothing is ever stored or found.                                        *)
LookupFindsStored ==
    ~Growing => \A k \in Hashes : Lookup(k) = IF k = 0 THEN Absent ELSE stored[k]
=============================================================================
