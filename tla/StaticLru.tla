------------------------------ MODULE StaticLru ------------------------------
(***************************************************************************)
(* The map of fixed size that forgets its least used entries,              *)
(* ddt/static_lru_hash_map.c: open addressing with linear probing, a count *)
(* of uses per entry that is halved now and then, and an eviction that     *)
(* leaves holes in the probe chains and then builds the table again.  The  *)
(* second table may not be had: the holes stay.  The counters of the       *)
(* statistics, off by default, are left out.                               *)
(***************************************************************************)
EXTENDS LinearProbing, FiniteSets

CONSTANTS LruKeys,         \* the keys, 0 among them
          LruValues,
          NoValue,         \* stands for no value
          LruSize,         \* map->size
          MaxUses,         \* 255, where access_count saturates
          AgingInterval,   \* STATIC_LRU_AGING_INTERVAL
          AllocFails       \* TRUE if the table of a rehash may not be had

ASSUME LruSizeAssumption == LruSize \in Nat /\ LruSize >= 5

ASSUME LruConstantsAssumption ==
    LruKeys \subseteq Nat /\ MaxUses \in Nat \ {0} /\ AgingInterval \in Nat

VARIABLES
    lru,          \* map->table
    lruCount,     \* map->count
    ageCounter,   \* map->age_counter
    holed,        \* TRUE once a rehash had no memory
    latest        \* the value each key in the table was last inserted with

lruVars == <<lru, lruCount, ageCounter, holed, latest>>

Tombstone == [key |-> 0, value |-> NoValue, uses |-> 0]
Tombstones == [i \in 0..(LruSize - 1) |-> Tombstone]

(* max_count and target_count, 0.90 and 0.75 of the size. *)
EvictAt == (9 * LruSize) \div 10
TargetCount == (3 * LruSize) \div 4

LruUsed == Used(lru, LruSize)

LruProbe(t, k) == Probe(t, LruSize, k)

(* static_lru_lookup_map and static_lru_contains_key *)
LruFinds(t, k) == k # 0 /\ t[LruProbe(t, k)].key = k

(***************************************************************************)
(* evict_lru_entries and rehash_in_place.                                  *)
(***************************************************************************)

AtOrBelow(u) == {i \in LruUsed : lru[i].uses <= u}

(* Mutant of Cutoff: the histogram is summed one bucket too far. *)
CutoffOneMore(n) ==
    CHOOSE u \in 1..(MaxUses + 1) :
        /\ Cardinality(AtOrBelow(u - 1)) >= n
        /\ \A w \in 0..(u - 2) : Cardinality(AtOrBelow(w)) < n

(* The least count of uses that enough entries do not exceed. *)
Cutoff(n) ==
    CHOOSE u \in 0..MaxUses :
        /\ Cardinality(AtOrBelow(u)) >= n
        /\ \A w \in 0..(u - 1) : Cardinality(AtOrBelow(w)) < n

Excess(keep) ==
    LET target == IF keep = 0 THEN TargetCount ELSE keep
    IN  IF lruCount <= target THEN 0 ELSE lruCount - target

(* The slots an eviction down to keep entries empties: the first ones of   *)
(* those at or below the cutoff, in the order of the table.                *)
Evicted(keep) ==
    IF Excess(keep) = 0 THEN {}
    ELSE LET cold == AtOrBelow(Cutoff(Excess(keep)))
         IN  {i \in cold : Cardinality({j \in cold : j < i}) < Excess(keep)}

WithHoles(gone) == [i \in 0..(LruSize - 1) |-> IF i \in gone THEN Tombstone ELSE lru[i]]

(* The entry goes to the first free slot: keys are not compared. *)
Reinsert(t, e) ==
    IF e.key = 0 THEN t
    ELSE [t EXCEPT ![FirstIn(e.key % LruSize, Free(t, LruSize), LruSize)] = e]

(* Mutant of Rehashed: the holes are left in the chains. *)
NotRehashed(t) == t

(* The entries that are left, each put again where its probe ends. *)
Rehashed(t) ==
    LET put[n \in 0..LruSize] == IF n = 0 THEN Tombstones ELSE Reinsert(put[n - 1], t[n - 1])
    IN  put[LruSize]

AfterEviction(keep, ok) ==
    IF Evicted(keep) = {} THEN lru
    ELSE IF ok THEN Rehashed(WithHoles(Evicted(keep)))
    ELSE WithHoles(Evicted(keep))

KeysIn(t) == {t[i].key : i \in 0..(LruSize - 1)} \ {0}

(* The table after age_access_counts. *)
Aged(t) ==
    [i \in 0..(LruSize - 1) |->
        IF t[i].key # 0 /\ t[i].uses > 1
        THEN [t[i] EXCEPT !.uses = (t[i].uses + 1) \div 2]
        ELSE t[i]]

(***************************************************************************)
(* The operations.                                                         *)
(***************************************************************************)
LruInit ==
    /\ lru = Tombstones
    /\ lruCount = 0
    /\ ageCounter = 0
    /\ holed = FALSE
    /\ latest = [k \in LruKeys |-> NoValue]

Used1More(e) == IF e.uses < MaxUses THEN e.uses + 1 ELSE e.uses

(* What an insertion does to the table t that eviction and aging have left.*)
(* The key 0 is taken for one that exists: the code writes to the empty    *)
(* slot its probe ends at, which stays empty and is never read.            *)
PutIn(t, n, k, v) ==
    LET i == LruProbe(t, k)
        isNew == t[i].key # k
        uses == IF isNew THEN 1 ELSE Used1More(t[i])
    IN  /\ lru' = IF k = 0 THEN t
                 ELSE [t EXCEPT ![i] = [key |-> k, value |-> v, uses |-> uses]]
        /\ lruCount' = IF isNew THEN n + 1 ELSE n
        /\ latest' = [j \in LruKeys |->
                        IF holed' \/ j \notin KeysIn(lru') THEN NoValue
                        ELSE IF j = k THEN v ELSE latest[j]]

LruInsert(k, v, ok) ==
    LET evicts == lruCount >= EvictAt
        t == IF evicts THEN AfterEviction(0, ok) ELSE lru
        n == IF evicts THEN lruCount - Excess(0) ELSE lruCount
        ages == ageCounter + 1 >= AgingInterval
    IN  /\ ok \/ (AllocFails /\ ~holed /\ evicts)
        /\ holed' = (holed \/ ~ok)
        /\ ageCounter' = IF ages THEN 0 ELSE ageCounter + 1
        /\ PutIn(IF ages THEN Aged(t) ELSE t, n, k, v)

LruLookup(k) ==
    /\ LruFinds(lru, k)
    /\ lru' = [lru EXCEPT ![LruProbe(lru, k)].uses = Used1More(lru[LruProbe(lru, k)])]
    /\ UNCHANGED <<lruCount, ageCounter, holed, latest>>

LruEvict(keep, ok) ==
    /\ Excess(keep) > 0
    /\ ok \/ (AllocFails /\ ~holed)
    /\ holed' = (holed \/ ~ok)
    /\ lru' = AfterEviction(keep, ok)
    /\ lruCount' = lruCount - Excess(keep)
    /\ latest' = [j \in LruKeys |->
                    IF holed' \/ j \notin KeysIn(lru') THEN NoValue ELSE latest[j]]
    /\ UNCHANGED ageCounter

LruAgeCounts ==
    /\ lru' = Aged(lru)
    /\ ageCounter' = 0
    /\ UNCHANGED <<lruCount, holed, latest>>

LruNext ==
    \/ \E k \in LruKeys, v \in LruValues, ok \in BOOLEAN : LruInsert(k, v, ok)
    \/ \E k \in LruKeys : LruLookup(k)
    \/ \E keep \in 0..LruSize, ok \in BOOLEAN : LruEvict(keep, ok)
    \/ LruAgeCounts

LruSpec == LruInit /\ [][LruNext]_lruVars

(***************************************************************************)
(* Properties.                                                             *)
(***************************************************************************)

(* As long as every rehash had its memory, a hit is the value the key was  *)
(* last inserted with, and every key that was not evicted is hit, through  *)
(* collisions, evictions in the middle of a chain and aging.  A slot is    *)
(* always empty, so that a miss ends, even after a rehash that failed.     *)
LruHitIsLatest ==
    /\ lruCount = Cardinality(LruUsed) /\ lruCount < LruSize
    /\ ~holed => \A k \in LruKeys \ {0} :
                    IF LruFinds(lru, k) THEN lru[LruProbe(lru, k)].value = latest[k]
                                        ELSE latest[k] = NoValue

(* An eviction takes a colder entry than it leaves, but for fewer of them  *)
(* than it removes: no entry goes that enough others could go before.  It  *)
(* does not take the coldest first (static_lru_hash_map.c:173).            *)
EvictsCold ==
    \A keep \in 0..LruSize : \A i \in Evicted(keep) :
        Cardinality({j \in LruUsed : lru[j].uses < lru[i].uses}) < Excess(keep)
=============================================================================
