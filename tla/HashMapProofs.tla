---------------------------- MODULE HashMapProofs ----------------------------
(***************************************************************************)
(* For tables of every size and every set of keys: the probes of both maps *)
(* end, a lookup of HashMap finds what was stored, a hit of StaticLru is   *)
(* the latest value, and an eviction takes cold entries.                   *)
(*                                                                         *)
(* Both inductive invariants, MapInv and LruInv, say that no probe chain   *)
(* has a hole (Chained), that no key is in the table twice (NoTwins), that *)
(* what is in the table is what was stored and all of it, and, by          *)
(* counting, that a slot is left empty.  MapInv says it of the entries yet *)
(* to be moved too; LruInv drops all but the count once a rehash failed.   *)
(***************************************************************************)
EXTENDS HashMap, StaticLru, FiniteSetTheorems, WellFoundedInduction, TLAPS

Tables(n) == [0..(n - 1) -> Slots]

NoTwins(t, n) == \A i, j \in Used(t, n) : t[i].key = t[j].key => i = j

Chained(t, n) ==
    \A i \in Used(t, n) : \A j \in Passed(t[i].key % n, i, n) : t[j].key # 0

HoldsStored(t, n) == \A i \in Used(t, n) : stored[t[i].key] = t[i].value

InSlots(k) == \E i \in Used(slots, size) : slots[i].key = k
ToMove(k) == \E j \in next..(oldSize - 1) : old[j].key = k

Moved == {i \in 0..(next - 1) : old[i].key # 0}

GrowingInv ==
    /\ NoTwins(old, oldSize)
    /\ HoldsStored(old, oldSize)
    /\ 4 * Cardinality(Used(old, oldSize)) <= 3 * oldSize + 4
    /\ count = Cardinality(Moved)
    /\ \A k \in Hashes \ {0} : ~(InSlots(k) /\ ToMove(k))

MapInv ==
    /\ MapTypeOK
    /\ count = Cardinality(Used(slots, size))
    /\ NoTwins(slots, size)
    /\ Chained(slots, size)
    /\ HoldsStored(slots, size)
    /\ ~Growing => 4 * count <= 3 * size + 4
    /\ Growing => GrowingInv
    /\ \A k \in Hashes : stored[k] # Absent => k # 0 /\ (InSlots(k) \/ (Growing /\ ToMove(k)))

(***************************************************************************)
(* Probing.                                                                *)
(***************************************************************************)
LEMMA HomeInTable ==
  ASSUME NEW k \in Nat, NEW n \in Nat, n >= 1
  PROVE  k % n \in 0..(n - 1)
BY SMT

(* By the sets of what is not greater, ordered by inclusion. *)
LEMMA LeastElement ==
  ASSUME NEW T, T \subseteq Nat, T # {}
  PROVE  \E x \in T : \A y \in T : x <= y
<1> DEFINE UpTo(x) == 0..x
           P == {UpTo(x) : x \in T}
           R == StrictSubsetOrdering(Nat)
           F == FiniteSubsetsOf(Nat)
<1>1. P \subseteq F
  <2>1. \A x \in T : 0..x \in SUBSET Nat /\ IsFiniteSet(0..x)
    BY FS_Interval
  <2> QED BY <2>1 DEF FiniteSubsetsOf
<1>2. P # {}
  OBVIOUS
<1>3. IsWellFoundedOn(R, F)
  BY FS_StrictSubsetOrderingWellFounded
<1>4. PICK q \in P : \A r \in P : <<r, q>> \notin R
  <2> HIDE DEF P, R, F
  <2> QED BY <1>1, <1>2, <1>3, WFMin
<1>5. PICK x \in T : q = 0..x
  BY <1>4
<1>6. ASSUME NEW y \in T, y < x
      PROVE  FALSE
  <2>1. 0..y \in P /\ 0..y \in SUBSET Nat /\ 0..x \in SUBSET Nat
    OBVIOUS
  <2>2. 0..y \subseteq 0..x /\ 0..y # 0..x
    <3>1. x \in 0..x /\ x \notin 0..y
      BY <1>6
    <3>2. \A z \in 0..y : z \in 0..x
      BY <1>6
    <3> QED BY <3>1, <3>2
  <2>3. <<0..y, 0..x>> \in R
    BY <2>1, <2>2 DEF StrictSubsetOrdering
  <2> QED BY <1>4, <1>5, <2>1, <2>3
<1>7. \A y \in T : x <= y
  BY <1>6
<1> QED BY <1>7

(* From any slot on, a probe reaches a set of slots that is not empty. *)
LEMMA FirstInFound ==
  ASSUME NEW n \in Nat, NEW h \in 0..(n - 1),
         NEW S \in SUBSET (0..(n - 1)), S # {}
  PROVE  /\ FirstIn(h, S, n) \in S
         /\ Passed(h, FirstIn(h, S, n), n) \cap S = {}
<1>1. \E i \in S : Passed(h, i, n) \cap S = {}
  <2>1. CASE S \cap h..(n - 1) # {}
    <3>1. PICK i \in S \cap h..(n - 1) : \A y \in S \cap h..(n - 1) : i <= y
      <4>1. S \cap h..(n - 1) \subseteq Nat
        OBVIOUS
      <4> QED BY <2>1, <4>1, LeastElement
    <3>2. Passed(h, i, n) \cap S = {}
      BY <3>1 DEF Passed
    <3> QED BY <3>1, <3>2
  <2>2. CASE S \cap h..(n - 1) = {}
    <3>1. PICK i \in S : \A y \in S : i <= y
      <4>1. S \subseteq Nat
        OBVIOUS
      <4> QED BY <4>1, LeastElement
    <3>2. i < h
      BY <2>2
    <3>3. Passed(h, i, n) = h..(n - 1) \cup 0..(i - 1)
      BY <3>2 DEF Passed
    <3>4. 0..(i - 1) \cap S = {}
      BY <3>1
    <3> QED BY <2>2, <3>3, <3>4
  <2> QED BY <2>1, <2>2
<1> QED BY <1>1 DEF FirstIn

(* Of two slots, a probe passes one on its way to the other. *)
LEMMA PassedOrder ==
  ASSUME NEW n \in Nat, NEW h \in 0..(n - 1),
         NEW i \in 0..(n - 1), NEW j \in 0..(n - 1), i # j
  PROVE  i \in Passed(h, j, n) \/ j \in Passed(h, i, n)
BY DEF Passed

LEMMA PassedInTable ==
  ASSUME NEW n \in Nat, NEW h \in 0..(n - 1), NEW i \in 0..(n - 1)
  PROVE  Passed(h, i, n) \subseteq 0..(n - 1) /\ i \notin Passed(h, i, n)
BY DEF Passed

LEMMA SlotFields ==
  ASSUME NEW n \in Nat, NEW t \in Tables(n), NEW i \in 0..(n - 1)
  PROVE  t[i] \in Slots /\ t[i].key \in Nat /\ t[i].value \in Entries \cup {Absent}
<1>1. t[i] \in Slots
  <2>1. t \in [0..(n - 1) -> Slots]
    BY DEF Tables
  <2> QED BY <2>1
<1>2. t[i].key \in Hashes \cup {0} /\ t[i].value \in Entries \cup {Absent}
  BY <1>1 DEF Slots
<1>3. \A k \in Hashes \cup {0} : k \in Nat
  BY HashesAssumption
<1> QED BY <1>1, <1>2, <1>3, Zenon

LEMMA SlotKeys == \A x \in Slots : x.key \in Nat
<1>1. \A x \in Slots : x.key \in Hashes \cup {0}
  BY DEF Slots
<1>2. \A k \in Hashes \cup {0} : k \in Nat
  BY HashesAssumption
<1> QED BY <1>1, <1>2, Zenon

(* A probe for a key ends at the slot that has it or, when none has, at a  *)
(* free one, and no slot before that is free.                              *)
LEMMA ProbeFinds ==
  ASSUME NEW n \in Nat, n >= 1, NEW t, NEW k \in Nat \ {0},
         Free(t, n) # {}, Chained(t, n)
  PROVE  /\ Probe(t, n, k) \in 0..(n - 1)
         /\ t[Probe(t, n, k)].key \in {0, k}
         /\ \A j \in Passed(k % n, Probe(t, n, k), n) : t[j].key # 0
         /\ t[Probe(t, n, k)].key = 0 => \A i \in Used(t, n) : t[i].key # k
<1> DEFINE S == FreeOrOf(t, n, k)
           h == k % n
           p == Probe(t, n, k)
<1>1. h \in 0..(n - 1)
  BY HomeInTable
<1>2. S \in SUBSET (0..(n - 1)) /\ S # {}
  BY DEF Free, FreeOrOf
<1>3. p \in S /\ Passed(h, p, n) \cap S = {}
  <2> HIDE DEF S, h
  <2>1. p = FirstIn(h, S, n)
    BY DEF Probe, S, h
  <2> QED BY <1>1, <1>2, <2>1, FirstInFound
<1>4. p \in 0..(n - 1) /\ t[p].key \in {0, k}
  BY <1>3 DEF FreeOrOf
<1> HIDE DEF p
<1>5. \A j \in Passed(h, p, n) : j \in 0..(n - 1) /\ t[j].key \notin {0, k}
  BY <1>1, <1>3, <1>4, PassedInTable DEF FreeOrOf
<1>6. ASSUME t[p].key = 0, NEW i \in Used(t, n), t[i].key = k
      PROVE  FALSE
  <2>1. i \in 0..(n - 1) /\ i # p
    BY <1>6 DEF Used
  <2>2. i \notin Passed(h, p, n)
    BY <1>5, <1>6
  <2>3. p \in Passed(h, i, n)
    BY <1>1, <1>4, <2>1, <2>2, PassedOrder
  <2> QED BY <1>6, <2>3 DEF Chained
<1> QED BY <1>4, <1>5, <1>6 DEF p

(* The probe of resize_map ends at a free slot, with none before it. *)
LEMMA FreeSlotFound ==
  ASSUME NEW n \in Nat, n >= 1, NEW t, NEW k \in Nat, Free(t, n) # {}
  PROVE  /\ FreeSlotFor(t, n, k) \in 0..(n - 1)
         /\ t[FreeSlotFor(t, n, k)].key = 0
         /\ \A j \in Passed(k % n, FreeSlotFor(t, n, k), n) : t[j].key # 0
<1> DEFINE S == Free(t, n)
           h == k % n
           p == FreeSlotFor(t, n, k)
<1>1. h \in 0..(n - 1)
  BY HomeInTable
<1>2. S \in SUBSET (0..(n - 1)) /\ S # {}
  BY DEF Free
<1>3. p \in S /\ Passed(h, p, n) \cap S = {}
  <2> HIDE DEF S, h
  <2>1. p = FirstIn(h, S, n)
    BY DEF FreeSlotFor, S, h
  <2> QED BY <1>1, <1>2, <2>1, FirstInFound
<1>4. p \in 0..(n - 1) /\ t[p].key = 0
  BY <1>3 DEF Free
<1> HIDE DEF p
<1>5. \A j \in Passed(h, p, n) : t[j].key # 0
  BY <1>1, <1>3, <1>4, PassedInTable DEF Free
<1> QED BY <1>4, <1>5 DEF p

(***************************************************************************)
(* Filling a slot, and counting.                                           *)
(***************************************************************************)
LEMMA UsedIsFinite ==
  ASSUME NEW n \in Nat, NEW t
  PROVE  /\ IsFiniteSet(Used(t, n)) /\ Cardinality(Used(t, n)) \in Nat
         /\ Cardinality(Used(t, n)) <= n
         /\ Cardinality(Used(t, n)) < n => Free(t, n) # {}
<1>1. IsFiniteSet(0..(n - 1)) /\ Cardinality(0..(n - 1)) = n
  BY FS_Interval
<1>2. Used(t, n) \in SUBSET (0..(n - 1))
  BY DEF Used
<1>3. /\ IsFiniteSet(Used(t, n))
      /\ Cardinality(Used(t, n)) <= n
  BY <1>1, <1>2, FS_Subset
<1>4. Cardinality(Used(t, n)) \in Nat
  BY <1>3, FS_CardinalityType
<1>5. Free(t, n) = {} => Used(t, n) = 0..(n - 1)
  BY DEF Free, Used
<1> QED BY <1>1, <1>3, <1>4, <1>5

(* A free slot of a table of entries of S, for the entry e. *)
Fillable(t, n, e, p, S) ==
    /\ n >= 1
    /\ t \in [0..(n - 1) -> S]
    /\ e \in S /\ e.key # 0
    /\ \A x \in S : x.key \in Nat
    /\ p \in 0..(n - 1) /\ t[p].key = 0

NoneFreeBefore(t, n, k, p) == \A j \in Passed(k % n, p, n) : t[j].key # 0

Lacks(t, n, k) == \A i \in Used(t, n) : t[i].key # k

IsFilled(u, t, n, e, p, S) ==
    /\ u \in [0..(n - 1) -> S]
    /\ Used(u, n) = Used(t, n) \cup {p}
    /\ p \notin Used(t, n)
    /\ u[p] = e /\ \A i \in 0..(n - 1) : i # p => u[i] = t[i]
    /\ Cardinality(Used(u, n)) = Cardinality(Used(t, n)) + 1

LEMMA FillSlot ==
  ASSUME NEW n \in Nat, NEW t, NEW e, NEW p, NEW S, Fillable(t, n, e, p, S),
         NEW u, u = [t EXCEPT ![p] = e]
  PROVE  IsFilled(u, t, n, e, p, S)
<1>0. /\ n >= 1 /\ t \in [0..(n - 1) -> S] /\ e \in S /\ e.key # 0
      /\ p \in 0..(n - 1) /\ t[p].key = 0
  BY DEF Fillable
<1>1. u \in [0..(n - 1) -> S]
  BY <1>0
<1>2. u[p] = e /\ \A i \in 0..(n - 1) : i # p => u[i] = t[i]
  BY <1>0
<1>3. Used(u, n) = Used(t, n) \cup {p} /\ p \notin Used(t, n)
  BY <1>0, <1>2 DEF Used
<1>4. Cardinality(Used(u, n)) = Cardinality(Used(t, n)) + 1
  BY <1>3, UsedIsFinite, FS_AddElement
<1> QED BY <1>1, <1>2, <1>3, <1>4 DEF IsFilled

LEMMA FilledHasNoTwins ==
  ASSUME NEW n \in Nat, NEW t, NEW e, NEW p, NEW S, NEW u, IsFilled(u, t, n, e, p, S),
         NoTwins(t, n), Lacks(t, n, e.key)
  PROVE  NoTwins(u, n)
<1>1. \A i \in Used(t, n) : u[i] = t[i] /\ i # p
  BY DEF IsFilled, Used
<1> QED BY <1>1 DEF IsFilled, NoTwins, Lacks

LEMMA FilledIsChained ==
  ASSUME NEW n \in Nat, NEW t, NEW e, NEW p, NEW S, Fillable(t, n, e, p, S),
         NEW u, IsFilled(u, t, n, e, p, S),
         Chained(t, n), NoneFreeBefore(t, n, e.key, p)
  PROVE  Chained(u, n)
<1>1. /\ n >= 1 /\ e.key # 0 /\ p \in 0..(n - 1) /\ \A x \in S : x.key \in Nat
  BY DEF Fillable
<1>2. /\ u \in [0..(n - 1) -> S] /\ Used(u, n) = Used(t, n) \cup {p}
      /\ u[p] = e /\ \A i \in 0..(n - 1) : i # p => u[i] = t[i]
      /\ p \notin Used(t, n)
  BY DEF IsFilled
<1>3. \A i \in Used(t, n) : u[i] = t[i] /\ i \in 0..(n - 1)
  BY <1>2 DEF Used
<1>4. ASSUME NEW i \in Used(u, n), NEW j \in Passed(u[i].key % n, i, n), u[j].key = 0
      PROVE  FALSE
  <2>1. i \in 0..(n - 1) /\ u[i].key \in Nat
    BY <1>1, <1>2 DEF Used
  <2>2. j \in 0..(n - 1)
    BY <1>1, <1>4, <2>1, HomeInTable, PassedInTable
  <2>3. j # p /\ t[j].key = 0
    BY <1>1, <1>2, <1>4, <2>2
  <2>4. CASE i = p
    BY <1>2, <1>4, <2>3, <2>4 DEF NoneFreeBefore
  <2>5. CASE i \in Used(t, n)
    BY <1>3, <1>4, <2>3, <2>5 DEF Chained
  <2> QED BY <1>2, <2>4, <2>5
<1> QED BY <1>4 DEF Chained

(***************************************************************************)
(* What insert_map and resize_map keep.                                    *)
(***************************************************************************)
LEMMA GrownSizeGrows ==
  ASSUME NEW n \in Nat, n >= 5
  PROVE  GrownSize(n) \in Nat /\ GrownSize(n) >= n + 2
BY MapSizeAssumption DEF GrownSize

(* The table before Place, and after it. *)
TableInv ==
    /\ size \in Nat /\ size >= 5
    /\ slots \in Tables(size)
    /\ count \in Nat
    /\ stored \in [Hashes -> Entries \cup {Absent}]
    /\ count = Cardinality(Used(slots, size))
    /\ NoTwins(slots, size)
    /\ Chained(slots, size)
    /\ HoldsStored(slots, size)
    /\ \A k \in Hashes : stored[k] # Absent => k # 0 /\ InSlots(k)

LEMMA PlaceSafe ==
  ASSUME TableInv, Free(slots, size) # {}, size' = size,
         NEW k \in Hashes \cup {0}, NEW v \in Entries \cup {Absent}, Place(k, v)
  PROVE  TableInv' /\ count' <= count + 1
<1> DEFINE p == Probe(slots, size, k)
           e == [key |-> k, value |-> v]
<1>1. k \in Nat /\ e \in Slots /\ e.key = k /\ e.value = v
  BY HashesAssumption DEF Slots
<1>2. /\ size \in Nat /\ size >= 1 /\ slots \in Tables(size)
      /\ NoTwins(slots, size) /\ Chained(slots, size) /\ HoldsStored(slots, size)
      /\ count = Cardinality(Used(slots, size)) /\ count \in Nat
      /\ stored \in [Hashes -> Entries \cup {Absent}]
  BY DEF TableInv
<1>3. CASE slots[p].key = k
  <2>1. UNCHANGED <<slots, count, stored>>
    BY <1>3 DEF Place
  <2>2. TableInv'
    BY <2>1 DEF TableInv, NoTwins, Chained, HoldsStored, Used, Passed, InSlots, Tables
  <2>3. count' <= count + 1
    BY <1>2, <2>1
  <2> QED BY <2>2, <2>3
<1>4. CASE slots[p].key # k
  <2>1. k # 0
    <3>1. ASSUME k = 0 PROVE slots[p].key = 0
      <4>1. FreeOrOf(slots, size, k) = Free(slots, size)
        BY <3>1 DEF FreeOrOf, Free
      <4>2. p = FreeSlotFor(slots, size, k)
        BY <4>1 DEF Probe, FreeSlotFor
      <4> QED BY <1>1, <1>2, <4>2, FreeSlotFound
    <3> QED BY <1>4, <3>1
  <2>2. k \in Hashes \ {0} /\ k \in Nat \ {0}
    BY <1>1, <2>1
  <2>3. /\ p \in 0..(size - 1)
        /\ slots[p].key = 0
        /\ \A j \in Passed(k % size, p, size) : slots[j].key # 0
        /\ \A i \in Used(slots, size) : slots[i].key # k
    BY <1>2, <1>4, <2>2, ProbeFinds
  <2>4. /\ slots' = [slots EXCEPT ![p] = e]
        /\ count' = count + 1
        /\ stored' = [stored EXCEPT ![k] = v]
    BY <1>4 DEF Place
  <2> HIDE DEF p, e
  <2>5. /\ slots' \in Tables(size)
        /\ Used(slots', size) = Used(slots, size) \cup {p}
        /\ p \notin Used(slots, size)
        /\ slots'[p] = e /\ \A i \in 0..(size - 1) : i # p => slots'[i] = slots[i]
        /\ Cardinality(Used(slots', size)) = Cardinality(Used(slots, size)) + 1
        /\ NoTwins(slots', size)
        /\ Chained(slots', size)
    <3>1. Fillable(slots, size, e, p, Slots)
      BY <1>1, <1>2, <2>1, <2>3, SlotKeys DEF Fillable, Tables
    <3>2. size \in Nat /\ slots' = [slots EXCEPT ![p] = e]
      BY <1>2, <2>4
    <3>3. IsFilled(slots', slots, size, e, p, Slots)
      BY <3>1, <3>2, FillSlot
    <3>4. NoTwins(slots', size)
      <4>1. Lacks(slots, size, e.key)
        BY <1>1, <2>3 DEF Lacks
      <4> QED BY <1>2, <3>2, <3>3, <4>1, FilledHasNoTwins
    <3>5. Chained(slots', size)
      <4>1. NoneFreeBefore(slots, size, e.key, p)
        BY <1>1, <2>3 DEF NoneFreeBefore
      <4> QED BY <1>2, <3>1, <3>2, <3>3, <4>1, FilledIsChained
    <3> QED BY <3>3, <3>4, <3>5 DEF IsFilled, Tables
  <2>6. \A i \in Used(slots, size) : i # p /\ slots'[i] = slots[i]
    BY <2>5 DEF Used
  <2>7. /\ stored' \in [Hashes -> Entries \cup {Absent}]
        /\ stored'[k] = v /\ \A h \in Hashes : h # k => stored'[h] = stored[h]
    BY <1>2, <2>2, <2>4
  <2>8. \A i \in Used(slots', size) : stored'[slots'[i].key] = slots'[i].value
    <3> SUFFICES ASSUME NEW i \in Used(slots', size)
                 PROVE  stored'[slots'[i].key] = slots'[i].value
      OBVIOUS
    <3>1. CASE i = p
      BY <1>1, <2>5, <2>7, <3>1
    <3>2. CASE i \in Used(slots, size)
      <4>1. slots[i].key \in Hashes
        <5>1. slots[i] \in Slots /\ slots[i].key # 0
          BY <1>2, <3>2, SlotFields DEF Used
        <5> QED BY <5>1 DEF Slots
      <4> QED BY <1>2, <2>3, <2>6, <2>7, <3>2, <4>1 DEF HoldsStored
    <3> QED BY <2>5, <3>1, <3>2
  <2>9. \A h \in Hashes : stored'[h] # Absent =>
            h # 0 /\ \E i \in Used(slots', size) : slots'[i].key = h
    <3> SUFFICES ASSUME NEW h \in Hashes, stored'[h] # Absent
                 PROVE  h # 0 /\ \E i \in Used(slots', size) : slots'[i].key = h
      OBVIOUS
    <3>1. CASE h = k
      BY <1>1, <2>1, <2>5, <3>1
    <3>2. CASE h # k
      <4>1. h # 0 /\ InSlots(h)
        BY <2>7, <3>2 DEF TableInv
      <4> QED BY <2>5, <2>6, <4>1 DEF InSlots
    <3> QED BY <3>1, <3>2
  <2>10. HoldsStored(slots, size)'
    BY <2>8 DEF HoldsStored, Used
  <2>11. \A h \in Hashes : stored'[h] # Absent => h # 0 /\ InSlots(h)'
    BY <2>9 DEF InSlots, Used
  <2>12. NoTwins(slots, size)' /\ Chained(slots, size)' /\ slots' \in Tables(size')
    BY <2>5 DEF NoTwins, Chained, Used, Passed
  <2>13. count' \in Nat /\ count' = Cardinality(Used(slots, size))'
    BY <1>2, <2>4, <2>5 DEF Used
  <2> QED BY <1>2, <2>4, <2>7, <2>10, <2>11, <2>12, <2>13 DEF TableInv, Tables
<1> QED BY <1>3, <1>4

(* No more entries have been moved than the old table has. *)
LEMMA MovedIsBounded ==
  ASSUME MapInv, Growing
  PROVE  /\ IsFiniteSet(Moved)
         /\ 4 * count <= 3 * oldSize + 4
         /\ oldSize \in Nat /\ oldSize >= 5 /\ size >= oldSize + 2
<1>1. /\ oldSize \in Nat /\ oldSize >= 5 /\ next \in 0..oldSize
      /\ size = GrownSize(oldSize)
  BY DEF MapInv, MapTypeOK, Growing
<1>2. Moved \in SUBSET Used(old, oldSize)
  BY <1>1 DEF Moved, Used
<1>3. /\ IsFiniteSet(Used(old, oldSize))
      /\ Cardinality(Used(old, oldSize)) \in Nat
  BY <1>1, UsedIsFinite
<1>4. IsFiniteSet(Moved) /\ Cardinality(Moved) <= Cardinality(Used(old, oldSize))
  BY <1>2, <1>3, FS_Subset
<1>5. Cardinality(Moved) \in Nat
  BY <1>4, FS_CardinalityType
<1>6. /\ 4 * Cardinality(Used(old, oldSize)) <= 3 * oldSize + 4
      /\ count = Cardinality(Moved)
  BY DEF MapInv, GrowingInv
<1>7. 4 * count <= 3 * oldSize + 4
  BY <1>1, <1>3, <1>4, <1>5, <1>6
<1> QED BY <1>1, <1>4, <1>7, GrownSizeGrows

LEMMA RoomLeft ==
  ASSUME MapInv
  PROVE  Free(slots, size) # {}
<1>1. /\ size \in Nat /\ size >= 5 /\ count \in Nat
      /\ count = Cardinality(Used(slots, size))
  BY DEF MapInv, MapTypeOK
<1>2. count < size
  <2>1. CASE Growing
    BY <1>1, <2>1, MovedIsBounded
  <2>2. CASE ~Growing
    <3>1. 4 * count <= 3 * size + 4
      BY <2>2 DEF MapInv
    <3> QED BY <1>1, <3>1
  <2> QED BY <2>1, <2>2
<1> QED BY <1>1, <1>2, UsedIsFinite

LEMMA InsertMapSafe ==
  ASSUME MapInv, NEW k \in Hashes, NEW v \in Entries, InsertMap(k, v)
  PROVE  MapInv'
<1>1. /\ ~Growing /\ ~Overloaded /\ Place(k, v)
      /\ UNCHANGED <<size, old, oldSize, next, pending>>
  BY DEF InsertMap
<1>2. TableInv
  BY <1>1 DEF MapInv, MapTypeOK, TableInv, Tables
<1>3. TableInv' /\ count' <= count + 1
  BY <1>1, <1>2, RoomLeft, PlaceSafe
<1>4. MapTypeOK'
  BY <1>1, <1>3 DEF MapInv, MapTypeOK, TableInv, Tables, Growing
<1>5. 4 * count' <= 3 * size' + 4
  BY <1>1, <1>2, <1>3 DEF Overloaded, TableInv
<1>6. ~Growing'
  BY <1>1 DEF Growing
<1> QED BY <1>3, <1>4, <1>5, <1>6 DEF MapInv, TableInv

LEMMA InsertPendingSafe ==
  ASSUME MapInv, InsertPending
  PROVE  MapInv'
<1>1. /\ Growing /\ next = oldSize /\ Place(pending.key, pending.value)
      /\ old' = <<>> /\ oldSize' = 0 /\ next' = 0 /\ pending' = EmptySlot /\ size' = size
  BY DEF InsertPending
<1>2. pending.key \in Hashes \cup {0} /\ pending.value \in Entries \cup {Absent}
  <2>1. pending \in Slots
    BY DEF MapInv, MapTypeOK
  <2> QED BY <2>1 DEF Slots
<1>3. \A k \in Hashes : ~ToMove(k)
  BY <1>1 DEF ToMove, MapInv, MapTypeOK
<1>4. TableInv
  BY <1>3 DEF MapInv, MapTypeOK, TableInv, Tables
<1>5. TableInv' /\ count' <= count + 1
  BY <1>1, <1>2, <1>4, RoomLeft, PlaceSafe
<1>6. MapTypeOK'
  <2>1. EmptySlot \in Slots
    BY DEF EmptySlot, Slots
  <2> QED BY <1>1, <1>5, <2>1 DEF MapTypeOK, TableInv, Tables
<1>7. 4 * count' <= 3 * size' + 4
  <2>1. /\ 4 * count <= 3 * oldSize + 4 /\ size >= oldSize + 2 /\ oldSize \in Nat
    BY <1>1, MovedIsBounded
  <2>2. count' \in Nat /\ count \in Nat /\ size' = size /\ size \in Nat /\ count' <= count + 1
    BY <1>1, <1>4, <1>5 DEF TableInv
  <2>3. \A c, d, m, n \in Nat : 4 * c <= 3 * m + 4 /\ n >= m + 2 /\ d <= c + 1
                                => 4 * d <= 3 * n + 4
    OBVIOUS
  <2> QED BY <2>1, <2>2, <2>3
<1>8. ~Growing'
  BY <1>1 DEF Growing
<1> QED BY <1>5, <1>6, <1>7, <1>8 DEF MapInv, TableInv

LEMMA BeginResizeSafe ==
  ASSUME MapInv, NEW k \in Hashes, NEW v \in Entries, BeginResize(k, v)
  PROVE  MapInv'
<1>1. /\ ~Growing /\ old' = slots /\ oldSize' = size /\ next' = 0
      /\ size' = GrownSize(size) /\ slots' = EmptyTable(GrownSize(size)) /\ count' = 0
      /\ pending' = [key |-> k, value |-> v] /\ stored' = stored
  BY DEF BeginResize
<1>2. /\ size \in Nat /\ size >= 5 /\ slots \in [0..(size - 1) -> Slots]
      /\ stored \in [Hashes -> Entries \cup {Absent}]
  BY DEF MapInv, MapTypeOK
<1>3. size' \in Nat /\ size' >= 5
  BY <1>1, <1>2, GrownSizeGrows
<1>4. slots' \in [0..(size' - 1) -> Slots] /\ \A i \in 0..(size' - 1) : slots'[i].key = 0
  BY <1>1 DEF EmptyTable, EmptySlot, Slots
<1>5. MapTypeOK'
  <2>1. [key |-> k, value |-> v] \in Slots
    BY DEF Slots
  <2>2. slots' \in [0..(size' - 1) -> Slots] /\ size' \in Nat /\ size' >= 5
    BY <1>3, <1>4
  <2>3. count' \in Nat /\ oldSize' \in Nat /\ next' \in 0..oldSize' /\ pending' \in Slots
    BY <1>1, <1>2, <2>1
  <2>4. stored' \in [Hashes -> Entries \cup {Absent}]
    BY <1>1, <1>2
  <2>5. /\ oldSize' >= 5 /\ old' \in [0..(oldSize' - 1) -> Slots]
        /\ size' = GrownSize(oldSize')
    BY <1>1, <1>2
  <2> QED BY <2>2, <2>3, <2>4, <2>5 DEF MapTypeOK, GrownSize
<1>6. Used(slots, size)' = {}
  BY <1>4 DEF Used
<1>7. /\ count' = Cardinality(Used(slots, size)')
      /\ NoTwins(slots, size)' /\ Chained(slots, size)' /\ HoldsStored(slots, size)'
  BY <1>1, <1>6, FS_EmptySet DEF NoTwins, Chained, HoldsStored
<1>8. Growing'
  BY <1>1, <1>2 DEF Growing
<1>9. GrowingInv'
  <2>1. NoTwins(old, oldSize)' /\ HoldsStored(old, oldSize)'
    BY <1>1 DEF MapInv, NoTwins, HoldsStored, Used
  <2>2. (4 * Cardinality(Used(old, oldSize)) <= 3 * oldSize + 4)'
    BY <1>1 DEF MapInv, Used
  <2>3. count' = Cardinality(Moved')
    <3>1. Moved' = {}
      BY <1>1 DEF Moved
    <3> QED BY <1>1, <3>1, FS_EmptySet
  <2>4. \A h \in Hashes : ~InSlots(h)'
    BY <1>6 DEF InSlots
  <2> QED BY <2>1, <2>2, <2>3, <2>4 DEF GrowingInv
<1>10. ASSUME NEW h \in Hashes, stored'[h] # Absent
       PROVE  h # 0 /\ ToMove(h)'
  <2>1. h # 0 /\ InSlots(h)
    BY <1>1, <1>10 DEF MapInv
  <2> QED BY <1>1, <2>1 DEF InSlots, ToMove, Used
<1> QED BY <1>5, <1>7, <1>8, <1>9, <1>10 DEF MapInv

LEMMA MoveSlotSafe ==
  ASSUME MapInv, MoveSlot
  PROVE  MapInv'
<1>1. /\ next < oldSize /\ next' = next + 1
      /\ size' = size /\ old' = old /\ oldSize' = oldSize
      /\ pending' = pending /\ stored' = stored
  BY DEF MoveSlot
<1>2. /\ size \in Nat /\ size >= 5 /\ slots \in Tables(size) /\ count \in Nat
      /\ oldSize \in Nat /\ next \in 0..oldSize /\ pending \in Slots
      /\ stored \in [Hashes -> Entries \cup {Absent}]
  BY DEF MapInv, MapTypeOK, Tables
<1>3. Growing /\ next \in 0..(oldSize - 1) /\ next' \in 0..oldSize
  BY <1>1, <1>2 DEF Growing
<1>4. /\ oldSize >= 5 /\ old \in Tables(oldSize) /\ size = GrownSize(oldSize)
  BY <1>3 DEF MapInv, MapTypeOK, Tables, Growing
<1>5. /\ NoTwins(slots, size) /\ Chained(slots, size) /\ HoldsStored(slots, size)
      /\ count = Cardinality(Used(slots, size)) /\ GrowingInv
      /\ \A k \in Hashes : stored[k] # Absent => k # 0 /\ (InSlots(k) \/ ToMove(k))
  BY <1>3 DEF MapInv
<1>6. /\ NoTwins(old, oldSize)' /\ HoldsStored(old, oldSize)'
      /\ (4 * Cardinality(Used(old, oldSize)) <= 3 * oldSize + 4)'
  BY <1>1, <1>5 DEF GrowingInv, NoTwins, HoldsStored, Used
<1>7. Growing'
  BY <1>1, <1>3 DEF Growing
<1>8. \A h : ToMove(h)' => ToMove(h)
  BY <1>1, <1>2 DEF ToMove
<1>9. CASE old[next].key = 0
  <2>1. UNCHANGED <<slots, count>>
    BY <1>9 DEF MoveSlot
  <2>2. MapTypeOK'
    BY <1>1, <1>2, <1>3, <1>4, <2>1 DEF MapTypeOK, Tables
  <2>3. Moved' = Moved
    BY <1>1, <1>2, <1>9 DEF Moved
  <2>4. \A h : InSlots(h)' <=> InSlots(h)
    BY <1>1, <2>1 DEF InSlots, Used
  <2>5. GrowingInv'
    BY <1>5, <1>6, <1>8, <2>1, <2>3, <2>4 DEF GrowingInv
  <2>6. \A k \in Hashes : k # 0 /\ ToMove(k) => ToMove(k)'
    BY <1>1, <1>2, <1>9 DEF ToMove
  <2>7. /\ (count = Cardinality(Used(slots, size)))'
        /\ NoTwins(slots, size)' /\ Chained(slots, size)' /\ HoldsStored(slots, size)'
    BY <1>1, <1>5, <2>1 DEF NoTwins, Chained, HoldsStored, Used, Passed
  <2> QED BY <1>1, <1>5, <1>7, <2>2, <2>4, <2>5, <2>6, <2>7 DEF MapInv
<1>10. CASE old[next].key # 0
  <2>1. PICK e : e = old[next]
    OBVIOUS
  <2>2. PICK p : p = FreeSlotFor(slots, size, e.key)
    OBVIOUS
  <2>3. e \in Slots /\ e.key \in Nat /\ e.key # 0 /\ e.key \in Hashes
    <3>1. e \in Slots /\ e.key \in Nat /\ e.key # 0
      BY <1>2, <1>3, <1>4, <1>10, <2>1, SlotFields
    <3> QED BY <3>1 DEF Slots
  <2>4. slots' = [slots EXCEPT ![p] = e] /\ count' = count + 1
    BY <1>10, <2>1, <2>2 DEF MoveSlot
  <2>5. ToMove(e.key) /\ ~InSlots(e.key)
    <3>1. ToMove(e.key)
      BY <1>3, <2>1 DEF ToMove
    <3> QED BY <1>5, <2>3, <3>1 DEF GrowingInv
  <2>6. Fillable(slots, size, e, p, Slots) /\ NoneFreeBefore(slots, size, e.key, p)
    <3>1. /\ p \in 0..(size - 1) /\ slots[p].key = 0
          /\ \A j \in Passed(e.key % size, p, size) : slots[j].key # 0
      BY <1>2, <2>2, <2>3, RoomLeft, FreeSlotFound
    <3>2. Fillable(slots, size, e, p, Slots)
      BY <1>2, <2>3, <3>1, SlotKeys DEF Fillable, Tables
    <3> QED BY <3>1, <3>2 DEF NoneFreeBefore
  <2>7. IsFilled(slots', slots, size, e, p, Slots)
    BY <1>2, <2>4, <2>6, FillSlot
  <2>8. /\ slots' \in Tables(size)
        /\ Used(slots', size) = Used(slots, size) \cup {p}
        /\ slots'[p] = e
        /\ \A i \in Used(slots, size) : slots'[i] = slots[i]
        /\ Cardinality(Used(slots', size)) = Cardinality(Used(slots, size)) + 1
        /\ NoTwins(slots', size) /\ Chained(slots', size)
    <3>1. Lacks(slots, size, e.key)
      BY <2>5 DEF InSlots, Lacks
    <3>2. NoTwins(slots', size)
      BY <1>2, <1>5, <2>7, <3>1, FilledHasNoTwins
    <3>3. Chained(slots', size)
      BY <1>2, <1>5, <2>6, <2>7, FilledIsChained
    <3> QED BY <2>7, <3>2, <3>3 DEF IsFilled, Used, Tables
  <2>9. MapTypeOK'
    BY <1>1, <1>2, <1>3, <1>4, <2>4, <2>8 DEF MapTypeOK, Tables
  <2>10. HoldsStored(slots, size)'
    <3>1. stored[e.key] = e.value
      BY <1>3, <1>5, <1>10, <2>1 DEF GrowingInv, HoldsStored, Used
    <3>2. \A i \in Used(slots', size) : stored[slots'[i].key] = slots'[i].value
      BY <1>5, <2>8, <3>1 DEF HoldsStored
    <3> QED BY <1>1, <3>2 DEF HoldsStored, Used
  <2>11. /\ (count = Cardinality(Used(slots, size)))'
         /\ NoTwins(slots, size)' /\ Chained(slots, size)'
    BY <1>1, <1>5, <2>4, <2>8 DEF NoTwins, Chained, Used, Passed
  <2>12. \A h : InSlots(h)' <=> InSlots(h) \/ h = e.key
    <3>1. \A h : InSlots(h)' <=> \E i \in Used(slots', size) : slots'[i].key = h
      BY <1>1 DEF InSlots, Used
    <3> QED BY <2>8, <3>1 DEF InSlots
  <2>13. ~ToMove(e.key)'
    <3> SUFFICES ASSUME NEW j \in (next + 1)..(oldSize - 1), old[j].key = e.key
                 PROVE  FALSE
      BY <1>1 DEF ToMove
    <3>1. j \in Used(old, oldSize) /\ next \in Used(old, oldSize) /\ j # next
      BY <1>2, <1>3, <1>10, <2>3 DEF Used
    <3> QED BY <1>5, <2>1, <3>1 DEF GrowingInv, NoTwins
  <2>14. count' = Cardinality(Moved')
    <3>1. Moved' = Moved \cup {next} /\ next \notin Moved
      BY <1>1, <1>2, <1>10 DEF Moved
    <3>2. IsFiniteSet(Moved)
      BY <1>3, MovedIsBounded
    <3>3. Cardinality(Moved') = Cardinality(Moved) + 1
      BY <3>1, <3>2, FS_AddElement
    <3> QED BY <1>5, <2>4, <3>3 DEF GrowingInv
  <2>15. GrowingInv'
    <3>1. \A h \in Hashes \ {0} : ~(InSlots(h)' /\ ToMove(h)')
      BY <1>5, <1>8, <2>12, <2>13 DEF GrowingInv
    <3> QED BY <1>6, <2>14, <3>1 DEF GrowingInv
  <2>16. \A h \in Hashes : ToMove(h) => h = e.key \/ ToMove(h)'
    BY <1>1, <1>2, <2>1 DEF ToMove
  <2> QED BY <1>1, <1>5, <1>7, <2>9, <2>10, <2>11, <2>12, <2>15, <2>16 DEF MapInv
<1> QED BY <1>9, <1>10

LEMMA MapInitSafe ==
  ASSUME MapInit
  PROVE  MapInv
<1>1. size \in Nat /\ size >= 5
  BY MapSizeAssumption DEF MapInit
<1>2. /\ slots = EmptyTable(size) /\ count = 0 /\ oldSize = 0 /\ next = 0
      /\ pending = EmptySlot /\ stored = [k \in Hashes |-> Absent]
  BY DEF MapInit
<1>3. slots \in [0..(size - 1) -> Slots] /\ \A i \in 0..(size - 1) : slots[i].key = 0
  BY <1>2 DEF EmptyTable, EmptySlot, Slots
<1>4. MapTypeOK
  <2>1. pending \in Slots /\ stored \in [Hashes -> Entries \cup {Absent}]
    BY <1>2 DEF EmptySlot, Slots
  <2> QED BY <1>1, <1>2, <1>3, <2>1 DEF MapTypeOK
<1>5. Used(slots, size) = {}
  BY <1>3 DEF Used
<1>6. Cardinality(Used(slots, size)) = 0
  BY <1>5, FS_EmptySet
<1> QED BY <1>1, <1>2, <1>4, <1>5, <1>6 DEF MapInv, NoTwins, Chained, HoldsStored, Growing

(***************************************************************************)
(* The theorems.                                                           *)
(***************************************************************************)
LEMMA MapInvHolds == MapSpec => []MapInv
<1>1. MapInit => MapInv
  BY MapInitSafe
<1>2. MapInv /\ [MapNext]_mapVars => MapInv'
  <2> SUFFICES ASSUME MapInv, [MapNext]_mapVars PROVE MapInv'
    OBVIOUS
  <2>1. ASSUME NEW k \in Hashes, NEW v \in Entries, InsertMap(k, v) PROVE MapInv'
    BY <2>1, InsertMapSafe
  <2>2. ASSUME NEW k \in Hashes, NEW v \in Entries, BeginResize(k, v) PROVE MapInv'
    BY <2>2, BeginResizeSafe
  <2>3. CASE MoveSlot
    BY <2>3, MoveSlotSafe
  <2>4. CASE InsertPending
    BY <2>4, InsertPendingSafe
  <2>5. CASE UNCHANGED mapVars
    BY <2>5 DEF mapVars, MapInv, MapTypeOK, GrowingInv, NoTwins, Chained, HoldsStored,
                Used, Passed, InSlots, ToMove, Moved, Growing
  <2> QED BY <2>1, <2>2, <2>3, <2>4, <2>5 DEF MapNext
<1> QED BY <1>1, <1>2, PTL DEF MapSpec

(* The loops of insert_map, lookup_map and resize_map end, for tables of   *)
(* every size and whatever is inserted: a slot is always empty.            *)
THEOREM ProbesAlwaysEnd == MapSpec => []ProbesEnd
<1>1. MapInv => ProbesEnd
  BY RoomLeft DEF ProbesEnd
<1> QED BY <1>1, MapInvHolds, PTL

(* A lookup gives the entry the hash was stored with, and nothing for one  *)
(* that never was, for every set of hashes, however they collide, and      *)
(* through every resize.                                                   *)
THEOREM LookupsFindStored == MapSpec => []LookupFindsStored
<1>1. MapInv => LookupFindsStored
  <2> SUFFICES ASSUME MapInv, ~Growing, NEW k \in Hashes
               PROVE  Lookup(k) = IF k = 0 THEN Absent ELSE stored[k]
    BY DEF LookupFindsStored
  <2> DEFINE p == Probe(slots, size, k)
  <2>1. CASE k = 0
    BY <2>1 DEF Lookup
  <2>2. CASE k # 0
    <3>1. /\ size \in Nat /\ size >= 1 /\ slots \in Tables(size)
          /\ Chained(slots, size) /\ HoldsStored(slots, size) /\ Free(slots, size) # {}
      BY RoomLeft DEF MapInv, MapTypeOK, Tables
    <3>2. k \in Nat \ {0}
      BY <2>2, HashesAssumption
    <3>3. /\ p \in 0..(size - 1) /\ slots[p].key \in {0, k}
          /\ slots[p].key = 0 => \A i \in Used(slots, size) : slots[i].key # k
      BY <3>1, <3>2, ProbeFinds
    <3>4. Lookup(k) = IF slots[p].key = k THEN slots[p].value ELSE Absent
      BY <2>2 DEF Lookup
    <3> HIDE DEF p
    <3>5. CASE slots[p].key = k
      <4>1. p \in Used(slots, size)
        BY <2>2, <3>3, <3>5 DEF Used
      <4> QED BY <2>2, <3>1, <3>4, <3>5, <4>1 DEF HoldsStored
    <3>6. CASE slots[p].key = 0
      <4>1. ~InSlots(k)
        BY <3>3, <3>6 DEF InSlots
      <4>2. stored[k] = Absent
        BY <4>1 DEF MapInv
      <4> QED BY <2>2, <3>4, <3>6, <4>2
    <3> QED BY <3>3, <3>5, <3>6
  <2> QED BY <2>1, <2>2
<1> QED BY <1>1, MapInvHolds, PTL

(***************************************************************************)
(* The map that forgets.  As long as every rehash had its memory, its      *)
(* table has no hole in a probe chain, no key twice, and the latest value  *)
(* of each of its keys.  After one that had none, the count of the used    *)
(* slots is all that is left, and it is enough for the probes to end.      *)
(***************************************************************************)
LruSlots == [key : LruKeys \cup {0}, value : LruValues \cup {NoValue}, uses : 0..MaxUses]

LruTables == [0..(LruSize - 1) -> LruSlots]

HoldsLatest(t) == \A i \in Used(t, LruSize) : t[i].value = latest[t[i].key]

Intact(t) == NoTwins(t, LruSize) /\ Chained(t, LruSize) /\ HoldsLatest(t)

LruTypeOK ==
    /\ lru \in LruTables
    /\ lruCount \in Nat
    /\ ageCounter \in Nat
    /\ holed \in BOOLEAN
    /\ latest \in [LruKeys -> LruValues \cup {NoValue}]

LruInv ==
    /\ LruTypeOK
    /\ lruCount = Cardinality(LruUsed) /\ lruCount < LruSize
    /\ ~holed => /\ Intact(lru)
                 /\ \A k \in LruKeys : k \notin KeysIn(lru) => latest[k] = NoValue

LEMMA InductionUpTo ==
  ASSUME NEW m \in Nat, NEW S, 0 \in S, \A n \in 0..(m - 1) : n \in S => n + 1 \in S
  PROVE  0..m \subseteq S
<1> DEFINE T == S \cup {n \in Nat : n > m}
<1>1. 0 \in T /\ \A n \in Nat : n \in T => n + 1 \in T
  OBVIOUS
<1>2. ASSUME Nat \ T # {}
      PROVE  FALSE
  <2>1. PICK x \in Nat \ T : \A y \in Nat \ T : x <= y
    BY <1>2, LeastElement
  <2>2. x # 0 /\ x - 1 \in Nat
    BY <1>1, <2>1
  <2>3. x - 1 \in T
    BY <2>1, <2>2
  <2> HIDE DEF T
  <2> QED BY <1>1, <2>1, <2>2, <2>3
<1> QED BY <1>2

(***************************************************************************)
(* rehash_in_place.                                                        *)
(***************************************************************************)
LEMMA LruKeysAreNat == \A x \in LruSlots : x.key \in Nat
<1>1. \A x \in LruSlots : x.key \in LruKeys \cup {0}
  BY DEF LruSlots
<1>2. \A k \in LruKeys \cup {0} : k \in Nat
  BY LruConstantsAssumption
<1> QED BY <1>1, <1>2, Zenon

LEMMA TombstonesEmpty ==
  /\ Tombstones \in LruTables
  /\ \A i \in 0..(LruSize - 1) : Tombstones[i].key = 0
  /\ Used(Tombstones, LruSize) = {}
<1>1. Tombstone \in LruSlots /\ Tombstone.key = 0
  BY LruConstantsAssumption DEF Tombstone, LruSlots
<1> QED BY <1>1 DEF Tombstones, LruTables, Used

(* f is the new table after each slot of t, up to the first n of them. *)
PutUpTo(t, f, n) ==
    f = [m \in 0..n |-> IF m = 0 THEN Tombstones ELSE Reinsert(f[m - 1], t[m - 1])]

LEMMA RehashSteps ==
  ASSUME NEW t
  PROVE  \E f : PutUpTo(t, f, LruSize) /\ Rehashed(t) = f[LruSize]
<1> DEFINE S == {n \in 0..LruSize : \E f : PutUpTo(t, f, n)}
<1>0. LruSize \in Nat
  BY LruSizeAssumption
<1>1. 0 \in S
  <2>1. PutUpTo(t, [m \in 0..0 |-> Tombstones], 0)
    BY DEF PutUpTo
  <2> QED BY <1>0, <2>1
<1>2. ASSUME NEW n \in 0..(LruSize - 1), n \in S
      PROVE  n + 1 \in S
  <2>1. PICK f : PutUpTo(t, f, n)
    BY <1>2
  <2> DEFINE g == [m \in 0..(n + 1) |-> IF m <= n THEN f[m] ELSE Reinsert(f[m - 1], t[m - 1])]
             h == [m \in 0..(n + 1) |-> IF m = 0 THEN Tombstones ELSE Reinsert(g[m - 1], t[m - 1])]
  <2>2. \A m \in 0..n : f[m] = IF m = 0 THEN Tombstones ELSE Reinsert(f[m - 1], t[m - 1])
    BY <2>1 DEF PutUpTo
  <2>3. ASSUME NEW m \in 0..(n + 1)
        PROVE  g[m] = h[m]
    <3>1. m # 0 => g[m - 1] = f[m - 1]
      OBVIOUS
    <3>2. g[m] = IF m <= n THEN f[m] ELSE Reinsert(f[m - 1], t[m - 1])
      OBVIOUS
    <3>3. h[m] = IF m = 0 THEN Tombstones ELSE Reinsert(g[m - 1], t[m - 1])
      OBVIOUS
    <3> HIDE DEF g, h
    <3> QED BY <2>2, <3>1, <3>2, <3>3
  <2>4. g = h
    <3>1. g = [m \in 0..(n + 1) |-> g[m]] /\ h = [m \in 0..(n + 1) |-> h[m]]
      OBVIOUS
    <3> HIDE DEF g, h
    <3> QED BY <2>3, <3>1
  <2>5. PutUpTo(t, g, n + 1)
    <3> HIDE DEF g
    <3> QED BY <2>4 DEF PutUpTo
  <2> QED BY <1>0, <2>5
<1>3. LruSize \in S
  <2> HIDE DEF S
  <2>1. 0..LruSize \subseteq S
    BY <1>0, <1>1, <1>2, InductionUpTo
  <2> QED BY <1>0, <2>1
<1>4. \E f : PutUpTo(t, f, LruSize)
  BY <1>3
<1>5. PutUpTo(t, CHOOSE f : PutUpTo(t, f, LruSize), LruSize)
  BY <1>4
<1>6. Rehashed(t) = (CHOOSE f : PutUpTo(t, f, LruSize))[LruSize]
  BY DEF Rehashed, PutUpTo
<1> QED BY <1>5, <1>6

UsedTo(t, n) == {i \in 0..(n - 1) : t[i].key # 0}

(* u has the entries of the first n slots of t, put again. *)
PutAgain(u, t, n) ==
    /\ u \in LruTables
    /\ Cardinality(Used(u, LruSize)) = Cardinality(UsedTo(t, n))
    /\ Chained(u, LruSize)
    /\ \A j \in Used(u, LruSize) : \E i \in 0..(n - 1) : u[j] = t[i]
    /\ NoTwins(t, LruSize) => NoTwins(u, LruSize)

LEMMA ReinsertPutsAgain ==
  ASSUME NEW t \in LruTables, Cardinality(Used(t, LruSize)) < LruSize,
         NEW n \in 0..(LruSize - 1), NEW u, PutAgain(u, t, n)
  PROVE  PutAgain(Reinsert(u, t[n]), t, n + 1)
<1>0. LruSize \in Nat /\ LruSize >= 1 /\ n \in Nat
  BY LruSizeAssumption
<1>1. /\ u \in LruTables /\ Chained(u, LruSize)
      /\ Cardinality(Used(u, LruSize)) = Cardinality(UsedTo(t, n))
      /\ \A j \in Used(u, LruSize) : \E i \in 0..(n - 1) : u[j] = t[i]
      /\ NoTwins(t, LruSize) => NoTwins(u, LruSize)
  BY DEF PutAgain
<1>2. CASE t[n].key = 0
  <2>1. Reinsert(u, t[n]) = u
    BY <1>2 DEF Reinsert
  <2>2. UsedTo(t, n + 1) = UsedTo(t, n)
    BY <1>0, <1>2 DEF UsedTo
  <2>3. \A j \in Used(u, LruSize) : \E i \in 0..((n + 1) - 1) : u[j] = t[i]
    BY <1>0, <1>1
  <2> QED BY <1>1, <2>1, <2>2, <2>3 DEF PutAgain
<1>3. CASE t[n].key # 0
  <2>1. PICK e : e = t[n]
    OBVIOUS
  <2>2. PICK p : p = FreeSlotFor(u, LruSize, e.key)
    OBVIOUS
  <2>3. PICK v : v = Reinsert(u, e)
    OBVIOUS
  <2>4. e \in LruSlots /\ e.key \in Nat /\ e.key # 0
    <3>1. t[n] \in LruSlots
      BY DEF LruTables
    <3> QED BY <1>3, <2>1, <3>1, LruKeysAreNat
  <2>5. v = [u EXCEPT ![p] = e]
    BY <2>2, <2>3, <2>4 DEF Reinsert, FreeSlotFor
  <2>6. UsedTo(t, n + 1) = UsedTo(t, n) \cup {n} /\ n \notin UsedTo(t, n)
    BY <1>0, <1>3 DEF UsedTo
  <2>7. /\ IsFiniteSet(UsedTo(t, n)) /\ Cardinality(UsedTo(t, n)) \in Nat
        /\ Cardinality(UsedTo(t, n)) <= Cardinality(Used(t, LruSize))
        /\ Cardinality(Used(t, LruSize)) \in Nat
    <3>1. UsedTo(t, n) \in SUBSET Used(t, LruSize)
      BY <1>0 DEF UsedTo, Used
    <3>2. IsFiniteSet(Used(t, LruSize)) /\ Cardinality(Used(t, LruSize)) \in Nat
      BY <1>0, UsedIsFinite
    <3>3. /\ IsFiniteSet(UsedTo(t, n))
          /\ Cardinality(UsedTo(t, n)) <= Cardinality(Used(t, LruSize))
      BY <3>1, <3>2, FS_Subset
    <3> QED BY <3>2, <3>3, FS_CardinalityType
  <2>8. Free(u, LruSize) # {}
    <3>1. Cardinality(Used(u, LruSize)) < LruSize
      BY <1>0, <1>1, <2>7
    <3> QED BY <1>0, <3>1, UsedIsFinite
  <2>9. Fillable(u, LruSize, e, p, LruSlots) /\ NoneFreeBefore(u, LruSize, e.key, p)
    <3>1. /\ p \in 0..(LruSize - 1) /\ u[p].key = 0
          /\ \A j \in Passed(e.key % LruSize, p, LruSize) : u[j].key # 0
      BY <1>0, <2>2, <2>4, <2>8, FreeSlotFound
    <3>2. Fillable(u, LruSize, e, p, LruSlots)
      BY <1>0, <1>1, <2>4, <3>1, LruKeysAreNat DEF Fillable, LruTables
    <3> QED BY <3>1, <3>2 DEF NoneFreeBefore
  <2>10. IsFilled(v, u, LruSize, e, p, LruSlots)
    BY <1>0, <2>5, <2>9, FillSlot
  <2>11. /\ v \in LruTables /\ Used(v, LruSize) = Used(u, LruSize) \cup {p}
         /\ v[p] = e /\ \A j \in Used(u, LruSize) : v[j] = u[j]
         /\ Cardinality(Used(v, LruSize)) = Cardinality(Used(u, LruSize)) + 1
    BY <2>10 DEF IsFilled, LruTables, Used
  <2>12. Cardinality(Used(v, LruSize)) = Cardinality(UsedTo(t, n + 1))
    <3>1. Cardinality(UsedTo(t, n + 1)) = Cardinality(UsedTo(t, n)) + 1
      BY <2>6, <2>7, FS_AddElement
    <3> QED BY <1>1, <2>11, <3>1
  <2>13. Chained(v, LruSize)
    BY <1>0, <1>1, <2>9, <2>10, FilledIsChained
  <2>14. \A j \in Used(v, LruSize) : \E i \in 0..((n + 1) - 1) : v[j] = t[i]
    BY <1>0, <1>1, <2>1, <2>11
  <2>15. ASSUME NoTwins(t, LruSize)
         PROVE  NoTwins(v, LruSize)
    <3>1. Lacks(u, LruSize, e.key)
      <4> SUFFICES ASSUME NEW j \in Used(u, LruSize), u[j].key = e.key
                   PROVE  FALSE
        BY DEF Lacks
      <4>1. PICK i \in 0..(n - 1) : u[j] = t[i]
        BY <1>1
      <4>2. i \in Used(t, LruSize) /\ n \in Used(t, LruSize) /\ i # n
        BY <1>0, <1>3, <2>1, <2>4, <4>1 DEF Used
      <4> QED BY <2>1, <2>15, <4>1, <4>2 DEF NoTwins
    <3> QED BY <1>0, <1>1, <2>10, <2>15, <3>1, FilledHasNoTwins
  <2> QED BY <2>1, <2>3, <2>11, <2>12, <2>13, <2>14, <2>15 DEF PutAgain
<1> QED BY <1>2, <1>3

LEMMA RehashedPutsAgain ==
  ASSUME NEW t \in LruTables, Cardinality(Used(t, LruSize)) < LruSize
  PROVE  PutAgain(Rehashed(t), t, LruSize)
<1>0. LruSize \in Nat /\ LruSize >= 1
  BY LruSizeAssumption
<1>1. PICK f : PutUpTo(t, f, LruSize) /\ Rehashed(t) = f[LruSize]
  BY RehashSteps
<1>2. \A m \in 0..LruSize : f[m] = IF m = 0 THEN Tombstones ELSE Reinsert(f[m - 1], t[m - 1])
  BY <1>1 DEF PutUpTo
<1> DEFINE S == {n \in 0..LruSize : PutAgain(f[n], t, n)}
<1>3. 0 \in S
  <2>1. f[0] = Tombstones
    BY <1>0, <1>2
  <2>2. UsedTo(t, 0) = {}
    BY DEF UsedTo
  <2>3. PutAgain(Tombstones, t, 0)
    BY <2>2, TombstonesEmpty DEF PutAgain, Chained, NoTwins
  <2> QED BY <1>0, <2>1, <2>3
<1>4. ASSUME NEW n \in 0..(LruSize - 1), n \in S
      PROVE  n + 1 \in S
  <2>1. f[n + 1] = Reinsert(f[n], t[n])
    BY <1>0, <1>2
  <2>2. PutAgain(f[n], t, n)
    BY <1>4
  <2>3. PutAgain(Reinsert(f[n], t[n]), t, n + 1)
    BY <2>2, ReinsertPutsAgain
  <2> QED BY <1>0, <2>1, <2>3
<1>5. LruSize \in S
  <2> HIDE DEF S
  <2>1. 0..LruSize \subseteq S
    BY <1>0, <1>3, <1>4, InductionUpTo
  <2> QED BY <1>0, <2>1
<1> QED BY <1>1, <1>5

(***************************************************************************)
(* evict_lru_entries.                                                      *)
(***************************************************************************)
Below(S, n) == {j \in S : j < n}

FirstOf(S, m) == {i \in S : Cardinality(Below(S, i)) < m}

LEMMA BelowIsFinite ==
  ASSUME NEW S \in SUBSET Nat, IsFiniteSet(S), NEW n
  PROVE  /\ IsFiniteSet(Below(S, n)) /\ Cardinality(Below(S, n)) \in Nat
         /\ Cardinality(Below(S, n)) <= Cardinality(S) /\ Cardinality(S) \in Nat
<1>1. Below(S, n) \in SUBSET S
  BY DEF Below
<1>2. IsFiniteSet(Below(S, n)) /\ Cardinality(Below(S, n)) <= Cardinality(S)
  BY <1>1, FS_Subset
<1> QED BY <1>2, FS_CardinalityType

LEMMA BelowNext ==
  ASSUME NEW S \in SUBSET Nat, NEW n \in Nat
  PROVE  /\ Below(S, 0) = {}
         /\ n \notin Below(S, n)
         /\ n \in S => Below(S, n + 1) = Below(S, n) \cup {n}
         /\ n \notin S => Below(S, n + 1) = Below(S, n)
<1>1. \A j : j \in S => j \in Nat
  OBVIOUS
<1>2. \A j : /\ j \in Below(S, n) <=> j \in S /\ j < n
             /\ j \in Below(S, n + 1) <=> j \in S /\ j < n + 1
             /\ j \in Below(S, 0) <=> j \in S /\ j < 0
  BY DEF Below
<1>3. n \notin Below(S, n) /\ \A j : j \notin Below(S, 0)
  BY <1>1, <1>2
<1>4. \A j : j \in S => (j < n + 1 <=> j < n \/ j = n)
  BY <1>1
<1>5. \A j : j \in Below(S, n + 1) <=> j \in Below(S, n) \/ (j = n /\ n \in S)
  BY <1>2, <1>4
<1> QED BY <1>3, <1>5

(* A set of at least m slots has m first ones. *)
LEMMA FirstOfCount ==
  ASSUME NEW N \in Nat, NEW S \in SUBSET (0..(N - 1)), NEW m \in Nat, m <= Cardinality(S)
  PROVE  IsFiniteSet(FirstOf(S, m)) /\ Cardinality(FirstOf(S, m)) = m
<1> DEFINE Count(n) == Cardinality(Below(S, n))
           First(n) == Below(FirstOf(S, m), n)
           Good(n) == /\ IsFiniteSet(First(n))
                      /\ Cardinality(First(n)) = IF Count(n) < m THEN Count(n) ELSE m
           Is == {n \in 0..N : Good(n)}
<1>0. /\ IsFiniteSet(S) /\ S \in SUBSET Nat /\ FirstOf(S, m) \in SUBSET Nat
      /\ \A n : n \in FirstOf(S, m) <=> n \in S /\ Count(n) < m
  <2>1. IsFiniteSet(0..(N - 1))
    BY FS_Interval
  <2>2. IsFiniteSet(S)
    BY <2>1, FS_Subset
  <2>3. S \in SUBSET Nat
    OBVIOUS
  <2> QED BY <2>2, <2>3 DEF FirstOf
<1>1. 0 \in Is
  <2>1. Below(S, 0) = {} /\ First(0) = {}
    BY <1>0, BelowNext
  <2>2. Count(0) = 0 /\ IsFiniteSet(First(0)) /\ Cardinality(First(0)) = 0
    BY <2>1, FS_EmptySet
  <2> QED BY <2>2
<1>2. ASSUME NEW n \in 0..(N - 1), n \in Is
      PROVE  n + 1 \in Is
  <2>0. Good(n) /\ n \in Nat /\ n + 1 \in 0..N
    BY <1>2
  <2>1. CASE n \notin S
    <3>1. Below(S, n + 1) = Below(S, n)
      BY <1>0, <2>0, <2>1, BelowNext
    <3>2. First(n + 1) = First(n)
      BY <1>0, <2>0, <2>1, BelowNext
    <3> QED BY <2>0, <3>1, <3>2
  <2>2. CASE n \in S
    <3>1. Below(S, n + 1) = Below(S, n) \cup {n} /\ n \notin Below(S, n)
      BY <1>0, <2>0, <2>2, BelowNext
    <3>2. Count(n + 1) = Count(n) + 1 /\ Count(n) \in Nat
      BY <1>0, <3>1, BelowIsFinite, FS_AddElement
    <3>3. CASE Count(n) < m
      <4>1. First(n + 1) = First(n) \cup {n} /\ n \notin First(n)
        <5>1. n \in FirstOf(S, m)
          BY <1>0, <2>2, <3>3
        <5> QED BY <1>0, <2>0, <5>1, BelowNext
      <4>2. IsFiniteSet(First(n + 1)) /\ Cardinality(First(n + 1)) = Cardinality(First(n)) + 1
        BY <2>0, <4>1, FS_AddElement
      <4>3. Cardinality(First(n)) = Count(n)
        BY <2>0, <3>3
      <4> HIDE DEF Count, First
      <4> QED BY <2>0, <3>2, <3>3, <4>2, <4>3
    <3>4. CASE ~(Count(n) < m)
      <4>1. First(n + 1) = First(n)
        <5>1. n \notin FirstOf(S, m)
          BY <1>0, <3>4
        <5> QED BY <1>0, <2>0, <5>1, BelowNext
      <4>2. IsFiniteSet(First(n)) /\ Cardinality(First(n)) = m
        BY <2>0, <3>4
      <4> HIDE DEF Count, First
      <4> QED BY <2>0, <3>2, <3>4, <4>1, <4>2
    <3> QED BY <3>3, <3>4
  <2> QED BY <2>1, <2>2
<1>3. N \in Is
  <2> HIDE DEF Is
  <2>1. 0..N \subseteq Is
    BY <1>1, <1>2, InductionUpTo
  <2> QED BY <2>1
<1>4. Below(S, N) = S /\ First(N) = FirstOf(S, m)
  <2>1. \A n \in S : n < N
    OBVIOUS
  <2> QED BY <1>0, <2>1 DEF Below
<1>5. Good(N)
  BY <1>3
<1>6. Cardinality(S) \in Nat
  BY <1>0, BelowIsFinite
<1>7. Cardinality(FirstOf(S, m)) = IF Cardinality(S) < m THEN Cardinality(S) ELSE m
  BY <1>4, <1>5
<1>8. IsFiniteSet(FirstOf(S, m))
  BY <1>4, <1>5
<1> QED BY <1>6, <1>7, <1>8

LEMMA ColdIsFinite ==
  ASSUME NEW C \in SUBSET LruUsed
  PROVE  IsFiniteSet(C) /\ Cardinality(C) \in Nat /\ Cardinality(C) <= Cardinality(LruUsed)
<1>1. LruSize \in Nat
  BY LruSizeAssumption
<1>2. IsFiniteSet(LruUsed)
  BY <1>1, UsedIsFinite DEF LruUsed
<1> QED BY <1>2, FS_Subset, FS_CardinalityType

(* The loop over the histogram finds a cutoff. *)
LEMMA CutoffFound ==
  ASSUME LruInv, NEW n \in Nat, n >= 1, n <= lruCount
  PROVE  /\ Cutoff(n) \in 0..MaxUses
         /\ Cardinality(AtOrBelow(Cutoff(n))) >= n
         /\ \A w \in 0..(Cutoff(n) - 1) : Cardinality(AtOrBelow(w)) < n
<1> DEFINE T == {u \in 0..MaxUses : Cardinality(AtOrBelow(u)) >= n}
<1>0. MaxUses \in Nat /\ lruCount = Cardinality(LruUsed) /\ lru \in LruTables
  BY LruConstantsAssumption DEF LruInv, LruTypeOK
<1>1. AtOrBelow(MaxUses) = LruUsed
  BY <1>0 DEF AtOrBelow, LruUsed, Used, LruTables, LruSlots
<1>2. MaxUses \in T
  BY <1>0, <1>1, ColdIsFinite
<1>3. PICK u \in T : \A y \in T : u <= y
  <2>1. T \subseteq Nat /\ T # {}
    BY <1>2
  <2> QED BY <2>1, LeastElement
<1>4. \A w \in 0..(u - 1) : Cardinality(AtOrBelow(w)) < n
  <2> SUFFICES ASSUME NEW w \in 0..(u - 1)
               PROVE  Cardinality(AtOrBelow(w)) < n
    OBVIOUS
  <2>1. w \in 0..MaxUses /\ w \notin T
    BY <1>0, <1>3
  <2>2. Cardinality(AtOrBelow(w)) \in Nat
    BY ColdIsFinite DEF AtOrBelow
  <2> QED BY <2>1, <2>2
<1>5. \E x \in 0..MaxUses : /\ Cardinality(AtOrBelow(x)) >= n
                           /\ \A w \in 0..(x - 1) : Cardinality(AtOrBelow(w)) < n
  BY <1>3, <1>4
<1> QED BY <1>5 DEF Cutoff

LEMMA ExcessBounds ==
  ASSUME LruInv, NEW keep \in 0..LruSize
  PROVE  /\ Excess(keep) \in Nat /\ Excess(keep) <= lruCount
         /\ keep = 0 /\ Excess(keep) # 0 => lruCount - Excess(keep) = TargetCount
         /\ Excess(0) = 0 => lruCount <= TargetCount
<1>1. LruSize \in Nat /\ lruCount \in Nat
  BY LruSizeAssumption DEF LruInv, LruTypeOK
<1>2. TargetCount \in Nat
  BY <1>1 DEF TargetCount
<1> QED BY <1>1, <1>2 DEF Excess

(* An eviction empties as many slots as it has to. *)
LEMMA EvictedCount ==
  ASSUME LruInv, NEW keep \in 0..LruSize
  PROVE  /\ Evicted(keep) \in SUBSET LruUsed
         /\ Cardinality(Evicted(keep)) = Excess(keep)
<1>1. CASE Excess(keep) = 0
  BY <1>1, FS_EmptySet DEF Evicted
<1>2. CASE Excess(keep) # 0
  <2>1. Excess(keep) \in Nat /\ Excess(keep) >= 1 /\ Excess(keep) <= lruCount
    BY <1>2, ExcessBounds
  <2>2. PICK cold : cold = AtOrBelow(Cutoff(Excess(keep)))
    OBVIOUS
  <2>3. Cardinality(cold) >= Excess(keep)
    BY <2>1, <2>2, CutoffFound
  <2>4. cold \in SUBSET LruUsed /\ LruSize \in Nat
    BY <2>2, LruSizeAssumption DEF AtOrBelow
  <2>5. cold \in SUBSET (0..(LruSize - 1))
    BY <2>4 DEF LruUsed, Used
  <2>6. Evicted(keep) = FirstOf(cold, Excess(keep))
    BY <1>2, <2>2 DEF Evicted, FirstOf, Below
  <2>7. Cardinality(FirstOf(cold, Excess(keep))) = Excess(keep)
    BY <2>1, <2>3, <2>4, <2>5, FirstOfCount, ColdIsFinite
  <2>8. FirstOf(cold, Excess(keep)) \in SUBSET LruUsed
    BY <2>4 DEF FirstOf
  <2> QED BY <2>6, <2>7, <2>8
<1> QED BY <1>1, <1>2

(* The table after an eviction: what is in it was in the table, and the    *)
(* count is right even if the holes stay.                                  *)
LEMMA EvictionKeeps ==
  ASSUME LruInv, NEW keep \in 0..LruSize, NEW ok \in BOOLEAN,
         NEW t, t = AfterEviction(keep, ok)
  PROVE  /\ t \in LruTables
         /\ Cardinality(Used(t, LruSize)) = lruCount - Excess(keep)
         /\ ~holed /\ ok => Intact(t)
<1>0. /\ LruSize \in Nat /\ lru \in LruTables /\ lruCount \in Nat
      /\ lruCount = Cardinality(Used(lru, LruSize)) /\ lruCount < LruSize
      /\ ~holed => Intact(lru)
  BY LruSizeAssumption DEF LruInv, LruTypeOK, LruUsed
<1>1. /\ Evicted(keep) \in SUBSET Used(lru, LruSize)
      /\ Cardinality(Evicted(keep)) = Excess(keep) /\ Excess(keep) \in Nat
      /\ Excess(keep) <= lruCount
  BY EvictedCount, ExcessBounds DEF LruUsed
<1>2. CASE Evicted(keep) = {}
  <2>1. t = lru /\ Excess(keep) = 0
    BY <1>1, <1>2, FS_EmptySet DEF AfterEviction
  <2> QED BY <1>0, <2>1
<1>3. CASE Evicted(keep) # {}
  <2>1. PICK h : h = WithHoles(Evicted(keep))
    OBVIOUS
  <2>2. \A i \in 0..(LruSize - 1) : h[i] = IF i \in Evicted(keep) THEN Tombstone ELSE lru[i]
    BY <2>1 DEF WithHoles
  <2>3. h \in LruTables
    <3>1. Tombstone \in LruSlots
      BY LruConstantsAssumption DEF Tombstone, LruSlots
    <3> QED BY <1>0, <2>1, <3>1 DEF WithHoles, LruTables
  <2>4. /\ Used(h, LruSize) = Used(lru, LruSize) \ Evicted(keep)
        /\ \A i \in Used(h, LruSize) : h[i] = lru[i]
    BY <2>2 DEF Used, Tombstone
  <2>5. Cardinality(Used(h, LruSize)) = lruCount - Excess(keep)
    <3>1. IsFiniteSet(Used(lru, LruSize)) /\ IsFiniteSet(Evicted(keep))
      BY <1>0, <1>1, UsedIsFinite, FS_Subset
    <3>2. Cardinality(Used(lru, LruSize) \ Evicted(keep)) =
              Cardinality(Used(lru, LruSize)) - Cardinality(Used(lru, LruSize) \cap Evicted(keep))
      BY <3>1, FS_Difference
    <3>3. Used(lru, LruSize) \cap Evicted(keep) = Evicted(keep)
      BY <1>1
    <3> QED BY <1>0, <1>1, <2>4, <3>2, <3>3
  <2>6. CASE ~ok
    BY <1>3, <2>1, <2>3, <2>5, <2>6 DEF AfterEviction
  <2>7. CASE ok
    <3>1. t = Rehashed(h)
      BY <1>3, <2>1, <2>7 DEF AfterEviction
    <3>2. Cardinality(Used(h, LruSize)) < LruSize
      BY <1>0, <1>1, <2>5
    <3>3. PutAgain(t, h, LruSize)
      BY <2>3, <3>1, <3>2, RehashedPutsAgain
    <3>4. UsedTo(h, LruSize) = Used(h, LruSize)
      BY DEF UsedTo, Used
    <3>5. /\ t \in LruTables /\ Chained(t, LruSize)
          /\ Cardinality(Used(t, LruSize)) = lruCount - Excess(keep)
      BY <2>5, <3>3, <3>4 DEF PutAgain
    <3>6. ASSUME ~holed
          PROVE  NoTwins(t, LruSize) /\ HoldsLatest(t)
      <4>1. NoTwins(lru, LruSize) /\ HoldsLatest(lru)
        BY <1>0, <3>6 DEF Intact
      <4>2. NoTwins(h, LruSize)
        BY <2>4, <4>1 DEF NoTwins
      <4>3. \A j \in Used(t, LruSize) : \E i \in Used(h, LruSize) : t[j] = h[i]
        <5>1. \A j \in Used(t, LruSize) : t[j].key # 0 /\ \E i \in 0..(LruSize - 1) : t[j] = h[i]
          BY <3>3 DEF PutAgain, Used
        <5> QED BY <5>1 DEF Used
      <4>4. HoldsLatest(t)
        BY <2>4, <4>1, <4>3 DEF HoldsLatest
      <4> QED BY <3>3, <4>2, <4>4 DEF PutAgain
    <3> QED BY <3>5, <3>6 DEF Intact
  <2> QED BY <2>6, <2>7
<1> QED BY <1>2, <1>3

(***************************************************************************)
(* What the operations keep.                                               *)
(***************************************************************************)
SameEntries(u, t) ==
    \A i \in 0..(LruSize - 1) : u[i].key = t[i].key /\ u[i].value = t[i].value

LEMMA SameEntriesKeep ==
  ASSUME NEW t \in LruTables, NEW u, SameEntries(u, t)
  PROVE  /\ Used(u, LruSize) = Used(t, LruSize)
         /\ KeysIn(u) = KeysIn(t)
         /\ Intact(t) => Intact(u)
<1>1. Used(u, LruSize) = Used(t, LruSize)
  BY DEF SameEntries, Used
<1>2. KeysIn(u) = KeysIn(t)
  BY DEF SameEntries, KeysIn
<1>3. ASSUME Intact(t)
      PROVE  NoTwins(u, LruSize) /\ HoldsLatest(u)
  <2>1. \A i \in Used(t, LruSize) : u[i].key = t[i].key /\ u[i].value = t[i].value
    BY DEF SameEntries, Used
  <2> QED BY <1>1, <1>3, <2>1 DEF Intact, NoTwins, HoldsLatest
<1>4. ASSUME Intact(t)
      PROVE  Chained(u, LruSize)
  <2> SUFFICES ASSUME NEW i \in Used(u, LruSize),
                      NEW j \in Passed(u[i].key % LruSize, i, LruSize)
               PROVE  u[j].key # 0
    BY DEF Chained
  <2>1. t[j].key # 0
    BY <1>1, <1>4 DEF Intact, Chained, SameEntries, Used
  <2>2. i \in 0..(LruSize - 1) /\ t[i] \in LruSlots /\ u[i].key = t[i].key
    BY DEF Used, LruTables, SameEntries
  <2>3. LruSize \in Nat /\ LruSize >= 1 /\ u[i].key \in Nat
    BY <2>2, LruSizeAssumption, LruKeysAreNat
  <2>4. j \in 0..(LruSize - 1)
    BY <2>2, <2>3, HomeInTable, PassedInTable
  <2> QED BY <2>1, <2>4 DEF SameEntries
<1> QED BY <1>1, <1>2, <1>3, <1>4 DEF Intact

LEMMA AgedKeeps ==
  ASSUME NEW t \in LruTables
  PROVE  Aged(t) \in LruTables /\ SameEntries(Aged(t), t)
<1>1. ASSUME NEW i \in 0..(LruSize - 1)
      PROVE  /\ Aged(t)[i] \in LruSlots
             /\ Aged(t)[i].key = t[i].key /\ Aged(t)[i].value = t[i].value
  <2>1. t[i] \in LruSlots
    BY DEF LruTables
  <2>2. Aged(t)[i] = IF t[i].key # 0 /\ t[i].uses > 1
                     THEN [t[i] EXCEPT !.uses = (t[i].uses + 1) \div 2] ELSE t[i]
    BY DEF Aged
  <2>3. MaxUses \in Nat /\ t[i].uses \in 0..MaxUses
    BY <2>1, LruConstantsAssumption DEF LruSlots
  <2>4. (t[i].uses + 1) \div 2 \in 0..MaxUses
    BY <2>3
  <2> QED BY <2>1, <2>2, <2>4 DEF LruSlots
<1>2. Aged(t) = [i \in 0..(LruSize - 1) |-> Aged(t)[i]]
  BY DEF Aged
<1> QED BY <1>1, <1>2 DEF LruTables, SameEntries

LEMMA OneMoreUse ==
  ASSUME NEW e \in LruSlots
  PROVE  Used1More(e) \in 0..MaxUses
BY LruConstantsAssumption DEF LruSlots, Used1More

ProbedIn(t, k) == /\ LruProbe(t, k) \in 0..(LruSize - 1)
                  /\ t[LruProbe(t, k)].key \in {0, k}

(* With a free slot a probe ends, holes or not. *)
LEMMA LruProbeEnds ==
  ASSUME NEW t \in LruTables, Cardinality(Used(t, LruSize)) < LruSize, NEW k \in LruKeys
  PROVE  ProbedIn(t, k)
<1>1. LruSize \in Nat /\ LruSize >= 1 /\ k \in Nat
  BY LruSizeAssumption, LruConstantsAssumption
<1>2. PICK S : S = FreeOrOf(t, LruSize, k)
  OBVIOUS
<1>3. S \in SUBSET (0..(LruSize - 1)) /\ S # {}
  <2>1. Free(t, LruSize) # {}
    BY <1>1, UsedIsFinite
  <2> QED BY <1>2, <2>1 DEF Free, FreeOrOf
<1>4. PICK h \in 0..(LruSize - 1) : h = k % LruSize
  BY <1>1, HomeInTable
<1>5. FirstIn(h, S, LruSize) \in S
  BY <1>1, <1>3, FirstInFound
<1>6. LruProbe(t, k) \in S
  BY <1>2, <1>4, <1>5 DEF LruProbe, Probe
<1> QED BY <1>2, <1>6 DEF FreeOrOf, ProbedIn

(* In an intact table it ends at the slot of the key, if there is one. *)
LEMMA LruProbeFinds ==
  ASSUME NEW t \in LruTables, Cardinality(Used(t, LruSize)) < LruSize, Chained(t, LruSize),
         NEW k \in LruKeys, k # 0
  PROVE  /\ ProbedIn(t, k)
         /\ NoneFreeBefore(t, LruSize, k, LruProbe(t, k))
         /\ t[LruProbe(t, k)].key = 0 => Lacks(t, LruSize, k)
<1>1. LruSize \in Nat /\ LruSize >= 1 /\ k \in Nat \ {0}
  BY LruSizeAssumption, LruConstantsAssumption
<1>2. Free(t, LruSize) # {}
  BY <1>1, UsedIsFinite
<1>3. LruProbe(t, k) = Probe(t, LruSize, k)
  BY DEF LruProbe
<1> QED BY <1>1, <1>2, <1>3, ProbeFinds DEF ProbedIn, NoneFreeBefore, Lacks

(* The table, the count and the latest values after PutIn. *)
LruKept ==
    /\ lru \in LruTables
    /\ lruCount \in Nat /\ lruCount = Cardinality(LruUsed)
    /\ latest \in [LruKeys -> LruValues \cup {NoValue}]
    /\ ~holed => /\ Intact(lru)
                 /\ \A k \in LruKeys : k \notin KeysIn(lru) => latest[k] = NoValue

PutReady(t, n) ==
    /\ t \in LruTables
    /\ n \in Nat /\ n = Cardinality(Used(t, LruSize)) /\ n < LruSize
    /\ ~holed' => Intact(t)

LEMMA PutInSafe ==
  ASSUME latest \in [LruKeys -> LruValues \cup {NoValue}],
         NEW t, NEW n, PutReady(t, n), NEW k \in LruKeys, NEW v \in LruValues,
         PutIn(t, n, k, v)
  PROVE  LruKept' /\ lruCount' \in {n, n + 1}
<1>0. /\ LruSize \in Nat /\ LruSize >= 1 /\ t \in LruTables
      /\ n \in Nat /\ n = Cardinality(Used(t, LruSize)) /\ n < LruSize
      /\ ~holed' => Intact(t)
  BY LruSizeAssumption DEF PutReady
<1>1. PICK i : i = LruProbe(t, k)
  OBVIOUS
<1>2. i \in 0..(LruSize - 1) /\ t[i].key \in {0, k}
  BY <1>0, <1>1, LruProbeEnds DEF ProbedIn
<1>3. latest' = [j \in LruKeys |-> IF holed' \/ j \notin KeysIn(lru') THEN NoValue
                                   ELSE IF j = k THEN v ELSE latest[j]]
  BY DEF PutIn
<1>4. latest' \in [LruKeys -> LruValues \cup {NoValue}]
  BY <1>3
<1>5. \A j \in LruKeys : j \notin KeysIn(lru') => latest'[j] = NoValue
  BY <1>3
<1>6. lruCount' = IF t[i].key # k THEN n + 1 ELSE n
  BY <1>1 DEF PutIn
<1>7. LruUsed' = Used(lru', LruSize)
  BY DEF LruUsed, Used
<1>8. HoldsLatest(lru)' <=> \A j \in Used(lru', LruSize) : lru'[j].value = latest'[lru'[j].key]
  BY DEF HoldsLatest, Used
<1>9. \A j \in Used(lru', LruSize) : lru'[j].key \in KeysIn(lru')
  BY DEF Used, KeysIn
<1>10. Intact(lru)' <=> /\ NoTwins(lru', LruSize) /\ Chained(lru', LruSize)
                       /\ \A j \in Used(lru', LruSize) : lru'[j].value = latest'[lru'[j].key]
  BY <1>8 DEF Intact, NoTwins, Chained, Used, Passed
<1>11. \A j \in 0..(LruSize - 1) : t[j] \in LruSlots
  BY <1>0 DEF LruTables
<1>12. \A j \in Used(t, LruSize) : t[j].key \in LruKeys /\ t[j].key # 0
  BY <1>11 DEF LruSlots, Used
<1>13. CASE k = 0
  <2>1. lru' = t /\ lruCount' = n
    BY <1>2, <1>6, <1>13 DEF PutIn
  <2>2. ASSUME ~holed'
        PROVE  Intact(lru)'
    <3>1. NoTwins(t, LruSize) /\ Chained(t, LruSize) /\ HoldsLatest(t)
      BY <1>0, <2>2 DEF Intact
    <3>2. \A j \in Used(t, LruSize) : latest'[t[j].key] = latest[t[j].key]
      BY <1>3, <1>9, <1>12, <1>13, <2>1, <2>2
    <3> QED BY <1>10, <2>1, <3>1, <3>2 DEF HoldsLatest
  <2> QED BY <1>0, <1>4, <1>5, <1>7, <2>1, <2>2 DEF LruKept
<1>14. CASE k # 0
  <2>1. PICK uses : /\ uses = (IF t[i].key # k THEN 1 ELSE Used1More(t[i]))
                    /\ lru' = [t EXCEPT ![i] = [key |-> k, value |-> v, uses |-> uses]]
    BY <1>1, <1>14 DEF PutIn
  <2>2. PICK e : e = [key |-> k, value |-> v, uses |-> uses]
    OBVIOUS
  <2>3. e \in LruSlots /\ e.key = k /\ e.value = v
    <3>1. uses \in 0..MaxUses
      BY <1>2, <1>11, <2>1, OneMoreUse, LruConstantsAssumption
    <3> QED BY <2>2, <3>1 DEF LruSlots
  <2>4. lru' = [t EXCEPT ![i] = e]
    BY <2>1, <2>2
  <2>5. /\ lru' \in LruTables /\ lru'[i] = e
        /\ \A j \in 0..(LruSize - 1) : j # i => lru'[j] = t[j]
    BY <1>0, <1>2, <2>3, <2>4 DEF LruTables
  <2>6. CASE t[i].key # k
    <3>1. Fillable(t, LruSize, e, i, LruSlots)
      BY <1>0, <1>2, <1>14, <2>3, <2>6, LruKeysAreNat DEF Fillable, LruTables
    <3>2. IsFilled(lru', t, LruSize, e, i, LruSlots)
      BY <1>0, <2>4, <3>1, FillSlot
    <3>3. lruCount' = n + 1 /\ lruCount' = Cardinality(Used(lru', LruSize))
      BY <1>0, <1>6, <2>6, <3>2 DEF IsFilled
    <3>4. ASSUME ~holed'
          PROVE  Intact(lru)'
      <4>1. NoTwins(t, LruSize) /\ Chained(t, LruSize) /\ HoldsLatest(t)
        BY <1>0, <3>4 DEF Intact
      <4>2. /\ NoneFreeBefore(t, LruSize, e.key, i)
            /\ Lacks(t, LruSize, e.key)
        BY <1>0, <1>1, <1>2, <1>14, <2>3, <2>6, <4>1, LruProbeFinds
      <4>3. NoTwins(lru', LruSize)
        BY <1>0, <3>2, <4>1, <4>2, FilledHasNoTwins
      <4>4. Chained(lru', LruSize)
        BY <1>0, <3>1, <3>2, <4>1, <4>2, FilledIsChained
      <4>5. ASSUME NEW j \in Used(lru', LruSize)
            PROVE  lru'[j].value = latest'[lru'[j].key]
        <5>1. lru'[j].key \in KeysIn(lru')
          BY <1>9
        <5>2. CASE j = i
          BY <1>3, <2>3, <2>5, <3>4, <5>1, <5>2
        <5>3. CASE j # i
          <6>1. j \in Used(t, LruSize) /\ lru'[j] = t[j]
            BY <2>5, <3>2, <5>3 DEF IsFilled, Used
          <6>2. t[j].key # k /\ t[j].value = latest[t[j].key] /\ t[j].key \in LruKeys
            BY <1>12, <2>3, <4>1, <4>2, <6>1 DEF Lacks, HoldsLatest
          <6> QED BY <1>3, <3>4, <5>1, <6>1, <6>2
        <5> QED BY <5>2, <5>3
      <4> QED BY <1>10, <4>3, <4>4, <4>5
    <3> QED BY <1>0, <1>4, <1>5, <1>7, <2>5, <3>3, <3>4 DEF LruKept
  <2>7. CASE t[i].key = k
    <3>1. /\ \A j \in 0..(LruSize - 1) : lru'[j].key = t[j].key
          /\ Used(lru', LruSize) = Used(t, LruSize)
      BY <1>2, <2>3, <2>5, <2>7 DEF Used
    <3>2. lruCount' = n /\ lruCount' = Cardinality(Used(lru', LruSize))
      BY <1>0, <1>6, <2>7, <3>1
    <3>3. ASSUME ~holed'
          PROVE  Intact(lru)'
      <4>1. NoTwins(t, LruSize) /\ Chained(t, LruSize) /\ HoldsLatest(t)
        BY <1>0, <3>3 DEF Intact
      <4>2. NoTwins(lru', LruSize)
        BY <3>1, <4>1 DEF NoTwins, Used
      <4>3. Chained(lru', LruSize)
        <5> SUFFICES ASSUME NEW j \in Used(lru', LruSize),
                            NEW x \in Passed(lru'[j].key % LruSize, j, LruSize)
                     PROVE  lru'[x].key # 0
          BY DEF Chained
        <5>1. j \in Used(t, LruSize) /\ j \in 0..(LruSize - 1) /\ lru'[j].key = t[j].key
          BY <3>1 DEF Used
        <5>2. t[j].key \in Nat
          BY <1>11, <5>1, LruKeysAreNat
        <5>3. x \in 0..(LruSize - 1)
          BY <1>0, <5>1, <5>2, HomeInTable, PassedInTable
        <5>4. t[x].key # 0
          BY <4>1, <5>1 DEF Chained
        <5> QED BY <3>1, <5>3, <5>4
      <4>4. ASSUME NEW j \in Used(lru', LruSize)
            PROVE  lru'[j].value = latest'[lru'[j].key]
        <5>1. lru'[j].key \in KeysIn(lru')
          BY <1>9
        <5>2. CASE j = i
          BY <1>3, <2>3, <2>5, <3>3, <5>1, <5>2
        <5>3. CASE j # i
          <6>1. j \in Used(t, LruSize) /\ lru'[j] = t[j] /\ i \in Used(t, LruSize)
            BY <1>2, <1>14, <2>5, <2>7, <3>1, <5>3 DEF Used
          <6>2. t[j].key # k /\ t[j].value = latest[t[j].key] /\ t[j].key \in LruKeys
            BY <1>12, <2>7, <4>1, <5>3, <6>1 DEF NoTwins, HoldsLatest
          <6> QED BY <1>3, <3>3, <5>1, <6>1, <6>2
        <5> QED BY <5>2, <5>3
      <4> QED BY <1>10, <4>2, <4>3, <4>4
    <3> QED BY <1>0, <1>4, <1>5, <1>7, <2>5, <3>2, <3>3 DEF LruKept
  <2> QED BY <2>6, <2>7
<1> QED BY <1>13, <1>14

LEMMA LruInvFacts ==
  ASSUME LruInv
  PROVE  /\ LruSize \in Nat /\ LruSize >= 5 /\ lru \in LruTables /\ lruCount \in Nat
         /\ ageCounter \in Nat /\ holed \in BOOLEAN
         /\ latest \in [LruKeys -> LruValues \cup {NoValue}]
         /\ lruCount = Cardinality(Used(lru, LruSize)) /\ lruCount < LruSize
         /\ ~holed => Intact(lru)
         /\ ~holed => \A k \in LruKeys : k \notin KeysIn(lru) => latest[k] = NoValue
BY LruSizeAssumption DEF LruInv, LruTypeOK, LruUsed

LEMMA LruInsertSafe ==
  ASSUME LruInv, NEW k \in LruKeys, NEW v \in LruValues, NEW ok \in BOOLEAN,
         LruInsert(k, v, ok)
  PROVE  LruInv'
<1> DEFINE evicts == lruCount >= EvictAt
           ages == ageCounter + 1 >= AgingInterval
<1>0. /\ LruSize \in Nat /\ LruSize >= 5 /\ lru \in LruTables /\ lruCount \in Nat
      /\ ageCounter \in Nat /\ holed \in BOOLEAN
      /\ latest \in [LruKeys -> LruValues \cup {NoValue}]
      /\ lruCount = Cardinality(Used(lru, LruSize)) /\ lruCount < LruSize
      /\ ~holed => Intact(lru)
  BY LruInvFacts
<1>1. PICK t : t = IF evicts THEN AfterEviction(0, ok) ELSE lru
  OBVIOUS
<1>2. PICK n : n = IF evicts THEN lruCount - Excess(0) ELSE lruCount
  OBVIOUS
<1>3. PICK u : u = IF ages THEN Aged(t) ELSE t
  OBVIOUS
<1>4. /\ ok \/ (AllocFails /\ ~holed /\ evicts)
      /\ holed' = (holed \/ ~ok)
      /\ ageCounter' = (IF ages THEN 0 ELSE ageCounter + 1)
      /\ PutIn(u, n, k, v)
  BY <1>1, <1>2, <1>3 DEF LruInsert
<1>5. /\ t \in LruTables /\ n = Cardinality(Used(t, LruSize))
      /\ ~holed /\ ok => Intact(t)
  <2>1. CASE evicts
    <3>1. t = AfterEviction(0, ok) /\ n = lruCount - Excess(0) /\ 0 \in 0..LruSize
      BY <1>0, <1>1, <1>2, <2>1
    <3> QED BY <3>1, EvictionKeeps
  <2>2. CASE ~evicts
    BY <1>0, <1>1, <1>2, <2>2
  <2> QED BY <2>1, <2>2
<1>6. n \in Nat /\ n + 1 < LruSize
  <2>1. CASE evicts
    <3>1. /\ Excess(0) \in Nat /\ Excess(0) <= lruCount
          /\ Excess(0) # 0 => lruCount - Excess(0) = TargetCount
          /\ Excess(0) = 0 => lruCount <= TargetCount
      BY <1>0, ExcessBounds
    <3>2. n = lruCount - Excess(0)
      BY <1>2, <2>1
    <3>3. TargetCount \in Nat /\ TargetCount + 1 < LruSize
      BY <1>0 DEF TargetCount
    <3> QED BY <1>0, <3>1, <3>2, <3>3
  <2>2. CASE ~evicts
    BY <1>0, <1>2, <2>2 DEF EvictAt
  <2> QED BY <2>1, <2>2
<1>7. PutReady(u, n)
  <2>1. u \in LruTables /\ Used(u, LruSize) = Used(t, LruSize) /\ (Intact(t) => Intact(u))
    BY <1>3, <1>5, AgedKeeps, SameEntriesKeep
  <2>2. ~holed' => ~holed /\ ok
    BY <1>4
  <2>3. ASSUME ~holed' PROVE Intact(u)
    BY <1>5, <2>1, <2>2, <2>3
  <2>4. u \in LruTables /\ n \in Nat /\ n = Cardinality(Used(u, LruSize)) /\ n < LruSize
    BY <1>0, <1>5, <1>6, <2>1
  <2> QED BY <2>3, <2>4 DEF PutReady
<1>8. LruKept' /\ lruCount' \in {n, n + 1}
  BY <1>0, <1>4, <1>7, PutInSafe
<1>9. (lruCount < LruSize)' /\ (ageCounter \in Nat)' /\ (holed \in BOOLEAN)'
  BY <1>0, <1>4, <1>6, <1>8
<1> QED BY <1>8, <1>9 DEF LruKept, LruInv, LruTypeOK

LEMMA LruLookupSafe ==
  ASSUME LruInv, NEW k \in LruKeys, LruLookup(k)
  PROVE  LruInv'
<1>0. /\ LruSize \in Nat /\ LruSize >= 5 /\ lru \in LruTables
      /\ lruCount = Cardinality(Used(lru, LruSize)) /\ lruCount < LruSize
      /\ ~holed => Intact(lru)
      /\ ~holed => \A j \in LruKeys : j \notin KeysIn(lru) => latest[j] = NoValue
  BY LruInvFacts
<1>1. PICK i : i = LruProbe(lru, k)
  OBVIOUS
<1>2. i \in 0..(LruSize - 1)
  BY <1>0, <1>1, LruProbeEnds DEF ProbedIn
<1>3. /\ lru' = [lru EXCEPT ![i].uses = Used1More(lru[i])]
      /\ UNCHANGED <<lruCount, ageCounter, holed, latest>>
  BY <1>1 DEF LruLookup
<1>4. lru[i] \in LruSlots /\ Used1More(lru[i]) \in 0..MaxUses
  BY <1>0, <1>2, OneMoreUse DEF LruTables
<1>5. lru' \in LruTables /\ SameEntries(lru', lru)
  <2>1. PICK e : e = [lru[i] EXCEPT !.uses = Used1More(lru[i])]
    OBVIOUS
  <2>2. e \in LruSlots /\ e.key = lru[i].key /\ e.value = lru[i].value
    BY <1>4, <2>1 DEF LruSlots
  <2>3. lru' = [lru EXCEPT ![i] = e]
    BY <1>3, <2>1
  <2> QED BY <1>0, <1>2, <2>2, <2>3 DEF LruTables, SameEntries
<1>6. /\ Used(lru', LruSize) = Used(lru, LruSize) /\ KeysIn(lru') = KeysIn(lru)
      /\ Intact(lru) => Intact(lru')
  BY <1>0, <1>5, SameEntriesKeep
<1>7. Intact(lru)' <=> Intact(lru')
  BY <1>3 DEF Intact, NoTwins, Chained, HoldsLatest, Used, Passed
<1>8. LruTypeOK'
  BY <1>3, <1>5 DEF LruInv, LruTypeOK
<1>9. KeysIn(lru)' = KeysIn(lru') /\ LruUsed' = Used(lru', LruSize)
  BY DEF KeysIn, LruUsed, Used
<1> QED BY <1>0, <1>3, <1>6, <1>7, <1>8, <1>9 DEF LruInv

LEMMA LruAgeCountsSafe ==
  ASSUME LruInv, LruAgeCounts
  PROVE  LruInv'
<1>0. /\ LruSize \in Nat /\ LruSize >= 5 /\ lru \in LruTables
      /\ lruCount = Cardinality(Used(lru, LruSize)) /\ lruCount < LruSize
      /\ ~holed => Intact(lru)
      /\ ~holed => \A j \in LruKeys : j \notin KeysIn(lru) => latest[j] = NoValue
  BY LruInvFacts
<1>1. lru' = Aged(lru) /\ ageCounter' = 0 /\ UNCHANGED <<lruCount, holed, latest>>
  BY DEF LruAgeCounts
<1>2. lru' \in LruTables /\ SameEntries(lru', lru)
  BY <1>0, <1>1, AgedKeeps
<1>3. /\ Used(lru', LruSize) = Used(lru, LruSize) /\ KeysIn(lru') = KeysIn(lru)
      /\ Intact(lru) => Intact(lru')
  BY <1>0, <1>2, SameEntriesKeep
<1>4. Intact(lru)' <=> Intact(lru')
  BY <1>1 DEF Intact, NoTwins, Chained, HoldsLatest, Used, Passed
<1>5. LruTypeOK'
  BY <1>1, <1>2 DEF LruInv, LruTypeOK
<1>6. KeysIn(lru)' = KeysIn(lru') /\ LruUsed' = Used(lru', LruSize)
  BY DEF KeysIn, LruUsed, Used
<1> QED BY <1>0, <1>1, <1>3, <1>4, <1>5, <1>6 DEF LruInv

LEMMA LruEvictSafe ==
  ASSUME LruInv, NEW keep \in 0..LruSize, NEW ok \in BOOLEAN, LruEvict(keep, ok)
  PROVE  LruInv'
<1>0. /\ LruSize \in Nat /\ LruSize >= 5 /\ lru \in LruTables /\ lruCount \in Nat
      /\ ageCounter \in Nat /\ holed \in BOOLEAN
      /\ latest \in [LruKeys -> LruValues \cup {NoValue}] /\ lruCount < LruSize
  BY LruInvFacts
<1>1. /\ holed' = (holed \/ ~ok)
      /\ lru' = AfterEviction(keep, ok)
      /\ lruCount' = lruCount - Excess(keep)
      /\ latest' = [j \in LruKeys |->
                      IF holed' \/ j \notin KeysIn(lru') THEN NoValue ELSE latest[j]]
      /\ ageCounter' = ageCounter
  BY DEF LruEvict
<1>2. /\ lru' \in LruTables
      /\ Cardinality(Used(lru', LruSize)) = lruCount - Excess(keep)
      /\ ~holed /\ ok => Intact(lru')
  BY <1>1, EvictionKeeps
<1>3. lruCount' \in Nat /\ lruCount' < LruSize
  BY <1>0, <1>1, ExcessBounds
<1>4. LruTypeOK'
  BY <1>0, <1>1, <1>2, <1>3 DEF LruTypeOK
<1>5. KeysIn(lru)' = KeysIn(lru') /\ LruUsed' = Used(lru', LruSize)
  BY DEF KeysIn, LruUsed, Used
<1>6. \A k \in LruKeys : k \notin KeysIn(lru') => latest'[k] = NoValue
  BY <1>1
<1>7. ASSUME ~holed'
      PROVE  Intact(lru)'
  <2>1. ~holed /\ ok
    BY <1>0, <1>1, <1>7
  <2>2. NoTwins(lru', LruSize) /\ Chained(lru', LruSize) /\ HoldsLatest(lru')
    BY <1>2, <2>1 DEF Intact
  <2>3. ASSUME NEW j \in Used(lru', LruSize)
        PROVE  lru'[j].value = latest'[lru'[j].key]
    <3>1. lru'[j].key \in KeysIn(lru') /\ lru'[j] \in LruSlots /\ lru'[j].key # 0
      BY <1>2 DEF Used, KeysIn, LruTables
    <3>2. lru'[j].key \in LruKeys
      BY <3>1 DEF LruSlots
    <3> QED BY <1>1, <1>7, <2>2, <3>1, <3>2 DEF HoldsLatest
  <2>4. HoldsLatest(lru)'
    BY <2>3 DEF HoldsLatest, Used
  <2> QED BY <2>2, <2>4 DEF Intact, NoTwins, Chained, Used, Passed
<1> QED BY <1>1, <1>2, <1>3, <1>4, <1>5, <1>6, <1>7 DEF LruInv

LEMMA LruInitSafe ==
  ASSUME LruInit
  PROVE  LruInv
<1>1. /\ lru = Tombstones /\ lruCount = 0 /\ ageCounter = 0 /\ holed = FALSE
      /\ latest = [k \in LruKeys |-> NoValue]
  BY DEF LruInit
<1>2. LruTypeOK
  BY <1>1, TombstonesEmpty DEF LruTypeOK
<1>3. Used(lru, LruSize) = {}
  BY <1>1, TombstonesEmpty
<1>4. lruCount = Cardinality(LruUsed) /\ lruCount < LruSize
  BY <1>1, <1>3, FS_EmptySet, LruSizeAssumption DEF LruUsed
<1>5. Intact(lru)
  BY <1>3 DEF Intact, NoTwins, Chained, HoldsLatest
<1> QED BY <1>1, <1>2, <1>4, <1>5 DEF LruInv

LEMMA LruInvHolds == LruSpec => []LruInv
<1>1. LruInit => LruInv
  BY LruInitSafe
<1>2. LruInv /\ [LruNext]_lruVars => LruInv'
  <2> SUFFICES ASSUME LruInv, [LruNext]_lruVars PROVE LruInv'
    OBVIOUS
  <2>1. ASSUME NEW k \in LruKeys, NEW v \in LruValues, NEW ok \in BOOLEAN, LruInsert(k, v, ok)
        PROVE  LruInv'
    BY <2>1, LruInsertSafe
  <2>2. ASSUME NEW k \in LruKeys, LruLookup(k) PROVE LruInv'
    BY <2>2, LruLookupSafe
  <2>3. ASSUME NEW keep \in 0..LruSize, NEW ok \in BOOLEAN, LruEvict(keep, ok) PROVE LruInv'
    BY <2>3, LruEvictSafe
  <2>4. CASE LruAgeCounts
    BY <2>4, LruAgeCountsSafe
  <2>5. CASE UNCHANGED lruVars
    BY <2>5 DEF lruVars, LruInv, LruTypeOK, LruUsed, KeysIn, Intact, NoTwins, Chained,
                HoldsLatest, Used, Passed
  <2> QED BY <2>1, <2>2, <2>3, <2>4, <2>5 DEF LruNext
<1> QED BY <1>1, <1>2, PTL DEF LruSpec

(* As long as every rehash had its memory, a hit is the value the key was  *)
(* last inserted with, and a key that was not evicted is hit; the probes   *)
(* end whatever happened: for every size of the table and every keys.      *)
THEOREM LruHitsAreLatest == LruSpec => []LruHitIsLatest
<1>1. LruInv => LruHitIsLatest
  <2> SUFFICES ASSUME LruInv PROVE LruHitIsLatest
    OBVIOUS
  <2>1. lruCount = Cardinality(LruUsed) /\ lruCount < LruSize
    BY DEF LruInv
  <2>2. ASSUME ~holed, NEW k \in LruKeys \ {0}
        PROVE  IF LruFinds(lru, k) THEN lru[LruProbe(lru, k)].value = latest[k]
                                   ELSE latest[k] = NoValue
    <3>1. /\ lru \in LruTables /\ Cardinality(Used(lru, LruSize)) < LruSize
          /\ Intact(lru) /\ \A j \in LruKeys : j \notin KeysIn(lru) => latest[j] = NoValue
      BY <2>2, LruInvFacts
    <3>2. PICK p : p = LruProbe(lru, k)
      OBVIOUS
    <3>3. /\ p \in 0..(LruSize - 1) /\ lru[p].key \in {0, k}
          /\ lru[p].key = 0 => Lacks(lru, LruSize, k)
      BY <3>1, <3>2, LruProbeFinds DEF ProbedIn, Intact
    <3>4. LruFinds(lru, k) <=> lru[p].key = k
      BY <3>2 DEF LruFinds
    <3>5. CASE lru[p].key = k
      <4>1. p \in Used(lru, LruSize)
        BY <3>3, <3>5 DEF Used
      <4> QED BY <3>1, <3>2, <3>4, <3>5, <4>1 DEF Intact, HoldsLatest
    <3>6. CASE lru[p].key = 0
      <4>1. k \notin KeysIn(lru)
        BY <3>3, <3>6 DEF Lacks, KeysIn, Used
      <4> QED BY <3>1, <3>4, <3>6, <4>1
    <3> QED BY <3>3, <3>5, <3>6
  <2> QED BY <2>1, <2>2 DEF LruHitIsLatest
<1> QED BY <1>1, LruInvHolds, PTL

(* No eviction takes an entry that enough colder ones could have spared.   *)
THEOREM EvictionsAreCold == LruSpec => []EvictsCold
<1>1. LruInv => EvictsCold
  <2> SUFFICES ASSUME LruInv, NEW keep \in 0..LruSize, NEW i \in Evicted(keep)
               PROVE  Cardinality({j \in LruUsed : lru[j].uses < lru[i].uses}) < Excess(keep)
    BY DEF EvictsCold
  <2>1. Excess(keep) \in Nat /\ Excess(keep) >= 1 /\ Excess(keep) <= lruCount
    <3>1. Excess(keep) # 0
      BY DEF Evicted
    <3> QED BY <3>1, ExcessBounds
  <2>2. PICK c : c = Cutoff(Excess(keep))
    OBVIOUS
  <2>3. c \in 0..MaxUses /\ \A w \in 0..(c - 1) : Cardinality(AtOrBelow(w)) < Excess(keep)
    BY <2>1, <2>2, CutoffFound
  <2>4. i \in LruUsed /\ lru[i].uses <= c
    BY <2>1, <2>2 DEF Evicted, AtOrBelow
  <2>5. MaxUses \in Nat /\ \A j \in LruUsed : lru[j].uses \in 0..MaxUses
    BY LruInvFacts, LruConstantsAssumption DEF LruUsed, Used, LruTables, LruSlots
  <2>6. CASE lru[i].uses = 0
    <3>1. {j \in LruUsed : lru[j].uses < lru[i].uses} = {}
      BY <2>5, <2>6
    <3> QED BY <2>1, <3>1, FS_EmptySet
  <2>7. CASE lru[i].uses # 0
    <3>1. lru[i].uses - 1 \in 0..(c - 1)
      BY <2>3, <2>4, <2>5, <2>7
    <3>2. {j \in LruUsed : lru[j].uses < lru[i].uses} = AtOrBelow(lru[i].uses - 1)
      <4>1. \A j \in LruUsed : lru[j].uses < lru[i].uses <=> lru[j].uses <= lru[i].uses - 1
        BY <2>4, <2>5
      <4> QED BY <4>1 DEF AtOrBelow
    <3> QED BY <2>3, <3>1, <3>2
  <2> QED BY <2>6, <2>7
<1> QED BY <1>1, LruInvHolds, PTL
=============================================================================
