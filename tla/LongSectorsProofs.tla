-------------------------- MODULE LongSectorsProofs --------------------------
(***************************************************************************)
(* Proofs about LongSectors: what is taken apart is put together, for      *)
(* every medium, every number of sessions, blocks that are lost, and the   *)
(* repair.                                                                 *)
(***************************************************************************)
EXTENDS LongSectors, FiniteSetTheorems, WellFoundedInduction, TLAPS

IsSeq(q) == q \in Seq(Range(q))

(***************************************************************************)
(* What the image holds.                                                   *)
(***************************************************************************)
TableType == [All -> EntryType]
SlotSeq == Seq(STRING \ {Lost})
Subheaders == [All -> STRING]

UserType ==
    {Unwritten} \cup RawSectors \cup [sub : STRING, user : STRING] \cup [user : STRING]
        \cup [data : STRING]

UserData == [All -> UserType]
TagArrays == [media.arrays -> {None} \cup [All -> TagBytes]]

CtxOK(c) ==
    /\ c = [ddt |-> c.ddt, arena |-> c.arena, sub |-> c.sub, tags |-> c.tags, user |-> c.user]
    /\ c.ddt \in [Parts -> {None} \cup TableType]
    /\ c.arena \in [Parts -> [slots : SlotSeq, room : Nat]]
    /\ \A p \in Parts : Len(c.arena[p].slots) <= c.arena[p].room
    /\ c.sub \in {None} \cup Subheaders
    /\ c.tags \in TagArrays
    /\ c.user \in UserData

ValueOK(kind, value) ==
    /\ kind \in {"prefix_ddt", "suffix_ddt"} => value \in TableType
    /\ kind \in Parts => value \in SlotSeq
    /\ kind = "sub" => value \in Subheaders
    /\ kind = "tags" => value \in TagArrays
    /\ kind = "user" => value \in UserData

FileOK ==
    /\ IsSeq(file)
    /\ \A i \in DOMAIN file : file[i].kind \in Kinds /\ ValueOK(file[i].kind, file[i].value)

(* The index names the last block of a kind. *)
Indexed ==
    /\ index \in [Kinds -> 0..Len(file)]
    /\ \A kind \in Kinds :
          IF index[kind] = 0 THEN PlacesOf(kind) = {}
          ELSE index[kind] \in PlacesOf(kind) /\ \A i \in PlacesOf(kind) : i <= index[kind]

(* The context that a reader of the file makes. *)
Disk == Loaded([p \in Parts |-> LoadedArena(p)])

(***************************************************************************)
(* Sectors.                                                                *)
(***************************************************************************)
PartIn(raw, p) == IF p = "prefix" THEN raw.prefix ELSE raw.suffix

(* What each status stands for. *)
Correct(type, p) ==
    IF type = "mode1" THEN [Mode1Correct |-> "mode1"]
    ELSE IF p = "prefix" THEN [Mode2Form1Ok |-> "mode2", Mode2Form2Ok |-> "mode2"]
    ELSE [Mode2Form1Ok |-> "form1", Mode2Form2Ok |-> "form2", Mode2Form2NoCrc |-> "zero"]

Standard(type, p, e, raw) ==
    e.status \in DOMAIN Correct(type, p) /\ Correct(type, p)[e.status] = PartIn(raw, p)

(* The sector has parts that are kept apart. *)
Split(s, x) == TypeOfSector(s) \in {"mode1", "mode2"} /\ x # Unwritten

(* The context has all of a sector, but perhaps the slots. *)
Held(c, s, x) ==
    /\ c.user[s] = IF Split(s, x) THEN UserOf(TypeOfSector(s), x) ELSE x
    /\ Split(s, x) =>
          /\ x \in RawSectors
          /\ TypeOfSector(s) = "mode2" => c.sub # None /\ c.sub[s] = x.sub
          /\ \A p \in Parts :
                /\ c.ddt[p] # None
                /\ is_custom(c.ddt[p][s]) \/ Standard(TypeOfSector(s), p, c.ddt[p][s], x)

Custom(c, p, s, x) == Split(s, x) /\ is_custom(c.ddt[p][s])

Kept(c, s, x) ==
    \A p \in Parts : Custom(c, p, s, x) =>
        /\ c.ddt[p][s].index < Len(c.arena[p].slots)
        /\ c.arena[p].slots[c.ddt[p][s].index + 1] = PartIn(x, p)

Found(p, s, e) == {i \in scan_generations(p) : Holds(p, i, s, e)}

(* The repair finds the slots. *)
Findable(c, s, x) ==
    \A p \in Parts : Custom(c, p, s, x) =>
        Found(p, s, c.ddt[p][s]) # {} /\ find_slot(p, s, c.ddt[p][s]) = PartIn(x, p)

(* No table of the file has this very entry. *)
Fresh(c, s, x) ==
    \A p \in Parts : Custom(c, p, s, x) => Found(p, s, c.ddt[p][s]) = {}

(* What the sector needs will be written. *)
Marked(c, s, x) ==
    /\ "user" \in dirty
    /\ Split(s, x) => /\ {"prefix_ddt", "suffix_ddt"} \subseteq dirty
                      /\ TypeOfSector(s) = "mode2" => "sub" \in dirty
    /\ \A p \in Parts : Custom(c, p, s, x) => p \in dirty

(* d has of the sector what c has. *)
Agree(c, d, s) ==
    /\ d.user[s] = c.user[s]
    /\ c.sub # None => d.sub # None /\ d.sub[s] = c.sub[s]
    /\ \A p \in Parts : c.ddt[p] # None => d.ddt[p] # None /\ d.ddt[p][s] = c.ddt[p][s]

(* d has the slots of c, in their places. *)
Extends(c, d) ==
    \A p \in Parts :
        /\ Len(c.arena[p].slots) <= Len(d.arena[p].slots)
        /\ \A i \in 1..Len(c.arena[p].slots) : d.arena[p].slots[i] = c.arena[p].slots[i]

(***************************************************************************)
(* The invariants.                                                         *)
(***************************************************************************)
OldSector(s) ==
    /\ Held(Disk, s, expected[s])
    /\ ~ restarted => Kept(Disk, s, expected[s])
    /\ repairs = 0 => Findable(Disk, s, expected[s])
    /\ phase = "writing" => Agree(Disk, ctx, s)

NewSector(s) ==
    /\ Held(ctx, s, expected[s])
    /\ Kept(ctx, s, expected[s])
    /\ Marked(ctx, s, expected[s])
    /\ repairs = 0 => Fresh(ctx, s, expected[s])

SectorsInv ==
    \A s \in All : expected[s] # Whatever =>
        IF s \in session THEN NewSector(s) ELSE OldSector(s)

ArenasInv ==
    /\ phase = "writing" /\ ~ restarted => Extends(Disk, ctx)
    /\ ~ restarted /\ repairs = 0 =>
          \A p \in Parts : \A i \in PlacesOf(p) :
              Len(file[i].value) <= Len(Disk.arena[p].slots)

LongTyped ==
    /\ media \in Media
    /\ CtxOK(ctx)
    /\ FileOK /\ Indexed
    /\ dirty \subseteq Kinds /\ session \subseteq All
    /\ phase \in {"writing", "closed"}
    /\ phase = "closed" => session = {}
    /\ restarted \in BOOLEAN /\ repairs \in Nat /\ sessions \in Nat
    /\ repairs > 0 => ~ restarted
    /\ DOMAIN expected = All

CdInv == IsCd => SectorsInv /\ ArenasInv

(***************************************************************************)
(* Sectors with tags.                                                      *)
(***************************************************************************)
TaggedType ==
    [tags : [media.arrays -> {<<>>} \cup TagBytes], user : {Unwritten} \cup [data : STRING]]

HoldsTag(c, x, a, s) ==
    IF c.tags[a] = None THEN x.tags[a] = Zeros
    ELSE c.tags[a][s] # <<>> /\ RightTag(x.tags[a], c.tags[a][s])

HoldsSector(c, x, s) ==
    c.user[s] = x.user /\ \A a \in media.arrays : HoldsTag(c, x, a, s)

TagsHeld(c) == \A s \in All : HoldsSector(c, expected[s], s)

(* Only an Apple drive is followed into later sessions. *)
Followed == media.name = "apple" \/ sessions = 1

(* What is not dirty is in the file. *)
TagsClean ==
    /\ "user" \notin dirty => ctx.user = Disk.user
    /\ "tags" \notin dirty => ctx.tags = Disk.tags
    /\ ctx.tags["tag"] = None => Disk.tags["tag"] = None

TagInv ==
    ~ IsCd =>
        /\ sessions # 0 /\ ~ restarted
        /\ expected \in [All -> TaggedType]
        /\ phase = "writing" /\ Followed => TagsHeld(ctx)
        /\ media.name = "apple" =>
              /\ phase = "closed" => TagsHeld(Disk)
              /\ phase = "writing" => TagsClean
              /\ media.drive = "widget" => ctx.tags["tag"] = None /\ Disk.tags["tag"] = None

LongInv == LongTyped /\ CdInv /\ TagInv

(***************************************************************************)
(* Sequences and numbers.                                                  *)
(***************************************************************************)
LEMMA SequenceIs ==
  ASSUME NEW S, NEW q, q \in Seq(S)
  PROVE  IsSeq(q)
<1>1. Len(q) \in Nat /\ DOMAIN q = 1..Len(q) /\ \A i \in 1..Len(q) : q[i] \in Range(q)
  BY DEF Range
<1>2. q = [i \in 1..Len(q) |-> q[i]]
  BY <1>1
<1>3. [i \in 1..Len(q) |-> q[i]] \in Seq(Range(q))
  BY <1>1
<1> QED BY <1>2, <1>3 DEF IsSeq

LEMMA SeqFacts ==
  ASSUME NEW q, IsSeq(q)
  PROVE  Len(q) \in Nat /\ DOMAIN q = 1..Len(q)
BY DEF IsSeq

LEMMA AppendFacts ==
  ASSUME NEW q, IsSeq(q), NEW e
  PROVE  /\ IsSeq(Append(q, e)) /\ Len(Append(q, e)) = Len(q) + 1
         /\ DOMAIN Append(q, e) = 1..(Len(q) + 1)
         /\ \A i \in DOMAIN q : Append(q, e)[i] = q[i]
         /\ Append(q, e)[Len(q) + 1] = e
<1> DEFINE S == Range(q) \cup {e}
<1>1. q \in Seq(S) /\ e \in S
  <2>1. q \in Seq(Range(q))
    BY DEF IsSeq
  <2>2. \A i \in 1..Len(q) : q[i] \in S
    BY <2>1
  <2>3. q = [i \in 1..Len(q) |-> q[i]] /\ Len(q) \in Nat
    BY <2>1
  <2>4. [i \in 1..Len(q) |-> q[i]] \in Seq(S)
    BY <2>2, <2>3
  <2> QED BY <2>3, <2>4
<1> HIDE DEF S
<1>2. Append(q, e) \in Seq(S)
  BY <1>1
<1>3. IsSeq(Append(q, e))
  BY <1>2, SequenceIs
<1>4. /\ Len(Append(q, e)) = Len(q) + 1 /\ DOMAIN Append(q, e) = 1..(Len(q) + 1)
      /\ \A i \in 1..Len(q) : Append(q, e)[i] = q[i]
      /\ Append(q, e)[Len(q) + 1] = e
  BY <1>1
<1> QED BY <1>1, <1>3, <1>4

LEMMA MaxOf ==
  ASSUME NEW S, NEW m \in S, \A y \in S : y \in Int, \A y \in S : m >= y
  PROVE  Max(S) = m
<1>1. \E x \in S : \A y \in S : x >= y
  OBVIOUS
<1>2. Max(S) \in S /\ \A y \in S : Max(S) >= y
  BY <1>1 DEF Max
<1>3. Max(S) >= m /\ m >= Max(S)
  BY <1>2
<1> QED BY <1>2, <1>3

LEMMA MinOf ==
  ASSUME NEW S, NEW m \in S, \A y \in S : y \in Int, \A y \in S : m <= y
  PROVE  Min(S) = m
<1>1. \E x \in S : \A y \in S : x <= y
  OBVIOUS
<1>2. Min(S) \in S /\ \A y \in S : Min(S) <= y
  BY <1>1 DEF Min
<1>3. Min(S) >= m /\ m >= Min(S)
  BY <1>2
<1> QED BY <1>2, <1>3

(* By the sets of what is not greater, ordered by inclusion. *)
LEMMA LeastElement ==
  ASSUME NEW T, T \subseteq Nat, T # {}
  PROVE  \E x \in T : \A y \in T : x <= y
<1> DEFINE UpTo(x) == 0..x
           P == {UpTo(x) : x \in T}
           R == StrictSubsetOrdering(Nat)
           F == FiniteSubsetsOf(Nat)
<1>1. P \subseteq F
  <2>1. \A x \in T : 0..x \in SUBSET Nat /\ IsFiniteSet(0..x)
    BY FS_Interval
  <2> QED BY <2>1 DEF FiniteSubsetsOf
<1>2. P # {}
  OBVIOUS
<1>3. IsWellFoundedOn(R, F)
  BY FS_StrictSubsetOrderingWellFounded
<1>4. PICK q \in P : \A r \in P : <<r, q>> \notin R
  <2> HIDE DEF P, R, F
  <2> QED BY <1>1, <1>2, <1>3, WFMin
<1>5. PICK x \in T : q = 0..x
  BY <1>4
<1>6. ASSUME NEW y \in T, y < x
      PROVE  FALSE
  <2>1. 0..y \in P /\ 0..y \in SUBSET Nat /\ 0..x \in SUBSET Nat
    OBVIOUS
  <2>2. 0..y \subseteq 0..x /\ 0..y # 0..x
    <3>1. x \in 0..x /\ x \notin 0..y
      BY <1>6
    <3>2. \A z \in 0..y : z \in 0..x
      BY <1>6
    <3> QED BY <3>1, <3>2
  <2>3. <<0..y, 0..x>> \in R
    BY <2>1, <2>2 DEF StrictSubsetOrdering
  <2> QED BY <1>4, <1>5, <2>1, <2>3
<1>7. \A y \in T : x <= y
  BY <1>6
<1> QED BY <1>7

LEMMA InductionUpTo ==
  ASSUME NEW m \in Nat, NEW S, 0 \in S, \A n \in 0..(m - 1) : n \in S => n + 1 \in S
  PROVE  0..m \subseteq S
<1> DEFINE T == S \cup {n \in Nat : n > m}
<1>1. 0 \in T /\ \A n \in Nat : n \in T => n + 1 \in T
  OBVIOUS
<1>2. ASSUME Nat \ T # {}
      PROVE  FALSE
  <2>1. PICK x \in Nat \ T : \A y \in Nat \ T : x <= y
    BY <1>2, LeastElement
  <2>2. x # 0 /\ x - 1 \in Nat
    BY <1>1, <2>1
  <2>3. x - 1 \in T
    BY <2>1, <2>2
  <2> HIDE DEF T
  <2> QED BY <1>1, <2>1, <2>2, <2>3
<1> QED BY <1>2

LEMMA MaxIn ==
  ASSUME NEW S, S \subseteq Nat, S # {}, NEW b \in Nat, \A x \in S : x <= b
  PROVE  Max(S) \in S /\ \A x \in S : x <= Max(S)
<1> DEFINE T == {b - x : x \in S}
<1>1. T \subseteq Nat /\ T # {}
  <2>1. \A x \in S : b - x \in Nat
    OBVIOUS
  <2> QED BY <2>1
<1>2. PICK t \in T : \A x \in T : t <= x
  <2> HIDE DEF T
  <2> QED BY <1>1, LeastElement
<1>3. PICK m \in S : t = b - m
  OBVIOUS
<1>4. \A x \in S : x <= m
  <2>1. TAKE x \in S
  <2>2. b - m <= b - x
    BY <1>2, <1>3
  <2>3. m \in Nat /\ x \in Nat
    OBVIOUS
  <2> QED BY <2>2, <2>3
<1>5. \E x \in S : \A y \in S : x >= y
  BY <1>4
<1>6. Max(S) \in S /\ \A y \in S : Max(S) >= y
  BY <1>5 DEF Max
<1> QED BY <1>6

LEMMA MinIn ==
  ASSUME NEW S, S \subseteq Nat, S # {}
  PROVE  Min(S) \in S /\ \A x \in S : Min(S) <= x
<1>1. PICK m \in S : \A x \in S : m <= x
  BY LeastElement
<1> QED BY <1>1 DEF Min

(***************************************************************************)
(* Contexts.                                                               *)
(***************************************************************************)
LEMMA NoneIs ==
  /\ None \notin STRING /\ None \notin Subheaders /\ None \notin TableType
  /\ None \notin [All -> TagBytes] /\ Sectors \in Nat
BY MediaAssumption DEF Subheaders, TableType

LEMMA NoDdtIs ==
  /\ NotDumped \in EntryType /\ NoDdt \in TableType
  /\ \A s \in All : NoDdt[s] = NotDumped
<1>1. NotDumped \in EntryType
  BY DEF NotDumped, Entry, EntryType, Statuses
<1> QED BY <1>1 DEF NoDdt, TableType

LEMMA SlotSeqIs ==
  ASSUME NEW q \in SlotSeq
  PROVE  Len(q) \in Nat /\ q # None
<1>1. q \in Seq(STRING) /\ Len(q) \in Nat
  BY DEF SlotSeq
<1> QED BY <1>1, MediaAssumption

LEMMA AgreeTrans ==
  ASSUME NEW b, NEW c, NEW d, NEW s, Agree(b, c, s), Agree(c, d, s)
  PROVE  Agree(b, d, s)
BY DEF Agree

LEMMA NatTrans ==
  ASSUME NEW i \in Nat, NEW j \in Nat, NEW k \in Nat, i <= j, j <= k
  PROVE  i <= k
OBVIOUS

LEMMA ExtendsTrans ==
  ASSUME NEW b, NEW c, NEW d, CtxOK(b), CtxOK(c), CtxOK(d), Extends(b, c), Extends(c, d)
  PROVE  Extends(b, d)
<1> SUFFICES ASSUME NEW p \in Parts
             PROVE  /\ Len(b.arena[p].slots) <= Len(d.arena[p].slots)
                    /\ \A i \in 1..Len(b.arena[p].slots) : d.arena[p].slots[i] = b.arena[p].slots[i]
  BY DEF Extends
<1>1. Len(b.arena[p].slots) \in Nat /\ Len(c.arena[p].slots) \in Nat /\ Len(d.arena[p].slots) \in Nat
  BY DEF CtxOK, SlotSeq
<1>2. /\ Len(b.arena[p].slots) <= Len(c.arena[p].slots)
      /\ \A i \in 1..Len(b.arena[p].slots) : c.arena[p].slots[i] = b.arena[p].slots[i]
      /\ Len(c.arena[p].slots) <= Len(d.arena[p].slots)
      /\ \A i \in 1..Len(c.arena[p].slots) : d.arena[p].slots[i] = c.arena[p].slots[i]
  BY DEF Extends
<1>3. ASSUME NEW i \in 1..Len(b.arena[p].slots)
      PROVE  d.arena[p].slots[i] = b.arena[p].slots[i]
  <2>1. i \in 1..Len(c.arena[p].slots)
    BY <1>1, <1>2
  <2> QED BY <1>2, <2>1
<1>4. Len(b.arena[p].slots) <= Len(d.arena[p].slots)
  <2>1. /\ Len(b.arena[p].slots) <= Len(c.arena[p].slots)
        /\ Len(c.arena[p].slots) <= Len(d.arena[p].slots)
    BY DEF Extends
  <2> QED BY <1>1, <2>1, NatTrans
<1> QED BY <1>3, <1>4

(* What a write of a sector may do to a context. *)
Touches(c, d, s) ==
    /\ CtxOK(d) /\ Extends(c, d) /\ d.tags = c.tags
    /\ \A t \in All : t # s => Agree(c, d, t)

LEMMA TouchesTrans ==
  ASSUME NEW b, NEW c, NEW d, NEW s, CtxOK(b), Touches(b, c, s), Touches(c, d, s)
  PROVE  Touches(b, d, s)
BY AgreeTrans, ExtendsTrans DEF Touches

LEMMA TouchesSame ==
  ASSUME NEW c, NEW s, CtxOK(c)
  PROVE  Touches(c, c, s)
<1>1. Extends(c, c)
  BY DEF Extends, CtxOK, SlotSeq
<1> QED BY <1>1 DEF Touches, Agree

LEMMA SetEntryIs ==
  ASSUME NEW c, CtxOK(c), NEW p \in Parts, NEW s \in All, NEW e \in EntryType, c.ddt[p] # None,
         NEW d, d = SetEntry(c, p, s, e)
  PROVE  /\ Touches(c, d, s)
         /\ d.user = c.user /\ d.sub = c.sub /\ d.arena = c.arena
         /\ d.ddt[p] # None /\ d.ddt[p][s] = e
         /\ \A q \in Parts : q # p => d.ddt[q] = c.ddt[q]
<1> DEFINE tb == [c.ddt[p] EXCEPT ![s] = e]
<1>1. c.ddt[p] \in TableType
  BY DEF CtxOK
<1>2. tb \in TableType /\ tb[s] = e /\ \A t \in All : t # s => tb[t] = c.ddt[p][t]
  BY <1>1 DEF TableType
<1>3. /\ d.ddt = [c.ddt EXCEPT ![p] = tb] /\ d.arena = c.arena /\ d.sub = c.sub
      /\ d.tags = c.tags /\ d.user = c.user
      /\ d = [ddt |-> d.ddt, arena |-> d.arena, sub |-> d.sub, tags |-> d.tags, user |-> d.user]
  BY DEF CtxOK, SetEntry
<1> HIDE DEF tb
<1>4. /\ d.ddt \in [Parts -> {None} \cup TableType] /\ d.ddt[p] = tb
      /\ \A q \in Parts : q # p => d.ddt[q] = c.ddt[q]
  BY <1>2, <1>3 DEF CtxOK
<1>5. CtxOK(d)
  BY <1>3, <1>4 DEF CtxOK
<1>6. d.ddt[p] # None
  BY <1>2, <1>4, NoneIs
<1>7. Extends(c, d)
  BY <1>3 DEF Extends, CtxOK, SlotSeq
<1>8. ASSUME NEW t \in All, t # s PROVE Agree(c, d, t)
  BY <1>2, <1>3, <1>4, <1>6, <1>8 DEF Agree
<1> QED BY <1>2, <1>3, <1>4, <1>5, <1>6, <1>7, <1>8 DEF Touches

LEMMA MadeIs ==
  ASSUME NEW c, CtxOK(c), NEW d, d = Made(c)
  PROVE  /\ \A s \in All : Touches(c, d, s)
         /\ d.user = c.user /\ d.sub = c.sub
         /\ \A p \in Parts : d.ddt[p] # None /\ d.arena[p].slots = c.arena[p].slots
         /\ \A p \in Parts : d.arena[p].room = 0 => Sectors = 0
<1>1. /\ d.ddt = [p \in Parts |-> IF c.ddt[p] = None THEN NoDdt ELSE c.ddt[p]]
      /\ d.arena = [p \in Parts |-> IF c.arena[p].room = 0 THEN [slots |-> <<>>, room |-> Sectors]
                                    ELSE c.arena[p]]
      /\ d.sub = c.sub /\ d.tags = c.tags /\ d.user = c.user
      /\ d = [ddt |-> d.ddt, arena |-> d.arena, sub |-> d.sub, tags |-> d.tags, user |-> d.user]
  BY DEF CtxOK, Made
<1>2. NoDdt \in TableType
  BY NoDdtIs
<1>3. d.ddt \in [Parts -> {None} \cup TableType] /\ \A p \in Parts : d.ddt[p] # None
  BY <1>1, <1>2, NoneIs DEF CtxOK
<1>4. ASSUME NEW p \in Parts
      PROVE  /\ d.arena[p] \in [slots : SlotSeq, room : Nat]
             /\ Len(d.arena[p].slots) <= d.arena[p].room
             /\ d.arena[p].slots = c.arena[p].slots
             /\ d.arena[p].room = 0 => Sectors = 0
  <2>1. /\ c.arena[p] \in [slots : SlotSeq, room : Nat] /\ Len(c.arena[p].slots) <= c.arena[p].room
    BY DEF CtxOK
  <2>2. CASE c.arena[p].room = 0
    <3>1. c.arena[p].slots = <<>>
      BY <2>1, <2>2 DEF SlotSeq
    <3>2. d.arena[p] = [slots |-> <<>>, room |-> Sectors]
      BY <1>1, <2>2
    <3> QED BY <3>1, <3>2, NoneIs DEF SlotSeq
  <2>3. CASE c.arena[p].room # 0
    <3>1. d.arena[p] = c.arena[p]
      BY <1>1, <2>3
    <3> QED BY <2>1, <2>3, <3>1
  <2> QED BY <2>2, <2>3
<1>5. CtxOK(d)
  <2>1. d.arena \in [Parts -> [slots : SlotSeq, room : Nat]]
    BY <1>1, <1>4
  <2> QED BY <1>1, <1>3, <1>4, <2>1 DEF CtxOK
<1>6. Extends(c, d)
  BY <1>4 DEF Extends, CtxOK, SlotSeq
<1>7. ASSUME NEW t \in All PROVE Agree(c, d, t)
  BY <1>1, <1>3 DEF Agree
<1> QED BY <1>1, <1>3, <1>4, <1>5, <1>6, <1>7 DEF Touches

(* Without memory for all of them. *)
LEMMA MadeSomeIs ==
  ASSUME NEW c, CtxOK(c), NEW parts, NEW s \in All, NEW d, d = MadeNoMemory(c, parts)
  PROVE  Touches(c, d, s)
<1>1. /\ d.ddt = [p \in Parts |-> IF c.ddt[p] = None /\ p \in parts THEN NoDdt ELSE c.ddt[p]]
      /\ d.arena = c.arena /\ d.sub = c.sub /\ d.tags = c.tags /\ d.user = c.user
      /\ d = [ddt |-> d.ddt, arena |-> d.arena, sub |-> d.sub, tags |-> d.tags, user |-> d.user]
  BY DEF CtxOK, MadeNoMemory
<1>2. NoDdt \in TableType
  BY NoDdtIs
<1>3. d.ddt \in [Parts -> {None} \cup TableType]
  BY <1>1, <1>2 DEF CtxOK
<1>4. CtxOK(d)
  BY <1>1, <1>3 DEF CtxOK
<1>5. Extends(c, d)
  BY <1>1 DEF Extends, CtxOK, SlotSeq
<1>6. ASSUME NEW t \in All PROVE Agree(c, d, t)
  BY <1>1 DEF Agree
<1> QED BY <1>1, <1>4, <1>5, <1>6 DEF Touches

(***************************************************************************)
(* A part of a sector.                                                     *)
(***************************************************************************)
LEMMA Max3 ==
  ASSUME NEW i \in Nat, NEW j \in Nat, NEW k \in Nat, NEW m, m = Max({i, j, k})
  PROVE  m \in Nat /\ j <= m
<1> DEFINE S == {i, j, k}
<1>1. \E x \in S : \A y \in S : x >= y
  <2>1. CASE i >= j /\ i >= k
    BY <2>1
  <2>2. CASE j >= i /\ j >= k
    BY <2>2
  <2>3. CASE k >= i /\ k >= j
    BY <2>3
  <2> QED BY <2>1, <2>2, <2>3
<1>2. Max(S) \in S /\ \A y \in S : Max(S) >= y
  BY <1>1 DEF Max
<1> QED BY <1>2

LEMMA StoredIs ==
  ASSUME NEW a, a \in [slots : SlotSeq, room : Nat], Len(a.slots) <= a.room,
         NEW value \in STRING \ {Lost}, NEW b, b = Stored(a, value)
  PROVE  /\ b \in [slots : SlotSeq, room : Nat] /\ Len(b.slots) <= b.room
         /\ b.slots = Append(a.slots, value) /\ Len(b.slots) = Len(a.slots) + 1
<1> DEFINE m == Max({2 * a.room, Len(a.slots) + 1, Sectors})
<1>1. a.slots \in SlotSeq /\ a.room \in Nat /\ Len(a.slots) \in Nat
  BY DEF SlotSeq
<1>2. m \in Nat /\ Len(a.slots) + 1 <= m
  <2>1. 2 * a.room \in Nat /\ Len(a.slots) + 1 \in Nat /\ Sectors \in Nat
    BY <1>1, NoneIs
  <2> QED BY <2>1, Max3
<1>3. Append(a.slots, value) \in SlotSeq /\ Len(Append(a.slots, value)) = Len(a.slots) + 1
  BY <1>1 DEF SlotSeq
<1>4. b = [slots |-> Append(a.slots, value),
           room  |-> IF Len(a.slots) < a.room THEN a.room ELSE m]
  BY DEF Stored, grow_arena
<1> HIDE DEF m
<1>5. CASE Len(a.slots) < a.room
  BY <1>1, <1>3, <1>4, <1>5
<1>6. CASE ~ (Len(a.slots) < a.room)
  BY <1>1, <1>2, <1>3, <1>4, <1>6
<1> QED BY <1>5, <1>6

(* A slot is added. *)
LEMMA KeepIs ==
  ASSUME NEW c, CtxOK(c), NEW p \in Parts, NEW s \in All, c.ddt[p] # None,
         NEW value \in STRING \ {Lost}, NEW d, d = Keep(c, p, s, value)
  PROVE  /\ Touches(c, d, s)
         /\ d.user = c.user /\ d.sub = c.sub
         /\ d.ddt[p] # None /\ d.ddt[p][s] = Entry("Errored", Len(c.arena[p].slots))
         /\ Len(d.arena[p].slots) = Len(c.arena[p].slots) + 1
         /\ d.arena[p].slots[Len(c.arena[p].slots) + 1] = value
         /\ \A q \in Parts : q # p => d.ddt[q] = c.ddt[q] /\ d.arena[q] = c.arena[q]
<1> DEFINE e == Entry("Errored", Len(c.arena[p].slots))
           h == [c EXCEPT !.arena[p] = Stored(@, value)]
           b == Stored(c.arena[p], value)
<1>1. /\ c.arena[p] \in [slots : SlotSeq, room : Nat] /\ Len(c.arena[p].slots) <= c.arena[p].room
      /\ Len(c.arena[p].slots) \in Nat
  BY DEF CtxOK, SlotSeq
<1>2. /\ b \in [slots : SlotSeq, room : Nat] /\ Len(b.slots) <= b.room
      /\ b.slots = Append(c.arena[p].slots, value) /\ Len(b.slots) = Len(c.arena[p].slots) + 1
  BY <1>1, StoredIs
<1>3. /\ h.ddt = c.ddt /\ h.arena = [c.arena EXCEPT ![p] = b] /\ h.sub = c.sub
      /\ h.tags = c.tags /\ h.user = c.user
      /\ h = [ddt |-> h.ddt, arena |-> h.arena, sub |-> h.sub, tags |-> h.tags, user |-> h.user]
  <2>1. h = [c EXCEPT !.arena = [c.arena EXCEPT ![p] = b]]
    OBVIOUS
  <2> HIDE DEF b
  <2> DEFINE ar == [c.arena EXCEPT ![p] = b]
  <2>2. h = [c EXCEPT !.arena = ar]
    BY <2>1
  <2> HIDE DEF ar, h
  <2>3. /\ h.ddt = c.ddt /\ h.arena = ar /\ h.sub = c.sub
        /\ h.tags = c.tags /\ h.user = c.user
        /\ h = [ddt |-> h.ddt, arena |-> h.arena, sub |-> h.sub, tags |-> h.tags, user |-> h.user]
    BY <2>2 DEF CtxOK
  <2> QED BY <2>3 DEF ar
<1>4. d = SetEntry(h, p, s, e)
  BY DEF Keep
<1> HIDE DEF b, h
<1>5. /\ h.arena \in [Parts -> [slots : SlotSeq, room : Nat]] /\ h.arena[p] = b
      /\ \A q \in Parts : q # p => h.arena[q] = c.arena[q]
  BY <1>2, <1>3 DEF CtxOK
<1>6. CtxOK(h)
  BY <1>2, <1>3, <1>5 DEF CtxOK
<1>7. /\ b.slots[Len(c.arena[p].slots) + 1] = value
      /\ \A i \in 1..Len(c.arena[p].slots) : b.slots[i] = c.arena[p].slots[i]
  <2>1. IsSeq(c.arena[p].slots)
    BY <1>1, SequenceIs DEF SlotSeq
  <2> QED BY <1>2, <2>1, AppendFacts, SeqFacts
<1>8. Extends(c, h)
  <2> SUFFICES ASSUME NEW q \in Parts
               PROVE  /\ Len(c.arena[q].slots) <= Len(h.arena[q].slots)
                      /\ \A i \in 1..Len(c.arena[q].slots) : h.arena[q].slots[i] = c.arena[q].slots[i]
    BY DEF Extends
  <2>1. CASE q = p
    <3>1. Len(c.arena[p].slots) <= Len(b.slots)
      BY <1>1, <1>2
    <3> QED BY <1>5, <1>7, <2>1, <3>1
  <2>2. CASE q # p
    <3>1. h.arena[q] = c.arena[q] /\ Len(c.arena[q].slots) \in Nat
      BY <1>5, <2>2 DEF CtxOK, SlotSeq
    <3> QED BY <3>1
  <2> QED BY <2>1, <2>2
<1>9. Touches(c, h, s)
  BY <1>3, <1>6, <1>8 DEF Touches, Agree
<1>10. e \in EntryType /\ h.ddt[p] # None
  BY <1>1, <1>3 DEF Entry, EntryType, Statuses
<1> HIDE DEF e
<1>11. /\ Touches(h, d, s)
       /\ d.user = h.user /\ d.sub = h.sub /\ d.arena = h.arena
       /\ d.ddt[p] # None /\ d.ddt[p][s] = e
       /\ \A q \in Parts : q # p => d.ddt[q] = h.ddt[q]
  BY <1>4, <1>6, <1>10, SetEntryIs
<1>12. Touches(c, d, s)
  BY <1>9, <1>11, TouchesTrans
<1> QED BY <1>1, <1>2, <1>3, <1>5, <1>7, <1>11, <1>12 DEF e

(* The part does not follow from the mode. *)
Odd(p, type, raw) ==
    IF p = "prefix" THEN ~ PrefixCorrect(type, raw) ELSE SuffixStatus(type, raw) = "Errored"

(* The entry of a sector, and its slot after those of c. *)
EntryDone(c, d, p, s, type, raw) ==
    /\ d.ddt[p] # None
    /\ is_custom(d.ddt[p][s]) <=> Odd(p, type, raw)
    /\ IF Odd(p, type, raw)
       THEN /\ d.ddt[p][s].index = Len(c.arena[p].slots)
            /\ Len(c.arena[p].slots) < Len(d.arena[p].slots)
            /\ d.arena[p].slots[Len(c.arena[p].slots) + 1] = PartIn(raw, p)
       ELSE Standard(type, p, d.ddt[p][s], raw)

PartDone(c, d, p, s, type, raw) ==
    /\ Touches(c, d, s)
    /\ d.user = c.user /\ d.sub = c.sub
    /\ EntryDone(c, d, p, s, type, raw)
    /\ \A q \in Parts : q # p => d.ddt[q] = c.ddt[q] /\ d.arena[q] = c.arena[q]

LEMMA KeptPart ==
  ASSUME NEW c, CtxOK(c), NEW p \in Parts, NEW s \in All, c.ddt[p] # None, NEW type,
         NEW raw \in RawSectors, Odd(p, type, raw), NEW d, d = Keep(c, p, s, PartIn(raw, p))
  PROVE  PartDone(c, d, p, s, type, raw)
<1>1. PartIn(raw, p) \in STRING \ {Lost}
  BY DEF RawSectors, PartIn
<1> DEFINE value == PartIn(raw, p)
<1> HIDE DEF value
<1>a. value \in STRING \ {Lost} /\ d = Keep(c, p, s, value)
  BY <1>1 DEF value
<1>2. /\ Touches(c, d, s)
      /\ d.user = c.user /\ d.sub = c.sub
      /\ d.ddt[p] # None /\ d.ddt[p][s] = Entry("Errored", Len(c.arena[p].slots))
      /\ Len(d.arena[p].slots) = Len(c.arena[p].slots) + 1
      /\ d.arena[p].slots[Len(c.arena[p].slots) + 1] = value
      /\ \A q \in Parts : q # p => d.ddt[q] = c.ddt[q] /\ d.arena[q] = c.arena[q]
  BY <1>a, KeepIs
<1>3. Len(c.arena[p].slots) \in Nat
  BY DEF CtxOK, SlotSeq
<1> QED BY <1>2, <1>3 DEF PartDone, EntryDone, is_custom, Entry, value

LEMMA NotedPart ==
  ASSUME NEW c, CtxOK(c), NEW p \in Parts, NEW s \in All, c.ddt[p] # None, NEW type,
         NEW raw \in RawSectors, ~ Odd(p, type, raw), NEW e \in EntryType,
         Standard(type, p, e, raw), e.status # "Errored", NEW d, d = SetEntry(c, p, s, e)
  PROVE  PartDone(c, d, p, s, type, raw)
<1>1. /\ Touches(c, d, s)
      /\ d.user = c.user /\ d.sub = c.sub /\ d.arena = c.arena
      /\ d.ddt[p] # None /\ d.ddt[p][s] = e
      /\ \A q \in Parts : q # p => d.ddt[q] = c.ddt[q]
  BY SetEntryIs
<1> QED BY <1>1 DEF PartDone, EntryDone, is_custom

LEMMA SplitPrefixIs ==
  ASSUME NEW c, CtxOK(c), NEW s \in All, c.ddt["prefix"] # None, NEW type \in {"mode1", "mode2"},
         NEW raw \in RawSectors, NEW d, d = SplitPrefix(c, s, type, raw)
  PROVE  PartDone(c, d, "prefix", s, type, raw)
<1>1. CASE PrefixCorrect(type, raw)
  <2> DEFINE e == Entry(PrefixStatus(type, raw), 0)
  <2>1. d = SetEntry(c, "prefix", s, e) /\ ~ Odd("prefix", type, raw)
    BY <1>1 DEF SplitPrefix, Odd
  <2>2. e.status = PrefixStatus(type, raw)
    BY DEF Entry
  <2>3. PrefixStatus(type, raw) \in Statuses \ {"Errored"}
    BY DEF PrefixStatus, Statuses
  <2>4. e \in EntryType
    BY <2>3 DEF Entry, EntryType
  <2> HIDE DEF e
  <2>5. Standard(type, "prefix", e, raw)
    <3>1. raw.prefix = type
      BY <1>1 DEF PrefixCorrect
    <3>2. CASE type = "mode1"
      <4>1. e.status = "Mode1Correct"
        BY <2>2, <3>2 DEF PrefixStatus
      <4>2. Correct(type, "prefix") = [Mode1Correct |-> "mode1"]
        BY <3>2 DEF Correct
      <4> QED BY <3>1, <3>2, <4>1, <4>2 DEF Standard, PartIn
    <3>3. CASE type = "mode2"
      <4>1. e.status \in {"Mode2Form1Ok", "Mode2Form2Ok"}
        BY <2>2, <3>3 DEF PrefixStatus
      <4>2. Correct(type, "prefix") = [Mode2Form1Ok |-> "mode2", Mode2Form2Ok |-> "mode2"]
        BY <3>3 DEF Correct
      <4> QED BY <3>1, <3>3, <4>1, <4>2 DEF Standard, PartIn
    <3> QED BY <3>2, <3>3
  <2> QED BY <2>1, <2>2, <2>3, <2>4, <2>5, NotedPart DEF Parts
<1>2. CASE ~ PrefixCorrect(type, raw)
  <2>1. d = Keep(c, "prefix", s, PartIn(raw, "prefix")) /\ Odd("prefix", type, raw)
    BY <1>2 DEF SplitPrefix, PartIn, Odd
  <2> QED BY <2>1, KeptPart DEF Parts
<1> QED BY <1>1, <1>2

LEMMA SplitSuffixIs ==
  ASSUME NEW c, CtxOK(c), NEW s \in All, c.ddt["suffix"] # None, NEW type \in {"mode1", "mode2"},
         NEW raw \in RawSectors, NEW d, d = SplitSuffix(c, s, type, raw)
  PROVE  PartDone(c, d, "suffix", s, type, raw)
<1>1. CASE SuffixStatus(type, raw) # "Errored"
  <2> DEFINE e == Entry(SuffixStatus(type, raw), 0)
  <2>1. d = SetEntry(c, "suffix", s, e) /\ ~ Odd("suffix", type, raw)
    BY <1>1 DEF SplitSuffix, Odd
  <2>2. e.status = SuffixStatus(type, raw)
    BY DEF Entry
  <2>3. SuffixStatus(type, raw) \in Statuses
    BY DEF SuffixStatus, Statuses
  <2>4. e \in EntryType
    BY <2>3 DEF Entry, EntryType
  <2>5. Standard(type, "suffix", e, raw)
    BY <1>1, <2>2 DEF Standard, Correct, PartIn, SuffixStatus
  <2> HIDE DEF e
  <2> QED BY <1>1, <2>1, <2>2, <2>4, <2>5, NotedPart DEF Parts
<1>2. CASE SuffixStatus(type, raw) = "Errored"
  <2>1. d = Keep(c, "suffix", s, PartIn(raw, "suffix")) /\ Odd("suffix", type, raw)
    BY <1>2 DEF SplitSuffix, PartIn, Odd
  <2> QED BY <2>1, KeptPart DEF Parts
<1> QED BY <1>1, <1>2

(***************************************************************************)
(* Writing.                                                                *)
(***************************************************************************)
LEMMA TypeOfSectorIs ==
  ASSUME IsCd, media \in Media, NEW s \in All
  PROVE  TypeOfSector(s) \in Types
<1> DEFINE t == media.tracks
           T == [type : Types, first : Nat, last : Nat]
<1>1. t \in Seq(T)
  BY MediaAssumption DEF IsCd, DiscMedium
<1>2. /\ Len(t) \in Nat /\ DOMAIN t = 1..Len(t)
      /\ \A i \in DOMAIN t : t[i].type \in Types /\ t[i].first \in Nat /\ t[i].last \in Nat
  <2>1. Len(t) \in Nat /\ DOMAIN t = 1..Len(t) /\ \A i \in DOMAIN t : t[i] \in T
    <3> HIDE DEF t, T
    <3> QED BY <1>1
  <2> HIDE DEF t
  <2> QED BY <2>1
<1> HIDE DEF t
<1>3. "data" \in Types
  BY DEF Types
<1>4. CASE t = <<>>
  BY <1>3, <1>4 DEF TypeOfSector, find_cd_track_for_sector, t
<1>5. CASE t # <<>> /\ Containing(t, s) # {}
  <2> DEFINE S == Containing(t, s)
  <2>1. S \subseteq DOMAIN t
    BY DEF Containing
  <2>2. Min(S) \in S
    <3>1. S \subseteq Nat /\ S # {}
      BY <1>2, <1>5, <2>1
    <3> HIDE DEF S
    <3> QED BY <3>1, MinIn
  <2>3. TypeOfSector(s) = t[Min(S)].type
    BY <1>5 DEF TypeOfSector, find_cd_track_for_sector, t
  <2> QED BY <1>2, <2>1, <2>2, <2>3
<1>6. CASE t # <<>> /\ Containing(t, s) = {} /\ Before(t, s) # {}
  <2> DEFINE S == Before(t, s)
  <2>1. S \subseteq DOMAIN t
    BY DEF Before
  <2>2. \E i \in S : \A j \in S : t[j].last <= t[i].last
    <3> DEFINE L == {t[i].last : i \in S}
    <3>1. PICK m \in L : \A k \in L : k <= m
      <4>1. L # {} /\ \A k \in L : k \in Nat /\ k <= s
        <5>1. s \in Nat /\ S # {}
          BY <1>6, NoneIs DEF All
        <5>2. \A i \in S : t[i].last \in Nat /\ t[i].last <= s
          BY <1>2, <5>1 DEF Before
        <5> HIDE DEF S
        <5> QED BY <5>1, <5>2
      <4>2. s \in Nat
        BY NoneIs DEF All
      <4> HIDE DEF L
      <4>3. Max(L) \in L /\ \A k \in L : k <= Max(L)
        BY <4>1, <4>2, MaxIn
      <4> QED BY <4>3
    <3> QED BY <3>1
  <2>3. Latest(t, S) \in S
    <3> HIDE DEF S
    <3> QED BY <2>2 DEF Latest
  <2>4. TypeOfSector(s) = t[Latest(t, S)].type
    BY <1>6 DEF TypeOfSector, find_cd_track_for_sector, t
  <2> QED BY <1>2, <2>1, <2>3, <2>4
<1>7. CASE t # <<>> /\ Containing(t, s) = {} /\ Before(t, s) = {}
  <2> DEFINE F == {t[i].first : i \in DOMAIN t}
  <2>1. \E i \in DOMAIN t : \A j \in DOMAIN t : t[i].first <= t[j].first
    <3>1. PICK m \in F : \A k \in F : m <= k
      <4>1. F # {} /\ F \subseteq Nat
        <5>1. DOMAIN t # {}
          <6> HIDE DEF T
          <6>1. Len(t) # 0
            BY <1>1, <1>7
          <6> QED BY <1>2, <6>1
        <5> QED BY <1>2, <5>1
      <4> HIDE DEF F
      <4> QED BY <4>1, LeastElement
    <3> QED BY <3>1
  <2>2. Earliest(t) \in DOMAIN t
    BY <2>1 DEF Earliest
  <2>3. TypeOfSector(s) = t[Earliest(t)].type
    BY <1>7 DEF TypeOfSector, find_cd_track_for_sector, t
  <2> QED BY <1>2, <2>2, <2>3
<1> QED BY <1>4, <1>5, <1>6, <1>7

(* Other parts of a context than its tables and arenas. *)
LEMMA MakeSubheadersIs ==
  ASSUME NEW c, CtxOK(c), NEW s \in All, NEW d, d = MakeSubheaders(c)
  PROVE  /\ Touches(c, d, s)
         /\ d.ddt = c.ddt /\ d.arena = c.arena /\ d.user = c.user
         /\ d.sub \in Subheaders
<1> DEFINE b == IF c.sub = None THEN NoSubheaders ELSE c.sub
<1>1. b \in Subheaders
  <2>1. NoSubheaders \in Subheaders
    BY LiteralAssumption DEF NoSubheaders, Subheaders
  <2> QED BY <2>1 DEF CtxOK
<1>2. d = [c EXCEPT !.sub = b]
  BY DEF MakeSubheaders
<1>3. c.sub # None => b = c.sub
  OBVIOUS
<1> HIDE DEF b
<1>4. /\ d.ddt = c.ddt /\ d.arena = c.arena /\ d.sub = b /\ d.tags = c.tags /\ d.user = c.user
      /\ d = [ddt |-> d.ddt, arena |-> d.arena, sub |-> d.sub, tags |-> d.tags, user |-> d.user]
  BY <1>2 DEF CtxOK
<1>5. CtxOK(d)
  BY <1>1, <1>4 DEF CtxOK
<1>6. Extends(c, d)
  BY <1>4 DEF Extends, CtxOK, SlotSeq
<1>7. d.sub # None
  BY <1>1, <1>4, NoneIs
<1> QED BY <1>1, <1>3, <1>4, <1>5, <1>6, <1>7 DEF Touches, Agree

LEMMA PutSubheaderIs ==
  ASSUME NEW c, CtxOK(c), NEW s \in All, NEW raw \in RawSectors, NEW d, d = PutSubheader(c, s, raw)
  PROVE  /\ Touches(c, d, s)
         /\ d.ddt = c.ddt /\ d.arena = c.arena /\ d.user = c.user
         /\ d.sub # None /\ d.sub[s] = raw.sub
<1> DEFINE h == MakeSubheaders(c)
           b == [h.sub EXCEPT ![s] = raw.sub]
<1>1. d = [h EXCEPT !.sub = b]
  BY DEF PutSubheader
<1> HIDE DEF h
<1>2. /\ Touches(c, h, s)
      /\ h.ddt = c.ddt /\ h.arena = c.arena /\ h.user = c.user
      /\ h.sub \in Subheaders
  BY MakeSubheadersIs DEF h
<1>3. CtxOK(h)
  BY <1>2 DEF Touches
<1>4. b \in Subheaders /\ b[s] = raw.sub /\ \A t \in All : t # s => b[t] = h.sub[t]
  <2>1. raw.sub \in STRING
    BY DEF RawSectors
  <2> QED BY <1>2, <2>1 DEF Subheaders
<1> HIDE DEF b
<1>5. /\ d.ddt = h.ddt /\ d.arena = h.arena /\ d.sub = b /\ d.tags = h.tags /\ d.user = h.user
      /\ d = [ddt |-> d.ddt, arena |-> d.arena, sub |-> d.sub, tags |-> d.tags, user |-> d.user]
  BY <1>1, <1>3 DEF CtxOK
<1>6. CtxOK(d)
  BY <1>3, <1>4, <1>5 DEF CtxOK
<1>7. Extends(h, d)
  BY <1>3, <1>5 DEF Extends, CtxOK, SlotSeq
<1>8. d.sub # None
  BY <1>4, <1>5, NoneIs
<1>9. Touches(h, d, s)
  BY <1>4, <1>5, <1>6, <1>7, <1>8 DEF Touches, Agree
<1>10. Touches(c, d, s)
  BY <1>2, <1>9, TouchesTrans
<1> QED BY <1>2, <1>4, <1>5, <1>8, <1>10

LEMMA PutUserIs ==
  ASSUME NEW c, CtxOK(c), NEW s \in All, NEW value \in UserType, NEW d, d = PutUser(c, s, value)
  PROVE  /\ Touches(c, d, s)
         /\ d.ddt = c.ddt /\ d.arena = c.arena /\ d.sub = c.sub /\ d.tags = c.tags
         /\ d.user[s] = value /\ \A t \in All : t # s => d.user[t] = c.user[t]
<1> DEFINE b == [c.user EXCEPT ![s] = value]
<1>1. d = [c EXCEPT !.user = b]
  BY DEF PutUser
<1>2. b \in UserData /\ b[s] = value /\ \A t \in All : t # s => b[t] = c.user[t]
  <2>1. c.user \in UserData
    BY DEF CtxOK
  <2> QED BY <2>1 DEF UserData
<1> HIDE DEF b
<1>3. /\ d.ddt = c.ddt /\ d.arena = c.arena /\ d.sub = c.sub /\ d.tags = c.tags /\ d.user = b
      /\ d = [ddt |-> d.ddt, arena |-> d.arena, sub |-> d.sub, tags |-> d.tags, user |-> d.user]
  BY <1>1 DEF CtxOK
<1>4. CtxOK(d)
  BY <1>2, <1>3 DEF CtxOK
<1>5. Extends(c, d)
  BY <1>3 DEF Extends, CtxOK, SlotSeq
<1> QED BY <1>2, <1>3, <1>4, <1>5 DEF Touches, Agree

SplitDone(c, d, s, type, raw) ==
    /\ Touches(c, d, s)
    /\ d.user = c.user
    /\ \A p \in Parts : EntryDone(c, d, p, s, type, raw)
    /\ type = "mode2" => d.sub # None /\ d.sub[s] = raw.sub

LEMMA SplitModeIs ==
  ASSUME NEW c, CtxOK(c), NEW s \in All, NEW type \in {"mode1", "mode2"},
         NEW raw \in RawSectors, raw # Empty, NEW d, d = SplitMode(c, s, type, raw)
  PROVE  SplitDone(c, d, s, type, raw)
<1> DEFINE b == Made(c)
           h == SplitPrefix(b, s, type, raw)
           k == IF type = "mode2" THEN PutSubheader(h, s, raw) ELSE h
<1>1. d = SplitSuffix(k, s, type, raw)
  BY DEF SplitMode, SplitMode1, SplitMode2
<1>2. /\ Touches(c, b, s) /\ CtxOK(b)
      /\ b.user = c.user /\ b.sub = c.sub
      /\ \A p \in Parts : b.ddt[p] # None /\ b.arena[p].slots = c.arena[p].slots
  <2> HIDE DEF b
  <2>1. /\ \A t \in All : Touches(c, b, t)
        /\ b.user = c.user /\ b.sub = c.sub
        /\ \A p \in Parts : b.ddt[p] # None /\ b.arena[p].slots = c.arena[p].slots
    BY MadeIs DEF b
  <2> QED BY <2>1 DEF Touches
<1> HIDE DEF b
<1>3. PartDone(b, h, "prefix", s, type, raw) /\ CtxOK(h)
  <2> HIDE DEF h
  <2>1. PartDone(b, h, "prefix", s, type, raw)
    BY <1>2, SplitPrefixIs DEF h, Parts
  <2> QED BY <2>1 DEF PartDone, Touches
<1> HIDE DEF h
<1>4. /\ Touches(h, k, s) /\ CtxOK(k)
      /\ k.ddt = h.ddt /\ k.arena = h.arena /\ k.user = h.user
      /\ type = "mode2" => k.sub # None /\ k.sub[s] = raw.sub
  <2>1. CASE type = "mode2"
    <3> HIDE DEF k
    <3>1. /\ Touches(h, k, s)
          /\ k.ddt = h.ddt /\ k.arena = h.arena /\ k.user = h.user
          /\ k.sub # None /\ k.sub[s] = raw.sub
      BY <1>3, <2>1, PutSubheaderIs DEF k
    <3> QED BY <3>1 DEF Touches
  <2>2. CASE type # "mode2"
    BY <1>3, <2>2, TouchesSame
  <2> QED BY <2>1, <2>2
<1> HIDE DEF k
<1>5. \A p \in Parts : h.ddt[p] # None
  BY <1>2, <1>3 DEF PartDone, EntryDone, Parts
<1>6. PartDone(k, d, "suffix", s, type, raw)
  BY <1>1, <1>4, <1>5, SplitSuffixIs DEF Parts
<1>7. Touches(c, d, s)
  <2>1. Touches(b, h, s) /\ Touches(k, d, s)
    BY <1>3, <1>6 DEF PartDone
  <2>2. Touches(c, h, s)
    BY <1>2, <2>1, TouchesTrans
  <2>3. Touches(c, k, s)
    BY <1>4, <2>2, TouchesTrans
  <2> QED BY <2>1, <2>3, TouchesTrans
<1>8. EntryDone(c, d, "prefix", s, type, raw)
  <2>1. d.ddt["prefix"] = h.ddt["prefix"] /\ d.arena["prefix"] = h.arena["prefix"]
    BY <1>4, <1>6 DEF PartDone, Parts
  <2>2. EntryDone(b, h, "prefix", s, type, raw) /\ b.arena["prefix"].slots = c.arena["prefix"].slots
    BY <1>2, <1>3 DEF PartDone, Parts
  <2> QED BY <2>1, <2>2 DEF EntryDone
<1>9. EntryDone(c, d, "suffix", s, type, raw)
  <2>1. k.arena["suffix"].slots = c.arena["suffix"].slots
    BY <1>2, <1>3, <1>4 DEF PartDone, Parts
  <2>2. EntryDone(k, d, "suffix", s, type, raw)
    BY <1>6 DEF PartDone
  <2> QED BY <2>1, <2>2 DEF EntryDone
<1>10. d.sub = k.sub /\ d.user = c.user
  BY <1>2, <1>3, <1>4, <1>6 DEF PartDone
<1> QED BY <1>4, <1>7, <1>8, <1>9, <1>10 DEF SplitDone, Parts

LEMMA SplitEmptyIs ==
  ASSUME NEW c, CtxOK(c), NEW s \in All, NEW type \in {"mode1", "mode2"},
         NEW d, d = SplitMode(c, s, type, Empty)
  PROVE  Touches(c, d, s)
<1> DEFINE b == Made(c)
           h == SetEntry(b, "prefix", s, NotDumped)
<1>1. d = SetEntry(h, "suffix", s, NotDumped)
  BY DEF SplitMode, SplitMode1, SplitMode2, SplitEmpty
<1>2. Touches(c, b, s) /\ CtxOK(b) /\ \A p \in Parts : b.ddt[p] # None
  <2> HIDE DEF b
  <2>1. (\A t \in All : Touches(c, b, t)) /\ \A p \in Parts : b.ddt[p] # None
    BY MadeIs DEF b
  <2> QED BY <2>1 DEF Touches
<1> HIDE DEF b
<1>3. Touches(b, h, s) /\ \A q \in Parts : h.ddt[q] # None
  <2> HIDE DEF h
  <2>1. "prefix" \in Parts /\ b.ddt["prefix"] # None
    BY <1>2 DEF Parts
  <2>2. /\ Touches(b, h, s) /\ h.ddt["prefix"] # None
        /\ \A q \in Parts : q # "prefix" => h.ddt[q] = b.ddt[q]
    BY <1>2, <2>1, NoDdtIs, SetEntryIs DEF h
  <2> QED BY <1>2, <2>2
<1> HIDE DEF h
<1>4. Touches(h, d, s)
  <2>1. CtxOK(h) /\ "suffix" \in Parts /\ h.ddt["suffix"] # None
    BY <1>3 DEF Touches, Parts
  <2> QED BY <1>1, <2>1, NoDdtIs, SetEntryIs
<1>5. Touches(c, h, s)
  BY <1>2, <1>3, TouchesTrans
<1> QED BY <1>4, <1>5, TouchesTrans

(* A call that fails. *)
LEMMA SplitUpToIs ==
  ASSUME NEW c, CtxOK(c), NEW s \in All, NEW type \in {"mode1", "mode2"},
         NEW raw \in RawSectors, raw # Empty, NEW stage \in Stages,
         NEW d, d = SplitUpTo(c, s, type, raw, stage)
  PROVE  Touches(c, d, s)
<1> DEFINE b == Made(c)
           h == SplitPrefix(b, s, type, raw)
<1>1. Touches(c, b, s) /\ CtxOK(b) /\ \A p \in Parts : b.ddt[p] # None
  <2> HIDE DEF b
  <2>1. (\A t \in All : Touches(c, b, t)) /\ \A p \in Parts : b.ddt[p] # None
    BY MadeIs DEF b
  <2> QED BY <2>1 DEF Touches
<1> HIDE DEF b
<1>2. Touches(b, h, s) /\ CtxOK(h)
  <2> HIDE DEF h
  <2>1. PartDone(b, h, "prefix", s, type, raw)
    BY <1>1, SplitPrefixIs DEF h, Parts
  <2> QED BY <2>1 DEF PartDone, Touches
<1> HIDE DEF h
<1>3. Touches(c, h, s)
  BY <1>1, <1>2, TouchesTrans
<1>4. CASE stage \in {"tables", "table", "arenas"}
  <2>1. PICK parts : d = MadeNoMemory(c, parts)
    BY <1>4 DEF SplitUpTo
  <2> QED BY <2>1, MadeSomeIs
<1>5. CASE stage = "prefix"
  BY <1>1, <1>5 DEF SplitUpTo, b
<1>6. CASE stage = "sub" \/ (stage = "suffix" /\ type = "mode1")
  BY <1>3, <1>6 DEF SplitUpTo, b, h
<1>7. CASE stage = "suffix" /\ type # "mode1"
  <2>1. d = MakeSubheaders(h)
    BY <1>7 DEF SplitUpTo, b, h
  <2>2. Touches(h, d, s)
    BY <1>2, <2>1, MakeSubheadersIs
  <2> QED BY <1>3, <2>2, TouchesTrans
<1>8. CASE stage = "store"
  <2>1. d = SplitMode(c, s, type, raw)
    BY <1>8 DEF SplitUpTo
  <2>2. SplitDone(c, d, s, type, raw)
    BY <2>1, SplitModeIs
  <2> QED BY <2>2 DEF SplitDone
<1> QED BY <1>4, <1>5, <1>6, <1>7, <1>8 DEF Stages

(***************************************************************************)
(* Sectors of a Compact Disc.                                              *)
(***************************************************************************)
Written(c, d, s, x) ==
    /\ Touches(c, d, s)
    /\ Held(d, s, x) /\ Kept(d, s, x)
    /\ \A p \in Parts : Custom(d, p, s, x) =>
          /\ d.ddt[p][s].index = Len(c.arena[p].slots)
          /\ p \in DirtyOf(TypeOfSector(s), x)

LEMMA RawIsUser ==
  ASSUME NEW raw \in RawSectors, NEW type
  PROVE  raw \in UserType /\ UserOf(type, raw) \in UserType
         /\ raw # Unwritten /\ UserOf(type, raw) # Unwritten /\ Unwritten \in UserType
<1>1. raw.sub \in STRING /\ raw.user \in STRING
  BY DEF RawSectors
<1>2. UserOf(type, raw) \in [sub : STRING, user : STRING] \cup [user : STRING]
  BY <1>1 DEF UserOf
<1>3. raw # Unwritten
  <2>1. DOMAIN raw # DOMAIN Unwritten
    BY DEF RawSectors, Unwritten
  <2> QED BY <2>1
<1>4. UserOf(type, raw) # Unwritten
  <2>1. "is" \notin DOMAIN UserOf(type, raw) /\ "is" \in DOMAIN Unwritten
    BY DEF UserOf, Unwritten
  <2> QED BY <2>1
<1> QED BY <1>2, <1>3, <1>4 DEF UserType

(* The sector that is written, with all its parts. *)
LEMMA WriteCdIs ==
  ASSUME IsCd, media \in Media, NEW c, CtxOK(c), NEW s \in All, NEW raw \in media.raw,
         NEW d, d = write_sector_cd(c, s, raw),
         NEW x, x = IF raw = Empty /\ TypeOfSector(s) \notin {"audio", "data"} THEN Unwritten ELSE raw
  PROVE  Written(c, d, s, x)
<1> DEFINE type == TypeOfSector(s)
<1>1. raw \in RawSectors
  BY MediaAssumption DEF IsCd, DiscMedium
<1>2. type \in Types
  BY TypeOfSectorIs
<1>3. CASE type \in {"audio", "data"}
  <2>1. d = PutUser(c, s, raw) /\ x = raw
    BY <1>3 DEF write_sector_cd
  <2>2. Touches(c, d, s) /\ d.user[s] = raw
    BY <1>1, <2>1, RawIsUser, PutUserIs
  <2>3. ~ Split(s, x)
    BY <1>3 DEF Split
  <2> QED BY <2>1, <2>2, <2>3 DEF Written, Held, Kept, Custom
<1>4. CASE type \in {"mode1", "mode2"} /\ raw = Empty
  <2> DEFINE h == SplitMode(c, s, type, Empty)
  <2>1. d = PutUser(h, s, Unwritten) /\ x = Unwritten
    BY <1>4 DEF write_sector_cd
  <2>2. Touches(c, h, s)
    BY <1>4, SplitEmptyIs
  <2> HIDE DEF h
  <2>3. Touches(h, d, s) /\ d.user[s] = Unwritten
    <3>1. CtxOK(h) /\ Unwritten \in UserType
      BY <1>1, <2>2, RawIsUser DEF Touches
    <3> QED BY <2>1, <3>1, PutUserIs
  <2>4. Touches(c, d, s)
    BY <2>2, <2>3, TouchesTrans
  <2>5. ~ Split(s, x)
    BY <2>1 DEF Split
  <2> QED BY <2>1, <2>3, <2>4, <2>5 DEF Written, Held, Kept, Custom
<1>5. CASE type \in {"mode1", "mode2"} /\ raw # Empty
  <2> DEFINE h == SplitMode(c, s, type, raw)
             u == UserOf(type, raw)
  <2>1. d = PutUser(h, s, u) /\ x = raw
    BY <1>5 DEF write_sector_cd
  <2>2. SplitDone(c, h, s, type, raw)
    BY <1>1, <1>5, SplitModeIs
  <2> HIDE DEF h
  <2>3. CtxOK(h) /\ Touches(c, h, s)
    BY <2>2 DEF SplitDone, Touches
  <2>4. u \in UserType
    BY <1>1, RawIsUser
  <2> HIDE DEF u
  <2>5. /\ Touches(h, d, s)
        /\ d.ddt = h.ddt /\ d.arena = h.arena /\ d.sub = h.sub
        /\ d.user[s] = u
    BY <2>1, <2>3, <2>4, PutUserIs
  <2>6. Touches(c, d, s)
    BY <2>3, <2>5, TouchesTrans
  <2>7. Split(s, x)
    BY <1>1, <1>5, <2>1, RawIsUser DEF Split
  <2> HIDE DEF type
  <2>8. ASSUME NEW p \in Parts
        PROVE  EntryDone(c, d, p, s, type, raw)
    BY <2>2, <2>5 DEF SplitDone, EntryDone
  <2>9. Held(d, s, x)
    <3>1. ASSUME NEW p \in Parts
          PROVE  /\ d.ddt[p] # None
                 /\ is_custom(d.ddt[p][s]) \/ Standard(TypeOfSector(s), p, d.ddt[p][s], x)
      BY <2>1, <2>8 DEF EntryDone, type
    <3>2. d.user[s] = UserOf(TypeOfSector(s), x)
      BY <2>1, <2>5 DEF u, type
    <3>3. TypeOfSector(s) = "mode2" => d.sub # None /\ d.sub[s] = x.sub
      BY <2>1, <2>2, <2>5 DEF SplitDone, type
    <3> QED BY <1>1, <2>1, <2>7, <3>1, <3>2, <3>3 DEF Held
  <2>10. ASSUME NEW p \in Parts, Custom(d, p, s, x)
         PROVE  /\ d.ddt[p][s].index = Len(c.arena[p].slots)
                /\ d.ddt[p][s].index < Len(d.arena[p].slots)
                /\ d.arena[p].slots[d.ddt[p][s].index + 1] = PartIn(x, p)
                /\ p \in DirtyOf(TypeOfSector(s), x)
    <3>1. Odd(p, type, raw)
      BY <2>8, <2>10 DEF EntryDone, Custom
    <3>2. p \in DirtyOf(type, raw)
      BY <1>5, <3>1 DEF Odd, DirtyOf, Parts
    <3> QED BY <2>1, <2>8, <3>1, <3>2 DEF EntryDone, type
  <2> QED BY <2>6, <2>9, <2>10 DEF Written, Kept
<1> QED BY <1>2, <1>3, <1>4, <1>5 DEF Types

(* What is held reads back. *)
LEMMA ReadPart ==
  ASSUME NEW c, NEW s \in All, NEW p \in Parts, c.ddt[p] # None,
         NEW type \in {"mode1", "mode2"}, NEW x \in RawSectors,
         is_custom(c.ddt[p][s]) =>
            /\ c.ddt[p][s].index \in Nat /\ Len(c.arena[p].slots) \in Nat
            /\ c.ddt[p][s].index < Len(c.arena[p].slots)
            /\ c.arena[p].slots[c.ddt[p][s].index + 1] = PartIn(x, p),
         is_custom(c.ddt[p][s]) \/ Standard(type, p, c.ddt[p][s], x)
  PROVE  PartOf(c, p, s, Correct(type, p)) = PartIn(x, p)
<1> DEFINE e == c.ddt[p][s]
<1>1. DOMAIN Correct(type, p) \subseteq
        {"Mode1Correct", "Mode2Form1Ok", "Mode2Form2Ok", "Mode2Form2NoCrc"}
  BY DEF Correct
<1>2. CASE is_custom(e)
  <2>1. e.status # "NotDumped" /\ e.status \notin DOMAIN Correct(type, p)
    BY <1>1, <1>2 DEF is_custom
  <2>2. PartOf(c, p, s, Correct(type, p)) = SlotOf(c, p, s)
    BY <2>1 DEF PartOf
  <2>3. SlotOf(c, p, s) = PartIn(x, p)
    BY <1>2 DEF SlotOf
  <2> QED BY <2>2, <2>3
<1>3. CASE Standard(type, p, e, x)
  <2>1. e.status # "NotDumped" /\ e.status \in DOMAIN Correct(type, p)
    BY <1>1, <1>3 DEF Standard
  <2>2. PartOf(c, p, s, Correct(type, p)) = Correct(type, p)[e.status]
    BY <2>1 DEF PartOf
  <2> QED BY <1>3, <2>2 DEF Standard
<1> QED BY <1>2, <1>3

LEMMA ReadsBack ==
  ASSUME IsCd, media \in Media, NEW c, CtxOK(c), NEW s \in All, NEW x,
         Held(c, s, x), Kept(c, s, x)
  PROVE  read_sector_cd(c, s) = x
<1> DEFINE type == TypeOfSector(s)
<1>1. type \in Types
  BY TypeOfSectorIs
<1>2. CASE ~ Split(s, x)
  <2>1. c.user[s] = x
    BY <1>2 DEF Held
  <2>2. c.user[s] = Unwritten \/ type \in {"audio", "data"}
    BY <1>1, <1>2, <2>1 DEF Split, Types
  <2> QED BY <2>1, <2>2 DEF read_sector_cd
<1>3. CASE Split(s, x)
  <2>1. /\ x \in RawSectors /\ c.user[s] = UserOf(type, x)
        /\ type = "mode2" => c.sub # None /\ c.sub[s] = x.sub
        /\ \A p \in Parts :
                /\ c.ddt[p] # None
                /\ is_custom(c.ddt[p][s]) \/ Standard(type, p, c.ddt[p][s], x)
    BY <1>3 DEF Held
  <2>2. type \in {"mode1", "mode2"}
    BY <1>3 DEF Split
  <2> HIDE DEF type
  <2>3. ASSUME NEW p \in Parts
        PROVE  PartOf(c, p, s, Correct(type, p)) = PartIn(x, p)
    <3>1. c.ddt[p] # None /\ (is_custom(c.ddt[p][s]) \/ Standard(type, p, c.ddt[p][s], x))
      BY <2>1
    <3>2. c.ddt[p][s].index \in Nat /\ Len(c.arena[p].slots) \in Nat
      <4>1. c.ddt[p] \in TableType /\ c.arena[p].slots \in SlotSeq
        BY <3>1 DEF CtxOK
      <4> QED BY <4>1 DEF TableType, EntryType, SlotSeq
    <3>3. is_custom(c.ddt[p][s]) =>
             /\ c.ddt[p][s].index < Len(c.arena[p].slots)
             /\ c.arena[p].slots[c.ddt[p][s].index + 1] = PartIn(x, p)
      BY <1>3 DEF Kept, Custom
    <3> QED BY <2>1, <2>2, <3>1, <3>2, <3>3, ReadPart
  <2>4. /\ x = [prefix |-> x.prefix, sub |-> x.sub, user |-> x.user, suffix |-> x.suffix]
        /\ x.prefix # Lost /\ x.suffix # Lost /\ None \notin {x.prefix, x.suffix}
    <3>1. x.prefix \in STRING /\ x.suffix \in STRING /\ None \notin STRING
      BY <2>1, NoneIs DEF RawSectors
    <3> QED BY <2>1, <3>1 DEF RawSectors
  <2>5. Joined(x.prefix, x.sub, x.user, x.suffix) = x
    BY <2>4 DEF Joined
  <2>6. /\ PartOf(c, "prefix", s, Correct(type, "prefix")) = x.prefix
        /\ PartOf(c, "suffix", s, Correct(type, "suffix")) = x.suffix
    BY <2>3 DEF Parts, PartIn
  <2>7. c.user[s] # Unwritten
    BY <2>1, RawIsUser
  <2>8. ~ Plain(c)
    BY <2>1 DEF Plain
  <2>9. CASE type = "mode1"
    <3>1. /\ ReadPrefixMode1(c, s) = x.prefix /\ ReadSuffixMode1(c, s) = x.suffix
          /\ c.user[s].sub = x.sub /\ c.user[s].user = x.user
      BY <2>1, <2>6, <2>9 DEF ReadPrefixMode1, ReadSuffixMode1, Correct, UserOf
    <3>2. read_sector_cd(c, s) = read_sector_mode1(c, s)
      BY <2>7, <2>8, <2>9 DEF read_sector_cd, type
    <3> QED BY <2>5, <3>1, <3>2 DEF read_sector_mode1
  <2>10. CASE type = "mode2"
    <3>1. /\ ReadPrefixMode2(c, s) = x.prefix /\ ReadSuffixMode2(c, s) = x.suffix
          /\ c.sub # None /\ c.sub[s] = x.sub /\ c.user[s].user = x.user
      BY <2>1, <2>6, <2>10 DEF ReadPrefixMode2, ReadSuffixMode2, Correct, UserOf
    <3>2. read_sector_cd(c, s) = read_sector_mode2(c, s)
      BY <2>7, <2>8, <2>10 DEF read_sector_cd, type
    <3> QED BY <2>5, <3>1, <3>2 DEF read_sector_mode2
  <2> QED BY <2>2, <2>9, <2>10
<1> QED BY <1>2, <1>3

(* What another sector has stays. *)
LEMMA HeldStays ==
  ASSUME NEW c, NEW d, NEW t, NEW x, Agree(c, d, t), Held(c, t, x)
  PROVE  /\ Held(d, t, x)
         /\ \A p \in Parts : Custom(d, p, t, x) => Custom(c, p, t, x) /\ d.ddt[p][t] = c.ddt[p][t]
BY DEF Agree, Held, Custom

LEMMA KeptStays ==
  ASSUME NEW c, NEW d, NEW t \in All, NEW x, CtxOK(c), CtxOK(d), Agree(c, d, t), Extends(c, d),
         Held(c, t, x), Kept(c, t, x)
  PROVE  Kept(d, t, x)
<1> SUFFICES ASSUME NEW p \in Parts, Custom(d, p, t, x)
             PROVE  /\ d.ddt[p][t].index < Len(d.arena[p].slots)
                    /\ d.arena[p].slots[d.ddt[p][t].index + 1] = PartIn(x, p)
  BY DEF Kept
<1> DEFINE i == c.ddt[p][t].index
           l == Len(c.arena[p].slots)
           m == Len(d.arena[p].slots)
<1>1. Custom(c, p, t, x) /\ d.ddt[p][t] = c.ddt[p][t]
  BY HeldStays
<1>2. i < l /\ c.arena[p].slots[i + 1] = PartIn(x, p)
  BY <1>1 DEF Kept
<1>3. i \in Nat /\ l \in Nat /\ m \in Nat
  <2>1. c.ddt[p] \in TableType /\ c.arena[p].slots \in SlotSeq /\ d.arena[p].slots \in SlotSeq
    BY <1>1 DEF CtxOK, Held, Custom
  <2> QED BY <2>1 DEF TableType, EntryType, SlotSeq
<1>4. l <= m /\ \A k \in 1..l : d.arena[p].slots[k] = c.arena[p].slots[k]
  BY DEF Extends
<1>5. d.ddt[p][t].index = i
  BY <1>1
<1> HIDE DEF i, l, m
<1>6. i < m /\ i + 1 \in 1..l
  BY <1>2, <1>3, <1>4
<1> QED BY <1>2, <1>4, <1>5, <1>6 DEF m

(***************************************************************************)
(* A step.                                                                 *)
(***************************************************************************)
LEMMA SectorNext ==
  ASSUME media' = media, NEW s
  PROVE  /\ Held(ctx, s, expected[s])' <=> Held(ctx', s, expected'[s])
         /\ Kept(ctx, s, expected[s])' <=> Kept(ctx', s, expected'[s])
         /\ Held(Disk, s, expected[s])' <=> Held(Disk', s, expected'[s])
         /\ Kept(Disk, s, expected[s])' <=> Kept(Disk', s, expected'[s])
         /\ Agree(Disk, ctx, s)' <=> Agree(Disk', ctx', s)
         /\ TypeOfSector(s)' = TypeOfSector(s)
         /\ \A p : Custom(ctx, p, s, expected[s])' <=> Custom(ctx', p, s, expected'[s])
         /\ \A p : Custom(Disk, p, s, expected[s])' <=> Custom(Disk', p, s, expected'[s])
<1>1. TypeOfSector(s)' = TypeOfSector(s)
  BY DEF TypeOfSector
<1>2. Held(ctx, s, expected[s])' <=> Held(ctx', s, expected'[s])
  BY <1>1 DEF Held, Split
<1>3. Held(Disk, s, expected[s])' <=> Held(Disk', s, expected'[s])
  BY <1>1 DEF Held, Split
<1>4. Kept(ctx, s, expected[s])' <=> Kept(ctx', s, expected'[s])
  BY <1>1 DEF Kept, Custom, Split
<1>5. Kept(Disk, s, expected[s])' <=> Kept(Disk', s, expected'[s])
  BY <1>1 DEF Kept, Custom, Split
<1>6. \A p : Custom(ctx, p, s, expected[s])' <=> Custom(ctx', p, s, expected'[s])
  BY <1>1 DEF Custom, Split
<1>7. \A p : Custom(Disk, p, s, expected[s])' <=> Custom(Disk', p, s, expected'[s])
  BY <1>1 DEF Custom, Split
<1>8. Agree(Disk, ctx, s)' <=> Agree(Disk', ctx', s)
  BY DEF Agree
<1> QED BY <1>1, <1>2, <1>3, <1>4, <1>5, <1>6, <1>7, <1>8

LEMMA SameDisk ==
  ASSUME media' = media, file' = file, index' = index
  PROVE  /\ Disk' = Disk
         /\ \A kind : PlacesOf(kind)' = PlacesOf(kind)
         /\ \A p, s, e : Found(p, s, e)' = Found(p, s, e) /\ find_slot(p, s, e)' = find_slot(p, s, e)
<1>1. Disk' = Disk
  BY DEF Disk, Loaded, LoadedArena, At
<1>2. \A kind : PlacesOf(kind)' = PlacesOf(kind)
  BY DEF PlacesOf
<1>3. \A p : ArenasOf(p)' = ArenasOf(p)
  BY <1>2 DEF ArenasOf
<1>4. \A p, i : ArenasBefore(p, i)' = ArenasBefore(p, i)
  BY <1>3 DEF ArenasBefore
<1>5. \A p : scan_generations(p)' = scan_generations(p)
  BY <1>2, <1>4 DEF scan_generations
<1>6. \A p, i : SlotsOf(p, i)' = SlotsOf(p, i)
  BY <1>4 DEF SlotsOf
<1>7. \A p, i, s, e : Holds(p, i, s, e)' <=> Holds(p, i, s, e)
  BY <1>6 DEF Holds
<1>8. \A p, s, e : Found(p, s, e)' = Found(p, s, e)
  BY <1>5, <1>7 DEF Found
<1>9. \A p, s, e : find_slot(p, s, e)' = find_slot(p, s, e)
  BY <1>5, <1>6, <1>7 DEF find_slot
<1> QED BY <1>1, <1>2, <1>8, <1>9

LEMMA PlacesAre ==
  ASSUME FileOK, NEW kind
  PROVE  /\ PlacesOf(kind) \subseteq DOMAIN file /\ DOMAIN file = 1..Len(file) /\ Len(file) \in Nat
         /\ \A i \in PlacesOf(kind) : i \in Nat \ {0} /\ i <= Len(file) /\ ValueOK(kind, file[i].value)
<1>1. DOMAIN file = 1..Len(file) /\ Len(file) \in Nat
  BY SeqFacts DEF FileOK
<1>2. \A i \in PlacesOf(kind) : i \in DOMAIN file /\ file[i].kind = kind
  BY DEF PlacesOf
<1> QED BY <1>1, <1>2 DEF FileOK

(* The arena of a generation. *)
LEMMA SlotsAre ==
  ASSUME FileOK, NEW p \in Parts, NEW i, ArenasBefore(p, i) # {}
  PROVE  /\ Max(ArenasBefore(p, i)) \in ArenasBefore(p, i)
         /\ \A j \in ArenasBefore(p, i) : j <= Max(ArenasBefore(p, i))
         /\ Max(ArenasBefore(p, i)) \in PlacesOf(p)
         /\ SlotsOf(p, i) \in SlotSeq /\ SlotsOf(p, i) # <<>>
<1> DEFINE S == ArenasBefore(p, i)
<1>1. /\ S \subseteq PlacesOf(p)
      /\ \A j \in S : file[j].value # <<>>
  BY DEF ArenasBefore, ArenasOf
<1>2. \A j \in PlacesOf(p) : j \in Nat /\ j <= Len(file) /\ file[j].value \in SlotSeq
  BY PlacesAre DEF ValueOK
<1>3. Len(file) \in Nat
  BY PlacesAre
<1>4. S \subseteq Nat /\ \A j \in S : j <= Len(file)
  BY <1>1, <1>2
<1> HIDE DEF S
<1>5. Max(S) \in S /\ \A j \in S : j <= Max(S)
  <2>1. S # {}
    BY DEF S
  <2> QED BY <1>3, <1>4, <2>1, MaxIn
<1>6. SlotsOf(p, i) = file[Max(S)].value
  BY DEF SlotsOf, S
<1> QED BY <1>1, <1>2, <1>5, <1>6 DEF S

LEMMA SlotsBounded ==
  ASSUME FileOK, ArenasInv, ~ restarted, repairs = 0, NEW p \in Parts, NEW i \in scan_generations(p)
  PROVE  Len(SlotsOf(p, i)) <= Len(Disk.arena[p].slots)
<1>1. ArenasBefore(p, i) # {}
  BY DEF scan_generations
<1>2. Max(ArenasBefore(p, i)) \in PlacesOf(p)
  BY <1>1, SlotsAre
<1> QED BY <1>2 DEF ArenasInv, SlotsOf

(* A new slot is in no table of the file. *)
LEMMA NewIsFresh ==
  ASSUME FileOK, CtxOK(ctx), CtxOK(Disk), ArenasInv, phase = "writing", repairs = 0, NEW s \in All,
         ~ (restarted /\ HadSlot(s)),
         NEW p \in Parts, NEW e, is_custom(e), e.index = Len(ctx.arena[p].slots)
  PROVE  Found(p, s, e) = {}
<1> SUFFICES ASSUME NEW i \in Found(p, s, e) PROVE FALSE
  OBVIOUS
<1>1. /\ i \in scan_generations(p) /\ i \in PlacesOf(DdtOf(p))
      /\ file[i].value[s] = e /\ e.index < Len(SlotsOf(p, i))
  BY DEF Found, Holds, scan_generations
<1>2. ~ restarted
  BY <1>1 DEF HadSlot
<1>3. Len(SlotsOf(p, i)) <= Len(Disk.arena[p].slots)
  BY <1>1, <1>2, SlotsBounded
<1>4. Len(Disk.arena[p].slots) <= Len(ctx.arena[p].slots)
  BY <1>2 DEF ArenasInv, Extends
<1>5. /\ Len(Disk.arena[p].slots) \in Nat /\ Len(ctx.arena[p].slots) \in Nat
      /\ Len(SlotsOf(p, i)) \in Nat
  <2>1. SlotsOf(p, i) \in SlotSeq
    BY <1>1, SlotsAre DEF scan_generations
  <2>2. Disk.arena[p].slots \in SlotSeq /\ ctx.arena[p].slots \in SlotSeq
    BY DEF CtxOK
  <2> QED BY <2>1, <2>2 DEF SlotSeq
<1> QED BY <1>1, <1>3, <1>4, <1>5

(* The contexts of the file. *)
LEMMA DiskOK ==
  ASSUME FileOK, Indexed, NEW arenas,
         arenas \in [Parts -> [slots : SlotSeq, room : Nat]],
         \A p \in Parts : Len(arenas[p].slots) <= arenas[p].room
  PROVE  CtxOK(Loaded(arenas))
<1> DEFINE c == Loaded(arenas)
<1>1. ASSUME NEW kind \in Kinds, NEW missing
      PROVE  At(kind, missing) = missing \/ ValueOK(kind, At(kind, missing))
  <2>1. CASE index[kind] = 0
    BY <2>1 DEF At
  <2>2. CASE index[kind] # 0
    <3>1. index[kind] \in PlacesOf(kind)
      BY <2>2 DEF Indexed
    <3> QED BY <2>2, <3>1, PlacesAre DEF At
  <2> QED BY <2>1, <2>2
<1>2. /\ c.ddt = [p \in Parts |-> At(DdtOf(p), None)] /\ c.arena = arenas
      /\ c.sub = At("sub", None) /\ c.tags = At("tags", [a \in media.arrays |-> None])
      /\ c.user = At("user", [s \in All |-> Unwritten])
      /\ c = [ddt |-> c.ddt, arena |-> c.arena, sub |-> c.sub, tags |-> c.tags, user |-> c.user]
  BY DEF Loaded
<1> HIDE DEF c
<1>3. ASSUME NEW p \in Parts
      PROVE  At(DdtOf(p), None) \in {None} \cup TableType
  <2>1. DdtOf(p) \in Kinds /\ DdtOf(p) \in {"prefix_ddt", "suffix_ddt"}
    BY DEF DdtOf, Kinds
  <2> QED BY <1>1, <2>1 DEF ValueOK
<1>4. At("sub", None) \in {None} \cup Subheaders
  BY <1>1 DEF ValueOK, Kinds
<1>5. At("tags", [a \in media.arrays |-> None]) \in TagArrays
  <2>1. [a \in media.arrays |-> None] \in TagArrays
    BY DEF TagArrays
  <2>2. "tags" \in Kinds
    BY DEF Kinds
  <2> QED BY <1>1, <2>1, <2>2 DEF ValueOK
<1>6. At("user", [s \in All |-> Unwritten]) \in UserData
  <2>1. [s \in All |-> Unwritten] \in UserData
    BY DEF UserData, UserType
  <2>2. "user" \in Kinds
    BY DEF Kinds
  <2> QED BY <1>1, <2>1, <2>2 DEF ValueOK
<1>7. CtxOK(c)
  <2>1. c.ddt \in [Parts -> {None} \cup TableType]
    BY <1>2, <1>3
  <2> QED BY <1>2, <1>4, <1>5, <1>6, <2>1 DEF CtxOK
<1> QED BY <1>7 DEF c

LEMMA ArenasAre ==
  ASSUME FileOK, Indexed
  PROVE  /\ \A p \in Parts : At(p, <<>>) \in SlotSeq
         /\ CtxOK(Disk)
         /\ CtxOK(Loaded([p \in Parts |-> LoadedArena(p)]))
         /\ CtxOK(Loaded([p \in Parts |-> RestartedArena(p)]))
<1>1. ASSUME NEW p \in Parts
      PROVE  At(p, <<>>) \in SlotSeq /\ Len(At(p, <<>>)) \in Nat
  <2>1. CASE index[p] = 0
    BY <2>1 DEF At, SlotSeq
  <2>2. CASE index[p] # 0
    <3>1. index[p] \in PlacesOf(p)
      BY <2>2 DEF Indexed, Kinds, Parts
    <3>2. file[index[p]].value \in SlotSeq
      BY <3>1, PlacesAre DEF ValueOK
    <3> QED BY <2>2, <3>2 DEF At, SlotSeq
  <2> QED BY <2>1, <2>2
<1>2. <<>> \in SlotSeq /\ Len(<<>>) = 0
  BY DEF SlotSeq
<1> DEFINE a == [p \in Parts |-> LoadedArena(p)]
           b == [p \in Parts |-> RestartedArena(p)]
<1>3. a \in [Parts -> [slots : SlotSeq, room : Nat]] /\ \A p \in Parts : Len(a[p].slots) <= a[p].room
  BY <1>1 DEF LoadedArena
<1>4. b \in [Parts -> [slots : SlotSeq, room : Nat]] /\ \A p \in Parts : Len(b[p].slots) <= b[p].room
  BY <1>1, <1>2 DEF RestartedArena
<1>5. Disk = Loaded(a)
  BY DEF Disk
<1> HIDE DEF a, b
<1>6. CtxOK(Loaded(a)) /\ CtxOK(Loaded(b))
  BY <1>3, <1>4, DiskOK
<1> QED BY <1>1, <1>5, <1>6 DEF a, b

(***************************************************************************)
(* Writing a sector of a Compact Disc.                                     *)
(***************************************************************************)
(* What every write of the sector s does. *)
Writes(s) ==
    /\ media' = media /\ file' = file /\ index' = index /\ phase' = phase
    /\ restarted' = restarted /\ repairs' = repairs
    /\ phase = "writing"
    /\ Touches(ctx, ctx', s)
    /\ dirty \subseteq dirty'
    /\ session' = session \cup {s}
    /\ \A t \in All : t # s => expected'[t] = expected[t]
    /\ expected'[s] # Whatever =>
          /\ Written(ctx, ctx', s, expected'[s])
          /\ "user" \in dirty'
          /\ Split(s, expected'[s]) => /\ expected'[s] # Empty
                                       /\ DirtyOf(TypeOfSector(s), expected'[s]) \subseteq dirty'
          /\ ~ (restarted /\ HadSlot(s))

LEMMA WrittenIsNew ==
  ASSUME FileOK, Indexed, CtxOK(ctx), ArenasInv, NEW s \in All, Writes(s), expected'[s] # Whatever
  PROVE  NewSector(s)'
<1> DEFINE x == expected'[s]
<1>1. /\ Written(ctx, ctx', s, x)
      /\ "user" \in dirty'
      /\ Split(s, x) => x # Empty /\ DirtyOf(TypeOfSector(s), x) \subseteq dirty'
      /\ ~ (restarted /\ HadSlot(s))
  BY DEF Writes
<1>2. media' = media /\ file' = file /\ index' = index
  BY DEF Writes
<1>3. Held(ctx, s, expected[s])' /\ Kept(ctx, s, expected[s])'
  BY <1>1, <1>2, SectorNext DEF Written
<1>4. Marked(ctx, s, expected[s])'
  <2>1. Split(s, expected[s])' <=> Split(s, x)
    BY <1>2, SectorNext DEF Split
  <2>2. \A p \in Parts : Custom(ctx, p, s, expected[s])' => p \in dirty'
    <3> SUFFICES ASSUME NEW p \in Parts, Custom(ctx, p, s, expected[s])' PROVE p \in dirty'
      OBVIOUS
    <3>1. Custom(ctx', p, s, x)
      BY <1>2, SectorNext
    <3> QED BY <1>1, <3>1 DEF Written, Custom
  <2>3. Split(s, x) => /\ {"prefix_ddt", "suffix_ddt"} \subseteq dirty'
                       /\ TypeOfSector(s) = "mode2" => "sub" \in dirty'
    <3> SUFFICES ASSUME Split(s, x)
                 PROVE  /\ {"prefix_ddt", "suffix_ddt"} \subseteq dirty'
                        /\ TypeOfSector(s) = "mode2" => "sub" \in dirty'
      OBVIOUS
    <3>1. x # Empty
      BY <1>1
    <3>2. DirtyOf(TypeOfSector(s), x) \subseteq dirty'
      BY <1>1
    <3>3. {"prefix_ddt", "suffix_ddt"} \subseteq DirtyOf(TypeOfSector(s), x)
      BY DEF DirtyOf
    <3>4. TypeOfSector(s) = "mode2" => "sub" \in DirtyOf(TypeOfSector(s), x)
      BY <3>1 DEF DirtyOf
    <3> QED BY <3>2, <3>3, <3>4
  <2> QED BY <1>1, <1>2, <2>1, <2>2, <2>3, SectorNext DEF Marked
<1>5. ASSUME repairs' = 0
      PROVE  Fresh(ctx, s, expected[s])'
  <2> SUFFICES ASSUME NEW p \in Parts, Custom(ctx, p, s, expected[s])'
               PROVE  Found(p, s, ctx.ddt[p][s])' = {}
    BY DEF Fresh
  <2> DEFINE e == ctx'.ddt[p][s]
  <2>1. Custom(ctx', p, s, x)
    BY <1>2, SectorNext
  <2>2. e.index = Len(ctx.arena[p].slots) /\ is_custom(e)
    BY <1>1, <2>1 DEF Written, Custom
  <2>3. phase = "writing" /\ repairs = 0
    BY <1>5 DEF Writes
  <2> HIDE DEF e
  <2>4. Found(p, s, e) = {}
    BY <1>1, <2>2, <2>3, ArenasAre, NewIsFresh
  <2>5. Found(p, s, ctx.ddt[p][s])' = Found(p, s, e)
    BY <1>2, SameDisk DEF e
  <2> QED BY <2>4, <2>5
<1> QED BY <1>3, <1>4, <1>5 DEF NewSector

LEMMA OtherStaysNew ==
  ASSUME CtxOK(ctx), NEW s \in All, Writes(s), NEW t \in All, t # s, NewSector(t)
  PROVE  NewSector(t)'
<1> DEFINE x == expected[t]
<1>1. media' = media /\ file' = file /\ index' = index /\ repairs' = repairs
      /\ expected'[t] = x /\ dirty \subseteq dirty'
  BY DEF Writes
<1>2. Agree(ctx, ctx', t) /\ Extends(ctx, ctx') /\ CtxOK(ctx')
  BY DEF Writes, Touches
<1>3. /\ Held(ctx', t, x)
      /\ \A p \in Parts : Custom(ctx', p, t, x) =>
            Custom(ctx, p, t, x) /\ ctx'.ddt[p][t] = ctx.ddt[p][t]
  BY <1>2, HeldStays DEF NewSector
<1>4. Kept(ctx', t, x)
  BY <1>2, KeptStays DEF NewSector
<1>5. Held(ctx, t, expected[t])' /\ Kept(ctx, t, expected[t])'
  BY <1>1, <1>3, <1>4, SectorNext
<1>6. \A p \in Parts : Custom(ctx, p, t, expected[t])' =>
         Custom(ctx, p, t, x) /\ ctx'.ddt[p][t] = ctx.ddt[p][t]
  BY <1>1, <1>3, SectorNext
<1>7. Marked(ctx, t, expected[t])'
  <2>1. Split(t, expected[t])' <=> Split(t, x)
    BY <1>1, SectorNext DEF Split
  <2>2. Marked(ctx, t, x)
    BY DEF NewSector
  <2>3. \A p \in Parts : Custom(ctx, p, t, expected[t])' => p \in dirty'
    BY <1>1, <1>6, <2>2 DEF Marked
  <2> QED BY <1>1, <2>1, <2>2, <2>3, SectorNext DEF Marked
<1>8. ASSUME repairs' = 0
      PROVE  Fresh(ctx, t, expected[t])'
  <2> SUFFICES ASSUME NEW p \in Parts, Custom(ctx, p, t, expected[t])'
               PROVE  Found(p, t, ctx.ddt[p][t])' = {}
    BY DEF Fresh
  <2>1. Custom(ctx, p, t, x) /\ ctx'.ddt[p][t] = ctx.ddt[p][t]
    BY <1>6
  <2>2. Found(p, t, ctx.ddt[p][t]) = {}
    BY <1>1, <1>8, <2>1 DEF NewSector, Fresh
  <2>3. Found(p, t, ctx.ddt[p][t])' = Found(p, t, ctx'.ddt[p][t])
    BY <1>1, SameDisk
  <2> QED BY <2>1, <2>2, <2>3
<1> QED BY <1>5, <1>7, <1>8 DEF NewSector

LEMMA OtherStaysOld ==
  ASSUME NEW s \in All, Writes(s), NEW t \in All, t # s, OldSector(t)
  PROVE  OldSector(t)'
<1>1. /\ media' = media /\ file' = file /\ index' = index /\ repairs' = repairs
      /\ restarted' = restarted /\ phase' = phase
      /\ expected'[t] = expected[t]
  BY DEF Writes
<1>2. Disk' = Disk
  BY <1>1, SameDisk
<1>3. Held(Disk, t, expected[t])' /\ (~ restarted' => Kept(Disk, t, expected[t])')
  BY <1>1, <1>2, SectorNext DEF OldSector
<1>4. ASSUME repairs' = 0
      PROVE  Findable(Disk, t, expected[t])'
  <2> SUFFICES ASSUME NEW p \in Parts, Custom(Disk, p, t, expected[t])'
               PROVE  /\ Found(p, t, Disk.ddt[p][t])' # {}
                      /\ find_slot(p, t, Disk.ddt[p][t])' = PartIn(expected[t], p)'
    BY DEF Findable
  <2>1. Custom(Disk, p, t, expected[t])
    BY <1>1, <1>2, SectorNext
  <2>2. Found(p, t, Disk.ddt[p][t]) # {} /\ find_slot(p, t, Disk.ddt[p][t]) = PartIn(expected[t], p)
    BY <1>1, <1>4, <2>1 DEF OldSector, Findable
  <2>3. /\ Found(p, t, Disk.ddt[p][t])' = Found(p, t, Disk'.ddt[p][t])
        /\ find_slot(p, t, Disk.ddt[p][t])' = find_slot(p, t, Disk'.ddt[p][t])
    BY <1>1, SameDisk
  <2> QED BY <1>1, <1>2, <2>2, <2>3 DEF PartIn
<1>5. ASSUME phase' = "writing"
      PROVE  Agree(Disk, ctx, t)'
  <2>1. Agree(Disk, ctx, t) /\ Agree(ctx, ctx', t)
    BY <1>1, <1>5 DEF OldSector, Writes, Touches
  <2>2. Agree(Disk', ctx', t)
    BY <1>2, <2>1, AgreeTrans
  <2> QED BY <1>1, <2>2, SectorNext
<1> QED BY <1>3, <1>4, <1>5 DEF OldSector

LEMMA WriteKeepsCd ==
  ASSUME LongTyped, IsCd, CdInv, NEW s \in All, Writes(s)
  PROVE  CdInv'
<1>1. /\ CtxOK(ctx) /\ FileOK /\ Indexed /\ SectorsInv /\ ArenasInv
      /\ CtxOK(Disk) /\ CtxOK(ctx')
  BY ArenasAre DEF LongTyped, CdInv, Writes, Touches
<1>2. SectorsInv'
  <2> SUFFICES ASSUME NEW t \in All, expected'[t] # Whatever
               PROVE  IF t \in session' THEN NewSector(t)' ELSE OldSector(t)'
    BY DEF SectorsInv, All
  <2>1. session' = session \cup {s} /\ (t # s => expected'[t] = expected[t])
    BY DEF Writes
  <2>2. CASE t = s
    BY <1>1, <2>1, <2>2, WrittenIsNew
  <2>3. CASE t # s /\ t \in session
    <3>1. NewSector(t)
      BY <1>1, <2>1, <2>3 DEF SectorsInv
    <3> QED BY <1>1, <2>1, <2>3, <3>1, OtherStaysNew
  <2>4. CASE t # s /\ t \notin session
    <3>1. OldSector(t)
      BY <1>1, <2>1, <2>4 DEF SectorsInv
    <3> QED BY <2>1, <2>4, <3>1, OtherStaysOld
  <2> QED BY <2>2, <2>3, <2>4
<1>3. /\ media' = media /\ file' = file /\ index' = index /\ repairs' = repairs
      /\ restarted' = restarted /\ phase' = phase
  BY DEF Writes
<1>4. Disk' = Disk
  BY <1>3, SameDisk
<1>5. ASSUME phase' = "writing", ~ restarted'
      PROVE  Extends(Disk, ctx)'
  <2>1. Extends(Disk, ctx) /\ Extends(ctx, ctx')
    BY <1>1, <1>3, <1>5 DEF ArenasInv, Writes, Touches
  <2>2. Extends(Disk', ctx')
    BY <1>1, <1>4, <2>1, ExtendsTrans
  <2> QED BY <2>2 DEF Extends
<1>6. ASSUME ~ restarted', repairs' = 0
      PROVE  \A p \in Parts : \A i \in PlacesOf(p)' :
                Len(file'[i].value) <= Len(Disk'.arena[p].slots)
  BY <1>1, <1>3, <1>4, <1>6, SameDisk DEF ArenasInv
<1>7. ArenasInv'
  BY <1>5, <1>6 DEF ArenasInv
<1> QED BY <1>2, <1>7 DEF CdInv

LEMMA TypedNext ==
  ASSUME media' = media
  PROVE  /\ CtxOK(ctx)' <=> CtxOK(ctx')
         /\ \A kind, value : ValueOK(kind, value)' <=> ValueOK(kind, value)
<1>1. TagArrays' = TagArrays
  BY DEF TagArrays
<1> QED BY <1>1 DEF CtxOK, ValueOK

LEMMA FileStays ==
  ASSUME media' = media, file' = file, index' = index, FileOK, Indexed
  PROVE  FileOK' /\ Indexed'
<1>1. FileOK'
  BY TypedNext DEF FileOK
<1>2. Indexed'
  BY SameDisk DEF Indexed
<1> QED BY <1>1, <1>2

(* The actions that write a sector keep the types. *)
LEMMA WriteKeepsTypes ==
  ASSUME LongTyped, NEW s \in All, phase = "writing",
         media' = media, file' = file, index' = index, phase' = phase,
         restarted' = restarted, repairs' = repairs, sessions' = sessions,
         CtxOK(ctx'), dirty' \subseteq Kinds, session' \subseteq All, DOMAIN expected' = All
  PROVE  LongTyped'
<1>1. FileOK' /\ Indexed' /\ CtxOK(ctx)'
  BY FileStays, TypedNext DEF LongTyped
<1>2. All' = All
  BY DEF All
<1>3. (dirty \subseteq Kinds)' /\ (session \subseteq All)' /\ (DOMAIN expected = All)'
  BY <1>2 DEF Kinds
<1> QED BY <1>1, <1>3 DEF LongTyped

LEMMA DirtyOfKinds ==
  ASSUME NEW type, NEW raw
  PROVE  DirtyOf(type, raw) \subseteq Kinds
BY DEF DirtyOf, Kinds

LEMMA WriteSectorLongWrites ==
  ASSUME LongTyped, NEW s \in All, NEW raw \in media.raw, WriteSectorLong(s, raw)
  PROVE  /\ IsCd /\ Writes(s)
         /\ sessions' = sessions /\ dirty' \subseteq Kinds /\ DOMAIN expected' = All
<1> DEFINE type == TypeOfSector(s)
           x == IF raw = Empty /\ type \notin {"audio", "data"} THEN Unwritten ELSE raw
<1>1. /\ IsCd /\ phase = "writing"
      /\ media' = media /\ file' = file /\ index' = index /\ phase' = phase
      /\ restarted' = restarted /\ repairs' = repairs /\ sessions' = sessions
      /\ ctx' = write_sector_cd(ctx, s, raw)
      /\ session' = session \cup {s}
  BY DEF WriteSectorLong, Writing, Expect
<1>2. dirty' = dirty \cup {"user"} \cup
                  (IF type \in {"audio", "data"} THEN {} ELSE DirtyOf(type, raw))
  BY DEF WriteSectorLong
<1>3. expected' = [expected EXCEPT ![s] = IF restarted /\ HadSlot(s) THEN Whatever ELSE x]
  BY DEF WriteSectorLong, Expect
<1>4. Written(ctx, ctx', s, x)
  BY <1>1, WriteCdIs DEF LongTyped
<1>5. DOMAIN expected' = All /\ \A t \in All : t # s => expected'[t] = expected[t]
  BY <1>3 DEF LongTyped
<1>6. expected'[s] # Whatever => expected'[s] = x /\ ~ (restarted /\ HadSlot(s))
  BY <1>3 DEF LongTyped
<1>7. Split(s, x) => x # Empty /\ DirtyOf(type, x) \subseteq dirty'
  BY <1>2 DEF Split
<1>8. "user" \in dirty' /\ dirty \subseteq dirty'
  BY <1>2
<1>9. dirty' \subseteq Kinds
  <2>1. dirty \subseteq Kinds /\ "user" \in Kinds
    BY DEF LongTyped, Kinds
  <2> QED BY <1>2, <2>1, DirtyOfKinds
<1>10. Touches(ctx, ctx', s)
  BY <1>4 DEF Written
<1> HIDE DEF x
<1> QED BY <1>1, <1>4, <1>5, <1>6, <1>7, <1>8, <1>9, <1>10 DEF Writes

LEMMA WriteSectorLongFailsWrites ==
  ASSUME LongTyped, NEW s \in All, NEW raw \in media.raw, NEW stage \in Stages,
         WriteSectorLongFails(s, raw, stage)
  PROVE  /\ IsCd /\ Writes(s)
         /\ sessions' = sessions /\ dirty' \subseteq Kinds /\ DOMAIN expected' = All
<1> DEFINE type == TypeOfSector(s)
<1>1. /\ IsCd /\ phase = "writing"
      /\ media' = media /\ file' = file /\ index' = index /\ phase' = phase
      /\ restarted' = restarted /\ repairs' = repairs /\ sessions' = sessions
      /\ ctx' = SplitUpTo(ctx, s, type, raw, stage)
      /\ type \in {"mode1", "mode2"} /\ raw # Empty
      /\ session' = session \cup {s}
      /\ expected' = [expected EXCEPT ![s] = Whatever]
  BY DEF WriteSectorLongFails, Writing
<1>2. dirty' = IF stage \in {"sub", "suffix", "store"}
               THEN dirty \cup (DirtyOf(type, raw) \ {"suffix", "sub"})
                     \cup (IF stage = "store" THEN DirtyOf(type, raw) ELSE {})
               ELSE dirty
  BY DEF WriteSectorLongFails
<1>3. dirty \subseteq Kinds
  BY DEF LongTyped
<1>4. dirty' \subseteq Kinds /\ dirty \subseteq dirty'
  BY <1>2, <1>3, DirtyOfKinds
<1>5. raw \in RawSectors
  BY <1>1, MediaAssumption DEF IsCd, DiscMedium, LongTyped
<1>6. Touches(ctx, ctx', s)
  BY <1>1, <1>5, SplitUpToIs DEF LongTyped
<1>7. DOMAIN expected' = All /\ expected'[s] = Whatever
      /\ \A t \in All : t # s => expected'[t] = expected[t]
  BY <1>1 DEF LongTyped
<1> QED BY <1>1, <1>4, <1>6, <1>7 DEF Writes

(***************************************************************************)
(* The blocks that a close writes.                                         *)
(***************************************************************************)
(* A block of this kind is written. *)
Puts(c, kinds, kind) ==
    /\ kind \in kinds
    /\ kind \in {"sub", "prefix", "prefix_ddt", "suffix", "suffix_ddt"} => Writable(c, kind)
    /\ kind = "tags" => /\ ~ IsCd
                        /\ IF media.name = "apple"
                           THEN c.tags["tag"] # None /\ media.drive # "widget"
                           ELSE Joinable(c)

LEMMA ValueOfIs ==
  ASSUME NEW c
  PROVE  /\ ValueOf(c, "user") = c.user /\ ValueOf(c, "sub") = c.sub /\ ValueOf(c, "tags") = c.tags
         /\ ValueOf(c, "prefix") = c.arena["prefix"].slots
         /\ ValueOf(c, "suffix") = c.arena["suffix"].slots
         /\ ValueOf(c, "prefix_ddt") = c.ddt["prefix"] /\ ValueOf(c, "suffix_ddt") = c.ddt["suffix"]
BY DEF ValueOf, Parts

LEMMA WriteKindIs ==
  ASSUME NEW x, NEW c
  PROVE  /\ WriteKind(x, c, "user") = write_user_data(x, c)
         /\ WriteKind(x, c, "sub") = write_mode2_subheaders_block(x, c)
         /\ WriteKind(x, c, "prefix") = write_sector_prefix(x, c)
         /\ WriteKind(x, c, "prefix_ddt") = write_sector_prefix_ddt(x, c)
         /\ WriteKind(x, c, "suffix") = write_sector_suffix(x, c)
         /\ WriteKind(x, c, "suffix_ddt") = write_sector_suffix_ddt(x, c)
         /\ WriteKind(x, c, "tags") = write_tags(x, c)
BY DEF WriteKind

LEMMA WriteIfIs ==
  ASSUME NEW x, NEW c, NEW kinds, NEW kind \in Kinds
  PROVE  WriteIf(x, c, kinds, kind) =
            IF Puts(c, kinds, kind) THEN AppendBlock(x, kind, ValueOf(c, kind)) ELSE x
<1>1. CASE kind = "user"
  BY <1>1, WriteKindIs, ValueOfIs DEF WriteIf, write_user_data, Puts
<1>2. CASE kind = "sub"
  BY <1>2, WriteKindIs, ValueOfIs DEF WriteIf, write_mode2_subheaders_block, Puts
<1>3. CASE kind = "prefix"
  BY <1>3, WriteKindIs, ValueOfIs DEF WriteIf, write_sector_prefix, Puts
<1>4. CASE kind = "prefix_ddt"
  BY <1>4, WriteKindIs, ValueOfIs DEF WriteIf, write_sector_prefix_ddt, Puts
<1>5. CASE kind = "suffix"
  BY <1>5, WriteKindIs, ValueOfIs DEF WriteIf, write_sector_suffix, Puts
<1>6. CASE kind = "suffix_ddt"
  BY <1>6, WriteKindIs, ValueOfIs DEF WriteIf, write_sector_suffix_ddt, Puts
<1>7. CASE kind = "tags"
  BY <1>7, WriteKindIs, ValueOfIs DEF WriteIf, write_tags, write_sector_subchannel,
              write_long_sector_blocks, Puts
<1> QED BY <1>1, <1>2, <1>3, <1>4, <1>5, <1>6, <1>7 DEF Kinds

(* The file f with the index ix, after the blocks of the kinds in done.    *)
Grown(f, ix, x, done, c, kinds) ==
    /\ IsSeq(x.file)
    /\ Len(f) <= Len(x.file) /\ \A i \in DOMAIN f : x.file[i] = f[i]
    /\ x.index \in [Kinds -> 0..Len(x.file)]
    /\ \A k \in Kinds :
          IF k \in done /\ Puts(c, kinds, k)
          THEN /\ x.index[k] \in DOMAIN x.file /\ x.index[k] > Len(f)
               /\ x.file[x.index[k]].kind = k /\ x.file[x.index[k]].value = ValueOf(c, k)
          ELSE x.index[k] = ix[k]
    /\ \A i \in DOMAIN x.file : i \in DOMAIN f \/ \E k \in done : Puts(c, kinds, k) /\ i = x.index[k]
    /\ \A p \in Parts :
          DdtOf(p) \in done /\ Puts(c, kinds, DdtOf(p)) /\ Puts(c, kinds, p) =>
             x.index[p] < x.index[DdtOf(p)]

LEMMA GrownStep ==
  ASSUME NEW f, IsSeq(f), NEW ix, NEW x, NEW done, done \subseteq Kinds, NEW c, NEW kinds,
         Grown(f, ix, x, done, c, kinds), NEW kind \in Kinds \ done,
         \A p \in Parts : (kind = DdtOf(p) => p \in done) /\ (kind = p => DdtOf(p) \notin done),
         NEW y, y = WriteIf(x, c, kinds, kind)
  PROVE  Grown(f, ix, y, done \cup {kind}, c, kinds)
<1>1. CASE ~ Puts(c, kinds, kind)
  <2>1. y = x
    BY <1>1, WriteIfIs
  <2> QED BY <1>1, <2>1 DEF Grown
<1>2. CASE Puts(c, kinds, kind)
  <2> DEFINE block == [kind |-> kind, value |-> ValueOf(c, kind)]
             n == Len(x.file)
  <2>1. y.file = Append(x.file, block) /\ y.index = [x.index EXCEPT ![kind] = n + 1]
    BY <1>2, WriteIfIs DEF AppendBlock
  <2>2. /\ IsSeq(x.file) /\ n \in Nat /\ DOMAIN x.file = 1..n /\ Len(f) \in Nat /\ DOMAIN f = 1..Len(f)
        /\ Len(f) <= n
        /\ x.index \in [Kinds -> 0..n]
    BY SeqFacts DEF Grown
  <2>3. block.kind = kind /\ block.value = ValueOf(c, kind)
    OBVIOUS
  <2> HIDE DEF block
  <2>4. /\ IsSeq(y.file) /\ Len(y.file) = n + 1 /\ DOMAIN y.file = 1..(n + 1)
        /\ \A i \in 1..n : y.file[i] = x.file[i]
        /\ y.file[n + 1] = block
    BY <2>1, <2>2, AppendFacts
  <2> HIDE DEF n
  <2>5. /\ y.index \in [Kinds -> 0..(n + 1)] /\ y.index[kind] = n + 1
        /\ \A k \in Kinds : k # kind => y.index[k] = x.index[k] /\ x.index[k] \in 0..n
    BY <2>1, <2>2
  <2>6. Len(f) <= Len(y.file) /\ \A i \in DOMAIN f : y.file[i] = f[i]
    <3>1. \A i \in DOMAIN f : x.file[i] = f[i] /\ i \in 1..n
      BY <2>2 DEF Grown
    <3> QED BY <2>2, <2>4, <3>1
  <2>7. ASSUME NEW k \in Kinds
        PROVE  IF k \in done \cup {kind} /\ Puts(c, kinds, k)
               THEN /\ y.index[k] \in DOMAIN y.file /\ y.index[k] > Len(f)
                    /\ y.file[y.index[k]].kind = k /\ y.file[y.index[k]].value = ValueOf(c, k)
               ELSE y.index[k] = ix[k]
    <3>1. CASE k = kind
      BY <1>2, <2>2, <2>3, <2>4, <2>5, <3>1
    <3>2. CASE k # kind
      <4>1. y.index[k] = x.index[k]
        BY <2>5, <3>2
      <4>2. CASE k \in done /\ Puts(c, kinds, k)
        <5>1. /\ x.index[k] \in 1..n /\ x.index[k] > Len(f)
              /\ x.file[x.index[k]].kind = k /\ x.file[x.index[k]].value = ValueOf(c, k)
          BY <2>2, <4>2 DEF Grown
        <5>2. x.index[k] \in 1..(n + 1)
          BY <2>2, <5>1
        <5> QED BY <2>4, <4>1, <4>2, <5>1, <5>2
      <4>3. CASE ~ (k \in done /\ Puts(c, kinds, k))
        <5>1. x.index[k] = ix[k]
          BY <4>3 DEF Grown
        <5> QED BY <3>2, <4>1, <4>3, <5>1
      <4> QED BY <4>2, <4>3
    <3> QED BY <3>1, <3>2
  <2>8. ASSUME NEW i \in DOMAIN y.file
        PROVE  i \in DOMAIN f \/ \E k \in done \cup {kind} : Puts(c, kinds, k) /\ i = y.index[k]
    <3>1. CASE i = n + 1
      BY <1>2, <2>5, <3>1
    <3>2. CASE i # n + 1
      <4>1. i \in DOMAIN x.file
        BY <2>2, <2>4, <3>2
      <4>2. i \in DOMAIN f \/ \E k \in done : Puts(c, kinds, k) /\ i = x.index[k]
        BY <4>1 DEF Grown
      <4> QED BY <2>5, <4>2
    <3> QED BY <3>1, <3>2
  <2>9. ASSUME NEW p \in Parts, DdtOf(p) \in done \cup {kind},
               Puts(c, kinds, DdtOf(p)), Puts(c, kinds, p)
        PROVE  y.index[p] < y.index[DdtOf(p)]
    <3>1. p \in Kinds /\ DdtOf(p) \in Kinds /\ p # DdtOf(p)
      BY DEF Parts, Kinds, DdtOf
    <3>2. CASE DdtOf(p) = kind
      <4>1. y.index[p] = x.index[p] /\ x.index[p] \in 0..n
        BY <2>5, <3>1, <3>2
      <4> QED BY <2>2, <2>5, <3>2, <4>1
    <3>3. CASE DdtOf(p) # kind
      <4>1. DdtOf(p) \in done
        BY <2>9, <3>3
      <4>2. p # kind
        BY <4>1
      <4>3. x.index[p] < x.index[DdtOf(p)]
        BY <2>9, <4>1 DEF Grown
      <4> QED BY <2>5, <3>1, <3>3, <4>2, <4>3
    <3> QED BY <3>2, <3>3
  <2> QED BY <2>4, <2>5, <2>6, <2>7, <2>8, <2>9 DEF Grown
<1> QED BY <1>1, <1>2

LEMMA FinalizeGrows ==
  ASSUME NEW f, IsSeq(f), NEW ix, ix \in [Kinds -> 0..Len(f)], NEW c, NEW kinds, NEW x,
         x = finalize([file |-> f, index |-> ix], c, kinds)
  PROVE  Grown(f, ix, x, Kinds, c, kinds)
<1> DEFINE b == [file |-> f, index |-> ix]
           x1 == WriteIf(b, c, kinds, "user")
           x2 == WriteIf(x1, c, kinds, "sub")
           x3 == WriteIf(x2, c, kinds, "prefix")
           x4 == WriteIf(x3, c, kinds, "prefix_ddt")
           x5 == WriteIf(x4, c, kinds, "suffix")
           x6 == WriteIf(x5, c, kinds, "suffix_ddt")
<1>1. x = WriteIf(x6, c, kinds, "tags")
  BY DEF finalize
<1>2. Grown(f, ix, b, {}, c, kinds)
  <2>1. b.file = f /\ b.index = ix
    OBVIOUS
  <2> HIDE DEF b
  <2>2. Len(f) \in Nat
    BY SeqFacts
  <2> QED BY <2>1, <2>2 DEF Grown
<1> HIDE DEF b
<1>3. Grown(f, ix, x1, {"user"}, c, kinds)
  <2> HIDE DEF x1
  <2>1. Grown(f, ix, x1, {} \cup {"user"}, c, kinds)
    BY <1>2, GrownStep DEF x1, Kinds, DdtOf, Parts
  <2> QED BY <2>1
<1> HIDE DEF x1
<1>4. Grown(f, ix, x2, {"user"} \cup {"sub"}, c, kinds)
  <2> HIDE DEF x2
  <2> QED BY <1>3, GrownStep DEF x2, Kinds, DdtOf, Parts
<1> HIDE DEF x2
<1>5. Grown(f, ix, x3, {"user", "sub"} \cup {"prefix"}, c, kinds)
  <2> HIDE DEF x3
  <2>1. {"user"} \cup {"sub"} = {"user", "sub"}
    OBVIOUS
  <2> QED BY <1>4, <2>1, GrownStep DEF x3, Kinds, DdtOf, Parts
<1> HIDE DEF x3
<1>6. Grown(f, ix, x4, {"user", "sub", "prefix"} \cup {"prefix_ddt"}, c, kinds)
  <2> HIDE DEF x4
  <2>1. {"user", "sub"} \cup {"prefix"} = {"user", "sub", "prefix"}
    OBVIOUS
  <2> QED BY <1>5, <2>1, GrownStep DEF x4, Kinds, DdtOf, Parts
<1> HIDE DEF x4
<1>7. Grown(f, ix, x5, {"user", "sub", "prefix", "prefix_ddt"} \cup {"suffix"}, c, kinds)
  <2> HIDE DEF x5
  <2>1. {"user", "sub", "prefix"} \cup {"prefix_ddt"} = {"user", "sub", "prefix", "prefix_ddt"}
    OBVIOUS
  <2> QED BY <1>6, <2>1, GrownStep DEF x5, Kinds, DdtOf, Parts
<1> HIDE DEF x5
<1>8. Grown(f, ix, x6, {"user", "sub", "prefix", "prefix_ddt", "suffix"} \cup {"suffix_ddt"}, c, kinds)
  <2> HIDE DEF x6
  <2>1. {"user", "sub", "prefix", "prefix_ddt"} \cup {"suffix"}
            = {"user", "sub", "prefix", "prefix_ddt", "suffix"}
    OBVIOUS
  <2> QED BY <1>7, <2>1, GrownStep DEF x6, Kinds, DdtOf, Parts
<1> HIDE DEF x6
<1>9. Grown(f, ix, x, {"user", "sub", "prefix", "prefix_ddt", "suffix", "suffix_ddt"} \cup {"tags"},
            c, kinds)
  <2>1. {"user", "sub", "prefix", "prefix_ddt", "suffix"} \cup {"suffix_ddt"}
            = {"user", "sub", "prefix", "prefix_ddt", "suffix", "suffix_ddt"}
    OBVIOUS
  <2> QED BY <1>1, <1>8, <2>1, GrownStep DEF Kinds, DdtOf, Parts
<1>10. {"user", "sub", "prefix", "prefix_ddt", "suffix", "suffix_ddt"} \cup {"tags"} = Kinds
  BY DEF Kinds
<1> QED BY <1>9, <1>10

(***************************************************************************)
(* Closing an image.                                                       *)
(***************************************************************************)
Closing(x, kinds) ==
    /\ Grown(file, index, x, Kinds, ctx, kinds)
    /\ file' = x.file /\ index' = x.index /\ media' = media

PutsIt(kinds, kind) == Puts(ctx, kinds, kind)

LEMMA CloseIs ==
  ASSUME LongTyped, NEW lost, Close(lost)
  PROVE  /\ \E x : Closing(x, dirty \ lost)
         /\ phase = "writing" /\ phase' = "closed" /\ session' = {} /\ dirty' = {} /\ ctx' = NewContext
         /\ restarted' = restarted /\ repairs' = repairs /\ sessions' = sessions
         /\ expected' = [s \in All |-> IF lost # {} /\ s \in session THEN Whatever ELSE expected[s]]
<1> DEFINE x == finalize([file |-> file, index |-> index], ctx, dirty \ lost)
<1>1. file' = x.file /\ index' = x.index /\ media' = media
  BY DEF Close
<1> HIDE DEF x
<1>2. IsSeq(file) /\ index \in [Kinds -> 0..Len(file)]
  BY DEF LongTyped, FileOK, Indexed
<1>3. Grown(file, index, x, Kinds, ctx, dirty \ lost)
  BY <1>2, FinalizeGrows DEF x
<1>4. \E y : Closing(y, dirty \ lost)
  BY <1>1, <1>3 DEF Closing
<1> QED BY <1>4 DEF Close

LEMMA CtxValues ==
  ASSUME CtxOK(ctx), NEW kinds, NEW kind \in Kinds, PutsIt(kinds, kind)
  PROVE  ValueOK(kind, ValueOf(ctx, kind))
<1>1. kind \in {"sub", "prefix", "prefix_ddt", "suffix", "suffix_ddt"} => ValueOf(ctx, kind) # None
  BY DEF PutsIt, Puts, Writable
<1>2. CASE kind = "user"
  BY <1>2, ValueOfIs DEF ValueOK, CtxOK, Parts
<1>3. CASE kind = "sub"
  BY <1>1, <1>3, ValueOfIs DEF ValueOK, CtxOK, Parts
<1>4. CASE kind = "tags"
  BY <1>4, ValueOfIs DEF ValueOK, CtxOK, Parts
<1>5. CASE kind \in Parts
  BY <1>5, ValueOfIs DEF ValueOK, CtxOK, Parts
<1>6. CASE kind \in {"prefix_ddt", "suffix_ddt"}
  BY <1>1, <1>6, ValueOfIs DEF ValueOK, CtxOK, Parts
<1> QED BY <1>2, <1>3, <1>4, <1>5, <1>6 DEF Kinds, Parts

LEMMA ClosedFile ==
  ASSUME LongTyped, NEW x, NEW kinds, Closing(x, kinds)
  PROVE  /\ FileOK' /\ Indexed'
         /\ Len(file) \in Nat /\ DOMAIN file = 1..Len(file) /\ \A i \in DOMAIN file : file'[i] = file[i]
         /\ \A kind \in Kinds :
               IF PutsIt(kinds, kind)
               THEN /\ index'[kind] \in Nat /\ index'[kind] > Len(file)
                    /\ file'[index'[kind]].value = ValueOf(ctx, kind)
                    /\ PlacesOf(kind)' = PlacesOf(kind) \cup {index'[kind]}
               ELSE index'[kind] = index[kind] /\ PlacesOf(kind)' = PlacesOf(kind)
         /\ \A p \in Parts : PutsIt(kinds, DdtOf(p)) /\ PutsIt(kinds, p) => index'[p] < index'[DdtOf(p)]
<1>1. /\ IsSeq(file') /\ Len(file) <= Len(file') /\ \A i \in DOMAIN file : file'[i] = file[i]
      /\ index' \in [Kinds -> 0..Len(file')]
      /\ \A k \in Kinds :
            IF PutsIt(kinds, k)
            THEN /\ index'[k] \in DOMAIN file' /\ index'[k] > Len(file)
                 /\ file'[index'[k]].kind = k /\ file'[index'[k]].value = ValueOf(ctx, k)
            ELSE index'[k] = index[k]
      /\ \A i \in DOMAIN file' : i \in DOMAIN file \/ \E k \in Kinds : PutsIt(kinds, k) /\ i = index'[k]
      /\ \A p \in Parts : PutsIt(kinds, DdtOf(p)) /\ PutsIt(kinds, p) => index'[p] < index'[DdtOf(p)]
  <2>1. Grown(file, index, x, Kinds, ctx, kinds) /\ file' = x.file /\ index' = x.index
    BY DEF Closing
  <2>2. \A p \in Parts : DdtOf(p) \in Kinds
    BY DEF Parts, DdtOf, Kinds
  <2> QED BY <2>1, <2>2 DEF Grown, PutsIt
<1>2. /\ Len(file) \in Nat /\ DOMAIN file = 1..Len(file)
      /\ Len(file') \in Nat /\ DOMAIN file' = 1..Len(file')
  BY <1>1, SeqFacts DEF LongTyped, FileOK
<1>3. \A i \in DOMAIN file : i \in DOMAIN file'
  BY <1>1, <1>2
<1>4. ASSUME NEW kind \in Kinds
      PROVE  /\ PutsIt(kinds, kind) => PlacesOf(kind)' = PlacesOf(kind) \cup {index'[kind]}
             /\ ~ PutsIt(kinds, kind) => PlacesOf(kind)' = PlacesOf(kind)
  <2>1. ASSUME NEW i \in DOMAIN file', i \notin DOMAIN file, file'[i].kind = kind
        PROVE  PutsIt(kinds, kind) /\ i = index'[kind]
    <3>1. PICK k \in Kinds : PutsIt(kinds, k) /\ i = index'[k]
      BY <1>1, <2>1
    <3>2. file'[i].kind = k
      BY <1>1, <3>1
    <3> QED BY <2>1, <3>1, <3>2
  <2>2. PutsIt(kinds, kind) => index'[kind] \in DOMAIN file' /\ file'[index'[kind]].kind = kind
    BY <1>1
  <2>3. PlacesOf(kind)' = {i \in DOMAIN file' : file'[i].kind = kind}
    BY DEF PlacesOf
  <2>4. PlacesOf(kind) = {i \in DOMAIN file : file[i].kind = kind}
    BY DEF PlacesOf
  <2>5. \A i \in DOMAIN file : file'[i].kind = file[i].kind
    BY <1>1
  <2>6. \A i : i \in PlacesOf(kind)' <=>
              i \in PlacesOf(kind) \/ (PutsIt(kinds, kind) /\ i = index'[kind])
    BY <1>3, <2>1, <2>2, <2>3, <2>4, <2>5
  <2> QED BY <2>6
<1>5. FileOK'
  <2>1. ASSUME NEW i \in DOMAIN file'
        PROVE  file'[i].kind \in Kinds /\ ValueOK(file'[i].kind, file'[i].value)
    <3>1. CASE i \in DOMAIN file
      BY <1>1, <3>1 DEF LongTyped, FileOK
    <3>2. CASE i \notin DOMAIN file
      <4>1. PICK k \in Kinds : PutsIt(kinds, k) /\ i = index'[k]
        BY <1>1, <3>2
      <4>2. file'[i].kind = k /\ file'[i].value = ValueOf(ctx, k)
        BY <1>1, <4>1
      <4>3. ValueOK(k, ValueOf(ctx, k))
        BY <4>1, CtxValues DEF LongTyped
      <4> QED BY <4>2, <4>3
    <3> QED BY <3>1, <3>2
  <2>2. media' = media
    BY DEF Closing
  <2>3. Kinds' = Kinds /\ TagArrays' = TagArrays
    BY <2>2 DEF Kinds, TagArrays
  <2>4. \A i \in DOMAIN file' :
           file'[i].kind \in Kinds /\ (ValueOK(file[i].kind, file[i].value))'
    BY <2>1, <2>3 DEF ValueOK
  <2> QED BY <1>1, <2>3, <2>4 DEF FileOK
<1>6. Indexed'
  <2>1. ASSUME NEW kind \in Kinds
        PROVE  IF index'[kind] = 0 THEN PlacesOf(kind)' = {}
               ELSE index'[kind] \in PlacesOf(kind)' /\ \A i \in PlacesOf(kind)' : i <= index'[kind]
    <3>1. CASE PutsIt(kinds, kind)
      <4>1. index'[kind] \in Nat /\ index'[kind] > Len(file) /\ index'[kind] # 0
        BY <1>1, <1>2, <3>1
      <4>2. PlacesOf(kind)' = PlacesOf(kind) \cup {index'[kind]}
        BY <1>4, <3>1
      <4>3. \A i \in PlacesOf(kind) : i \in Nat /\ i <= Len(file)
        BY PlacesAre DEF LongTyped
      <4>4. \A i \in PlacesOf(kind) : i <= index'[kind]
        BY <1>2, <4>1, <4>3
      <4> QED BY <4>1, <4>2, <4>4
    <3>2. CASE ~ PutsIt(kinds, kind)
      <4>1. index'[kind] = index[kind] /\ PlacesOf(kind)' = PlacesOf(kind)
        BY <1>1, <1>4, <3>2
      <4> QED BY <4>1 DEF LongTyped, Indexed
    <3> QED BY <3>1, <3>2
  <2>2. Kinds' = Kinds
    BY DEF Kinds
  <2> QED BY <1>1, <2>1, <2>2 DEF Indexed
<1>7. ASSUME NEW kind \in Kinds
      PROVE  IF PutsIt(kinds, kind)
             THEN /\ index'[kind] \in Nat /\ index'[kind] > Len(file)
                  /\ file'[index'[kind]].value = ValueOf(ctx, kind)
                  /\ PlacesOf(kind)' = PlacesOf(kind) \cup {index'[kind]}
             ELSE index'[kind] = index[kind] /\ PlacesOf(kind)' = PlacesOf(kind)
  <2>1. CASE PutsIt(kinds, kind)
    BY <1>1, <1>2, <1>4, <2>1
  <2>2. CASE ~ PutsIt(kinds, kind)
    BY <1>1, <1>4, <2>2
  <2> QED BY <2>1, <2>2
<1> QED BY <1>1, <1>2, <1>5, <1>6, <1>7

(* What a reader finds afterwards. *)
LEMMA DiskFields ==
  /\ Disk.user = At("user", [s \in All |-> Unwritten]) /\ Disk.sub = At("sub", None)
  /\ Disk.tags = At("tags", [a \in media.arrays |-> None])
  /\ \A p \in Parts : Disk.ddt[p] = At(DdtOf(p), None) /\ Disk.arena[p].slots = At(p, <<>>)
BY DEF Disk, Loaded, LoadedArena

LEMMA DiskFieldsNext ==
  /\ Disk'.user = At("user", [s \in All |-> Unwritten])' /\ Disk'.sub = At("sub", None)'
  /\ Disk'.tags = At("tags", [a \in media.arrays |-> None])'
  /\ \A p \in Parts : Disk'.ddt[p] = At(DdtOf(p), None)' /\ Disk'.arena[p].slots = At(p, <<>>)'
BY DEF Disk, Loaded, LoadedArena, DdtOf

LEMMA ClosedDisk ==
  ASSUME LongTyped, NEW x, NEW kinds, Closing(x, kinds)
  PROVE  /\ Disk'.user = IF PutsIt(kinds, "user") THEN ctx.user ELSE Disk.user
         /\ Disk'.sub = IF PutsIt(kinds, "sub") THEN ctx.sub ELSE Disk.sub
         /\ Disk'.tags = IF PutsIt(kinds, "tags") THEN ctx.tags ELSE Disk.tags
         /\ \A p \in Parts :
               /\ Disk'.ddt[p] = IF PutsIt(kinds, DdtOf(p)) THEN ctx.ddt[p] ELSE Disk.ddt[p]
               /\ Disk'.arena[p].slots = IF PutsIt(kinds, p) THEN ctx.arena[p].slots
                                         ELSE Disk.arena[p].slots
<1>1. ASSUME NEW kind \in Kinds, NEW missing
      PROVE  At(kind, missing)' = IF PutsIt(kinds, kind) THEN ValueOf(ctx, kind) ELSE At(kind, missing)
  <2>1. CASE PutsIt(kinds, kind)
    <3>1. index'[kind] # 0 /\ file'[index'[kind]].value = ValueOf(ctx, kind)
      BY <2>1, ClosedFile
    <3> QED BY <2>1, <3>1 DEF At
  <2>2. CASE ~ PutsIt(kinds, kind)
    <3>1. index'[kind] = index[kind]
      BY <2>2, ClosedFile
    <3>2. index[kind] # 0 => file'[index[kind]] = file[index[kind]]
      <4>1. index[kind] # 0 => index[kind] \in PlacesOf(kind)
        BY DEF LongTyped, Indexed
      <4>2. PlacesOf(kind) \subseteq DOMAIN file
        BY DEF PlacesOf
      <4> QED BY <4>1, <4>2, ClosedFile
    <3> QED BY <2>2, <3>1, <3>2 DEF At
  <2> QED BY <2>1, <2>2
<1>2. At("tags", [a \in media.arrays |-> None])' =
         IF PutsIt(kinds, "tags") THEN ctx.tags ELSE At("tags", [a \in media.arrays |-> None])
  <2>1. media' = media
    BY DEF Closing
  <2> DEFINE M == [a \in media.arrays |-> None]
  <2>2. M' = M
    BY <2>1
  <2>3. "tags" \in Kinds
    BY DEF Kinds
  <2>4. CASE PutsIt(kinds, "tags")
    <3>1. index'["tags"] # 0 /\ file'[index'["tags"]].value = ctx.tags
      BY <2>3, <2>4, ClosedFile, ValueOfIs
    <3> QED BY <2>4, <3>1 DEF At
  <2>5. CASE ~ PutsIt(kinds, "tags")
    <3>1. index'["tags"] = index["tags"]
      BY <2>3, <2>5, ClosedFile
    <3>2. index["tags"] # 0 => file'[index["tags"]] = file[index["tags"]]
      <4>1. index["tags"] # 0 => index["tags"] \in PlacesOf("tags")
        BY <2>3 DEF LongTyped, Indexed
      <4>2. PlacesOf("tags") \subseteq DOMAIN file
        BY DEF PlacesOf
      <4> QED BY <4>1, <4>2, ClosedFile
    <3> QED BY <2>1, <2>5, <3>1, <3>2 DEF At
  <2> QED BY <2>4, <2>5
<1>3. \A p \in Parts : p \in Kinds /\ DdtOf(p) \in Kinds
  BY DEF Parts, Kinds, DdtOf
<1>4. \A p \in Parts : ValueOf(ctx, DdtOf(p)) = ctx.ddt[p] /\ ValueOf(ctx, p) = ctx.arena[p].slots
  BY ValueOfIs DEF Parts, DdtOf
<1>5. ASSUME NEW p \in Parts
      PROVE  /\ Disk'.ddt[p] = IF PutsIt(kinds, DdtOf(p)) THEN ctx.ddt[p] ELSE Disk.ddt[p]
             /\ Disk'.arena[p].slots = IF PutsIt(kinds, p) THEN ctx.arena[p].slots
                                       ELSE Disk.arena[p].slots
  <2>1. At(DdtOf(p), None)' = IF PutsIt(kinds, DdtOf(p)) THEN ctx.ddt[p] ELSE At(DdtOf(p), None)
    BY <1>1, <1>3, <1>4
  <2>2. At(p, <<>>)' = IF PutsIt(kinds, p) THEN ctx.arena[p].slots ELSE At(p, <<>>)
    BY <1>1, <1>3, <1>4
  <2> QED BY <2>1, <2>2, DiskFields, DiskFieldsNext
<1>6. "user" \in Kinds /\ "sub" \in Kinds
  BY DEF Kinds
<1>7. At("sub", None)' = IF PutsIt(kinds, "sub") THEN ctx.sub ELSE At("sub", None)
  BY <1>1, <1>6, ValueOfIs
<1>8. At("user", [s \in All |-> Unwritten])' =
         IF PutsIt(kinds, "user") THEN ctx.user ELSE At("user", [s \in All |-> Unwritten])
  BY <1>1, <1>6, ValueOfIs
<1> QED BY <1>2, <1>5, <1>7, <1>8, DiskFields, DiskFieldsNext

(* The generations that were there stay, and a new one comes after them.   *)
LEMMA OldArenas ==
  ASSUME LongTyped, NEW x, NEW kinds, Closing(x, kinds), NEW p \in Parts, NEW i \in Nat, i <= Len(file)
  PROVE  /\ ArenasBefore(p, i)' = ArenasBefore(p, i)
         /\ ArenasBefore(p, i) # {} => SlotsOf(p, i)' = SlotsOf(p, i)
         /\ i \in scan_generations(p)' <=> i \in scan_generations(p)
         /\ i \in scan_generations(p) => file'[i] = file[i]
<1>1. p \in Kinds /\ DdtOf(p) \in Kinds
  BY DEF Parts, Kinds, DdtOf
<1>2. ASSUME NEW kind \in Kinds, NEW j \in Nat, j <= Len(file)
      PROVE  j \in PlacesOf(kind)' <=> j \in PlacesOf(kind)
  <2>1. CASE PutsIt(kinds, kind)
    <3>1. /\ PlacesOf(kind)' = PlacesOf(kind) \cup {index'[kind]}
          /\ index'[kind] \in Nat /\ index'[kind] > Len(file)
      BY <2>1, ClosedFile
    <3>2. j # index'[kind]
      <4>1. Len(file) \in Nat
        BY ClosedFile
      <4> QED BY <1>2, <3>1, <4>1
    <3> QED BY <3>1, <3>2
  <2>2. CASE ~ PutsIt(kinds, kind)
    BY <2>2, ClosedFile
  <2> QED BY <2>1, <2>2
<1>3. /\ Len(file) \in Nat /\ DOMAIN file = 1..Len(file) /\ \A j \in DOMAIN file : file'[j] = file[j]
  BY ClosedFile
<1>4. /\ \A j \in PlacesOf(p) : j \in Nat /\ j \in DOMAIN file
      /\ \A j \in PlacesOf(p)' : j \in Nat
      /\ \A j \in PlacesOf(DdtOf(p)) : j \in DOMAIN file
  <2>1. FileOK /\ FileOK'
    BY ClosedFile DEF LongTyped
  <2>2. \A j \in PlacesOf(p) : j \in DOMAIN file
    BY DEF PlacesOf
  <2>3. \A j \in PlacesOf(p)' : j \in DOMAIN file'
    BY DEF PlacesOf
  <2>4. DOMAIN file' = 1..Len(file')
    BY <2>1, SeqFacts DEF FileOK
  <2>5. \A j \in PlacesOf(DdtOf(p)) : j \in DOMAIN file
    BY DEF PlacesOf
  <2> QED BY <1>3, <2>2, <2>3, <2>4, <2>5
<1>5. ArenasBefore(p, i)' = ArenasBefore(p, i)
  <2>1. ASSUME NEW j, j < i, j \in PlacesOf(p)
        PROVE  j \in PlacesOf(p)' /\ file'[j] = file[j]
    <3>1. j \in Nat /\ j \in DOMAIN file /\ j <= Len(file)
      BY <1>3, <1>4, <2>1
    <3> QED BY <1>1, <1>2, <1>3, <2>1, <3>1
  <2>2. ASSUME NEW j, j < i, j \in PlacesOf(p)'
        PROVE  j \in PlacesOf(p)
    <3>1. j \in Nat /\ j <= Len(file)
      BY <1>3, <1>4, <2>2
    <3> QED BY <1>1, <1>2, <2>2, <3>1
  <2>3. \A j : j \in ArenasBefore(p, i)' <=> j \in PlacesOf(p)' /\ file'[j].value # <<>> /\ j < i
    BY DEF ArenasBefore, ArenasOf
  <2>4. \A j : j \in ArenasBefore(p, i) <=> j \in PlacesOf(p) /\ file[j].value # <<>> /\ j < i
    BY DEF ArenasBefore, ArenasOf
  <2>5. \A j : j \in ArenasBefore(p, i)' <=> j \in ArenasBefore(p, i)
    BY <2>1, <2>2, <2>3, <2>4
  <2> QED BY <2>5
<1>6. ASSUME ArenasBefore(p, i) # {}
      PROVE  SlotsOf(p, i)' = SlotsOf(p, i)
  <2>1. Max(ArenasBefore(p, i)) \in PlacesOf(p)
    BY <1>6, SlotsAre DEF LongTyped
  <2>2. file'[Max(ArenasBefore(p, i))] = file[Max(ArenasBefore(p, i))]
    BY <1>3, <1>4, <2>1
  <2> QED BY <1>5, <2>2 DEF SlotsOf
<1>7. i \in PlacesOf(DdtOf(p))' <=> i \in PlacesOf(DdtOf(p))
  BY <1>1, <1>2
<1>8. i \in scan_generations(p)' <=> i \in scan_generations(p)
  <2>1. i \in scan_generations(p)' <=> i \in PlacesOf(DdtOf(p))' /\ ArenasBefore(p, i)' # {}
    BY DEF scan_generations, DdtOf
  <2>2. i \in scan_generations(p) <=> i \in PlacesOf(DdtOf(p)) /\ ArenasBefore(p, i) # {}
    BY DEF scan_generations
  <2> QED BY <1>5, <1>7, <2>1, <2>2
<1>9. i \in scan_generations(p) => file'[i] = file[i]
  BY <1>3, <1>4 DEF scan_generations
<1> QED BY <1>5, <1>6, <1>8, <1>9

LEMMA OldFound ==
  ASSUME LongTyped, NEW x, NEW kinds, Closing(x, kinds), NEW p \in Parts, NEW s, NEW e, NEW i \in Nat
  PROVE  /\ i <= Len(file) => (i \in Found(p, s, e)' <=> i \in Found(p, s, e))
         /\ i \in Found(p, s, e) => i <= Len(file)
         /\ i > Len(file) /\ i \in Found(p, s, e)' => PutsIt(kinds, DdtOf(p)) /\ i = index'[DdtOf(p)]
<1>1. i \in Found(p, s, e) <=>
        i \in scan_generations(p) /\ file[i].value[s] = e /\ e.index < Len(SlotsOf(p, i))
  BY DEF Found, Holds
<1>2. i \in Found(p, s, e)' <=>
         i \in scan_generations(p)' /\ file'[i].value[s] = e /\ e.index < Len(SlotsOf(p, i)')
  BY DEF Found, Holds
<1>3. ASSUME i <= Len(file)
      PROVE  i \in Found(p, s, e)' <=> i \in Found(p, s, e)
  <2>1. /\ ArenasBefore(p, i) # {} => SlotsOf(p, i)' = SlotsOf(p, i)
        /\ i \in scan_generations(p)' <=> i \in scan_generations(p)
        /\ i \in scan_generations(p) => file'[i] = file[i]
    BY <1>3, OldArenas
  <2>2. i \in scan_generations(p) => ArenasBefore(p, i) # {}
    BY DEF scan_generations
  <2> QED BY <1>1, <1>2, <2>1, <2>2
<1>4. ASSUME i \in Found(p, s, e)
      PROVE  i <= Len(file)
  <2>1. i \in PlacesOf(DdtOf(p))
    BY <1>4 DEF Found, scan_generations
  <2> QED BY <2>1, PlacesAre DEF LongTyped
<1>5. ASSUME i > Len(file), i \in Found(p, s, e)'
      PROVE  PutsIt(kinds, DdtOf(p)) /\ i = index'[DdtOf(p)]
  <2>1. i \in PlacesOf(DdtOf(p))'
    BY <1>5 DEF Found, scan_generations, DdtOf
  <2>2. i \notin PlacesOf(DdtOf(p))
    <3>1. i \in PlacesOf(DdtOf(p)) => i <= Len(file)
      BY PlacesAre DEF LongTyped
    <3>2. Len(file) \in Nat
      BY ClosedFile
    <3> QED BY <1>5, <3>1, <3>2
  <2>3. DdtOf(p) \in Kinds
    BY DEF Kinds, DdtOf
  <2> QED BY <2>1, <2>2, <2>3, ClosedFile
<1> QED BY <1>3, <1>4, <1>5

LEMMA FoundAre ==
  ASSUME FileOK, NEW p \in Parts, NEW s, NEW e
  PROVE  Found(p, s, e) \subseteq Nat
BY PlacesAre DEF Found, scan_generations

LEMMA FoundAreNext ==
  ASSUME FileOK', NEW p \in Parts, NEW s, NEW e
  PROVE  Found(p, s, e)' \subseteq Nat
<1>1. DOMAIN file' = 1..Len(file') /\ Len(file') \in Nat
  BY SeqFacts DEF FileOK
<1>2. Found(p, s, e)' \subseteq DOMAIN file'
  BY DEF Found, scan_generations, PlacesOf
<1> QED BY <1>1, <1>2

LEMMA FindSlotIs ==
  ASSUME NEW p, NEW s, NEW e, Found(p, s, e) # {}
  PROVE  find_slot(p, s, e) = SlotsOf(p, Min(Found(p, s, e)))[e.index + 1]
BY DEF find_slot, Found

LEMMA FindSlotIsNext ==
  ASSUME NEW p, NEW s, NEW e, Found(p, s, e)' # {}, NEW m, m = Min(Found(p, s, e)')
  PROVE  find_slot(p, s, e)' = SlotsOf(p, m)'[e.index + 1]
BY DEF find_slot, Found

(* What was found before is found in the same place. *)
LEMMA StillFound ==
  ASSUME LongTyped, NEW x, NEW kinds, Closing(x, kinds), NEW p \in Parts, NEW s, NEW e,
         Found(p, s, e) # {}
  PROVE  Found(p, s, e)' # {} /\ find_slot(p, s, e)' = find_slot(p, s, e)
<1>0. PICK m : m = Min(Found(p, s, e))
  OBVIOUS
<1>1. Found(p, s, e) \subseteq Nat /\ Found(p, s, e)' \subseteq Nat
  BY FoundAre, FoundAreNext, ClosedFile DEF LongTyped
<1>2. m \in Found(p, s, e) /\ \A i \in Found(p, s, e) : m <= i
  BY <1>0, <1>1, MinIn
<1>3. m \in Nat /\ m <= Len(file) /\ Len(file) \in Nat
  BY <1>1, <1>2, OldFound, ClosedFile
<1>4. m \in Found(p, s, e)'
  BY <1>2, <1>3, OldFound
<1>5. \A i \in Found(p, s, e)' : m <= i
  <2> SUFFICES ASSUME NEW i \in Found(p, s, e)' PROVE m <= i
    OBVIOUS
  <2>1. i \in Nat
    BY <1>1
  <2>2. CASE i <= Len(file)
    BY <1>2, <2>1, <2>2, OldFound
  <2>3. CASE i > Len(file)
    BY <1>3, <2>1, <2>3
  <2> QED BY <1>3, <2>1, <2>2, <2>3
<1>6. Min(Found(p, s, e)') = m
  <2>1. \A i \in Found(p, s, e)' : i \in Int
    BY <1>1
  <2> QED BY <1>4, <1>5, <2>1, MinOf
<1>7. SlotsOf(p, m)' = SlotsOf(p, m)
  <2>1. ArenasBefore(p, m) # {}
    BY <1>2 DEF Found, scan_generations
  <2> QED BY <1>3, <2>1, OldArenas
<1>8. find_slot(p, s, e)' = SlotsOf(p, m)'[e.index + 1]
  BY <1>4, <1>6, FindSlotIsNext
<1>9. find_slot(p, s, e) = SlotsOf(p, m)[e.index + 1]
  BY <1>0, <1>2, FindSlotIs
<1> QED BY <1>4, <1>7, <1>8, <1>9

(* A new entry is found with the arena that is written before its table.   *)
LEMMA NowFound ==
  ASSUME LongTyped, NEW x, NEW kinds, Closing(x, kinds), NEW p \in Parts, NEW s, NEW e,
         Found(p, s, e) = {}, PutsIt(kinds, p), PutsIt(kinds, DdtOf(p)),
         ctx.ddt[p][s] = e, e.index \in Nat, e.index < Len(ctx.arena[p].slots)
  PROVE  Found(p, s, e)' # {} /\ find_slot(p, s, e)' = ctx.arena[p].slots[e.index + 1]
<1>1. PICK a : a = index'[p]
  OBVIOUS
<1>2. PICK d : d = index'[DdtOf(p)]
  OBVIOUS
<1>3. p \in Kinds /\ DdtOf(p) \in Kinds
  BY DEF Parts, Kinds, DdtOf
<1>4. ValueOf(ctx, DdtOf(p)) = ctx.ddt[p] /\ ValueOf(ctx, p) = ctx.arena[p].slots
  BY ValueOfIs DEF Parts, DdtOf
<1>5. /\ a \in Nat /\ a > Len(file) /\ file'[a].value = ctx.arena[p].slots
      /\ PlacesOf(p)' = PlacesOf(p) \cup {a}
      /\ d \in Nat /\ d > Len(file) /\ file'[d].value = ctx.ddt[p]
      /\ PlacesOf(DdtOf(p))' = PlacesOf(DdtOf(p)) \cup {d}
      /\ a < d /\ Len(file) \in Nat
  BY <1>1, <1>2, <1>3, <1>4, ClosedFile
<1>6. ctx.arena[p].slots # <<>>
  BY <1>3, <1>4 DEF PutsIt, Puts, Writable, Parts
<1>7. /\ a \in ArenasBefore(p, d)'
      /\ \A j \in ArenasBefore(p, d)' : j \in Int /\ a >= j
  <2>1. \A j : j \in ArenasBefore(p, d)' <=> j \in PlacesOf(p)' /\ file'[j].value # <<>> /\ j < d
    BY DEF ArenasBefore, ArenasOf
  <2>2. \A j \in PlacesOf(p) : j \in Nat /\ j <= Len(file)
    BY PlacesAre DEF LongTyped
  <2> QED BY <1>5, <1>6, <2>1, <2>2
<1>8. Max(ArenasBefore(p, d)') = a
  BY <1>7, MaxOf
<1>9. SlotsOf(p, d)' = ctx.arena[p].slots
  BY <1>5, <1>8 DEF SlotsOf
<1>10. d \in scan_generations(p)'
  <2>1. d \in scan_generations(p)' <=> d \in PlacesOf(DdtOf(p))' /\ ArenasBefore(p, d)' # {}
    BY DEF scan_generations, DdtOf
  <2> QED BY <1>5, <1>7, <2>1
<1>11. d \in Found(p, s, e)'
  <2>1. d \in Found(p, s, e)' <=>
           d \in scan_generations(p)' /\ file'[d].value[s] = e /\ e.index < Len(SlotsOf(p, d)')
    BY DEF Found, Holds
  <2> QED BY <1>5, <1>9, <1>10, <2>1
<1>12. Found(p, s, e)' \subseteq Nat
  BY FoundAreNext, ClosedFile
<1>13. \A i \in Found(p, s, e)' : i = d
  <2> SUFFICES ASSUME NEW i \in Found(p, s, e)' PROVE i = d
    OBVIOUS
  <2>1. i \in Nat
    BY <1>12
  <2>2. ~ (i <= Len(file))
    BY <2>1, OldFound
  <2>3. i > Len(file)
    BY <1>5, <2>1, <2>2
  <2> QED BY <1>2, <2>1, <2>3, OldFound
<1>14. Min(Found(p, s, e)') = d
  <2>1. \A i \in Found(p, s, e)' : i \in Int /\ d <= i
    BY <1>5, <1>13
  <2> QED BY <1>11, <2>1, MinOf
<1>15. find_slot(p, s, e)' = SlotsOf(p, d)'[e.index + 1]
  BY <1>11, <1>14, FindSlotIsNext
<1> QED BY <1>9, <1>11, <1>15

LEMMA NewContextOK == CtxOK(NewContext)
<1> DEFINE c == NewContext
<1>1. /\ c.ddt = [p \in Parts |-> None] /\ c.arena = [p \in Parts |-> NoArena] /\ c.sub = None
      /\ c.tags = [a \in media.arrays |-> None] /\ c.user = [s \in All |-> Unwritten]
      /\ c = [ddt |-> c.ddt, arena |-> c.arena, sub |-> c.sub, tags |-> c.tags, user |-> c.user]
  BY DEF NewContext
<1> HIDE DEF c
<1>2. NoArena \in [slots : SlotSeq, room : Nat] /\ Len(NoArena.slots) <= NoArena.room
  BY DEF NoArena, SlotSeq
<1>3. c.ddt \in [Parts -> {None} \cup TableType] /\ c.arena \in [Parts -> [slots : SlotSeq, room : Nat]]
      /\ \A p \in Parts : Len(c.arena[p].slots) <= c.arena[p].room
  BY <1>1, <1>2
<1>4. c.tags \in TagArrays /\ c.user \in UserData
  BY <1>1 DEF TagArrays, UserData, UserType
<1>5. CtxOK(c)
  BY <1>1, <1>3, <1>4 DEF CtxOK
<1> QED BY <1>5 DEF c

(* A sector of the session, once it is closed. *)
LEMMA ClosedNew ==
  ASSUME LongTyped, NEW x, Closing(x, dirty), NEW s \in All, NewSector(s),
         expected'[s] = expected[s], phase' = "closed", repairs' = repairs
  PROVE  OldSector(s)'
<1> DEFINE v == expected[s]
           type == TypeOfSector(s)
<1>1. Held(ctx, s, v) /\ Kept(ctx, s, v) /\ Marked(ctx, s, v) /\ (repairs = 0 => Fresh(ctx, s, v))
  BY DEF NewSector
<1>2. CtxOK(ctx) /\ media' = media
  BY DEF LongTyped, Closing
<1>3. Disk'.user = ctx.user
  <2>1. PutsIt(dirty, "user")
    BY <1>1 DEF PutsIt, Puts, Marked
  <2> QED BY <2>1, ClosedDisk
<1>4. ASSUME Split(s, v), NEW p \in Parts
      PROVE  PutsIt(dirty, DdtOf(p)) /\ Disk'.ddt[p] = ctx.ddt[p] /\ ctx.ddt[p] # None
  <2>1. ctx.ddt[p] # None /\ DdtOf(p) \in dirty
    BY <1>1, <1>4 DEF Held, Marked, DdtOf
  <2>2. ctx.ddt[p] # <<>>
    <3>1. DOMAIN ctx.ddt[p] = All
      BY <1>2, <2>1 DEF CtxOK, TableType
    <3>2. s \notin DOMAIN <<>>
      OBVIOUS
    <3> QED BY <3>1, <3>2
  <2>3. ValueOf(ctx, DdtOf(p)) = ctx.ddt[p]
    BY ValueOfIs DEF DdtOf, Parts
  <2>4. PutsIt(dirty, DdtOf(p))
    <3>1. Writable(ctx, DdtOf(p)) /\ DdtOf(p) # "tags"
      BY <2>1, <2>2, <2>3 DEF Writable, DdtOf
    <3> QED BY <2>1, <3>1 DEF PutsIt, Puts
  <2> QED BY <2>1, <2>4, ClosedDisk
<1>5. ASSUME Split(s, v), type = "mode2"
      PROVE  Disk'.sub = ctx.sub
  <2>1. ctx.sub # None /\ "sub" \in dirty
    BY <1>1, <1>5 DEF Held, Marked
  <2>2. ctx.sub # <<>>
    <3>1. DOMAIN ctx.sub = All
      BY <1>2, <2>1 DEF CtxOK, Subheaders
    <3>2. s \notin DOMAIN <<>>
      OBVIOUS
    <3> QED BY <3>1, <3>2
  <2>3. PutsIt(dirty, "sub")
    BY <2>1, <2>2, ValueOfIs DEF PutsIt, Puts, Writable
  <2> QED BY <2>3, ClosedDisk
<1>6. Held(Disk', s, v)
  BY <1>1, <1>3, <1>4, <1>5 DEF Held
<1>7. ASSUME NEW p \in Parts, Custom(Disk', p, s, v)
      PROVE  /\ Custom(ctx, p, s, v) /\ Disk'.ddt[p] = ctx.ddt[p]
             /\ PutsIt(dirty, p) /\ PutsIt(dirty, DdtOf(p))
             /\ Disk'.arena[p].slots = ctx.arena[p].slots
             /\ ctx.ddt[p][s].index \in Nat
             /\ ctx.ddt[p][s].index < Len(ctx.arena[p].slots)
             /\ ctx.arena[p].slots[ctx.ddt[p][s].index + 1] = PartIn(v, p)
  <2>1. Split(s, v) /\ Disk'.ddt[p] = ctx.ddt[p] /\ ctx.ddt[p] # None /\ PutsIt(dirty, DdtOf(p))
    BY <1>4, <1>7 DEF Custom
  <2>2. Custom(ctx, p, s, v)
    BY <1>7, <2>1 DEF Custom
  <2>3. /\ p \in dirty
        /\ ctx.ddt[p][s].index < Len(ctx.arena[p].slots)
        /\ ctx.arena[p].slots[ctx.ddt[p][s].index + 1] = PartIn(v, p)
    BY <1>1, <2>2 DEF Marked, Kept
  <2>4. ctx.ddt[p][s].index \in Nat
    <3>1. ctx.ddt[p] \in TableType
      BY <1>2, <2>1 DEF CtxOK
    <3> QED BY <3>1 DEF TableType, EntryType
  <2>5. ctx.arena[p].slots \notin {None, <<>>}
    <3>1. Len(ctx.arena[p].slots) # 0
      BY <2>3, <2>4
    <3>2. ctx.arena[p].slots # None
      <4>1. ctx.arena[p].slots \in SlotSeq
        BY <1>2 DEF CtxOK
      <4> QED BY <4>1, SlotSeqIs
    <3> QED BY <3>1, <3>2
  <2>6. ValueOf(ctx, p) = ctx.arena[p].slots
    BY ValueOfIs DEF Parts
  <2>7. PutsIt(dirty, p)
    <3>1. Writable(ctx, p) /\ p # "tags"
      BY <2>5, <2>6 DEF Writable, Parts
    <3> QED BY <2>3, <3>1 DEF PutsIt, Puts
  <2> QED BY <2>1, <2>2, <2>3, <2>4, <2>7, ClosedDisk
<1>8. Kept(Disk', s, v)
  BY <1>7 DEF Kept
<1>9. ASSUME repairs' = 0
      PROVE  Findable(Disk, s, expected[s])'
  <2> SUFFICES ASSUME NEW p \in Parts, Custom(Disk, p, s, expected[s])'
               PROVE  /\ Found(p, s, Disk.ddt[p][s])' # {}
                      /\ find_slot(p, s, Disk.ddt[p][s])' = PartIn(expected[s], p)'
    BY DEF Findable
  <2>1. Custom(Disk', p, s, v)
    BY <1>2, SectorNext
  <2>2. PICK e : e = ctx.ddt[p][s]
    OBVIOUS
  <2>3. Found(p, s, e) = {}
    BY <1>1, <1>7, <1>9, <2>1, <2>2 DEF Fresh
  <2>4. /\ PutsIt(dirty, p) /\ PutsIt(dirty, DdtOf(p)) /\ Disk'.ddt[p][s] = e
        /\ e.index \in Nat /\ e.index < Len(ctx.arena[p].slots)
        /\ ctx.arena[p].slots[e.index + 1] = PartIn(v, p)
    BY <1>7, <2>1, <2>2
  <2>5. Found(p, s, e)' # {} /\ find_slot(p, s, e)' = PartIn(v, p)
    BY <2>2, <2>3, <2>4, NowFound
  <2>6. /\ Found(p, s, Disk.ddt[p][s])' = Found(p, s, e)'
        /\ find_slot(p, s, Disk.ddt[p][s])' = find_slot(p, s, e)'
    BY <2>4
  <2> QED BY <2>5, <2>6 DEF PartIn
<1>10. Held(Disk, s, expected[s])' /\ Kept(Disk, s, expected[s])'
  BY <1>2, <1>6, <1>8, SectorNext
<1> QED BY <1>9, <1>10 DEF OldSector

(* Any other sector. *)
LEMMA ClosedOld ==
  ASSUME LongTyped, ArenasInv, phase = "writing", NEW x, NEW kinds, Closing(x, kinds),
         NEW s \in All, OldSector(s),
         expected'[s] = expected[s], phase' = "closed", repairs' = repairs, restarted' = restarted,
         CtxOK(Disk'), ~ restarted => Extends(Disk, Disk')
  PROVE  OldSector(s)'
<1> DEFINE v == expected[s]
<1>1. /\ Held(Disk, s, v) /\ (~ restarted => Kept(Disk, s, v)) /\ (repairs = 0 => Findable(Disk, s, v))
      /\ Agree(Disk, ctx, s)
  BY DEF OldSector
<1>2. media' = media /\ CtxOK(Disk)
  BY ArenasAre DEF LongTyped, Closing
<1>3. Agree(Disk, Disk', s)
  <2>1. Disk'.user[s] = Disk.user[s]
    BY <1>1, ClosedDisk DEF Agree
  <2>2. Disk.sub # None => Disk'.sub # None /\ Disk'.sub[s] = Disk.sub[s]
    BY <1>1, ClosedDisk DEF Agree
  <2>3. \A p \in Parts : Disk.ddt[p] # None => Disk'.ddt[p] # None /\ Disk'.ddt[p][s] = Disk.ddt[p][s]
    <3> TAKE p \in Parts
    <3>1. Disk'.ddt[p] = Disk.ddt[p] \/ Disk'.ddt[p] = ctx.ddt[p]
      BY ClosedDisk
    <3> QED BY <1>1, <3>1 DEF Agree
  <2> QED BY <2>1, <2>2, <2>3 DEF Agree
<1>4. /\ Held(Disk', s, v)
      /\ \A p \in Parts : Custom(Disk', p, s, v) =>
            Custom(Disk, p, s, v) /\ Disk'.ddt[p][s] = Disk.ddt[p][s]
  BY <1>1, <1>3, HeldStays
<1>5. ~ restarted => Kept(Disk', s, v)
  BY <1>1, <1>2, <1>3, KeptStays
<1>6. ASSUME repairs' = 0
      PROVE  Findable(Disk, s, expected[s])'
  <2> SUFFICES ASSUME NEW p \in Parts, Custom(Disk, p, s, expected[s])'
               PROVE  /\ Found(p, s, Disk.ddt[p][s])' # {}
                      /\ find_slot(p, s, Disk.ddt[p][s])' = PartIn(expected[s], p)'
    BY DEF Findable
  <2>1. Custom(Disk', p, s, v)
    BY <1>2, SectorNext
  <2>2. PICK e : e = Disk.ddt[p][s]
    OBVIOUS
  <2>3. Found(p, s, e) # {} /\ find_slot(p, s, e) = PartIn(v, p) /\ Disk'.ddt[p][s] = e
    BY <1>1, <1>4, <1>6, <2>1, <2>2 DEF Findable
  <2>4. Found(p, s, e)' # {} /\ find_slot(p, s, e)' = PartIn(v, p)
    BY <2>3, StillFound
  <2>5. /\ Found(p, s, Disk.ddt[p][s])' = Found(p, s, e)'
        /\ find_slot(p, s, Disk.ddt[p][s])' = find_slot(p, s, e)'
    BY <2>3
  <2> QED BY <2>4, <2>5 DEF PartIn
<1>7. Held(Disk, s, expected[s])' /\ (~ restarted' => Kept(Disk, s, expected[s])')
  BY <1>2, <1>4, <1>5, SectorNext
<1> QED BY <1>6, <1>7 DEF OldSector

LEMMA ClosedArenas ==
  ASSUME LongTyped, ArenasInv, phase = "writing", NEW x, NEW kinds, Closing(x, kinds), CtxOK(Disk')
  PROVE  /\ ~ restarted => Extends(Disk, Disk')
         /\ ~ restarted /\ repairs = 0 =>
               \A p \in Parts : \A i \in PlacesOf(p)' :
                  Len(file'[i].value) <= Len(Disk'.arena[p].slots)
<1>1. CtxOK(Disk) /\ CtxOK(ctx)
  BY ArenasAre DEF LongTyped
<1>2. ASSUME ~ restarted
      PROVE  Extends(Disk, Disk')
  <2> SUFFICES ASSUME NEW p \in Parts
               PROVE  /\ Len(Disk.arena[p].slots) <= Len(Disk'.arena[p].slots)
                      /\ \A i \in 1..Len(Disk.arena[p].slots) :
                            Disk'.arena[p].slots[i] = Disk.arena[p].slots[i]
    BY DEF Extends
  <2>1. Extends(Disk, ctx)
    BY <1>2 DEF ArenasInv
  <2>2. Disk'.arena[p].slots = ctx.arena[p].slots \/ Disk'.arena[p].slots = Disk.arena[p].slots
    BY ClosedDisk
  <2>3. Len(Disk.arena[p].slots) \in Nat
    BY <1>1 DEF CtxOK, SlotSeq
  <2>4. CASE Disk'.arena[p].slots = ctx.arena[p].slots
    BY <2>1, <2>4 DEF Extends
  <2>5. CASE Disk'.arena[p].slots = Disk.arena[p].slots
    BY <2>3, <2>5
  <2> QED BY <2>2, <2>4, <2>5
<1>3. ASSUME ~ restarted, repairs = 0, NEW p \in Parts, NEW i \in PlacesOf(p)'
      PROVE  Len(file'[i].value) <= Len(Disk'.arena[p].slots)
  <2>1. p \in Kinds
    BY DEF Parts, Kinds
  <2>2. CASE i \in PlacesOf(p)
    <3>1. i \in DOMAIN file
      BY <2>2 DEF PlacesOf
    <3>2. file'[i] = file[i]
      BY <3>1, ClosedFile
    <3>3. Len(file[i].value) <= Len(Disk.arena[p].slots)
      BY <1>3, <2>2 DEF ArenasInv
    <3>4. Len(Disk.arena[p].slots) <= Len(Disk'.arena[p].slots)
      BY <1>2, <1>3 DEF Extends
    <3>5. /\ Len(file[i].value) \in Nat /\ Len(Disk.arena[p].slots) \in Nat
          /\ Len(Disk'.arena[p].slots) \in Nat
      <4>1. file[i].value \in SlotSeq
        BY <2>2, PlacesAre DEF LongTyped, ValueOK
      <4>2. Disk.arena[p].slots \in SlotSeq /\ Disk'.arena[p].slots \in SlotSeq
        BY <1>1 DEF CtxOK
      <4> QED BY <4>1, <4>2, SlotSeqIs
    <3> QED BY <3>2, <3>3, <3>4, <3>5, NatTrans
  <2>3. CASE i \notin PlacesOf(p)
    <3>1. PutsIt(kinds, p) /\ i = index'[p]
      BY <1>3, <2>1, <2>3, ClosedFile
    <3>2. file'[i].value = ctx.arena[p].slots
      <4>1. ValueOf(ctx, p) = ctx.arena[p].slots
        BY ValueOfIs DEF Parts
      <4> QED BY <2>1, <3>1, <4>1, ClosedFile
    <3>3. Disk'.arena[p].slots = ctx.arena[p].slots
      BY <3>1, ClosedDisk
    <3>4. Len(ctx.arena[p].slots) \in Nat
      BY <1>1 DEF CtxOK, SlotSeq
    <3> QED BY <3>2, <3>3, <3>4
  <2> QED BY <2>2, <2>3
<1> QED BY <1>2, <1>3

LEMMA DiskIsOK == FileOK /\ Indexed => CtxOK(Disk)
BY ArenasAre

LEMMA DiskNextOK ==
  ASSUME media' = media, FileOK', Indexed'
  PROVE  CtxOK(Disk')
<1>1. CtxOK(Disk)'
  BY DiskIsOK, PTL
<1>2. CtxOK(Disk)' <=> CtxOK(Disk')
  <2>1. TagArrays' = TagArrays
    BY DEF TagArrays
  <2> QED BY <2>1 DEF CtxOK
<1> QED BY <1>1, <1>2

LEMMA CloseKeepsCd ==
  ASSUME LongTyped, IsCd, CdInv, NEW lost, Close(lost)
  PROVE  CdInv'
<1>1. PICK x : Closing(x, dirty \ lost)
  BY CloseIs
<1>2. /\ phase = "writing" /\ phase' = "closed" /\ session' = {}
      /\ restarted' = restarted /\ repairs' = repairs /\ media' = media
      /\ expected' = [s \in All |-> IF lost # {} /\ s \in session THEN Whatever ELSE expected[s]]
  BY <1>1, CloseIs DEF Closing
<1>3. SectorsInv /\ ArenasInv
  BY DEF CdInv
<1>4. CtxOK(Disk')
  BY <1>1, <1>2, ClosedFile, DiskNextOK
<1>5. /\ ~ restarted => Extends(Disk, Disk')
      /\ ~ restarted /\ repairs = 0 =>
            \A p \in Parts : \A i \in PlacesOf(p)' :
               Len(file'[i].value) <= Len(Disk'.arena[p].slots)
  BY <1>1, <1>2, <1>3, <1>4, ClosedArenas
<1>6. ASSUME NEW s \in All, expected'[s] # Whatever
      PROVE  OldSector(s)'
  <2>1. expected'[s] = expected[s] /\ (s \in session => lost = {})
    BY <1>2, <1>6
  <2>2. CASE s \in session
    <3>1. NewSector(s)
      BY <1>3, <1>6, <2>1, <2>2 DEF SectorsInv
    <3>2. Closing(x, dirty)
      <4>1. dirty \ lost = dirty
        BY <2>1, <2>2
      <4> QED BY <1>1, <4>1
    <3> QED BY <1>2, <2>1, <3>1, <3>2, ClosedNew
  <2>3. CASE s \notin session
    <3>1. OldSector(s)
      BY <1>3, <1>6, <2>1, <2>3 DEF SectorsInv
    <3> QED BY <1>1, <1>2, <1>3, <1>4, <1>5, <2>1, <3>1, ClosedOld
  <2> QED BY <2>2, <2>3
<1>7. SectorsInv'
  BY <1>2, <1>6 DEF SectorsInv, All
<1>8. ArenasInv'
  BY <1>2, <1>5 DEF ArenasInv
<1> QED BY <1>7, <1>8 DEF CdInv

LEMMA CloseKeepsTypes ==
  ASSUME LongTyped, NEW lost, Close(lost)
  PROVE  LongTyped'
<1>1. PICK x : Closing(x, dirty \ lost)
  BY CloseIs
<1>2. /\ phase' = "closed" /\ session' = {} /\ dirty' = {} /\ ctx' = NewContext
      /\ restarted' = restarted /\ repairs' = repairs /\ sessions' = sessions /\ media' = media
      /\ DOMAIN expected' = All
  BY <1>1, CloseIs DEF Closing
<1>3. FileOK' /\ Indexed'
  BY <1>1, ClosedFile
<1>4. CtxOK(ctx)'
  <2>1. CtxOK(NewContext)
    BY NewContextOK
  <2> QED BY <1>2, <2>1, TypedNext
<1>5. All' = All
  BY DEF All
<1> QED BY <1>2, <1>3, <1>4, <1>5 DEF LongTyped

(***************************************************************************)
(* Creating and resuming an image.                                         *)
(***************************************************************************)
LEMMA EmptyIsSeq == IsSeq(<<>>)
<1>1. <<>> \in Seq({})
  OBVIOUS
<1> QED BY <1>1, SequenceIs

LEMMA TypesInit ==
  ASSUME Init
  PROVE  LongTyped
<1>1. FileOK
  BY EmptyIsSeq DEF Init, FileOK
<1>2. \A kind : PlacesOf(kind) = {}
  BY DEF Init, PlacesOf
<1>3. Indexed
  BY <1>2 DEF Init, Indexed
<1>4. CtxOK(ctx)
  BY NewContextOK DEF Init
<1>5. DOMAIN expected = All
  BY DEF Init
<1> QED BY <1>1, <1>3, <1>4, <1>5 DEF Init, LongTyped

LEMMA DiskInit ==
  ASSUME Init
  PROVE  /\ Disk.user = [s \in All |-> Unwritten] /\ Disk.sub = None
         /\ Disk.tags = [a \in media.arrays |-> None]
         /\ \A p \in Parts : Disk.ddt[p] = None /\ Disk.arena[p].slots = <<>>
         /\ ctx.user = [s \in All |-> Unwritten] /\ ctx.sub = None
         /\ ctx.tags = [a \in media.arrays |-> None]
         /\ \A p \in Parts : ctx.ddt[p] = None /\ ctx.arena[p].slots = <<>>
<1>1. \A kind \in Kinds : index[kind] = 0
  BY DEF Init
<1>2. \A kind \in Kinds : \A missing : At(kind, missing) = missing
  BY <1>1 DEF At
<1>3. "user" \in Kinds /\ "sub" \in Kinds /\ "tags" \in Kinds
      /\ \A p \in Parts : p \in Kinds /\ DdtOf(p) \in Kinds
  BY DEF Parts, Kinds, DdtOf
<1>4. index["tags"] = 0 /\ index["user"] = 0
  BY <1>1, <1>3
<1>5. At("tags", [a \in media.arrays |-> None]) = [a \in media.arrays |-> None]
  BY <1>4 DEF At
<1>6. At("user", [s \in All |-> Unwritten]) = [s \in All |-> Unwritten]
  BY <1>4 DEF At
<1>7. ctx = NewContext
  BY DEF Init
<1>8. /\ ctx.user = [s \in All |-> Unwritten] /\ ctx.sub = None
      /\ ctx.tags = [a \in media.arrays |-> None]
      /\ \A p \in Parts : ctx.ddt[p] = None /\ ctx.arena[p].slots = <<>>
  BY <1>7 DEF NewContext, NoArena
<1> QED BY <1>2, <1>3, <1>5, <1>6, <1>8, DiskFields

LEMMA CdInit ==
  ASSUME Init
  PROVE  CdInv
<1> SUFFICES ASSUME IsCd PROVE SectorsInv /\ ArenasInv
  BY DEF CdInv
<1>1. ASSUME NEW s \in All
      PROVE  s \notin session /\ OldSector(s)
  <2>1. expected[s] = Unwritten
    BY DEF Init
  <2>2. ~ Split(s, expected[s])
    BY <2>1 DEF Split
  <2>3. Held(Disk, s, expected[s])
    BY <2>1, <2>2, DiskInit DEF Held
  <2>4. Kept(Disk, s, expected[s]) /\ Findable(Disk, s, expected[s])
    BY <2>2 DEF Kept, Findable, Custom
  <2>5. Agree(Disk, ctx, s)
    BY DiskInit DEF Agree
  <2> QED BY <2>3, <2>4, <2>5 DEF OldSector, Init
<1>2. Extends(Disk, ctx)
  BY DiskInit DEF Extends
<1>3. \A p \in Parts : PlacesOf(p) = {}
  BY DEF Init, PlacesOf
<1> QED BY <1>1, <1>2, <1>3 DEF SectorsInv, ArenasInv

LEMMA ReopenKeepsTypes ==
  ASSUME LongTyped, NEW arenas, arenas \in [Parts -> [slots : SlotSeq, room : Nat]],
         \A p \in Parts : Len(arenas[p].slots) <= arenas[p].room,
         Reopen(arenas), restarted' \in BOOLEAN, repairs > 0 => ~ restarted'
  PROVE  LongTyped'
<1>1. /\ media' = media /\ file' = file /\ index' = index /\ phase' = "writing"
      /\ repairs' = repairs /\ sessions' = sessions + 1 /\ dirty' = dirty /\ session' = session
      /\ expected' = expected /\ ctx' = Loaded(arenas)
  BY DEF Reopen
<1>2. CtxOK(Loaded(arenas))
  BY DiskOK DEF LongTyped
<1>3. FileOK' /\ Indexed' /\ CtxOK(ctx)'
  BY <1>1, <1>2, FileStays, TypedNext DEF LongTyped
<1>4. All' = All /\ Kinds' = Kinds
  BY DEF All, Kinds
<1> QED BY <1>1, <1>3, <1>4 DEF LongTyped

(* The context that is loaded has what the file has, but perhaps the slots. *)
LEMMA ReopenKeepsSectors ==
  ASSUME LongTyped, CdInv, IsCd, NEW arenas, Reopen(arenas), ~ restarted' => ~ restarted
  PROVE  SectorsInv'
<1>1. /\ media' = media /\ file' = file /\ index' = index /\ phase' = "writing"
      /\ repairs' = repairs /\ session' = session /\ session = {}
      /\ expected' = expected /\ ctx' = Loaded(arenas)
  BY DEF Reopen, LongTyped
<1>2. Disk' = Disk
  BY <1>1, SameDisk
<1>3. ctx'.ddt = Disk.ddt /\ ctx'.sub = Disk.sub /\ ctx'.user = Disk.user
  BY <1>1 DEF Loaded, Disk
<1> SUFFICES ASSUME NEW s \in All, expected'[s] # Whatever PROVE OldSector(s)'
  BY <1>1 DEF SectorsInv, All
<1>4. OldSector(s)
  BY <1>1 DEF CdInv, SectorsInv
<1>5. Agree(Disk', ctx', s)
  BY <1>2, <1>3 DEF Agree
<1>6. Held(Disk, s, expected[s])' /\ (~ restarted' => Kept(Disk, s, expected[s])')
  BY <1>1, <1>2, <1>4, SectorNext DEF OldSector
<1>7. ASSUME repairs' = 0
      PROVE  Findable(Disk, s, expected[s])'
  <2> SUFFICES ASSUME NEW p \in Parts, Custom(Disk, p, s, expected[s])'
               PROVE  /\ Found(p, s, Disk.ddt[p][s])' # {}
                      /\ find_slot(p, s, Disk.ddt[p][s])' = PartIn(expected[s], p)'
    BY DEF Findable
  <2>1. Custom(Disk, p, s, expected[s])
    BY <1>1, <1>2, SectorNext
  <2>2. Found(p, s, Disk.ddt[p][s]) # {} /\ find_slot(p, s, Disk.ddt[p][s]) = PartIn(expected[s], p)
    BY <1>1, <1>4, <1>7, <2>1 DEF OldSector, Findable
  <2>3. /\ Found(p, s, Disk.ddt[p][s])' = Found(p, s, Disk'.ddt[p][s])
        /\ find_slot(p, s, Disk.ddt[p][s])' = find_slot(p, s, Disk'.ddt[p][s])
    BY <1>1, SameDisk
  <2> QED BY <1>1, <1>2, <2>2, <2>3 DEF PartIn
<1>8. Agree(Disk, ctx, s)'
  BY <1>1, <1>5, SectorNext
<1> QED BY <1>6, <1>7, <1>8 DEF OldSector

LEMMA ResumeKeeps ==
  ASSUME LongTyped, CdInv, Resume
  PROVE  LongTyped' /\ CdInv'
<1> DEFINE arenas == [p \in Parts |-> LoadedArena(p)]
<1>1. Reopen(arenas) /\ restarted' = restarted
  BY DEF Resume
<1>2. media' = media /\ file' = file /\ index' = index /\ phase' = "writing" /\ repairs' = repairs
      /\ ctx' = Disk
  BY <1>1 DEF Reopen, Disk
<1>3. arenas \in [Parts -> [slots : SlotSeq, room : Nat]]
      /\ \A p \in Parts : Len(arenas[p].slots) <= arenas[p].room
  <2>1. \A p \in Parts : At(p, <<>>) \in SlotSeq /\ Len(At(p, <<>>)) \in Nat
    BY ArenasAre, SlotSeqIs DEF LongTyped
  <2> QED BY <2>1 DEF LoadedArena
<1> HIDE DEF arenas
<1>4. LongTyped'
  BY <1>1, <1>3, ReopenKeepsTypes DEF LongTyped
<1>5. ASSUME IsCd'
      PROVE  SectorsInv' /\ ArenasInv'
  <2>1. IsCd
    BY <1>2, <1>5 DEF IsCd
  <2>2. SectorsInv'
    BY <1>1, <2>1, ReopenKeepsSectors
  <2>3. Disk' = Disk
    BY <1>2, SameDisk
  <2>4. CtxOK(Disk)
    BY ArenasAre DEF LongTyped
  <2>5. Extends(Disk', ctx')
    BY <1>2, <2>3, <2>4 DEF Extends, CtxOK, SlotSeq
  <2>6. ASSUME ~ restarted', repairs' = 0
        PROVE  \A p \in Parts : \A i \in PlacesOf(p)' :
                  Len(file'[i].value) <= Len(Disk'.arena[p].slots)
    BY <1>1, <1>2, <2>1, <2>3, <2>6, SameDisk DEF CdInv, ArenasInv
  <2> QED BY <2>2, <2>5, <2>6 DEF ArenasInv, Extends
<1> QED BY <1>4, <1>5 DEF CdInv

LEMMA ResumeRestartingKeeps ==
  ASSUME LongTyped, CdInv, ResumeRestarting
  PROVE  LongTyped' /\ CdInv'
<1> DEFINE arenas == [p \in Parts |-> RestartedArena(p)]
<1>1. Reopen(arenas) /\ restarted' = TRUE /\ repairs = 0
  BY DEF ResumeRestarting
<1>2. media' = media /\ file' = file /\ index' = index /\ phase' = "writing" /\ repairs' = repairs
  BY <1>1 DEF Reopen
<1>3. arenas \in [Parts -> [slots : SlotSeq, room : Nat]]
      /\ \A p \in Parts : Len(arenas[p].slots) <= arenas[p].room
  <2>1. \A p \in Parts : At(p, <<>>) \in SlotSeq /\ Len(At(p, <<>>)) \in Nat
    BY ArenasAre, SlotSeqIs DEF LongTyped
  <2>2. <<>> \in SlotSeq /\ Len(<<>>) = 0
    BY DEF SlotSeq
  <2> QED BY <2>1, <2>2 DEF RestartedArena
<1> HIDE DEF arenas
<1>4. LongTyped'
  BY <1>1, <1>3, ReopenKeepsTypes
<1>5. ASSUME IsCd'
      PROVE  SectorsInv' /\ ArenasInv'
  <2>1. IsCd
    BY <1>2, <1>5 DEF IsCd
  <2>2. SectorsInv'
    BY <1>1, <2>1, ReopenKeepsSectors
  <2> QED BY <1>1, <2>2 DEF ArenasInv
<1> QED BY <1>4, <1>5 DEF CdInv

(***************************************************************************)
(* The repair.                                                             *)
(***************************************************************************)
RebuiltTo(f, p, final, n) ==
    f = [m \in 0..n |-> IF m = 0 THEN [slots |-> <<>>, ddt |-> final]
                        ELSE RebuiltSector(f[m - 1], p, m - 1, final[m - 1])]

LEMMA RebuiltExists ==
  ASSUME NEW p, NEW final
  PROVE  \E f : RebuiltTo(f, p, final, Sectors)
<1> DEFINE S == {n \in 0..Sectors : \E f : RebuiltTo(f, p, final, n)}
<1>1. Sectors \in Nat
  BY MediaAssumption
<1>2. 0 \in S
  <2>1. RebuiltTo([m \in 0..0 |-> [slots |-> <<>>, ddt |-> final]], p, final, 0)
    BY DEF RebuiltTo
  <2> QED BY <1>1, <2>1
<1>3. ASSUME NEW n \in 0..(Sectors - 1), n \in S
      PROVE  n + 1 \in S
  <2>1. PICK f : RebuiltTo(f, p, final, n)
    BY <1>3
  <2> DEFINE h == [m \in 0..(n + 1) |->
                      IF m <= n THEN f[m] ELSE RebuiltSector(f[m - 1], p, m - 1, final[m - 1])]
  <2>2. RebuiltTo(h, p, final, n + 1)
    <3>1. \A m \in 0..n : f[m] = IF m = 0 THEN [slots |-> <<>>, ddt |-> final]
                                 ELSE RebuiltSector(f[m - 1], p, m - 1, final[m - 1])
      BY <2>1 DEF RebuiltTo
    <3>2. \A m \in 0..(n + 1) :
              h[m] = IF m = 0 THEN [slots |-> <<>>, ddt |-> final]
                     ELSE RebuiltSector(h[m - 1], p, m - 1, final[m - 1])
      BY <1>1, <3>1
    <3> QED BY <3>2 DEF RebuiltTo
  <2> QED BY <1>1, <2>2
<1>4. 0..Sectors \subseteq S
  <2> HIDE DEF S
  <2> QED BY <1>1, <1>2, <1>3, InductionUpTo
<1> QED BY <1>1, <1>4

(* The sectors before n are rebuilt. *)
RebuiltOK(r, p, final, n) ==
    /\ r = [slots |-> r.slots, ddt |-> r.ddt] /\ r.slots \in SlotSeq /\ r.ddt \in TableType
    /\ \A s \in All :
          IF s >= n \/ ~ is_custom(final[s]) THEN r.ddt[s] = final[s]
          ELSE find_slot(p, s, final[s]) # None =>
                  /\ is_custom(r.ddt[s]) /\ r.ddt[s].index < Len(r.slots)
                  /\ r.slots[r.ddt[s].index + 1] = find_slot(p, s, final[s])

LEMMA FoundSlotIs ==
  ASSUME FileOK, NEW p \in Parts, NEW s, NEW e \in EntryType, find_slot(p, s, e) # None
  PROVE  find_slot(p, s, e) \in STRING \ {Lost} /\ Found(p, s, e) # {}
<1>1. Found(p, s, e) # {}
  BY DEF find_slot, Found
<1> DEFINE m == Min(Found(p, s, e))
<1>2. m \in Found(p, s, e)
  BY <1>1, FoundAre, MinIn
<1>3. find_slot(p, s, e) = SlotsOf(p, m)[e.index + 1]
  BY <1>1, FindSlotIs
<1>4. ArenasBefore(p, m) # {} /\ e.index < Len(SlotsOf(p, m))
  BY <1>2 DEF Found, Holds, scan_generations
<1> HIDE DEF m
<1>5. SlotsOf(p, m) \in Seq(STRING \ {Lost})
  BY <1>4, SlotsAre DEF SlotSeq
<1>6. e.index \in Nat
  BY DEF EntryType
<1>7. e.index + 1 \in 1..Len(SlotsOf(p, m))
  BY <1>4, <1>5, <1>6
<1>8. SlotsOf(p, m)[e.index + 1] \in STRING \ {Lost}
  BY <1>5, <1>7
<1> QED BY <1>1, <1>3, <1>8

Longer(q, v, r) ==
    /\ Len(r) = Len(q) + 1 /\ Len(q) \in Nat
    /\ r[Len(q) + 1] = v /\ \A i \in 1..Len(q) : r[i] = q[i]

LEMMA AppendIn ==
  ASSUME NEW S, NEW q \in Seq(S), NEW v \in S
  PROVE  Append(q, v) \in Seq(S) /\ Longer(q, v, Append(q, v))
BY DEF Longer

LEMMA AppendSlot ==
  ASSUME NEW q \in SlotSeq, NEW v \in STRING \ {Lost}
  PROVE  Append(q, v) \in SlotSeq /\ Longer(q, v, Append(q, v))
<1>1. PICK S : S = STRING \ {Lost}
  OBVIOUS
<1>2. SlotSeq = Seq(S)
  BY <1>1 DEF SlotSeq
<1>3. q \in Seq(S) /\ v \in S
  BY <1>1, <1>2
<1>4. Append(q, v) \in Seq(S) /\ Longer(q, v, Append(q, v))
  BY <1>3, AppendIn, Zenon
<1> QED BY <1>2, <1>4, Zenon

LEMMA RebuiltStep ==
  ASSUME FileOK, NEW p \in Parts, NEW final \in TableType, NEW n \in All,
         NEW r, RebuiltOK(r, p, final, n), NEW q, q = RebuiltSector(r, p, n, final[n])
  PROVE  RebuiltOK(q, p, final, n + 1)
<1> DEFINE e == final[n]
<1>1. Sectors \in Nat /\ n \in Nat /\ All \subseteq Nat
  BY MediaAssumption DEF All
<1>2. e \in EntryType /\ \A s \in All : r.ddt[s] \in EntryType
  BY DEF TableType, RebuiltOK
<1>3. r.slots \in SlotSeq /\ Len(r.slots) \in Nat /\ r.ddt \in [All -> EntryType]
  BY SlotSeqIs DEF RebuiltOK, TableType
<1>4. \A s \in All : s >= n + 1 <=> s >= n /\ s # n
  BY <1>1
<1>5. r.ddt[n] = e
  BY <1>1 DEF RebuiltOK
<1>6. CASE ~ is_custom(e)
  <2>1. q = r
    BY <1>6 DEF RebuiltSector
  <2>2. ASSUME NEW s \in All
        PROVE  IF s >= n + 1 \/ ~ is_custom(final[s]) THEN r.ddt[s] = final[s]
               ELSE find_slot(p, s, final[s]) # None =>
                  /\ is_custom(r.ddt[s]) /\ r.ddt[s].index < Len(r.slots)
                  /\ r.slots[r.ddt[s].index + 1] = find_slot(p, s, final[s])
    BY <1>4, <1>6 DEF RebuiltOK
  <2> QED BY <2>1, <2>2 DEF RebuiltOK
<1>7. ASSUME is_custom(e), NEW d \in TableType, NEW slots \in SlotSeq,
             q = [slots |-> slots, ddt |-> d], \A s \in All : s # n => d[s] = r.ddt[s],
             Len(r.slots) <= Len(slots), \A i \in 1..Len(r.slots) : slots[i] = r.slots[i],
             find_slot(p, n, e) # None =>
                /\ is_custom(d[n]) /\ d[n].index < Len(slots)
                /\ slots[d[n].index + 1] = find_slot(p, n, e)
      PROVE  RebuiltOK(q, p, final, n + 1)
  <2>1. q.slots = slots /\ q.ddt = d
    BY <1>7
  <2>2. Len(slots) \in Nat
    BY SlotSeqIs
  <2>3. ASSUME NEW s \in All, s >= n + 1 \/ ~ is_custom(final[s])
        PROVE  d[s] = final[s]
    <3>1. s # n
      BY <1>4, <1>7, <2>3
    <3>2. r.ddt[s] = final[s]
      BY <1>4, <2>3 DEF RebuiltOK
    <3> QED BY <1>7, <3>1, <3>2
  <2>4. ASSUME NEW s \in All, ~ (s >= n + 1), is_custom(final[s]), find_slot(p, s, final[s]) # None
        PROVE  /\ is_custom(d[s]) /\ d[s].index < Len(slots)
               /\ slots[d[s].index + 1] = find_slot(p, s, final[s])
    <3>1. CASE s = n
      BY <1>7, <2>4, <3>1
    <3>2. CASE s # n
      <4>1. d[s] = r.ddt[s] /\ ~ (s >= n)
        BY <1>4, <1>7, <2>4, <3>2
      <4>2. /\ is_custom(r.ddt[s]) /\ r.ddt[s].index < Len(r.slots)
            /\ r.slots[r.ddt[s].index + 1] = find_slot(p, s, final[s])
        BY <2>4, <4>1 DEF RebuiltOK
      <4>3. r.ddt[s].index \in Nat
        BY <1>2 DEF EntryType
      <4>4. r.ddt[s].index + 1 \in 1..Len(r.slots) /\ r.ddt[s].index < Len(slots)
        BY <1>3, <1>7, <2>2, <4>2, <4>3
      <4> QED BY <1>7, <4>1, <4>2, <4>4
    <3> QED BY <3>1, <3>2
  <2> QED BY <1>7, <2>1, <2>3, <2>4 DEF RebuiltOK
<1>8. CASE is_custom(e) /\ find_slot(p, n, e) = None
  <2> DEFINE d == [r.ddt EXCEPT ![n] = NotDumped]
  <2>1. q = [slots |-> r.slots, ddt |-> d]
    <3>1. q = [r EXCEPT !.ddt[n] = NotDumped]
      BY <1>8 DEF RebuiltSector
    <3>2. r = [slots |-> r.slots, ddt |-> r.ddt]
      BY DEF RebuiltOK
    <3> QED BY <3>1, <3>2
  <2>2. d \in TableType /\ \A s \in All : s # n => d[s] = r.ddt[s]
    BY <1>3, NoDdtIs DEF TableType
  <2> HIDE DEF d
  <2> QED BY <1>3, <1>7, <1>8, <2>1, <2>2
<1>9. CASE is_custom(e) /\ find_slot(p, n, e) # None
  <2> DEFINE v == find_slot(p, n, e)
             d == [r.ddt EXCEPT ![n] = Entry("Errored", Len(r.slots))]
             slots == Append(r.slots, v)
  <2>1. q = [slots |-> slots, ddt |-> d]
    BY <1>9 DEF RebuiltSector
  <2>2. /\ d \in TableType /\ \A s \in All : s # n => d[s] = r.ddt[s]
        /\ d[n] = Entry("Errored", Len(r.slots))
    <3>1. Entry("Errored", Len(r.slots)) \in EntryType
      BY <1>3 DEF Entry, EntryType, Statuses
    <3> QED BY <1>3, <3>1 DEF TableType
  <2>3. v \in STRING \ {Lost}
    BY <1>2, <1>9, FoundSlotIs
  <2> HIDE DEF v
  <2>4. /\ slots \in SlotSeq /\ Len(slots) = Len(r.slots) + 1
        /\ slots[Len(r.slots) + 1] = v /\ \A i \in 1..Len(r.slots) : slots[i] = r.slots[i]
    BY <1>3, <2>3, AppendSlot DEF Longer
  <2> HIDE DEF d, slots
  <2>5. is_custom(d[n]) /\ d[n].index = Len(r.slots)
    BY <2>2 DEF is_custom, Entry
  <2>6. Len(r.slots) <= Len(slots) /\ d[n].index < Len(slots) /\ slots[d[n].index + 1] = v
    BY <1>3, <2>4, <2>5
  <2>7. RebuiltOK(q, p, final, n + 1)
    BY <1>7, <1>9, <2>1, <2>2, <2>4, <2>5, <2>6 DEF v
  <2> QED BY <2>7
<1> QED BY <1>6, <1>8, <1>9

LEMMA RebuildIs ==
  ASSUME FileOK, NEW p \in Parts, NEW final \in TableType
  PROVE  RebuiltOK(rebuild_arena(p, final), p, final, Sectors)
<1> DEFINE f == CHOOSE f : RebuiltTo(f, p, final, Sectors)
<1>1. rebuild_arena(p, final) = f[Sectors]
  BY Zenon DEF rebuild_arena, RebuiltTo
<1>2. RebuiltTo(f, p, final, Sectors)
  BY RebuiltExists
<1> HIDE DEF f
<1>3. Sectors \in Nat
  BY MediaAssumption
<1>4. /\ f[0] = [slots |-> <<>>, ddt |-> final]
      /\ \A n \in 0..(Sectors - 1) : f[n + 1] = RebuiltSector(f[n], p, n, final[n])
  <2>1. \A m \in 0..Sectors : f[m] = IF m = 0 THEN [slots |-> <<>>, ddt |-> final]
                                 ELSE RebuiltSector(f[m - 1], p, m - 1, final[m - 1])
    BY <1>2 DEF RebuiltTo
  <2>2. 0 \in 0..Sectors
    BY <1>3
  <2>3. f[0] = [slots |-> <<>>, ddt |-> final]
    BY <2>1, <2>2
  <2>4. ASSUME NEW n \in 0..(Sectors - 1)
        PROVE  f[n + 1] = RebuiltSector(f[n], p, n, final[n])
    <3>1. n + 1 \in 0..Sectors /\ n + 1 # 0 /\ (n + 1) - 1 = n
      BY <1>3
    <3>2. f[n + 1] = RebuiltSector(f[(n + 1) - 1], p, (n + 1) - 1, final[(n + 1) - 1])
      BY <2>1, <3>1
    <3> QED BY <3>1, <3>2
  <2> QED BY <2>3, <2>4
<1> DEFINE S == {n \in 0..Sectors : RebuiltOK(f[n], p, final, n)}
<1>5. 0 \in S
  <2>1. f[0].slots = <<>> /\ f[0].ddt = final
    BY <1>4
  <2>2. f[0] = [slots |-> f[0].slots, ddt |-> f[0].ddt]
    BY <1>4
  <2>3. <<>> \in SlotSeq
    BY DEF SlotSeq
  <2>4. \A s \in All : s >= 0
    BY <1>3 DEF All
  <2> QED BY <1>3, <2>1, <2>2, <2>3, <2>4 DEF RebuiltOK
<1>6. ASSUME NEW n \in 0..(Sectors - 1), n \in S
      PROVE  n + 1 \in S
  <2>1. n \in All
    BY DEF All
  <2>2. RebuiltOK(f[n], p, final, n)
    BY <1>6
  <2>3. f[n + 1] = RebuiltSector(f[n], p, n, final[n])
    BY <1>4
  <2>4. RebuiltOK(f[n + 1], p, final, n + 1)
    BY <2>1, <2>2, <2>3, RebuiltStep
  <2> QED BY <1>3, <2>4
<1>7. 0..Sectors \subseteq S
  <2> HIDE DEF S
  <2> QED BY <1>3, <1>5, <1>6, InductionUpTo
<1> QED BY <1>1, <1>3, <1>7

(* A file with its index, in the middle of a repair. *)
PlacesIn(x, kind) == {i \in DOMAIN x.file : x.file[i].kind = kind}

ImageOK(x) ==
    /\ IsSeq(x.file)
    /\ \A i \in DOMAIN x.file :
          x.file[i].kind \in Kinds /\ ValueOK(x.file[i].kind, x.file[i].value)
    /\ x.index \in [Kinds -> 0..Len(x.file)]
    /\ \A kind \in Kinds :
          IF x.index[kind] = 0 THEN PlacesIn(x, kind) = {}
          ELSE /\ x.index[kind] \in PlacesIn(x, kind)
               /\ \A i \in PlacesIn(x, kind) : i <= x.index[kind]

(* What the index names. *)
Value(x, kind) == x.file[x.index[kind]].value

(* y is x with this value of one kind. *)
Puts1(x, y, kind, value) ==
    /\ y.index[kind] # 0 /\ Value(y, kind) = value
    /\ \A k \in Kinds \ {kind} :
          /\ y.index[k] = 0 <=> x.index[k] = 0
          /\ x.index[k] # 0 => Value(y, k) = Value(x, k)

LEMMA MovedIs ==
  ASSUME NEW x, ImageOK(x), NEW kind \in Kinds, x.index[kind] # 0, NEW value, ValueOK(kind, value),
         NEW y, y = Moved(x, kind, value)
  PROVE  ImageOK(y) /\ Puts1(x, y, kind, value)
<1> DEFINE block == [kind |-> kind, value |-> value]
           n == Len(x.file)
<1>1. y.file = Append(x.file, block) /\ y.index = [x.index EXCEPT ![kind] = n + 1]
  BY DEF Moved, AppendBlock
<1>2. IsSeq(x.file) /\ n \in Nat /\ DOMAIN x.file = 1..n /\ x.index \in [Kinds -> 0..n]
  BY SeqFacts DEF ImageOK
<1>3. block.kind = kind /\ block.value = value
  OBVIOUS
<1> HIDE DEF block
<1>4. /\ IsSeq(y.file) /\ Len(y.file) = n + 1 /\ DOMAIN y.file = 1..(n + 1)
      /\ \A i \in 1..n : y.file[i] = x.file[i]
      /\ y.file[n + 1] = block
  BY <1>1, <1>2, AppendFacts
<1> HIDE DEF n
<1>5. /\ y.index \in [Kinds -> 0..(n + 1)] /\ y.index[kind] = n + 1
      /\ \A k \in Kinds : k # kind => y.index[k] = x.index[k] /\ x.index[k] \in 0..n
  BY <1>1, <1>2
<1>6. ASSUME NEW i \in DOMAIN y.file
      PROVE  y.file[i].kind \in Kinds /\ ValueOK(y.file[i].kind, y.file[i].value)
  <2>1. CASE i = n + 1
    BY <1>3, <1>4, <2>1
  <2>2. CASE i # n + 1
    <3>1. i \in 1..n
      BY <1>2, <1>4, <2>2
    <3> QED BY <1>2, <1>4, <3>1 DEF ImageOK
  <2> QED BY <2>1, <2>2
<1>7. ASSUME NEW k \in Kinds
      PROVE  \A i : i \in PlacesIn(y, k) <=> i \in PlacesIn(x, k) \/ (k = kind /\ i = n + 1)
  <2>1. \A i : i \in 1..(n + 1) <=> i \in 1..n \/ i = n + 1
    BY <1>2
  <2> QED BY <1>2, <1>3, <1>4, <2>1 DEF PlacesIn
<1>8. \A k \in Kinds : \A i \in PlacesIn(x, k) : i \in 1..n
  BY <1>2 DEF PlacesIn
<1>9. ASSUME NEW k \in Kinds
      PROVE  IF y.index[k] = 0 THEN PlacesIn(y, k) = {}
             ELSE /\ y.index[k] \in PlacesIn(y, k)
                  /\ \A i \in PlacesIn(y, k) : i <= y.index[k]
  <2>1. CASE k = kind
    <3>1. y.index[k] = n + 1 /\ n + 1 # 0 /\ n + 1 \in PlacesIn(y, k)
      BY <1>2, <1>5, <1>7, <2>1
    <3>2. \A i \in PlacesIn(y, k) : i <= n + 1
      BY <1>2, <1>7, <1>8
    <3> QED BY <3>1, <3>2
  <2>2. CASE k # kind
    <3>1. y.index[k] = x.index[k] /\ PlacesIn(y, k) = PlacesIn(x, k)
      BY <1>5, <1>7, <2>2
    <3> QED BY <3>1 DEF ImageOK
  <2> QED BY <2>1, <2>2
<1>10. ImageOK(y)
  BY <1>4, <1>5, <1>6, <1>9 DEF ImageOK
<1>11. Puts1(x, y, kind, value)
  <2>1. y.index[kind] # 0 /\ Value(y, kind) = value
    BY <1>2, <1>3, <1>4, <1>5 DEF Value
  <2>2. ASSUME NEW k \in Kinds \ {kind}
        PROVE  /\ y.index[k] = 0 <=> x.index[k] = 0
               /\ x.index[k] # 0 => Value(y, k) = Value(x, k)
    <3>1. y.index[k] = x.index[k] /\ x.index[k] \in 0..n
      BY <1>5
    <3>2. x.index[k] # 0 => y.file[x.index[k]] = x.file[x.index[k]]
      BY <1>2, <1>4, <3>1
    <3> QED BY <3>1, <3>2 DEF Value
  <2> QED BY <2>1, <2>2 DEF Puts1
<1> QED BY <1>10, <1>11

Table(p) == file[index[DdtOf(p)]].value

Repairable(p) == index[DdtOf(p)] \in scan_generations(p)

LEMMA RepairableIs ==
  ASSUME FileOK, Indexed, NEW p \in Parts, Repairable(p)
  PROVE  /\ index[p] # 0 /\ index[DdtOf(p)] # 0 /\ Table(p) \in TableType
         /\ RebuiltOK(rebuild_arena(p, Table(p)), p, Table(p), Sectors)
<1>1. index[DdtOf(p)] \in PlacesOf(DdtOf(p)) /\ ArenasBefore(p, index[DdtOf(p)]) # {}
  BY DEF Repairable, scan_generations
<1>2. index[DdtOf(p)] # 0 /\ Table(p) \in TableType
  BY <1>1, PlacesAre DEF ValueOK, Table, DdtOf
<1>3. PlacesOf(p) # {}
  BY <1>1 DEF ArenasBefore, ArenasOf
<1>4. index[p] # 0
  BY <1>3 DEF Indexed, Parts, Kinds
<1> QED BY <1>2, <1>4, RebuildIs

(* One part is repaired. *)
RepairedIn(x, y, p) ==
    /\ ImageOK(y)
    /\ \A k \in Kinds : y.index[k] = 0 <=> x.index[k] = 0
    /\ \A k \in Kinds \ {p, DdtOf(p)} : x.index[k] # 0 => Value(y, k) = Value(x, k)
    /\ IF Repairable(p)
       THEN /\ Value(y, p) = rebuild_arena(p, Table(p)).slots
            /\ Value(y, DdtOf(p)) = rebuild_arena(p, Table(p)).ddt
       ELSE y = x

LEMMA RepairPartIs ==
  ASSUME FileOK, Indexed, NEW p \in Parts, NEW x, ImageOK(x),
         \A k \in Kinds : x.index[k] = 0 <=> index[k] = 0,
         NEW y, y = RepairPart(x, p)
  PROVE  RepairedIn(x, y, p)
<1>1. CASE ~ Repairable(p)
  BY <1>1 DEF RepairPart, Repairable, RepairedIn
<1>2. CASE Repairable(p)
  <2> DEFINE r == rebuild_arena(p, Table(p))
             z == Moved(x, p, r.slots)
  <2>1. y = Moved(z, DdtOf(p), r.ddt)
    BY <1>2 DEF RepairPart, Repairable, append_rebuilt, Table
  <2>2. p \in Kinds /\ DdtOf(p) \in Kinds /\ p # DdtOf(p)
    BY DEF Parts, Kinds, DdtOf
  <2>3. x.index[p] # 0 /\ x.index[DdtOf(p)] # 0
    BY <1>2, <2>2, RepairableIs
  <2>4. r.slots \in SlotSeq /\ r.ddt \in TableType
    BY <1>2, RepairableIs DEF RebuiltOK
  <2>5. ValueOK(p, r.slots) /\ ValueOK(DdtOf(p), r.ddt)
    BY <2>4 DEF ValueOK, Parts, DdtOf
  <2> HIDE DEF r, z
  <2>6. ImageOK(z) /\ Puts1(x, z, p, r.slots)
    BY <2>2, <2>3, <2>5, MovedIs DEF z
  <2>7. z.index[DdtOf(p)] # 0
    BY <2>2, <2>3, <2>6 DEF Puts1
  <2>8. ImageOK(y) /\ Puts1(z, y, DdtOf(p), r.ddt)
    BY <2>1, <2>2, <2>5, <2>6, <2>7, MovedIs
  <2>9. \A k \in Kinds : y.index[k] = 0 <=> x.index[k] = 0
    BY <2>3, <2>6, <2>8 DEF Puts1
  <2>10. \A k \in Kinds \ {p, DdtOf(p)} : x.index[k] # 0 => Value(y, k) = Value(x, k)
    BY <2>6, <2>8 DEF Puts1
  <2>11. Value(y, p) = r.slots /\ Value(y, DdtOf(p)) = r.ddt
    BY <2>2, <2>6, <2>8 DEF Puts1
  <2> QED BY <1>2, <2>8, <2>9, <2>10, <2>11 DEF RepairedIn, r
<1> QED BY <1>1, <1>2

LEMMA RepairedDisk ==
  ASSUME LongTyped, Repair
  PROVE  /\ FileOK' /\ Indexed'
         /\ Disk'.user = Disk.user /\ Disk'.sub = Disk.sub
         /\ \A p \in Parts :
               IF Repairable(p)
               THEN /\ Disk'.ddt[p] = rebuild_arena(p, Table(p)).ddt
                    /\ Disk'.arena[p].slots = rebuild_arena(p, Table(p)).slots
                    /\ Disk.ddt[p] = Table(p)
               ELSE Disk'.ddt[p] = Disk.ddt[p] /\ Disk'.arena[p].slots = Disk.arena[p].slots
<1> DEFINE x == [file |-> file, index |-> index]
           y == RepairPart(x, "prefix")
           z == RepairPart(y, "suffix")
<1>1. file' = z.file /\ index' = z.index /\ media' = media
  BY DEF Repair, repair_cd_arena
<1>2. x.file = file /\ x.index = index
  OBVIOUS
<1> HIDE DEF x, y, z
<1>3. FileOK /\ Indexed
  BY DEF LongTyped
<1>4. ImageOK(x) /\ \A k \in Kinds : x.index[k] = 0 <=> index[k] = 0
  BY <1>2, <1>3 DEF ImageOK, FileOK, Indexed, PlacesOf, PlacesIn
<1>5. RepairedIn(x, y, "prefix")
  BY <1>3, <1>4, RepairPartIs DEF y, Parts
<1>6. ImageOK(y) /\ \A k \in Kinds : y.index[k] = 0 <=> index[k] = 0
  BY <1>4, <1>5 DEF RepairedIn
<1>7. RepairedIn(y, z, "suffix")
  BY <1>3, <1>6, RepairPartIs DEF z, Parts
<1>8. ImageOK(z)
  BY <1>7 DEF RepairedIn
<1>9. FileOK'
  <2>1. \A i \in DOMAIN file' : file'[i].kind \in Kinds /\ ValueOK(file'[i].kind, file'[i].value)
    BY <1>1, <1>8 DEF ImageOK
  <2>2. Kinds' = Kinds /\ TagArrays' = TagArrays
    BY <1>1 DEF Kinds, TagArrays
  <2>3. \A i \in DOMAIN file' : file'[i].kind \in Kinds /\ (ValueOK(file[i].kind, file[i].value))'
    BY <2>1, <2>2 DEF ValueOK
  <2>4. IsSeq(file')
    BY <1>1, <1>8 DEF ImageOK
  <2> QED BY <2>2, <2>3, <2>4 DEF FileOK
<1>10. Indexed'
  BY <1>1, <1>8 DEF Indexed, ImageOK, PlacesOf, PlacesIn, Kinds
<1>11. \A k \in Kinds : index'[k] = 0 <=> index[k] = 0
  BY <1>1, <1>6, <1>7 DEF RepairedIn
<1>12. \A k \in Kinds \ {"prefix", "prefix_ddt", "suffix", "suffix_ddt"} :
          index[k] # 0 => Value(z, k) = Value(x, k)
  <2>1. \A k \in Kinds \ {"prefix", "prefix_ddt"} : index[k] # 0 => Value(y, k) = Value(x, k)
    BY <1>4, <1>5 DEF RepairedIn, DdtOf
  <2>2. \A k \in Kinds \ {"suffix", "suffix_ddt"} : index[k] # 0 => Value(z, k) = Value(y, k)
    BY <1>6, <1>7 DEF RepairedIn, DdtOf
  <2> QED BY <2>1, <2>2
<1>13. ASSUME NEW p \in Parts
       PROVE  IF Repairable(p)
              THEN /\ Value(z, p) = rebuild_arena(p, Table(p)).slots
                   /\ Value(z, DdtOf(p)) = rebuild_arena(p, Table(p)).ddt
              ELSE /\ index[p] # 0 => Value(z, p) = Value(x, p)
                   /\ index[DdtOf(p)] # 0 => Value(z, DdtOf(p)) = Value(x, DdtOf(p))
  <2>1. \A k \in {"prefix", "prefix_ddt", "suffix", "suffix_ddt"} : k \in Kinds
    BY DEF Kinds
  <2>2. CASE p = "prefix"
    <3>1. DdtOf(p) = "prefix_ddt"
      BY <2>2 DEF DdtOf
    <3>2. \A k \in {"prefix", "prefix_ddt"} : index[k] # 0 => Value(z, k) = Value(y, k)
      BY <1>6, <1>7, <2>1 DEF RepairedIn, DdtOf
    <3>3. CASE Repairable(p)
      <4>1. /\ Value(y, p) = rebuild_arena(p, Table(p)).slots
            /\ Value(y, DdtOf(p)) = rebuild_arena(p, Table(p)).ddt
        BY <1>5, <2>2, <3>3 DEF RepairedIn
      <4>2. index[p] # 0 /\ index[DdtOf(p)] # 0
        BY <1>3, <3>3, RepairableIs
      <4> QED BY <2>2, <3>1, <3>2, <3>3, <4>1, <4>2
    <3>4. CASE ~ Repairable(p)
      <4>1. y = x
        BY <1>5, <2>2, <3>4 DEF RepairedIn
      <4> QED BY <2>2, <3>1, <3>2, <3>4, <4>1
    <3> QED BY <3>3, <3>4
  <2>3. CASE p = "suffix"
    <3>1. DdtOf(p) = "suffix_ddt"
      BY <2>3 DEF DdtOf
    <3>2. \A k \in {"suffix", "suffix_ddt"} : index[k] # 0 => Value(y, k) = Value(x, k)
      BY <1>4, <1>5, <2>1 DEF RepairedIn, DdtOf
    <3>3. CASE Repairable(p)
      BY <1>7, <2>3, <3>3 DEF RepairedIn
    <3>4. CASE ~ Repairable(p)
      <4>1. z = y
        BY <1>7, <2>3, <3>4 DEF RepairedIn
      <4> QED BY <2>3, <3>1, <3>2, <3>4, <4>1
    <3> QED BY <3>3, <3>4
  <2> QED BY <2>2, <2>3 DEF Parts
<1>14. \A k, missing : At(k, missing) = IF index[k] = 0 THEN missing ELSE Value(x, k)
  BY <1>2 DEF At, Value
<1>15. \A k \in Kinds : index'[k] = 0 => index[k] = 0
  BY <1>11
<1>16. "user" \in Kinds /\ "sub" \in Kinds /\ \A p \in Parts : p \in Kinds /\ DdtOf(p) \in Kinds
  BY DEF Parts, Kinds, DdtOf
<1>17. At("sub", None)' = At("sub", None)
  <2>1. At("sub", None)' = IF index["sub"] = 0 THEN None ELSE Value(z, "sub")
    BY <1>1, <1>11, <1>16 DEF At, Value
  <2> QED BY <1>12, <1>14, <1>16, <2>1
<1>18. At("user", [s \in All |-> Unwritten])' = At("user", [s \in All |-> Unwritten])
  <2>1. At("user", [s \in All |-> Unwritten])' =
           IF index["user"] = 0 THEN [s \in All |-> Unwritten] ELSE Value(z, "user")
    BY <1>1, <1>11, <1>16 DEF At, Value, All
  <2>2. At("user", [s \in All |-> Unwritten]) =
           IF index["user"] = 0 THEN [s \in All |-> Unwritten] ELSE Value(x, "user")
    BY <1>2 DEF At, Value
  <2>3. index["user"] # 0 => Value(z, "user") = Value(x, "user")
    BY <1>12, <1>16
  <2> QED BY <2>1, <2>2, <2>3
<1>19. ASSUME NEW p \in Parts
       PROVE  IF Repairable(p)
              THEN /\ Disk'.ddt[p] = rebuild_arena(p, Table(p)).ddt
                   /\ Disk'.arena[p].slots = rebuild_arena(p, Table(p)).slots
                   /\ Disk.ddt[p] = Table(p)
              ELSE Disk'.ddt[p] = Disk.ddt[p] /\ Disk'.arena[p].slots = Disk.arena[p].slots
  <2>1. At(p, <<>>)' = IF index[p] = 0 THEN <<>> ELSE Value(z, p)
    BY <1>1, <1>11, <1>16 DEF At, Value
  <2>2. At(DdtOf(p), None)' = IF index[DdtOf(p)] = 0 THEN None ELSE Value(z, DdtOf(p))
    BY <1>1, <1>11, <1>16 DEF At, Value
  <2>3. /\ At(p, <<>>) = IF index[p] = 0 THEN <<>> ELSE Value(x, p)
        /\ At(DdtOf(p), None) = IF index[DdtOf(p)] = 0 THEN None ELSE Value(x, DdtOf(p))
    BY <1>14
  <2>4. /\ Disk'.ddt[p] = At(DdtOf(p), None)' /\ Disk'.arena[p].slots = At(p, <<>>)'
        /\ Disk.ddt[p] = At(DdtOf(p), None) /\ Disk.arena[p].slots = At(p, <<>>)
    BY DiskFields, DiskFieldsNext
  <2>5. CASE Repairable(p)
    <3>1. index[p] # 0 /\ index[DdtOf(p)] # 0
      BY <1>3, <2>5, RepairableIs
    <3>2. Table(p) = Value(x, DdtOf(p))
      BY <1>2 DEF Table, Value
    <3> QED BY <1>13, <2>1, <2>2, <2>3, <2>4, <2>5, <3>1, <3>2
  <2>6. CASE ~ Repairable(p)
    BY <1>13, <2>1, <2>2, <2>3, <2>4, <2>6
  <2> QED BY <2>5, <2>6
<1> QED BY <1>9, <1>10, <1>17, <1>18, <1>19, DiskFields, DiskFieldsNext

LEMMA RepairKeeps ==
  ASSUME LongTyped, CdInv, Repair
  PROVE  LongTyped' /\ CdInv'
<1>1. /\ media' = media /\ ctx' = ctx /\ dirty' = dirty /\ session' = session /\ sessions' = sessions
      /\ phase = "closed" /\ phase' = phase /\ restarted' = FALSE /\ repairs' = repairs + 1 /\ IsCd
      /\ expected' = [s \in All |-> IF repairs > 0 /\ HadSlot(s) THEN Whatever ELSE expected[s]]
  BY DEF Repair
<1>2. session = {} /\ repairs \in Nat /\ repairs' # 0
  BY <1>1 DEF LongTyped
<1>3. LongTyped'
  <2>1. FileOK' /\ Indexed' /\ CtxOK(ctx)'
    BY <1>1, RepairedDisk, TypedNext DEF LongTyped
  <2>2. All' = All /\ Kinds' = Kinds
    BY DEF All, Kinds
  <2>3. DOMAIN expected' = All
    BY <1>1
  <2>4. repairs' \in Nat /\ restarted' = FALSE /\ restarted' \in BOOLEAN
    <3>1. restarted' = FALSE /\ restarted' \in BOOLEAN
      BY <1>1, Zenon
    <3>2. repairs' \in Nat
      BY <1>1, <1>2
    <3> QED BY <3>1, <3>2, Zenon
  <2>5. (repairs > 0 => ~ restarted)'
    BY <2>4
  <2>6. (dirty \subseteq Kinds)' /\ (session \subseteq All)' /\ (DOMAIN expected = All)'
    BY <1>1, <2>2, <2>3 DEF LongTyped
  <2>7. media' \in Media /\ phase' = "closed" /\ session' = {} /\ sessions' \in Nat
    BY <1>1, <1>2 DEF LongTyped
  <2> QED BY <2>1, <2>4, <2>5, <2>6, <2>7 DEF LongTyped
<1>4. ASSUME NEW s \in All, expected'[s] # Whatever
      PROVE  OldSector(s)'
  <2> DEFINE v == expected[s]
             type == TypeOfSector(s)
  <2>1. expected'[s] = v /\ v # Whatever /\ (repairs > 0 => ~ HadSlot(s))
    BY <1>1, <1>4
  <2>2. OldSector(s)
    BY <1>1, <1>2, <2>1 DEF CdInv, SectorsInv
  <2>3. Held(Disk, s, v) /\ CtxOK(Disk)
    BY <2>2, ArenasAre DEF OldSector, LongTyped
  <2>4. /\ Disk'.user = Disk.user /\ Disk'.sub = Disk.sub
        /\ \A p \in Parts :
               IF Repairable(p)
               THEN /\ Disk'.ddt[p] = rebuild_arena(p, Table(p)).ddt
                    /\ Disk'.arena[p].slots = rebuild_arena(p, Table(p)).slots
                    /\ Disk.ddt[p] = Table(p)
               ELSE Disk'.ddt[p] = Disk.ddt[p] /\ Disk'.arena[p].slots = Disk.arena[p].slots
    BY RepairedDisk
  <2> HIDE DEF v, type
  <2>5. ASSUME NEW p \in Parts, Custom(Disk, p, s, v)
        PROVE  /\ Repairable(p)
               /\ Found(p, s, Disk.ddt[p][s]) # {} /\ find_slot(p, s, Disk.ddt[p][s]) = PartIn(v, p)
    <3>1. Disk.ddt[p] # None /\ is_custom(Disk.ddt[p][s])
      BY <2>3, <2>5 DEF Custom, Held
    <3>2. index[DdtOf(p)] # 0 /\ Disk.ddt[p] = Table(p)
      BY <3>1, DiskFields DEF At, Table
    <3>3. index[DdtOf(p)] \in PlacesOf(DdtOf(p)) /\ \A i \in PlacesOf(DdtOf(p)) : i <= index[DdtOf(p)]
      BY <3>2 DEF LongTyped, Indexed, DdtOf, Kinds
    <3>4. HadSlot(s)
      BY <3>1, <3>2, <3>3 DEF HadSlot, Table
    <3>5. repairs = 0
      BY <1>2, <2>1, <3>4
    <3>6. Found(p, s, Disk.ddt[p][s]) # {} /\ find_slot(p, s, Disk.ddt[p][s]) = PartIn(v, p)
      BY <2>2, <2>5, <3>5 DEF OldSector, Findable, v
    <3>7. PICK i : i \in Found(p, s, Disk.ddt[p][s])
      BY <3>6
    <3>8. i \in PlacesOf(DdtOf(p)) /\ ArenasBefore(p, i) # {}
      BY <3>7 DEF Found, scan_generations
    <3>9. PICK j : j \in ArenasBefore(p, i)
      BY <3>8
    <3>10. j \in ArenasOf(p) /\ j < i /\ j \in Nat /\ i \in Nat /\ index[DdtOf(p)] \in Nat
      BY <3>3, <3>8, <3>9, PlacesAre DEF ArenasBefore, ArenasOf, LongTyped
    <3>11. j < index[DdtOf(p)]
      BY <3>3, <3>8, <3>10
    <3>12. Repairable(p)
      BY <3>3, <3>10, <3>11 DEF Repairable, scan_generations, ArenasBefore
    <3> QED BY <3>6, <3>12
  <2>6. Split(s, v) => v \in RawSectors
    BY <2>3 DEF Held
  <2>7. ASSUME NEW p \in Parts, Custom(Disk, p, s, v)
        PROVE  /\ is_custom(Disk'.ddt[p][s])
               /\ Disk'.ddt[p][s].index < Len(Disk'.arena[p].slots)
               /\ Disk'.arena[p].slots[Disk'.ddt[p][s].index + 1] = PartIn(v, p)
    <3> DEFINE r == rebuild_arena(p, Table(p))
    <3>1. /\ Repairable(p) /\ find_slot(p, s, Disk.ddt[p][s]) = PartIn(v, p)
          /\ Disk.ddt[p] = Table(p) /\ is_custom(Table(p)[s])
      BY <2>4, <2>5, <2>7 DEF Custom
    <3>2. Disk'.ddt[p] = r.ddt /\ Disk'.arena[p].slots = r.slots
      BY <2>4, <3>1
    <3>3. RebuiltOK(r, p, Table(p), Sectors)
      BY <3>1, RepairableIs DEF LongTyped
    <3> HIDE DEF r
    <3>4. PartIn(v, p) # None
      <4>1. v \in RawSectors
        BY <2>6, <2>7 DEF Custom
      <4>2. PartIn(v, p) \in STRING
        BY <4>1 DEF RawSectors, PartIn
      <4> QED BY <4>2, NoneIs
    <3>5. ~ (s >= Sectors)
      BY NoneIs DEF All
    <3>6. /\ is_custom(r.ddt[s]) /\ r.ddt[s].index < Len(r.slots)
          /\ r.slots[r.ddt[s].index + 1] = find_slot(p, s, Table(p)[s])
      BY <3>1, <3>3, <3>4, <3>5 DEF RebuiltOK
    <3> QED BY <3>1, <3>2, <3>6
  <2>8. ASSUME NEW p \in Parts, Split(s, v), ~ is_custom(Disk.ddt[p][s])
        PROVE  Disk'.ddt[p] # None /\ Disk'.ddt[p][s] = Disk.ddt[p][s]
    <3>1. Disk.ddt[p] # None
      BY <2>3, <2>8 DEF Held
    <3>2. CASE Repairable(p)
      <4>1. RebuiltOK(rebuild_arena(p, Table(p)), p, Table(p), Sectors)
        BY <3>2, RepairableIs DEF LongTyped
      <4>2. /\ rebuild_arena(p, Table(p)).ddt[s] = Table(p)[s]
            /\ rebuild_arena(p, Table(p)).ddt \in TableType
        BY <2>4, <2>8, <3>2, <4>1 DEF RebuiltOK
      <4> QED BY <2>4, <3>2, <4>2, NoneIs
    <3>3. CASE ~ Repairable(p)
      BY <2>4, <3>1, <3>3
    <3> QED BY <3>2, <3>3
  <2>9. ASSUME NEW p \in Parts, Split(s, v)
        PROVE  Disk'.ddt[p] # None
    <3>1. CASE Repairable(p)
      <4>1. RebuiltOK(rebuild_arena(p, Table(p)), p, Table(p), Sectors)
        BY <3>1, RepairableIs DEF LongTyped
      <4> QED BY <2>4, <3>1, <4>1, NoneIs DEF RebuiltOK
    <3>2. CASE ~ Repairable(p)
      BY <2>3, <2>4, <2>9, <3>2 DEF Held
    <3> QED BY <3>1, <3>2
  <2>10. Held(Disk', s, v)
    <3>1. \A p \in Parts : Split(s, v) =>
             is_custom(Disk'.ddt[p][s]) \/ Standard(TypeOfSector(s), p, Disk'.ddt[p][s], v)
      BY <2>3, <2>7, <2>8 DEF Held, Custom
    <3> QED BY <2>3, <2>4, <2>9, <3>1 DEF Held
  <2>11. Kept(Disk', s, v)
    <3> SUFFICES ASSUME NEW p \in Parts, Custom(Disk', p, s, v)
                 PROVE  /\ Disk'.ddt[p][s].index < Len(Disk'.arena[p].slots)
                        /\ Disk'.arena[p].slots[Disk'.ddt[p][s].index + 1] = PartIn(v, p)
      BY DEF Kept
    <3>1. Custom(Disk, p, s, v)
      BY <2>8 DEF Custom
    <3> QED BY <2>7, <3>1
  <2>12. Held(Disk, s, expected[s])' /\ Kept(Disk, s, expected[s])'
    BY <1>1, <2>1, <2>10, <2>11, SectorNext
  <2> QED BY <1>1, <1>2, <2>12 DEF OldSector
<1>5. SectorsInv'
  BY <1>1, <1>2, <1>4 DEF SectorsInv, All
<1>6. ArenasInv'
  BY <1>1, <1>2 DEF ArenasInv
<1> QED BY <1>3, <1>5, <1>6 DEF CdInv

(***************************************************************************)
(* The tags of Lisa drives: a conversion keeps the format of the drive and *)
(* the meaning of the tag, for every tag.                                  *)
(***************************************************************************)
Drives == {"sony", "profile", "priam"}

(* The numbers of the two formats. *)
LEMMA Ends == End \in Nat /\ SonyEnd \in Nat /\ SonyEnd < End
  BY SMT DEF End, SonyEnd, SonyNumbers

(* The number of a link has 11 bits, and is masked to itself.              *)
LEMMA Numbers ==
    \A l \in Nat :
        /\ Number(l) \in Nat /\ Number(l) <= SonyEnd
        /\ l <= SonyEnd => Number(l) = l /\ Allowed(l) = l
<1>1. \A l \in Nat : l % 2048 \in Nat /\ l % 2048 <= 2047
  BY SMT
<1>2. \A l \in Nat : l <= 2047 => l % 2048 = l /\ l \div 32768 = 0
  BY SMT
<1> QED BY <1>1, <1>2, SMT DEF Number, Allowed, SonyNumbers, SonyValid, SonyEnd

(* Masking a Sony link (SONY_BLOCK_ALLOWED_MASK) keeps its number and      *)
(* stays within 16 bits.                                                   *)
LEMMA Masks ==
    \A l \in SonyLinks :
        /\ Allowed(l) \in SonyLinks
        /\ Number(Allowed(l)) = Number(l)
<1>1. \A l \in Nat : l <= 65535 => (l \div 32768) * 32768 + (l % 2048) <= 65535
  BY SMT
<1>2. \A l \in Nat : (l \div 32768) * 32768 + (l % 2048) \in Nat
  BY SMT
<1>3. \A l \in Nat : ((l \div 32768) * 32768 + (l % 2048)) % 2048 = l % 2048
  BY SMT
<1>4. 2 * SonyValid - 1 = 65535
  BY SMT DEF SonyValid
<1>5. \A l \in SonyLinks : l \in Nat /\ l <= 65535
  BY <1>4, SMT DEF SonyLinks
<1>6. \A l \in Nat : l <= 65535 => l \in SonyLinks
  BY <1>4, SMT DEF SonyLinks
<1>7. \A l \in SonyLinks : Allowed(l) \in SonyLinks
  BY <1>1, <1>2, <1>5, <1>6, SMT DEF Number, Allowed, SonyNumbers, SonyValid
<1>8. \A l \in SonyLinks : Number(Allowed(l)) = Number(l)
  BY <1>3, <1>5, SMT DEF Number, Allowed, SonyNumbers, SonyValid
<1> QED BY <1>7, <1>8

(* 24 bits hold every link of a Profile or Priam tag.                      *)
LEMMA WideMask == \A l \in WideLinks : l % (End + 1) = l
<1>1. \A l, e \in Nat : l <= e => l % (e + 1) = l
  BY SMT
<1> QED BY <1>1, Ends, SMT DEF WideLinks

(* Widening keeps the number and the end of a chain, and the result fits   *)
(* in 24 bits (sony_tag_to_profile, sony_tag_to_priam).                    *)
LEMMA Widening ==
    \A l \in SonyLinks :
        /\ Widened(l) \in WideLinks
        /\ Widened(Allowed(l)) = Widened(l)
        /\ Number(l) = SonyEnd <=> Widened(l) = End
        /\ Number(l) # SonyEnd => Widened(l) = Number(l)
<1>1. \A l \in SonyLinks : Widened(Allowed(l)) = Widened(l)
  BY Masks, Zenon DEF Widened
<1>2. \A l \in SonyLinks : l \in Nat
  BY SMT DEF SonyLinks, SonyValid
<1> QED BY <1>1, <1>2, Ends, Numbers, SMT DEF Widened, WideLinks

(* Narrowing keeps the end of a chain and every number below 2047, and     *)
(* masking the result changes nothing (profile_tag_to_sony and             *)
(* priam_tag_to_sony).                                                     *)
LEMMA Narrowing ==
    \A l \in WideLinks :
        /\ Narrowed(l) \in Nat /\ Narrowed(l) <= SonyEnd
        /\ Allowed(Narrowed(l)) = Narrowed(l)
        /\ Number(Narrowed(l)) = Narrowed(l)
        /\ l = End => Narrowed(l) = SonyEnd
        /\ l < SonyEnd => Narrowed(l) = l
<1>1. \A l \in WideLinks : l \in Nat
  BY SMT DEF WideLinks
<1>2. \A l \in WideLinks : Narrowed(l) \in Nat /\ Narrowed(l) <= SonyEnd
  BY <1>1, Ends, Numbers, SMT DEF Narrowed
<1>3. \A l \in WideLinks : l < SonyEnd => l # End
  BY <1>1, Ends, SMT
<1> QED BY <1>1, <1>2, <1>3, Ends, Numbers, SMT DEF Narrowed

(* A link that was widened, or narrowed, is the same link. *)
LEMMA WidenedLink ==
    ASSUME NEW l \in SonyLinks
    PROVE  SameLink(IF Number(l) = SonyEnd THEN NoLink ELSE Number(l),
                    IF Widened(l) = End THEN NoLink ELSE Widened(l))
  BY Widening DEF SameLink

LEMMA NarrowedLink ==
    ASSUME NEW l \in WideLinks
    PROVE  SameLink(IF l = End THEN NoLink ELSE l,
                    IF Number(Narrowed(l)) = SonyEnd THEN NoLink ELSE Number(Narrowed(l)))
<1>1. /\ l \in Nat /\ SonyEnd \in Nat
      /\ l = End => l >= SonyEnd
  BY Ends, SMT DEF WideLinks
<1>2. CASE l = End
  BY <1>2, Narrowing DEF SameLink
<1>3. CASE l # End /\ l < SonyEnd
  BY <1>1, <1>3, Narrowing, SMT DEF SameLink
<1>4. CASE l # End /\ l >= SonyEnd
  BY <1>4 DEF SameLink
<1> QED BY <1>1, <1>2, <1>3, <1>4, SMT

LEMMA BytesOf ==
    /\ DriveBytes("sony") = SonyBytes /\ DriveBytes("profile") = ProfileBytes
    /\ DriveBytes("priam") = PriamBytes /\ DriveBytes("widget") = {<<>>}
    /\ Nil \in STRING
  BY LiteralAssumption DEF DriveBytes

LEMMA Narrow == \A l \in WideLinks : Narrowed(l) \in SonyLinks
<1>1. 2 * SonyValid - 1 = 65535
  BY SMT DEF SonyValid
<1>2. \A l \in Nat : l <= 65535 => l \in SonyLinks
  BY <1>1, SMT DEF SonyLinks
<1>3. \A l \in Nat : l <= SonyEnd => l <= 65535
  BY SMT DEF SonyEnd, SonyNumbers
<1> QED BY <1>2, <1>3, Narrowing

(* aaruf_write_sector_long on an Apple drive with a format: whatever tag   *)
(* of 12, 20 or 24 bytes it is given, what it stores has the format of the *)
(* drive and the same meaning: the fields that both formats have,          *)
(* the end of a chain, and every link that is narrow enough.               *)
THEOREM ConversionKeepsMeaning ==
    ASSUME NEW drive \in Drives,
           NEW b \in LisaBytes
    PROVE  NewTag(drive, b) \in DriveBytes(drive) /\ SameTag(b, NewTag(drive, b))
<1> USE DEF SonySize, ProfileSize, PriamSize
<1>1. CASE b \in SonyBytes
  <2>1. /\ Len(b) = 4 /\ b = <<b[1], b[2], b[3], b[4]>>
        /\ b[3] \in SonyLinks /\ b[4] \in SonyLinks
    BY <1>1 DEF SonyBytes
  <2>2. NewTag(drive, b) = FromSony(drive, b)
    BY <2>1 DEF NewTag
  <2>3. CASE drive = "sony"
    <3>1. NewTag(drive, b) = b
      BY <2>2, <2>3 DEF FromSony
    <3>2. SameTag(b, b)
      BY DEF SameTag
    <3> QED BY <1>1, <2>3, <3>1, <3>2, BytesOf
  <2>4. CASE drive = "profile"
    <3>1. NewTag(drive, b) = <<b[1], Nil, b[2], Widened(b[3]), Widened(b[4])>>
      BY <2>1, <2>2, <2>4, Widening, Masks, WideMask
         DEF FromSony, profile_tag_to_bytes, sony_tag_to_profile, bytes_to_sony_tag
    <3>2. /\ SameLink(Link(b, 3), Link(NewTag(drive, b), 3))
          /\ SameLink(Link(b, 4), Link(NewTag(drive, b), 4))
      BY <3>1, <2>1, WidenedLink DEF Link
    <3>3. SameTag(b, NewTag(drive, b))
      BY <3>1, <3>2, <2>1, <2>4 DEF SameTag, Rel
    <3>4. NewTag(drive, b) \in ProfileBytes
      BY <2>1, <3>1, <1>1, Widening, Narrow, BytesOf DEF SonyBytes, ProfileBytes
    <3> QED BY <2>4, <3>3, <3>4, BytesOf
  <2>5. CASE drive = "priam"
    <3>1. NewTag(drive, b) = <<b[1], Nil, b[2], Widened(b[3]), Widened(b[4]), Nil>>
      BY <2>1, <2>2, <2>5, Widening, Masks, WideMask
         DEF FromSony, priam_tag_to_bytes, sony_tag_to_priam, bytes_to_sony_tag
    <3>2. /\ SameLink(Link(b, 3), Link(NewTag(drive, b), 3))
          /\ SameLink(Link(b, 4), Link(NewTag(drive, b), 4))
      BY <3>1, <2>1, WidenedLink DEF Link
    <3>3. SameTag(b, NewTag(drive, b))
      BY <3>1, <3>2, <2>1, <2>5 DEF SameTag, Rel
    <3>4. NewTag(drive, b) \in PriamBytes
      BY <2>1, <3>1, <1>1, Widening, Narrow, BytesOf DEF SonyBytes, PriamBytes
    <3> QED BY <2>5, <3>3, <3>4, BytesOf
  <2> QED BY <2>3, <2>4, <2>5 DEF Drives
<1>2. CASE b \in ProfileBytes
  <2>1. /\ Len(b) = 5 /\ b = <<b[1], b[2], b[3], b[4], b[5]>>
        /\ b[4] \in WideLinks /\ b[5] \in WideLinks
    BY <1>2 DEF ProfileBytes
  <2>2. NewTag(drive, b) = FromProfile(drive, b)
    BY <2>1 DEF NewTag
  <2>3. CASE drive = "sony"
    <3>1. NewTag(drive, b) = <<b[1], b[3], Narrowed(b[4]), Narrowed(b[5])>>
      BY <2>1, <2>2, <2>3, Narrowing
         DEF FromProfile, sony_tag_to_bytes, profile_tag_to_sony, bytes_to_profile_tag
    <3>2. /\ SameLink(Link(b, 3), Link(NewTag(drive, b), 3))
          /\ SameLink(Link(b, 4), Link(NewTag(drive, b), 4))
      BY <3>1, <2>1, NarrowedLink DEF Link
    <3>3. SameTag(b, NewTag(drive, b))
      BY <3>1, <3>2, <2>1, <2>3 DEF SameTag, Rel
    <3>4. NewTag(drive, b) \in SonyBytes
      BY <2>1, <3>1, <1>2, Widening, Narrow, BytesOf DEF ProfileBytes, SonyBytes
    <3> QED BY <2>3, <3>3, <3>4, BytesOf
  <2>4. CASE drive = "profile"
    <3>1. NewTag(drive, b) = b
      BY <2>2, <2>4 DEF FromProfile
    <3>2. SameTag(b, b)
      BY DEF SameTag
    <3> QED BY <1>2, <2>4, <3>1, <3>2, BytesOf
  <2>5. CASE drive = "priam"
    <3>1. NewTag(drive, b) = <<b[1], b[2], b[3], b[4], b[5], Nil>>
      BY <2>1, <2>2, <2>5, WideMask
         DEF FromProfile, priam_tag_to_bytes, profile_tag_to_priam, bytes_to_profile_tag
    <3>2. SameTag(b, NewTag(drive, b))
      BY <3>1, <2>1, <2>5 DEF SameTag, Rel, Link, SameLink
    <3>3. NewTag(drive, b) \in PriamBytes
      BY <2>1, <3>1, <1>2, Widening, Narrow, BytesOf DEF ProfileBytes, PriamBytes
    <3> QED BY <2>5, <3>2, <3>3, BytesOf
  <2> QED BY <2>3, <2>4, <2>5 DEF Drives
<1>3. CASE b \in PriamBytes
  <2>1. /\ Len(b) = 6 /\ b = <<b[1], b[2], b[3], b[4], b[5], b[6]>>
        /\ b[4] \in WideLinks /\ b[5] \in WideLinks
    BY <1>3 DEF PriamBytes
  <2>2. NewTag(drive, b) = FromPriam(drive, b)
    BY <2>1 DEF NewTag
  <2>3. CASE drive = "sony"
    <3>1. NewTag(drive, b) = <<b[1], b[3], Narrowed(b[4]), Narrowed(b[5])>>
      BY <2>1, <2>2, <2>3, Narrowing
         DEF FromPriam, sony_tag_to_bytes, priam_tag_to_sony, bytes_to_priam_tag
    <3>2. /\ SameLink(Link(b, 3), Link(NewTag(drive, b), 3))
          /\ SameLink(Link(b, 4), Link(NewTag(drive, b), 4))
      BY <3>1, <2>1, NarrowedLink DEF Link
    <3>3. SameTag(b, NewTag(drive, b))
      BY <3>1, <3>2, <2>1, <2>3 DEF SameTag, Rel
    <3>4. NewTag(drive, b) \in SonyBytes
      BY <2>1, <3>1, <1>3, Widening, Narrow, BytesOf DEF PriamBytes, SonyBytes
    <3> QED BY <2>3, <3>3, <3>4, BytesOf
  <2>4. CASE drive = "profile"
    <3>1. NewTag(drive, b) = <<b[1], b[2], b[3], b[4], b[5]>>
      BY <2>1, <2>2, <2>4, WideMask
         DEF FromPriam, profile_tag_to_bytes, priam_tag_to_profile, bytes_to_priam_tag
    <3>2. SameTag(b, NewTag(drive, b))
      BY <3>1, <2>1, <2>4 DEF SameTag, Rel, Link, SameLink
    <3>3. NewTag(drive, b) \in ProfileBytes
      BY <2>1, <3>1, <1>3, Widening, Narrow, BytesOf DEF PriamBytes, ProfileBytes
    <3> QED BY <2>4, <3>2, <3>3, BytesOf
  <2>5. CASE drive = "priam"
    <3>1. NewTag(drive, b) = b
      BY <2>2, <2>5 DEF FromPriam
    <3>2. SameTag(b, b)
      BY DEF SameTag
    <3> QED BY <1>3, <2>5, <3>1, <3>2, BytesOf
  <2> QED BY <2>3, <2>4, <2>5 DEF Drives
<1> QED BY <1>1, <1>2, <1>3 DEF LisaBytes

(***************************************************************************)
(* Sectors with tags.                                                      *)
(***************************************************************************)
LEMMA TaggedIs ==
  ASSUME media \in Media, ~ IsCd
  PROVE  /\ media.losable = {} /\ media.old = FALSE
         /\ IF media.name = "apple" THEN AppleMedium(media) ELSE TaggedMedium(media)
BY MediaAssumption DEF IsCd, AppleMedium, TaggedMedium

LEMMA LisaLengths ==
  ASSUME NEW b \in LisaBytes
  PROVE  Len(b) \in {4, 5, 6}
<1>1. CASE b \in SonyBytes
  <2>1. Len(b) = 4
    BY <1>1 DEF SonyBytes
  <2> QED BY <2>1
<1>2. CASE b \in ProfileBytes
  <2>1. Len(b) = 5
    BY <1>2 DEF ProfileBytes
  <2> QED BY <2>1
<1>3. CASE b \in PriamBytes
  <2>1. Len(b) = 6
    BY <1>3 DEF PriamBytes
  <2> QED BY <2>1
<1> QED BY <1>1, <1>2, <1>3 DEF LisaBytes

LEMMA BytesAre ==
  /\ Zeros \in TagBytes /\ Zeros # <<>>
  /\ \A b \in PlainBytes : b \in TagBytes /\ b # <<>>
  /\ \A b \in LisaBytes : b \in TagBytes /\ b # <<>> /\ b # Zeros
<1>1. Zeros \in Seq(STRING) /\ Len(Zeros) = 1
  BY LiteralAssumption DEF Zeros
<1>2. Zeros # <<>>
  BY DEF Zeros
<1>3. \A b \in PlainBytes : b \in TagBytes /\ b # <<>>
  BY DEF PlainBytes, TagBytes
<1>4. \A b \in LisaBytes : Len(b) \in {4, 5, 6}
  BY LisaLengths
<1>5. \A b \in LisaBytes : b \in TagBytes /\ b # <<>> /\ b # Zeros
  <2> TAKE b \in LisaBytes
  <2>1. Len(b) # 0 /\ Len(b) # 1
    BY <1>4
  <2>2. b # <<>> /\ b # Zeros
    BY <1>1, <2>1
  <2> QED BY <2>2 DEF TagBytes
<1> QED BY <1>1, <1>2, <1>3, <1>5 DEF PlainBytes, TagBytes

(* A tag is put into an array. *)
OneTag(old, new, s) ==
    /\ new \in [All -> TagBytes]
    /\ \A t \in All : t # s => new[t] = IF old = None THEN Zeros ELSE old[t]

PutIn(old, s, value) == [IF old = None THEN NoTags ELSE old EXCEPT ![s] = value]

LEMMA OneTagIs ==
  ASSUME NEW old \in {None} \cup [All -> TagBytes], NEW s \in All, NEW value \in TagBytes
  PROVE  /\ OneTag(old, PutIn(old, s, value), s)
         /\ PutIn(old, s, value)[s] = value /\ PutIn(old, s, value) # None
<1>1. NoTags \in [All -> TagBytes] /\ \A t \in All : NoTags[t] = Zeros
  BY BytesAre DEF NoTags
<1> DEFINE base == IF old = None THEN NoTags ELSE old
<1>2. base \in [All -> TagBytes] /\ \A t \in All : base[t] = IF old = None THEN Zeros ELSE old[t]
  BY <1>1
<1> DEFINE new == PutIn(old, s, value)
<1>3. new = [base EXCEPT ![s] = value]
  BY DEF PutIn
<1> HIDE DEF base, new
<1>4. new \in [All -> TagBytes] /\ new[s] = value /\ \A t \in All : t # s => new[t] = base[t]
  BY <1>2, <1>3
<1> QED BY <1>2, <1>4, NoneIs DEF OneTag, new

(* The tags of a sector. *)
PutsTags(c, d, s) ==
    /\ CtxOK(d)
    /\ \A t \in All : t # s => d.user[t] = c.user[t]
    /\ \A a \in media.arrays : d.tags[a] = c.tags[a] \/ OneTag(c.tags[a], d.tags[a], s)

LEMMA PutTagIs ==
  ASSUME NEW c, CtxOK(c), NEW a \in media.arrays, NEW s \in All, NEW value \in TagBytes,
         NEW d, d = PutTag(c, a, s, value)
  PROVE  /\ PutsTags(c, d, s) /\ d.user = c.user
         /\ d.tags[a] # None /\ d.tags[a][s] = value
         /\ \A b \in media.arrays : b # a => d.tags[b] = c.tags[b]
<1> DEFINE new == PutIn(c.tags[a], s, value)
<1>1. c.tags \in TagArrays /\ c.tags[a] \in {None} \cup [All -> TagBytes]
  BY DEF CtxOK, TagArrays
<1>2. d = [c EXCEPT !.tags[a] = new]
  BY DEF PutTag, PutIn
<1>3. OneTag(c.tags[a], new, s) /\ new[s] = value /\ new # None
  BY <1>1, OneTagIs
<1> HIDE DEF new
<1>4. /\ d.ddt = c.ddt /\ d.arena = c.arena /\ d.sub = c.sub /\ d.user = c.user
      /\ d.tags = [c.tags EXCEPT ![a] = new]
      /\ d = [ddt |-> d.ddt, arena |-> d.arena, sub |-> d.sub, tags |-> d.tags, user |-> d.user]
  BY <1>2 DEF CtxOK
<1>5. d.tags \in TagArrays /\ d.tags[a] = new /\ \A b \in media.arrays : b # a => d.tags[b] = c.tags[b]
  BY <1>1, <1>3, <1>4 DEF TagArrays, OneTag
<1>6. CtxOK(d)
  BY <1>4, <1>5 DEF CtxOK
<1>7. \A b \in media.arrays : d.tags[b] = c.tags[b] \/ OneTag(c.tags[b], d.tags[b], s)
  BY <1>3, <1>5
<1> QED BY <1>3, <1>4, <1>5, <1>6, <1>7 DEF PutsTags

AllIn(c, s, values) ==
    [c EXCEPT !.tags = [a \in media.arrays |-> PutIn(@[a], s, values[a])]]

LEMMA PutTagsIs ==
  ASSUME NEW c, CtxOK(c), NEW s \in All, NEW values \in [media.arrays -> TagBytes],
         NEW d, d = AllIn(c, s, values)
  PROVE  /\ PutsTags(c, d, s) /\ d.user = c.user
         /\ \A a \in media.arrays : d.tags[a] # None /\ d.tags[a][s] = values[a]
<1> DEFINE new(a) == PutIn(c.tags[a], s, values[a])
           all == [a \in media.arrays |-> new(a)]
<1>1. \A a \in media.arrays : c.tags[a] \in {None} \cup [All -> TagBytes]
  BY DEF CtxOK, TagArrays
<1>2. d = [c EXCEPT !.tags = all]
  BY DEF AllIn
<1>3. ASSUME NEW a \in media.arrays
      PROVE  OneTag(c.tags[a], new(a), s) /\ new(a)[s] = values[a] /\ new(a) # None
  <2>1. PICK old : old = c.tags[a]
    OBVIOUS
  <2>2. PICK v : v = values[a]
    OBVIOUS
  <2>3. old \in {None} \cup [All -> TagBytes] /\ v \in TagBytes
    BY <1>1, <2>1, <2>2
  <2>4. OneTag(old, PutIn(old, s, v), s) /\ PutIn(old, s, v)[s] = v /\ PutIn(old, s, v) # None
    BY <2>3, OneTagIs
  <2> QED BY <2>1, <2>2, <2>4
<1> HIDE DEF new
<1>4. \A a \in media.arrays : all[a] = new(a)
  OBVIOUS
<1>5. all \in TagArrays
  BY <1>3 DEF TagArrays, OneTag
<1> HIDE DEF all
<1>6. /\ d.ddt = c.ddt /\ d.arena = c.arena /\ d.sub = c.sub /\ d.user = c.user /\ d.tags = all
      /\ d = [ddt |-> d.ddt, arena |-> d.arena, sub |-> d.sub, tags |-> d.tags, user |-> d.user]
  BY <1>2 DEF CtxOK
<1>7. CtxOK(d)
  BY <1>5, <1>6 DEF CtxOK
<1>8. \A a \in media.arrays : d.tags[a] = new(a)
  BY <1>4, <1>6
<1>9. \A a \in media.arrays : OneTag(c.tags[a], d.tags[a], s)
  BY <1>3, <1>8
<1>10. PutsTags(c, d, s)
  BY <1>6, <1>7, <1>9 DEF PutsTags
<1>11. \A a \in media.arrays : d.tags[a] # None /\ d.tags[a][s] = values[a]
  BY <1>3, <1>8
<1> QED BY <1>6, <1>10, <1>11

LEMMA RightSelf == \A v : RightTag(v, v)
BY DEF RightTag, SameTag

(* A sector keeps its tags when those of another are put. *)
LEMMA OthersHeld ==
  ASSUME NEW c, NEW d, NEW s, PutsTags(c, d, s), NEW t \in All, t # s, NEW x, HoldsSector(c, x, t)
  PROVE  HoldsSector(d, x, t)
<1>1. d.user[t] = x.user
  BY DEF PutsTags, HoldsSector
<1>2. ASSUME NEW a \in media.arrays
      PROVE  HoldsTag(d, x, a, t)
  <2>1. HoldsTag(c, x, a, t)
    BY DEF HoldsSector
  <2>2. CASE d.tags[a] = c.tags[a]
    BY <2>1, <2>2 DEF HoldsTag
  <2>3. CASE OneTag(c.tags[a], d.tags[a], s)
    <3>1. d.tags[a] # None
      BY <2>3, NoneIs DEF OneTag
    <3>2. d.tags[a][t] = IF c.tags[a] = None THEN Zeros ELSE c.tags[a][t]
      BY <2>3 DEF OneTag
    <3>3. CASE c.tags[a] = None
      BY <2>1, <3>1, <3>2, <3>3, BytesAre, RightSelf DEF HoldsTag
    <3>4. CASE c.tags[a] # None
      BY <2>1, <3>1, <3>2, <3>4 DEF HoldsTag
    <3> QED BY <3>3, <3>4
  <2> QED BY <2>2, <2>3 DEF PutsTags
<1> QED BY <1>1, <1>2 DEF HoldsSector

LEMMA PutsUserToo ==
  ASSUME NEW c, NEW d, NEW s \in All, PutsTags(c, d, s), NEW value \in UserType,
         NEW e, e = PutUser(d, s, value)
  PROVE  PutsTags(c, e, s) /\ e.tags = d.tags /\ e.user[s] = value
<1>1. CtxOK(d)
  BY DEF PutsTags
<1>2. /\ CtxOK(e) /\ e.tags = d.tags /\ e.user[s] = value
      /\ \A t \in All : t # s => e.user[t] = d.user[t]
  BY <1>1, PutUserIs DEF Touches
<1> QED BY <1>2 DEF PutsTags

LEMMA PutsNothing ==
  ASSUME NEW c, CtxOK(c), NEW s
  PROVE  PutsTags(c, c, s)
BY DEF PutsTags

(* A step that writes a sector with tags. *)
TagWrites(s) ==
    /\ ~ IsCd /\ phase = "writing"
    /\ media' = media /\ file' = file /\ index' = index /\ phase' = phase
    /\ restarted' = restarted /\ repairs' = repairs /\ sessions' = sessions
    /\ dirty \subseteq dirty' /\ dirty' \subseteq Kinds /\ session' \subseteq All
    /\ PutsTags(ctx, ctx', s)
    /\ expected' \in [All -> TaggedType]
    /\ \A t \in All : t # s => expected'[t] = expected[t]
    /\ HoldsSector(ctx, expected[s], s) => HoldsSector(ctx', expected'[s], s)
    /\ media.name = "apple" =>
          /\ "user" \notin dirty' => ctx'.user = ctx.user
          /\ "tags" \notin dirty' => ctx'.tags = ctx.tags
          /\ media.drive = "widget" => ctx'.tags = ctx.tags

LEMMA TagsHeldNext ==
  ASSUME media' = media
  PROVE  /\ TagsHeld(ctx)' <=> \A s \in All : HoldsSector(ctx', expected'[s], s)
         /\ TagsHeld(Disk)' <=> \A s \in All : HoldsSector(Disk', expected'[s], s)
         /\ TaggedType' = TaggedType
         /\ IsCd' <=> IsCd
<1>1. \A given, kept : RightTag(given, kept)' <=> RightTag(given, kept)
  BY DEF RightTag
<1>2. \A c, x, a, s : HoldsTag(c, x, a, s)' <=> HoldsTag(c, x, a, s)
  BY <1>1 DEF HoldsTag
<1>3. \A c, x, s : HoldsSector(c, x, s)' <=> HoldsSector(c, x, s)
  BY <1>2 DEF HoldsSector
<1>4. All' = All
  BY DEF All
<1>5. TagsHeld(ctx)' <=> \A s \in All : HoldsSector(ctx', expected'[s], s)
  BY <1>3, <1>4 DEF TagsHeld
<1>6. TagsHeld(Disk)' <=> \A s \in All : HoldsSector(Disk', expected'[s], s)
  BY <1>3, <1>4 DEF TagsHeld
<1> QED BY <1>5, <1>6 DEF TaggedType, IsCd

LEMMA TagWritesKeep ==
  ASSUME LongTyped, TagInv, NEW s \in All, TagWrites(s)
  PROVE  LongTyped' /\ CdInv' /\ TagInv'
<1>1. /\ ~ IsCd /\ phase = "writing"
      /\ media' = media /\ file' = file /\ index' = index /\ phase' = phase
      /\ restarted' = restarted /\ repairs' = repairs /\ sessions' = sessions
      /\ dirty \subseteq dirty' /\ dirty' \subseteq Kinds /\ session' \subseteq All
  BY DEF TagWrites
<1>2. PutsTags(ctx, ctx', s)
  BY DEF TagWrites
<1>3. /\ expected' \in [All -> TaggedType]
      /\ \A t \in All : t # s => expected'[t] = expected[t]
      /\ HoldsSector(ctx, expected[s], s) => HoldsSector(ctx', expected'[s], s)
  BY DEF TagWrites
<1>4. LongTyped'
  <2>1. CtxOK(ctx') /\ DOMAIN expected' = All
    BY <1>2, <1>3 DEF PutsTags
  <2> QED BY <1>1, <2>1, WriteKeepsTypes
<1>5. ~ IsCd' /\ Disk' = Disk
  BY <1>1, TagsHeldNext, SameDisk
<1>6. CdInv'
  BY <1>5 DEF CdInv
<1>7. sessions' # 0 /\ ~ restarted' /\ (expected \in [All -> TaggedType])'
  <2>1. expected' \in [All -> TaggedType'] /\ All' = All
    BY <1>1, <1>3, TagsHeldNext DEF All
  <2> QED BY <1>1, <2>1 DEF TagInv
<1>8. ASSUME Followed'
      PROVE  TagsHeld(ctx)'
  <2>1. Followed
    BY <1>1, <1>8 DEF Followed
  <2>2. TagsHeld(ctx)
    BY <1>1, <2>1 DEF TagInv
  <2>3. ASSUME NEW t \in All
        PROVE  HoldsSector(ctx', expected'[t], t)
    <3>1. HoldsSector(ctx, expected[t], t)
      BY <2>2 DEF TagsHeld
    <3>2. CASE t = s
      BY <1>3, <3>1, <3>2
    <3>3. CASE t # s
      BY <1>2, <1>3, <3>1, <3>3, OthersHeld
    <3> QED BY <3>2, <3>3
  <2> QED BY <1>1, <2>3, TagsHeldNext
<1>9. ASSUME media.name = "apple"
      PROVE  /\ TagsClean'
             /\ media.drive = "widget" => ctx'.tags["tag"] = None /\ Disk'.tags["tag"] = None
  <2>1. /\ "user" \notin dirty' => ctx'.user = ctx.user
        /\ "tags" \notin dirty' => ctx'.tags = ctx.tags
        /\ media.drive = "widget" => ctx'.tags = ctx.tags
    BY <1>9 DEF TagWrites
  <2>2. TagsClean /\ (media.drive = "widget" => ctx.tags["tag"] = None /\ Disk.tags["tag"] = None)
    BY <1>1, <1>9 DEF TagInv
  <2>3. "user" \notin dirty' => ctx'.user = Disk'.user
    BY <1>1, <1>5, <2>1, <2>2 DEF TagsClean
  <2>4. "tags" \notin dirty' => ctx'.tags = Disk'.tags
    BY <1>1, <1>5, <2>1, <2>2 DEF TagsClean
  <2>5. ctx'.tags["tag"] = None => ctx'.tags["tag"] = ctx.tags["tag"]
    <3>1. "tag" \in media.arrays
      BY <1>1, <1>9, TaggedIs DEF LongTyped, AppleMedium
    <3>2. ctx'.tags["tag"] = ctx.tags["tag"] \/ OneTag(ctx.tags["tag"], ctx'.tags["tag"], s)
      BY <1>2, <3>1 DEF PutsTags
    <3> QED BY <3>2, NoneIs DEF OneTag
  <2>6. ctx'.tags["tag"] = None => Disk'.tags["tag"] = None
    BY <1>5, <2>2, <2>5 DEF TagsClean
  <2>7. TagsClean'
    BY <2>3, <2>4, <2>6 DEF TagsClean
  <2>8. media.drive = "widget" => ctx'.tags["tag"] = None /\ Disk'.tags["tag"] = None
    BY <1>5, <2>1, <2>2
  <2> QED BY <2>7, <2>8
<1>10. TagInv'
  <2>1. phase' # "closed"
    BY <1>1
  <2> QED BY <1>1, <1>7, <1>8, <1>9, <2>1 DEF TagInv
<1> QED BY <1>4, <1>6, <1>10

(* The writers of sectors with tags. *)
LEMMA WritingIs ==
  ASSUME NEW s, Writing(s)
  PROVE  /\ phase = "writing" /\ media' = media /\ file' = file /\ index' = index
         /\ phase' = phase /\ restarted' = restarted /\ repairs' = repairs /\ sessions' = sessions
BY DEF Writing

LEMMA WriteTagWrites ==
  ASSUME LongTyped, TagInv, NEW a \in media.arrays, NEW s \in All, WriteTag(a, s, media.tag)
  PROVE  TagWrites(s)
<1> DEFINE value == media.tag
<1>1. /\ ~ IsCd /\ media.drive # "widget" /\ Writing(s)
      /\ ctx' = PutTag(ctx, a, s, value) /\ dirty' = dirty \cup {"tags"}
      /\ expected' = [expected EXCEPT ![s].tags[a] = value]
      /\ session' = session
  BY DEF WriteTag
<1>2. value \in TagBytes /\ value # <<>>
  <2>1. CASE media.name = "apple"
    <3>1. media.drive \in Drives /\ value \in DriveBytes(media.drive)
      BY <1>1, <2>1, TaggedIs DEF LongTyped, AppleMedium, Drives
    <3>2. value \in LisaBytes
      BY <3>1, BytesOf DEF Drives, LisaBytes
    <3> QED BY <3>2, BytesAre
  <2>2. CASE media.name # "apple"
    <3>1. value \in PlainBytes
      BY <1>1, <2>2, TaggedIs DEF LongTyped, TaggedMedium
    <3> QED BY <3>1, BytesAre
  <2> QED BY <2>1, <2>2
<1> HIDE DEF value
<1>3. /\ CtxOK(ctx) /\ expected \in [All -> TaggedType]
      /\ dirty \subseteq Kinds /\ session \subseteq All
  BY <1>1 DEF LongTyped, TagInv
<1>4. /\ PutsTags(ctx, ctx', s) /\ ctx'.user = ctx.user
      /\ ctx'.tags[a] # None /\ ctx'.tags[a][s] = value
      /\ \A b \in media.arrays : b # a => ctx'.tags[b] = ctx.tags[b]
  BY <1>1, <1>2, <1>3, PutTagIs
<1>5. /\ expected' \in [All -> TaggedType] /\ \A t \in All : t # s => expected'[t] = expected[t]
      /\ expected'[s].user = expected[s].user /\ expected'[s].tags[a] = value
      /\ \A b \in media.arrays : b # a => expected'[s].tags[b] = expected[s].tags[b]
  <2> DEFINE x == [expected[s] EXCEPT !.tags[a] = value]
  <2>1. expected[s] \in TaggedType
    BY <1>3
  <2>2. /\ x \in TaggedType /\ x.user = expected[s].user /\ x.tags[a] = value
        /\ \A b \in media.arrays : b # a => x.tags[b] = expected[s].tags[b]
    BY <1>2, <2>1 DEF TaggedType
  <2>3. expected' = [expected EXCEPT ![s] = x]
    BY <1>1
  <2> HIDE DEF x
  <2>4. expected' \in [All -> TaggedType] /\ expected'[s] = x
        /\ \A t \in All : t # s => expected'[t] = expected[t]
    BY <1>3, <2>2, <2>3
  <2> QED BY <2>2, <2>4
<1>6. ASSUME HoldsSector(ctx, expected[s], s)
      PROVE  HoldsSector(ctx', expected'[s], s)
  <2>1. ctx'.user[s] = expected'[s].user
    BY <1>4, <1>5, <1>6 DEF HoldsSector
  <2>2. ASSUME NEW b \in media.arrays
        PROVE  HoldsTag(ctx', expected'[s], b, s)
    <3>1. CASE b = a
      BY <1>2, <1>4, <1>5, <3>1, RightSelf DEF HoldsTag
    <3>2. CASE b # a
      <4>1. HoldsTag(ctx, expected[s], b, s)
        BY <1>6 DEF HoldsSector
      <4>2. ctx'.tags[b] = ctx.tags[b] /\ expected'[s].tags[b] = expected[s].tags[b]
        BY <1>4, <1>5, <3>2
      <4> QED BY <4>1, <4>2 DEF HoldsTag
    <3> QED BY <3>1, <3>2
  <2> QED BY <2>1, <2>2 DEF HoldsSector
<1>7. dirty \subseteq dirty' /\ dirty' \subseteq Kinds /\ "tags" \in dirty' /\ session' \subseteq All
  BY <1>1, <1>3 DEF Kinds
<1> QED BY <1>1, <1>4, <1>5, <1>6, <1>7, WritingIs DEF TagWrites

LEMMA WriteSectorWrites ==
  ASSUME LongTyped, TagInv, NEW s \in All, WriteSector(s, [data |-> "w"])
  PROVE  TagWrites(s)
<1> DEFINE value == [data |-> "w"]
<1>1. /\ ~ IsCd /\ Writing(s)
      /\ ctx' = PutUser(ctx, s, value) /\ dirty' = dirty \cup {"user"}
      /\ expected' = [expected EXCEPT ![s].user = value]
      /\ session' = session
  BY DEF WriteSector
<1>2. value \in [data : STRING]
  BY LiteralAssumption
<1> HIDE DEF value
<1>3. /\ CtxOK(ctx) /\ expected \in [All -> TaggedType]
      /\ dirty \subseteq Kinds /\ session \subseteq All
  BY <1>1 DEF LongTyped, TagInv
<1>4. PutsTags(ctx, ctx', s) /\ ctx'.tags = ctx.tags /\ ctx'.user[s] = value
  <2>1. value \in UserType
    BY <1>2 DEF UserType
  <2> QED BY <1>1, <1>3, <2>1, PutsNothing, PutsUserToo
<1>5. /\ expected' \in [All -> TaggedType] /\ \A t \in All : t # s => expected'[t] = expected[t]
      /\ expected'[s].user = value /\ expected'[s].tags = expected[s].tags
  <2> DEFINE x == [expected[s] EXCEPT !.user = value]
  <2>1. expected[s] \in TaggedType
    BY <1>3
  <2>2. x \in TaggedType /\ x.user = value /\ x.tags = expected[s].tags
    BY <1>2, <2>1 DEF TaggedType
  <2>3. expected' = [expected EXCEPT ![s] = x]
    BY <1>1
  <2> HIDE DEF x
  <2>4. expected' \in [All -> TaggedType] /\ expected'[s] = x
        /\ \A t \in All : t # s => expected'[t] = expected[t]
    BY <1>3, <2>2, <2>3
  <2> QED BY <2>2, <2>4
<1>6. ASSUME HoldsSector(ctx, expected[s], s)
      PROVE  HoldsSector(ctx', expected'[s], s)
  BY <1>4, <1>5, <1>6 DEF HoldsSector, HoldsTag
<1>7. dirty \subseteq dirty' /\ dirty' \subseteq Kinds /\ "user" \in dirty' /\ session' \subseteq All
  BY <1>1, <1>3 DEF Kinds
<1> QED BY <1>1, <1>4, <1>5, <1>6, <1>7, WritingIs DEF TagWrites

(* A sector with tags: every array of a DVD or of a Blu-ray gets its tag.  *)
LEMMA WriteDvdWrites ==
  ASSUME LongTyped, TagInv, media.name # "apple", NEW s \in All, NEW raw \in media.raw,
         WriteSectorTagged(s, raw)
  PROVE  TagWrites(s)
<1>1. /\ ~ IsCd /\ Writing(s)
      /\ ctx' = write_sector_dvd(ctx, s, raw)
      /\ dirty' = dirty \cup {"user"} \cup {}
      /\ session' = session \cup {s}
      /\ expected' = [expected EXCEPT ![s] = IF restarted /\ HadSlot(s) THEN Whatever ELSE raw]
  BY DEF WriteSectorTagged, Expect
<1>2. /\ CtxOK(ctx) /\ expected \in [All -> TaggedType]
      /\ dirty \subseteq Kinds /\ session \subseteq All
      /\ ~ restarted
  BY <1>1 DEF LongTyped, TagInv
<1>3. raw \in [tags : [media.arrays -> PlainBytes], user : [data : STRING]]
  BY <1>1, TaggedIs DEF LongTyped, TaggedMedium
<1>4. /\ raw.tags \in [media.arrays -> TagBytes] /\ raw.user \in [data : STRING]
      /\ \A a \in media.arrays : raw.tags[a] # <<>>
      /\ raw \in TaggedType
  BY <1>3, BytesAre DEF TaggedType
<1>5. PICK d : d = AllIn(ctx, s, raw.tags)
  OBVIOUS
<1>6. PutsTags(ctx, d, s) /\ \A a \in media.arrays : d.tags[a] # None /\ d.tags[a][s] = raw.tags[a]
  BY <1>2, <1>4, <1>5, PutTagsIs
<1>7. ctx' = PutUser(d, s, raw.user)
  BY <1>1, <1>5 DEF write_sector_dvd, AllIn, PutIn
<1>8. PutsTags(ctx, ctx', s) /\ ctx'.tags = d.tags /\ ctx'.user[s] = raw.user
  <2>1. raw.user \in UserType
    BY <1>4 DEF UserType
  <2> QED BY <1>6, <1>7, <2>1, PutsUserToo
<1>9. expected' = [expected EXCEPT ![s] = raw]
  BY <1>1, <1>2
<1>10. /\ expected' \in [All -> TaggedType] /\ \A t \in All : t # s => expected'[t] = expected[t]
      /\ expected'[s] = raw
  BY <1>2, <1>4, <1>9
<1>11. HoldsSector(ctx', expected'[s], s)
  <2>1. \A a \in media.arrays : HoldsTag(ctx', raw, a, s)
    BY <1>4, <1>6, <1>8, RightSelf DEF HoldsTag
  <2> QED BY <1>8, <1>10, <2>1 DEF HoldsSector
<1>12. dirty \subseteq dirty' /\ dirty' \subseteq Kinds /\ session' \subseteq All
  BY <1>1, <1>2 DEF Kinds
<1> QED BY <1>1, <1>8, <1>10, <1>11, <1>12, WritingIs DEF TagWrites

(* What an Apple drive keeps of a tag. *)
LEMMA KeptTag ==
  ASSUME LongTyped, ~ IsCd, media.name = "apple", NEW raw \in media.raw, KeepsTag(raw)
  PROVE  /\ media.drive # "widget"
         /\ NewTag(media.drive, raw.tags["tag"]) \in TagBytes
         /\ RightTag(raw.tags["tag"], NewTag(media.drive, raw.tags["tag"]))
<1> DEFINE given == raw.tags["tag"]
           kept == NewTag(media.drive, given)
<1>1. AppleMedium(media)
  BY TaggedIs DEF LongTyped
<1>2. given \in LisaBytes \cup {<<>>} /\ media.drive \in {"sony", "profile", "priam", "widget"}
  BY <1>1 DEF AppleMedium
<1>3. kept # <<>>
  BY DEF KeepsTag
<1>4. given # <<>>
  <2>1. NewTag(media.drive, <<>>) = <<>>
    <3>1. Len(<<>>) = 0
      OBVIOUS
    <3> QED BY <3>1 DEF NewTag, SonySize, ProfileSize, PriamSize
  <2> QED BY <1>3, <2>1
<1>5. media.drive # "widget"
  <2>1. \A b \in LisaBytes : NewTag("widget", b) = <<>>
    <3>1. \A b \in LisaBytes : Len(b) \in {4, 5, 6}
      BY LisaLengths
    <3> QED BY <3>1 DEF NewTag, SonySize, ProfileSize, PriamSize, FromSony, FromProfile, FromPriam
  <2> QED BY <1>2, <1>3, <1>4, <2>1
<1>6. media.drive \in Drives /\ given \in LisaBytes
  BY <1>2, <1>4, <1>5 DEF Drives
<1>7. kept \in DriveBytes(media.drive) /\ SameTag(given, kept)
  BY <1>6, ConversionKeepsMeaning
<1>8. kept \in LisaBytes
  BY <1>6, <1>7, BytesOf DEF Drives, LisaBytes
<1>9. kept \in TagBytes /\ kept # Zeros /\ given # Zeros
  BY <1>6, <1>8, BytesAre
<1> HIDE DEF given, kept
<1>10. RightTag(given, kept)
  BY <1>7, <1>9 DEF RightTag
<1> QED BY <1>5, <1>9, <1>10 DEF given, kept

LEMMA WriteAppleWrites ==
  ASSUME LongTyped, TagInv, media.name = "apple", NEW s \in All, NEW raw \in media.raw,
         WriteSectorTagged(s, raw)
  PROVE  TagWrites(s)
<1> DEFINE value == NewTag(media.drive, raw.tags["tag"])
           x == IF KeepsTag(raw) THEN raw ELSE [raw EXCEPT !.tags = expected[s].tags]
<1>1. /\ ~ IsCd /\ Writing(s)
      /\ ctx' = PutUser(IF KeepsTag(raw) THEN PutTag(ctx, "tag", s, value) ELSE ctx, s, raw.user)
      /\ dirty' = dirty \cup {"user"} \cup (IF KeepsTag(raw) THEN {"tags"} ELSE {})
      /\ session' = session \cup {s}
      /\ expected' = [expected EXCEPT ![s] = IF restarted /\ HadSlot(s) THEN Whatever ELSE x]
  BY DEF WriteSectorTagged, Expect, write_sector_apple
<1>2. /\ CtxOK(ctx) /\ expected \in [All -> TaggedType]
      /\ dirty \subseteq Kinds /\ session \subseteq All
      /\ ~ restarted
  BY <1>1 DEF LongTyped, TagInv
<1>3. /\ raw \in [tags : [{"tag"} -> LisaBytes \cup {<<>>}], user : [data : STRING]]
      /\ media.arrays = {"tag"}
  BY <1>1, TaggedIs DEF LongTyped, AppleMedium
<1>4. raw.user \in [data : STRING] /\ raw.user \in UserType
  BY <1>3 DEF UserType
<1>5. expected' = [expected EXCEPT ![s] = x]
  BY <1>1, <1>2
<1>6. x \in TaggedType /\ x.user = raw.user
      /\ x.tags = IF KeepsTag(raw) THEN raw.tags ELSE expected[s].tags
  <2>1. \A b \in LisaBytes \cup {<<>>} : b \in {<<>>} \cup TagBytes
    BY BytesAre
  <2>2. raw.tags \in [media.arrays -> {<<>>} \cup TagBytes]
    BY <1>3, <2>1
  <2>3. expected[s].tags \in [media.arrays -> {<<>>} \cup TagBytes]
    BY <1>2 DEF TaggedType
  <2>4. raw = [tags |-> raw.tags, user |-> raw.user]
    BY <1>3
  <2>5. x = [tags |-> IF KeepsTag(raw) THEN raw.tags ELSE expected[s].tags, user |-> raw.user]
    BY <2>4
  <2> QED BY <1>4, <2>2, <2>3, <2>5 DEF TaggedType
<1> HIDE DEF x
<1>7. /\ expected' \in [All -> TaggedType] /\ \A t \in All : t # s => expected'[t] = expected[t]
      /\ expected'[s] = x
  BY <1>2, <1>5, <1>6
<1>8. /\ dirty \subseteq dirty' /\ dirty' \subseteq Kinds /\ session' \subseteq All
      /\ "user" \in dirty' /\ (KeepsTag(raw) => "tags" \in dirty')
  BY <1>1, <1>2 DEF Kinds
<1> HIDE DEF value
<1>9. CASE KeepsTag(raw)
  <2>1. value \in TagBytes /\ value # <<>> /\ RightTag(raw.tags["tag"], value)
        /\ media.drive # "widget"
    BY <1>1, <1>9, KeptTag DEF value, KeepsTag
  <2>2. PICK d : d = PutTag(ctx, "tag", s, value)
    OBVIOUS
  <2>3. PutsTags(ctx, d, s) /\ d.tags["tag"] # None /\ d.tags["tag"][s] = value
    BY <1>2, <1>3, <2>1, <2>2, PutTagIs
  <2>4. ctx' = PutUser(d, s, raw.user)
    BY <1>1, <1>9, <2>2
  <2>5. PutsTags(ctx, ctx', s) /\ ctx'.tags = d.tags /\ ctx'.user[s] = raw.user
    BY <1>4, <2>3, <2>4, PutsUserToo
  <2>6. HoldsTag(ctx', x, "tag", s)
    BY <1>6, <1>9, <2>1, <2>3, <2>5 DEF HoldsTag
  <2>7. HoldsSector(ctx', expected'[s], s)
    BY <1>3, <1>6, <1>7, <2>5, <2>6 DEF HoldsSector
  <2> QED BY <1>1, <1>7, <1>8, <1>9, <2>1, <2>5, <2>7, WritingIs DEF TagWrites
<1>10. CASE ~ KeepsTag(raw)
  <2>1. PutsTags(ctx, ctx', s) /\ ctx'.tags = ctx.tags /\ ctx'.user[s] = raw.user
    <3>1. ctx' = PutUser(ctx, s, raw.user)
      BY <1>1, <1>10
    <3>2. PutsTags(ctx, ctx, s)
      BY <1>2, PutsNothing
    <3> QED BY <1>4, <3>1, <3>2, PutsUserToo
  <2>2. ASSUME HoldsSector(ctx, expected[s], s)
        PROVE  HoldsSector(ctx', expected'[s], s)
    BY <1>6, <1>7, <1>10, <2>1, <2>2 DEF HoldsSector, HoldsTag
  <2> QED BY <1>1, <1>7, <1>8, <2>1, <2>2, WritingIs DEF TagWrites
<1> QED BY <1>9, <1>10

(* At close, what is dirty is written. *)
LEMMA TaggedClosed ==
  ASSUME LongTyped, TagInv, ~ IsCd, NEW lost, Close(lost), lost \subseteq media.losable
  PROVE  /\ media' = media /\ phase = "writing" /\ phase' = "closed" /\ ctx' = NewContext
         /\ restarted' = restarted /\ sessions' = sessions /\ expected' = expected
         /\ Disk'.user = IF PutsIt(dirty, "user") THEN ctx.user ELSE Disk.user
         /\ Disk'.tags = IF PutsIt(dirty, "tags") THEN ctx.tags ELSE Disk.tags
<1>1. lost = {}
  BY TaggedIs DEF LongTyped
<1>2. /\ phase = "writing" /\ phase' = "closed" /\ ctx' = NewContext
      /\ restarted' = restarted /\ sessions' = sessions
      /\ expected' = [s \in All |-> expected[s]]
  BY <1>1, CloseIs
<1>3. expected' = expected
  BY <1>2 DEF TagInv
<1>4. PICK x : Closing(x, dirty)
  <2>1. dirty \ lost = dirty
    BY <1>1
  <2> QED BY <2>1, CloseIs
<1>5. /\ Disk'.user = IF PutsIt(dirty, "user") THEN ctx.user ELSE Disk.user
      /\ Disk'.tags = IF PutsIt(dirty, "tags") THEN ctx.tags ELSE Disk.tags
  BY <1>4, ClosedDisk
<1>6. media' = media
  BY <1>4 DEF Closing
<1> QED BY <1>2, <1>3, <1>5, <1>6

LEMMA CloseKeepsTags ==
  ASSUME LongTyped, TagInv, ~ IsCd, NEW lost, Close(lost), lost \subseteq media.losable
  PROVE  LongTyped' /\ CdInv' /\ TagInv'
<1>1. LongTyped'
  BY CloseKeepsTypes
<1>2. /\ media' = media /\ phase = "writing" /\ phase' = "closed" /\ ctx' = NewContext
      /\ restarted' = restarted /\ sessions' = sessions /\ expected' = expected
      /\ Disk'.user = IF PutsIt(dirty, "user") THEN ctx.user ELSE Disk.user
      /\ Disk'.tags = IF PutsIt(dirty, "tags") THEN ctx.tags ELSE Disk.tags
  BY TaggedClosed
<1>3. ~ IsCd' /\ CdInv'
  BY <1>2, TagsHeldNext DEF CdInv
<1>4. sessions' # 0 /\ ~ restarted' /\ (expected \in [All -> TaggedType])'
  <2>1. expected' \in [All -> TaggedType'] /\ All' = All
    BY <1>2, TagsHeldNext DEF All, TagInv
  <2> QED BY <1>2, <2>1 DEF TagInv
<1>5. ASSUME media.name = "apple"
      PROVE  /\ TagsHeld(Disk)'
             /\ media.drive = "widget" => ctx'.tags["tag"] = None /\ Disk'.tags["tag"] = None
  <2>1. TagsHeld(ctx) /\ TagsClean
        /\ (media.drive = "widget" => ctx.tags["tag"] = None /\ Disk.tags["tag"] = None)
    BY <1>2, <1>5 DEF TagInv, Followed
  <2>2. media.arrays = {"tag"} /\ "tag" \in media.arrays
    BY <1>5, TaggedIs DEF LongTyped, AppleMedium
  <2>3. Disk'.user = ctx.user
    <3>1. PutsIt(dirty, "user") <=> "user" \in dirty
      BY DEF PutsIt, Puts
    <3> QED BY <1>2, <2>1, <3>1 DEF TagsClean
  <2>4. Disk'.tags["tag"] = ctx.tags["tag"]
    <3>1. PutsIt(dirty, "tags") <=>
             "tags" \in dirty /\ ctx.tags["tag"] # None /\ media.drive # "widget"
      BY <1>5 DEF PutsIt, Puts
    <3>2. CASE "tags" \notin dirty
      BY <1>2, <2>1, <3>1, <3>2 DEF TagsClean
    <3>3. CASE ctx.tags["tag"] = None
      BY <1>2, <2>1, <3>1, <3>3 DEF TagsClean
    <3>4. CASE media.drive = "widget"
      BY <1>2, <2>1, <3>1, <3>4
    <3>5. CASE "tags" \in dirty /\ ctx.tags["tag"] # None /\ media.drive # "widget"
      BY <1>2, <3>1, <3>5
    <3> QED BY <3>2, <3>3, <3>4, <3>5
  <2>5. \A s \in All : HoldsSector(Disk', expected'[s], s)
    <3>1. \A s \in All : HoldsSector(ctx, expected[s], s)
      BY <2>1 DEF TagsHeld
    <3> QED BY <1>2, <2>2, <2>3, <2>4, <3>1 DEF HoldsSector, HoldsTag
  <2>6. TagsHeld(Disk)'
    BY <1>2, <2>5, TagsHeldNext
  <2>7. ctx'.tags["tag"] = None
    BY <1>2, <2>2 DEF NewContext
  <2> QED BY <2>1, <2>4, <2>6, <2>7
<1>6. TagInv'
  <2>1. phase' # "writing"
    BY <1>2
  <2> QED BY <1>2, <1>4, <1>5, <2>1 DEF TagInv
<1> QED BY <1>1, <1>3, <1>6

LEMMA ResumeKeepsTags ==
  ASSUME LongTyped, TagInv, ~ IsCd, Resume
  PROVE  TagInv'
<1>1. /\ media' = media /\ file' = file /\ index' = index /\ expected' = expected
      /\ phase = "closed" /\ phase' = "writing" /\ restarted' = restarted
      /\ sessions' = sessions + 1 /\ ctx' = Disk
  BY DEF Resume, Reopen, Disk
<1>2. Disk' = Disk
  BY <1>1, SameDisk
<1>3. sessions' # 0 /\ sessions' # 1
  BY <1>1 DEF LongTyped, TagInv
<1>4. (expected \in [All -> TaggedType])' /\ ~ restarted'
  <2>1. expected' \in [All -> TaggedType'] /\ All' = All
    BY <1>1, TagsHeldNext DEF All, TagInv
  <2> QED BY <1>1, <2>1 DEF TagInv
<1>5. ASSUME media.name = "apple"
      PROVE  /\ TagsHeld(ctx)' /\ TagsClean'
             /\ media.drive = "widget" => ctx'.tags["tag"] = None /\ Disk'.tags["tag"] = None
  <2>1. TagsHeld(Disk) /\ (media.drive = "widget" => Disk.tags["tag"] = None)
    BY <1>1, <1>5 DEF TagInv
  <2>2. \A s \in All : HoldsSector(ctx', expected'[s], s)
    BY <1>1, <2>1 DEF TagsHeld
  <2>3. TagsHeld(ctx)'
    BY <1>1, <2>2, TagsHeldNext
  <2>4. TagsClean'
    BY <1>1, <1>2 DEF TagsClean
  <2> QED BY <1>1, <1>2, <2>1, <2>3, <2>4
<1>6. ASSUME Followed'
      PROVE  media.name = "apple"
  BY <1>1, <1>3, <1>6 DEF Followed
<1> QED
  <2>1. phase' # "closed"
    BY <1>1
  <2> QED BY <1>1, <1>3, <1>4, <1>5, <1>6, <2>1 DEF TagInv

LEMMA TagInit ==
  ASSUME Init
  PROVE  TagInv
<1> SUFFICES ASSUME ~ IsCd
             PROVE  TagInv
  BY DEF TagInv
<1>1. expected = [s \in All |-> Nothing] /\ sessions = 1 /\ restarted = FALSE
      /\ phase = "writing" /\ dirty = Kinds /\ media \in Media
  BY DEF Init
<1>2. expected \in [All -> TaggedType]
  <2>1. Nothing \in TaggedType
    BY BytesAre DEF Nothing, TaggedType
  <2> QED BY <1>1, <2>1
<1>3. /\ Disk.tags = [a \in media.arrays |-> None]
      /\ ctx.user = [s \in All |-> Unwritten] /\ ctx.tags = [a \in media.arrays |-> None]
  BY DiskInit
<1>4. TagsHeld(ctx)
  <2>1. \A s \in All : expected[s] = Nothing
    BY <1>1
  <2> QED BY <1>3, <2>1 DEF TagsHeld, HoldsSector, HoldsTag, Nothing
<1>5. ASSUME media.name = "apple"
      PROVE  TagsClean /\ ctx.tags["tag"] = None /\ Disk.tags["tag"] = None
  <2>1. "tag" \in media.arrays
    BY <1>1, <1>5, TaggedIs DEF AppleMedium
  <2>2. ctx.tags["tag"] = None /\ Disk.tags["tag"] = None
    BY <1>3, <2>1
  <2> QED BY <1>1, <2>2 DEF TagsClean, Kinds
<1>6. sessions # 0 /\ phase # "closed" /\ ~ restarted
  BY <1>1
<1> QED BY <1>2, <1>4, <1>5, <1>6 DEF TagInv

(***************************************************************************)
(* Every step keeps the invariant.                                         *)
(***************************************************************************)
LEMMA CdTags ==
  ASSUME IsCd, media' = media
  PROVE  TagInv'
BY DEF TagInv, IsCd

LEMMA LongInit ==
  ASSUME Init
  PROVE  LongInv
BY TypesInit, CdInit, TagInit DEF LongInv

LEMMA LongStutters ==
  ASSUME LongInv, UNCHANGED vars
  PROVE  LongInv'
<1>1. /\ media' = media /\ ctx' = ctx /\ dirty' = dirty /\ file' = file /\ index' = index
      /\ phase' = phase /\ expected' = expected /\ session' = session
      /\ restarted' = restarted /\ sessions' = sessions /\ repairs' = repairs
  BY DEF vars
<1>2. LongTyped'
  <2>1. FileOK' /\ Indexed' /\ CtxOK(ctx)' /\ All' = All /\ Kinds' = Kinds
    BY <1>1, FileStays, TypedNext DEF LongInv, LongTyped, All, Kinds
  <2> QED BY <1>1, <2>1 DEF LongInv, LongTyped
<1>3. Disk' = Disk /\ All' = All /\ (\A kind : PlacesOf(kind)' = PlacesOf(kind))
  BY <1>1, SameDisk DEF All
<1>4. ASSUME IsCd', NEW s \in All, expected[s] # Whatever
      PROVE  (s \in session => NewSector(s)') /\ (s \notin session => OldSector(s)')
  <2>1. IF s \in session THEN NewSector(s) ELSE OldSector(s)
    BY <1>1, <1>4 DEF LongInv, CdInv, SectorsInv, IsCd
  <2>2. /\ Marked(ctx, s, expected[s])' <=> Marked(ctx, s, expected[s])
        /\ Fresh(ctx, s, expected[s])' <=> Fresh(ctx, s, expected[s])
        /\ Findable(Disk, s, expected[s])' <=> Findable(Disk, s, expected[s])
    <3>1. TypeOfSector(s)' = TypeOfSector(s)
      BY <1>1 DEF TypeOfSector
    <3> QED BY <1>1, <1>3, <3>1, SameDisk
            DEF Marked, Fresh, Findable, Custom, Split, Parts, PartIn
  <2>3. (s \in session /\ NewSector(s)) => NewSector(s)'
    BY <1>1, <2>2, SectorNext DEF NewSector
  <2>4. (s \notin session /\ OldSector(s)) => OldSector(s)'
    BY <1>1, <1>3, <2>2, SectorNext DEF OldSector
  <2> QED BY <2>1, <2>3, <2>4
<1>5. ASSUME IsCd'
      PROVE  ArenasInv'
  <2>1. ArenasInv
    BY <1>1, <1>5 DEF LongInv, CdInv, IsCd
  <2> QED BY <1>1, <1>3, <2>1 DEF ArenasInv, Extends, Parts
<1>6. CdInv'
  BY <1>1, <1>3, <1>4, <1>5 DEF CdInv, SectorsInv
<1>7. TagInv'
  <2>1. TagsHeld(ctx)' <=> TagsHeld(ctx)
    BY <1>1, TagsHeldNext DEF TagsHeld
  <2>2. TagsHeld(Disk)' <=> TagsHeld(Disk)
    BY <1>1, <1>3, TagsHeldNext DEF TagsHeld
  <2>3. (expected \in [All -> TaggedType])' <=> expected \in [All -> TaggedType]
    BY <1>1, <1>3, TagsHeldNext
  <2>4. (TagsClean' <=> TagsClean) /\ (Followed' <=> Followed) /\ (IsCd' <=> IsCd)
    BY <1>1, <1>3 DEF TagsClean, Followed, IsCd
  <2> QED BY <1>1, <1>3, <2>1, <2>2, <2>3, <2>4 DEF LongInv, TagInv
<1> QED BY <1>2, <1>6, <1>7 DEF LongInv

LEMMA CdWriteKeeps ==
  ASSUME LongInv, NEW s \in All, IsCd, Writes(s), sessions' = sessions, dirty' \subseteq Kinds,
         DOMAIN expected' = All
  PROVE  LongInv'
<1>1. /\ phase = "writing" /\ media' = media /\ file' = file /\ index' = index /\ phase' = phase
      /\ restarted' = restarted /\ repairs' = repairs /\ CtxOK(ctx')
      /\ session' = session \cup {s}
  BY DEF Writes, Touches
<1>2. session' \subseteq All
  BY <1>1 DEF LongInv, LongTyped
<1>3. LongTyped'
  BY <1>1, <1>2, WriteKeepsTypes DEF LongInv
<1>4. CdInv'
  BY WriteKeepsCd DEF LongInv
<1>5. TagInv'
  BY <1>1, CdTags
<1> QED BY <1>3, <1>4, <1>5 DEF LongInv

LEMMA CloseKeeps ==
  ASSUME LongInv, NEW lost, Close(lost), lost \subseteq media.losable
  PROVE  LongInv'
<1>1. CASE IsCd
  <2>1. LongTyped' /\ CdInv'
    BY <1>1, CloseKeepsTypes, CloseKeepsCd DEF LongInv
  <2>2. TagInv'
    BY <1>1, CdTags DEF Close
  <2> QED BY <2>1, <2>2 DEF LongInv
<1>2. CASE ~ IsCd
  BY <1>2, CloseKeepsTags DEF LongInv
<1> QED BY <1>1, <1>2

LEMMA ResumeKeepsAll ==
  ASSUME LongInv, Resume \/ ResumeRestarting
  PROVE  LongInv'
<1>1. media' = media
  BY DEF Resume, ResumeRestarting, Reopen
<1>2. LongTyped' /\ CdInv'
  BY ResumeKeeps, ResumeRestartingKeeps DEF LongInv
<1>3. CASE IsCd
  BY <1>1, <1>2, <1>3, CdTags DEF LongInv
<1>4. CASE ~ IsCd
  <2>1. ~ ResumeRestarting
    BY <1>4, TaggedIs DEF LongInv, LongTyped, ResumeRestarting
  <2> QED BY <1>2, <1>4, <2>1, ResumeKeepsTags DEF LongInv
<1> QED BY <1>3, <1>4

LEMMA LongStep ==
  ASSUME LongInv, [Next]_vars
  PROVE  LongInv'
<1>1. CASE \E s \in All, raw \in media.raw : WriteSectorLong(s, raw)
  BY <1>1, WriteSectorLongWrites, CdWriteKeeps DEF LongInv
<1>2. CASE \E s \in All, raw \in media.raw, stage \in Stages : WriteSectorLongFails(s, raw, stage)
  BY <1>2, WriteSectorLongFailsWrites, CdWriteKeeps DEF LongInv
<1>3. CASE \E s \in All, raw \in media.raw : WriteSectorTagged(s, raw)
  BY <1>3, WriteDvdWrites, WriteAppleWrites, TagWritesKeep DEF LongInv
<1>4. CASE \E a \in media.arrays, s \in All : WriteTag(a, s, media.tag)
  BY <1>4, WriteTagWrites, TagWritesKeep DEF LongInv
<1>5. CASE \E s \in All : WriteSector(s, [data |-> "w"])
  BY <1>5, WriteSectorWrites, TagWritesKeep DEF LongInv
<1>6. CASE Close({})
  BY <1>6, CloseKeeps
<1>7. CASE \E kind \in media.losable : Close({kind})
  BY <1>7, CloseKeeps
<1>8. CASE Resume
  BY <1>8, ResumeKeepsAll
<1>9. CASE ResumeRestarting
  BY <1>9, ResumeKeepsAll
<1>10. CASE Repair
  <2>1. IsCd /\ media' = media
    BY <1>10 DEF Repair
  <2> QED BY <1>10, <2>1, RepairKeeps, CdTags DEF LongInv
<1>11. CASE UNCHANGED vars
  BY <1>11, LongStutters
<1> QED BY <1>1, <1>2, <1>3, <1>4, <1>5, <1>6, <1>7, <1>8, <1>9, <1>10, <1>11 DEF Next

(* The invariant of every behaviour. *)
THEOREM LongInvariant == Spec => []LongInv
<1>1. Init => LongInv
  BY LongInit
<1>2. LongInv /\ [Next]_vars => LongInv'
  BY LongStep
<1> QED BY <1>1, <1>2, PTL DEF Spec

(* The types, and no slot is beyond the memory that was allocated for the  *)
(* arena, whatever is written, fails, and is written again (grow_arena).   *)
THEOREM LongSectorsTyped == Spec => []TypeOK
<1>1. LongInv => TypeOK
  <2> SUFFICES ASSUME LongInv
               PROVE  TypeOK
    OBVIOUS
  <2>1. LongTyped
    BY DEF LongInv
  <2>2. /\ phase \in {"writing", "closed"} /\ dirty \subseteq Kinds /\ session \subseteq All
        /\ CtxOK(ctx) /\ Indexed
    BY <2>1 DEF LongTyped
  <2>3. \A p \in Parts : Len(ctx.arena[p].slots) <= ctx.arena[p].room
    BY <2>2 DEF CtxOK
  <2>4. ASSUME NEW p \in Parts, ctx.ddt[p] # None, NEW s \in All
        PROVE  ctx.ddt[p][s].index \in Nat
    BY <2>2, <2>4 DEF CtxOK, TableType, EntryType
  <2>5. \A kind \in Kinds : index[kind] \in 0..Len(file)
    BY <2>2 DEF Indexed
  <2> QED BY <2>2, <2>3, <2>4, <2>5 DEF TypeOK
<1> QED BY <1>1, LongInvariant, PTL

(***************************************************************************)
(* What is read.                                                           *)
(***************************************************************************)
(* The context has every sector of a Compact Disc. *)
HasSectors ==
    IsCd /\ phase = "writing" /\ ~ restarted =>
        \A s \in All : expected[s] # Whatever =>
            Held(ctx, s, expected[s]) /\ Kept(ctx, s, expected[s])

LEMMA SectorsAreHeld == LongInv => HasSectors
<1> SUFFICES ASSUME LongInv, IsCd, phase = "writing", ~ restarted,
                    NEW s \in All, expected[s] # Whatever
             PROVE  Held(ctx, s, expected[s]) /\ Kept(ctx, s, expected[s])
  BY DEF HasSectors
<1>1. CtxOK(ctx) /\ CtxOK(Disk)
  BY ArenasAre DEF LongInv, LongTyped
<1>2. SectorsInv /\ Extends(Disk, ctx)
  BY DEF LongInv, CdInv, ArenasInv
<1>3. CASE s \in session
  BY <1>2, <1>3 DEF SectorsInv, NewSector
<1>4. CASE s \notin session
  <2>1. OldSector(s)
    BY <1>2, <1>4 DEF SectorsInv
  <2>2. Held(Disk, s, expected[s]) /\ Kept(Disk, s, expected[s]) /\ Agree(Disk, ctx, s)
    BY <2>1 DEF OldSector
  <2> QED BY <1>1, <1>2, <2>2, HeldStays, KeptStays
<1> QED BY <1>3, <1>4

LEMMA SectorReads ==
  ASSUME media \in Media, IsCd, NEW c, CtxOK(c), NEW s \in All, NEW x, Held(c, s, x), Kept(c, s, x)
  PROVE  read_sector_long(c, s) = x
BY ReadsBack DEF read_sector_long, IsCd

(* A sector with tags reads as what was written. *)
LEMMA TaggedReadsBack ==
  ASSUME LongInv, ~ IsCd, phase = "writing", Followed, NEW s \in All
  PROVE  TaggedRight(s)
<1>1. HoldsSector(ctx, expected[s], s) /\ expected[s] \in TaggedType
  BY DEF LongInv, TagInv, TagsHeld
<1>2. ctx.user[s] = expected[s].user /\ \A a \in media.arrays : HoldsTag(ctx, expected[s], a, s)
  BY <1>1 DEF HoldsSector
<1>3. TagsRight(s)
  <2> SUFFICES ASSUME NEW a \in media.arrays
               PROVE  IF read_sector_tag(ctx, a, s) = NotPresent THEN expected[s].tags[a] = Zeros
                      ELSE RightTag(expected[s].tags[a], read_sector_tag(ctx, a, s))
    BY DEF TagsRight
  <2>1. HoldsTag(ctx, expected[s], a, s)
    BY <1>2
  <2>2. CASE ctx.tags[a] = None
    BY <2>1, <2>2 DEF HoldsTag, read_sector_tag, NotPresent
  <2>3. CASE ctx.tags[a] # None
    BY <2>1, <2>3 DEF HoldsTag, read_sector_tag, NotPresent
  <2> QED BY <2>2, <2>3
<1>4. Joinable(ctx) => \A a \in media.arrays : RightTag(expected[s].tags[a], ctx.tags[a][s])
  BY <1>2 DEF Joinable, HoldsTag
<1>5. Joinable(ctx) <=> IF media.name = "apple" THEN ctx.tags["tag"] # None ELSE Joinable(ctx)
  <2>1. media.name = "apple" => media.arrays = {"tag"}
    BY TaggedIs DEF LongInv, LongTyped, AppleMedium
  <2> QED BY <2>1 DEF Joinable
<1> DEFINE long == read_sector_long(ctx, s)
<1>6. long = IF ctx.user[s] = Unwritten \/ ~ Joinable(ctx) THEN ctx.user[s]
             ELSE [tags |-> TagsOf(ctx, s), user |-> ctx.user[s]]
  BY <1>5 DEF read_sector_long, read_sector_apple, read_sector_dvd, IsCd
<1> HIDE DEF long
<1>7. LongRight(s, long)
  <2>1. CASE Joinable(ctx) /\ expected[s].user # Unwritten
    <3>1. long = [tags |-> TagsOf(ctx, s), user |-> ctx.user[s]]
      BY <1>2, <1>6, <2>1
    <3>2. long.user = expected[s].user /\ \A a \in media.arrays : long.tags[a] = ctx.tags[a][s]
      BY <1>2, <3>1 DEF TagsOf
    <3> QED BY <1>4, <2>1, <3>2 DEF LongRight
  <2>2. CASE ~ (Joinable(ctx) /\ expected[s].user # Unwritten)
    BY <1>2, <1>6, <2>2 DEF LongRight
  <2> QED BY <2>1, <2>2
<1> QED BY <1>3, <1>7 DEF TaggedRight, long

(* Every long sector reads back as it was last written, in the session and *)
(* after the image is closed and resumed, and after the repair of an image *)
(* that lost slots (aaruf_write_sector_long, aaruf_read_sector_long,       *)
(* aaruf_open, repair_cd_arena); but for what LongReadsBack leaves out, a  *)
(* resumed DVD or Blu-ray and an image that lost slots until its repair.   *)
THEOREM LongSectorsReadBack == Spec => []LongReadsBack
<1>1. LongInv => LongReadsBack
  <2> SUFFICES ASSUME LongInv, phase = "writing", ~ restarted,
                      IsCd \/ media.name = "apple" \/ sessions = 1, NEW s \in All
               PROVE  IF IsCd THEN expected[s] \in {Whatever, read_sector_long(ctx, s)}
                      ELSE TaggedRight(s)
    BY DEF LongReadsBack
  <2>1. CASE IsCd
    <3>1. CASE expected[s] = Whatever
      BY <2>1, <3>1
    <3>2. CASE expected[s] # Whatever
      <4>1. Held(ctx, s, expected[s]) /\ Kept(ctx, s, expected[s])
        BY <2>1, <3>2, SectorsAreHeld DEF HasSectors
      <4>2. PICK x : x = expected[s]
        OBVIOUS
      <4>3. read_sector_long(ctx, s) = x
        BY <2>1, <4>1, <4>2, SectorReads DEF LongInv, LongTyped
      <4> QED BY <2>1, <4>2, <4>3
    <3> QED BY <3>1, <3>2
  <2>2. CASE ~ IsCd
    BY <2>2, TaggedReadsBack DEF Followed
  <2> QED BY <2>1, <2>2
<1> QED BY <1>1, LongInvariant, PTL

(* A step that writes a sector leaves what the others read as. *)
LEMMA OneChanged ==
  ASSUME LongInv, HasSectors, LongTyped', HasSectors', IsCd, ~ restarted, phase = "writing",
         media' = media, restarted' = restarted, phase' = phase,
         NEW s, \A t \in All : t # s => expected'[t] = expected[t]
  PROVE  Cardinality(Changed) <= 1
<1>1. media \in Media /\ CtxOK(ctx) /\ CtxOK(ctx') /\ All' = All /\ IsCd'
  BY TypedNext DEF LongInv, LongTyped, All, IsCd
<1>2. ASSUME NEW t \in All, t # s, expected[t] # Whatever
      PROVE  read_sector_long(ctx, t) = read_sector_long(ctx', t)
  <2>1. PICK x : x = expected[t] /\ x = expected'[t]
    BY <1>2
  <2>2. Held(ctx, t, x) /\ Kept(ctx, t, x)
    BY <1>2, <2>1 DEF HasSectors
  <2>3. Held(ctx', t, x) /\ Kept(ctx', t, x)
    <3>1. Held(ctx, t, expected[t])' /\ Kept(ctx, t, expected[t])'
      BY <1>1, <1>2, <2>1 DEF HasSectors
    <3> QED BY <2>1, <3>1, SectorNext
  <2>4. read_sector_long(ctx, t) = x
    BY <1>1, <2>2, SectorReads
  <2>5. read_sector_long(ctx', t) = x
    BY <1>1, <2>3, SectorReads
  <2> QED BY <2>4, <2>5
<1>3. Changed \subseteq {s}
  BY <1>2 DEF Changed
<1>4. Changed = {} \/ Changed = {s}
  BY <1>3
<1> HIDE DEF Changed
<1>5. Cardinality({}) = 0 /\ Cardinality({s}) = 1
  BY FS_EmptySet, FS_Singleton
<1>6. CASE Changed = {}
  <2>1. Cardinality(Changed) = 0
    BY <1>5, <1>6
  <2> QED BY <2>1
<1>7. CASE Changed = {s}
  <2>1. Cardinality(Changed) = 1
    BY <1>5, <1>7
  <2> QED BY <2>1
<1> QED BY <1>4, <1>6, <1>7

LEMMA NoneChanged ==
  ASSUME ctx' = ctx
  PROVE  Cardinality(Changed) <= 1
<1>1. Changed = {}
  BY DEF Changed
<1>2. Cardinality(Changed) = 0
  <2>1. Cardinality({}) = 0
    BY FS_EmptySet
  <2> QED BY <1>1, <2>1
<1> QED BY <1>2

(* A write of a sector, whether it succeeds or fails, leaves what every    *)
(* other sector reads as (aaruf_write_sector_long).                        *)
THEOREM OthersStayUntouched == Spec => OthersUntouched
<1>1. LongInv /\ LongInv' /\ HasSectors /\ HasSectors' /\ [Next]_vars
      => [IsCd /\ ~ restarted /\ phase = "writing" /\ phase' = "writing" =>
             Cardinality(Changed) <= 1]_vars
  <2> SUFFICES ASSUME LongInv, LongInv', HasSectors, HasSectors', [Next]_vars,
                      IsCd, ~ restarted, phase = "writing", phase' = "writing"
               PROVE  Cardinality(Changed) <= 1
    OBVIOUS
  <2>1. LongTyped /\ LongTyped'
    BY DEF LongInv
  <2>2. ASSUME NEW s \in All, Writes(s)
        PROVE  Cardinality(Changed) <= 1
    <3>1. media' = media /\ restarted' = restarted /\ phase' = phase
          /\ \A t \in All : t # s => expected'[t] = expected[t]
      BY <2>2 DEF Writes
    <3> QED BY <2>1, <3>1, OneChanged
  <2>3. CASE \E s \in All, raw \in media.raw : WriteSectorLong(s, raw)
    BY <2>1, <2>2, <2>3, WriteSectorLongWrites
  <2>4. CASE \E s \in All, raw \in media.raw, stage \in Stages : WriteSectorLongFails(s, raw, stage)
    BY <2>1, <2>2, <2>4, WriteSectorLongFailsWrites
  <2>5. CASE \/ \E s \in All, raw \in media.raw : WriteSectorTagged(s, raw)
             \/ \E a \in media.arrays, s \in All : WriteTag(a, s, media.tag)
             \/ \E s \in All : WriteSector(s, [data |-> "w"])
    BY <2>5 DEF WriteSectorTagged, WriteTag, WriteSector
  <2>6. CASE Close({}) \/ \E kind \in media.losable : Close({kind})
    BY <2>6 DEF Close
  <2>7. CASE Resume \/ ResumeRestarting \/ Repair
    BY <2>7 DEF Resume, ResumeRestarting, Reopen, Repair
  <2>8. CASE UNCHANGED vars
    <3>1. ctx' = ctx
      BY <2>8 DEF vars
    <3> QED BY <3>1, NoneChanged
  <2> QED BY <2>3, <2>4, <2>5, <2>6, <2>7, <2>8 DEF Next
<1> QED BY <1>1, SectorsAreHeld, LongInvariant, PTL DEF Spec, OthersUntouched
=============================================================================
