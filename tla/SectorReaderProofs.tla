------------------------- MODULE SectorReaderProofs -------------------------
(***************************************************************************)
(* Proofs about ErasureCoding and SectorReader, for every K and M, every   *)
(* sequence of blocks and sessions, any number of damaged structures and   *)
(* caches of every size: the maps describe the file, erasure coding keeps  *)
(* its promise for data, and what a read answers is right.                 *)
(*                                                                         *)
(* The file only grows, and in order, so what a stripe, an entry of the    *)
(* table or a footer leads to stays where it is.  While the image is open  *)
(* nothing but the caches changes, and they hold what the file has or what *)
(* was rebuilt and agreed with its CRC64.                                  *)
(***************************************************************************)
EXTENDS SectorReader, FiniteSetTheorems, WellFoundedInduction, TLAPS

(***************************************************************************)
(* The file.                                                               *)
(***************************************************************************)
IsSeq(q) == q \in Seq(Range(q))

Ordered(f) ==
    /\ \A i \in DOMAIN f : f[i].at \in Nat /\ f[i].span \in Nat \ {0}
    /\ \A i, j \in DOMAIN f : i < j => f[i].at + f[i].span <= f[j].at

FileOK(f) ==
    /\ IsSeq(f) /\ Len(f) > 0
    /\ f[1].kind = "header" /\ f[1].at = 0
    /\ Ordered(f)

(* A unit that no structure reaches. *)
Beyond(f, n) == n \in Nat /\ \A i \in DOMAIN f : f[i].at + f[i].span <= n

(* The file with more structures at its end. *)
Longer(f, g) == Len(f) <= Len(g) /\ \A i \in DOMAIN f : g[i] = f[i]

(* The file with more structures at its end, of these kinds. *)
Adds(f, g, kinds) ==
    /\ FileOK(f) /\ FileOK(g) /\ Longer(f, g)
    /\ \A i \in DOMAIN g : i \in DOMAIN f \/ g[i].kind \in kinds

(***************************************************************************)
(* Stripes.                                                                *)
(***************************************************************************)
(* A shard is in the file as the map says. *)
ShardOK(f, e, shard) ==
    \E i \in DOMAIN f :
        /\ f[i].at = e.at /\ f[i].value = e.crc.value
        /\ f[i].span <= e.size /\ e.size <= shard /\ e.size \in Nat

ParityOK(f, at, stripe) ==
    \E i \in DOMAIN f :
        f[i].at = at /\ f[i].value = Encoded(stripe) /\ f[i].span = Largest(stripe.data)

StripeOK(f, n, shard, stripe) ==
    /\ IsSeq(stripe.data) /\ Len(stripe.data) <= n
    /\ \A k \in DOMAIN stripe.data : ShardOK(f, stripe.data[k], shard)
    /\ \A m \in 1..M : ParityOK(f, stripe.parity[m], stripe)

MapGroupOK(f, g) ==
    /\ g.K \in Nat /\ g.shard \in Nat /\ IsSeq(g.stripes)
    /\ \A s \in DOMAIN g.stripes : StripeOK(f, g.K, g.shard, g.stripes[s])

(* The CRC64 of a shard of data covers the block and no more. *)
OwnCrc(stripe) ==
    \A k \in DOMAIN stripe.data : stripe.data[k].crc = Crc(stripe.data[k].crc.value, stripe.data[k].size)

MapOK(f, map) ==
    /\ DOMAIN map = Groups
    /\ \A name \in Groups : MapGroupOK(f, map[name])
    /\ map["data"].K = K
    /\ \A s \in DOMAIN map["data"].stripes : OwnCrc(map["data"].stripes[s])

MapsOK(f) == \A i \in DOMAIN f : f[i].kind = "ecmb" => MapOK(f, f[i].value)

FootersOK(f) ==
    \A i \in DOMAIN f : f[i].kind = "footer" =>
        \E j \in DOMAIN f : f[j].kind = "ecmb" /\ f[j].at = f[i].value

(***************************************************************************)
(* The writer.                                                             *)
(***************************************************************************)
Shard == [at : Nat, size : Nat \ {0}, crc : [value : Nat, over : Nat]]

StripeType == [data : Seq(Shard), parity : [1..M -> Nat]]

WriterType ==
    [next : Nat, enabled : BOOLEAN, shard : Nat, parity : SUBSET (Nat \X Nat),
     slot : Seq(Shard), stripes : Seq(StripeType)]

Fed(slot) == {<<k, slot[k].crc.value>> : k \in DOMAIN slot}

SlotOK(f, slot, shard) ==
    \A k \in DOMAIN slot :
        ShardOK(f, slot[k], shard) /\ slot[k].crc = Crc(slot[k].crc.value, slot[k].size)

WriterOK(f, w) ==
    /\ w \in WriterType
    /\ ~ w.enabled => w.slot = <<>> /\ w.stripes = <<>>
    /\ SlotOK(f, w.slot, w.shard)
    /\ w.parity = Fed(w.slot)
    /\ \A s \in DOMAIN w.stripes :
          StripeOK(f, K, w.shard, w.stripes[s]) /\ OwnCrc(w.stripes[s])

(***************************************************************************)
(* The table and the damage.                                               *)
(***************************************************************************)
Entry == [at : Nat, offset : Nat, status : {"Dumped", "Unencrypted", "Generable"}]

EntryOK(f, s, e) ==
    IF e.status = "Generable" THEN e.at = 0
    ELSE /\ \E j \in DOMAIN f :
              f[j].kind = "data" /\ f[j].at = e.at /\ e.offset >= 1 /\ e.offset <= f[j].span
         /\ e.status = "Unencrypted" <=> HasKey(s)

TableOK(f) ==
    /\ table \in Seq(Entry) /\ Len(table) <= Sectors
    /\ \A i \in DOMAIN table : EntryOK(f, i - 1, table[i])

(* The next index, or map, after a block is an index. *)
IndexedAt(f, i) ==
    \E j \in DOMAIN f : /\ j > i /\ f[j].kind = "index"
                        /\ \A k \in (i + 1)..j : f[k].kind # "ecmb"

NoneAfter(f, i) == \A j \in DOMAIN f : j > i => f[j].kind \notin {"index", "ecmb"}

BlocksIndexed(f, writing) ==
    \A i \in DOMAIN f : f[i].kind = "data" => IndexedAt(f, i) \/ (writing /\ NoneAfter(f, i))

DamageOK ==
    /\ DOMAIN damage \subseteq DOMAIN file
    /\ \A i \in DOMAIN damage : damage[i] \in DamageOf(file[i].kind)
    /\ phase = "writing" => DOMAIN damage = {}

(***************************************************************************)
(* The reader.                                                             *)
(***************************************************************************)
Shaped(r) ==
    r = [map |-> r.map, keys |-> r.keys, tracks |-> r.tracks, secondary |-> r.secondary,
         headers |-> r.headers, blocks |-> r.blocks, group |-> r.group, verified |-> r.verified]

(* The secondary table as the first read of it finds it. *)
SecondaryOf(map) ==
    LET i == Max(PlacesOf(file, "ddt2"))
    IN  IF Undamaged(i) THEN "right" ELSE ec_recover_ddt_block(map, file[i].at)

CacheOK(c, budget) ==
    /\ IsSeq(c) /\ \A i \in DOMAIN c : c[i].size \in Nat
    /\ CacheWithin(c, budget)

HeadersOK(c) == \A i \in DOMAIN c : c[i].value \in {HeaderAt(c[i].key), "good"}

BlocksOK(c) ==
    \A i \in DOMAIN c : c[i].value = Rebuilt(c[i].key) \/ DamageAt(c[i].key) = "silent"

SilentFrom(first) ==
    \E i \in 1..GroupSize :
        /\ EntryOf(first + i - 1).at # 0
        /\ DamageAt(EntryOf(first + i - 1).at) = "silent"

GroupRight(r) ==
    /\ r.group.first \in Nat /\ ~ r.group.holes
    /\ r.keys = "right" /\ SecondaryOf(r.map) = "right" /\ ~ SilentFrom(r.group.first)
    => r.group.contents = [i \in 1..GroupSize |-> Plain(r.group.first + i - 1)]

ReaderOK(r) ==
    /\ Shaped(r)
    /\ r.map = None \/ MapOK(file, r.map)
    /\ r.secondary = None \/ r.secondary = SecondaryOf(r.map)
    /\ CacheOK(r.headers, HeaderBudget) /\ HeadersOK(r.headers)
    /\ CacheOK(r.blocks, BlockBudget) /\ BlocksOK(r.blocks)
    /\ GroupRight(r)
    /\ r.verified => verify_image

ReadingOK ==
    /\ phase \in {"writing", "closed"} => reader = None /\ last = None
    /\ phase = "open" => ReaderOK(reader)
    /\ phase = "done" => last = None /\ reader.headers = <<>> /\ reader.blocks = <<>>
    /\ last # None => last.ret \in Answers /\ last.sector \in Nat

SectorInv ==
    /\ phase \in {"writing", "closed", "open", "done"}
    /\ FileOK(file) /\ MapsOK(file) /\ FootersOK(file)
    /\ WriterOK(file, writer) /\ Len(writer.slot) < K
    /\ phase = "writing" => Beyond(file, writer.next)
    /\ TableOK(file)
    /\ BlocksIndexed(file, phase = "writing")
    /\ DamageOK
    /\ ReadingOK /\ AnswersRight /\ WithinParityAnswered

(***************************************************************************)
(* Sequences.                                                              *)
(***************************************************************************)
LEMMA SequenceIs ==
  ASSUME NEW S, NEW q, q \in Seq(S)
  PROVE  IsSeq(q)
<1>1. Len(q) \in Nat /\ DOMAIN q = 1..Len(q) /\ \A i \in 1..Len(q) : q[i] \in Range(q)
  BY DEF Range
<1>2. q = [i \in 1..Len(q) |-> q[i]]
  BY <1>1
<1>3. [i \in 1..Len(q) |-> q[i]] \in Seq(Range(q))
  BY <1>1
<1> QED BY <1>2, <1>3 DEF IsSeq

LEMMA SeqFacts ==
  ASSUME NEW q, IsSeq(q)
  PROVE  Len(q) \in Nat /\ DOMAIN q = 1..Len(q)
BY DEF IsSeq

LEMMA AppendFacts ==
  ASSUME NEW q, IsSeq(q), NEW e
  PROVE  /\ IsSeq(Append(q, e)) /\ Len(Append(q, e)) = Len(q) + 1
         /\ DOMAIN Append(q, e) = 1..(Len(q) + 1)
         /\ \A i \in DOMAIN q : Append(q, e)[i] = q[i]
         /\ Append(q, e)[Len(q) + 1] = e
<1> DEFINE S == Range(q) \cup {e}
<1>1. q \in Seq(S) /\ e \in S
  <2>1. q \in Seq(Range(q))
    BY DEF IsSeq
  <2>2. \A i \in 1..Len(q) : q[i] \in S
    BY <2>1
  <2>3. q = [i \in 1..Len(q) |-> q[i]] /\ Len(q) \in Nat
    BY <2>1
  <2>4. [i \in 1..Len(q) |-> q[i]] \in Seq(S)
    BY <2>2, <2>3
  <2> QED BY <2>3, <2>4
<1> HIDE DEF S
<1>2. Append(q, e) \in Seq(S)
  BY <1>1
<1>3. IsSeq(Append(q, e))
  BY <1>2, SequenceIs
<1>4. /\ Len(Append(q, e)) = Len(q) + 1 /\ DOMAIN Append(q, e) = 1..(Len(q) + 1)
      /\ \A i \in 1..Len(q) : Append(q, e)[i] = q[i]
      /\ Append(q, e)[Len(q) + 1] = e
  BY <1>1
<1> QED BY <1>1, <1>3, <1>4

LEMMA ConcatFacts ==
  ASSUME NEW q, NEW r, IsSeq(q), IsSeq(r)
  PROVE  /\ IsSeq(q \o r) /\ Len(q \o r) = Len(q) + Len(r)
         /\ DOMAIN (q \o r) = 1..(Len(q) + Len(r))
         /\ \A i \in DOMAIN q : (q \o r)[i] = q[i]
         /\ \A i \in 1..Len(r) : (q \o r)[Len(q) + i] = r[i]
<1> DEFINE S == Range(q) \cup Range(r)
<1>1. q \in Seq(S)
  <2>1. q \in Seq(Range(q))
    BY DEF IsSeq
  <2>2. \A i \in 1..Len(q) : q[i] \in S
    BY <2>1
  <2>3. q = [i \in 1..Len(q) |-> q[i]] /\ Len(q) \in Nat
    BY <2>1
  <2>4. [i \in 1..Len(q) |-> q[i]] \in Seq(S)
    BY <2>2, <2>3
  <2> QED BY <2>3, <2>4
<1>2. r \in Seq(S)
  <2>1. r \in Seq(Range(r))
    BY DEF IsSeq
  <2>2. \A i \in 1..Len(r) : r[i] \in S
    BY <2>1
  <2>3. r = [i \in 1..Len(r) |-> r[i]] /\ Len(r) \in Nat
    BY <2>1
  <2>4. [i \in 1..Len(r) |-> r[i]] \in Seq(S)
    BY <2>2, <2>3
  <2> QED BY <2>3, <2>4
<1> HIDE DEF S
<1>3. q \o r \in Seq(S)
  BY <1>1, <1>2
<1>4. IsSeq(q \o r)
  BY <1>3, SequenceIs
<1>5. /\ Len(q \o r) = Len(q) + Len(r) /\ DOMAIN (q \o r) = 1..(Len(q) + Len(r))
      /\ \A i \in 1..Len(q) : (q \o r)[i] = q[i]
      /\ \A i \in 1..Len(r) : (q \o r)[Len(q) + i] = r[i]
  BY <1>1, <1>2
<1> QED BY <1>1, <1>2, <1>4, <1>5

(***************************************************************************)
(* The file and its end.                                                   *)
(***************************************************************************)
LEMMA FileFacts ==
  ASSUME NEW f, FileOK(f)
  PROVE  /\ Len(f) \in Nat /\ Len(f) >= 1 /\ DOMAIN f = 1..Len(f)
         /\ \A i \in DOMAIN f : f[i].at \in Nat /\ f[i].span \in Nat /\ f[i].span >= 1
         /\ \A i, j \in DOMAIN f : i < j => f[i].at + f[i].span <= f[j].at
         /\ \A i \in DOMAIN f : i # 1 => f[i].at >= 1
<1>1. /\ Len(f) \in Nat /\ Len(f) >= 1 /\ DOMAIN f = 1..Len(f)
  BY SeqFacts DEF FileOK
<1>2. \A i \in DOMAIN f : f[i].at \in Nat /\ f[i].span \in Nat /\ f[i].span >= 1
  BY DEF FileOK, Ordered
<1>3. \A i, j \in DOMAIN f : i < j => f[i].at + f[i].span <= f[j].at
  BY DEF FileOK, Ordered
<1>4. \A i \in DOMAIN f : i # 1 => f[i].at >= 1
  <2>1. TAKE i \in DOMAIN f
  <2>2. HAVE i # 1
  <2>3. 1 \in DOMAIN f /\ 1 < i
    BY <1>1, <2>2
  <2>4. f[1].at + f[1].span <= f[i].at
    BY <1>3, <2>3
  <2> QED BY <1>2, <2>3, <2>4
<1> QED BY <1>1, <1>2, <1>3, <1>4

LEMMA MaxOf ==
  ASSUME NEW S, NEW m \in S, \A y \in S : y \in Int, \A y \in S : m >= y
  PROVE  Max(S) = m
<1>1. \E x \in S : \A y \in S : x >= y
  OBVIOUS
<1>2. Max(S) \in S /\ \A y \in S : Max(S) >= y
  BY <1>1 DEF Max
<1>3. Max(S) >= m /\ m >= Max(S)
  BY <1>2
<1> QED BY <1>2, <1>3

LEMMA MinOf ==
  ASSUME NEW S, NEW m \in S, \A y \in S : y \in Int, \A y \in S : m <= y
  PROVE  Min(S) = m
<1>1. \E x \in S : \A y \in S : x <= y
  OBVIOUS
<1>2. Min(S) \in S /\ \A y \in S : Min(S) <= y
  BY <1>1 DEF Min
<1>3. Min(S) >= m /\ m >= Min(S)
  BY <1>2
<1> QED BY <1>2, <1>3

LEMMA EndOf ==
  ASSUME NEW f, FileOK(f)
  PROVE  End(f) = f[Len(f)].at + f[Len(f)].span /\ Beyond(f, End(f)) /\ End(f) >= 1
<1> DEFINE S == {s.at + s.span : s \in Range(f)}
           m == f[Len(f)].at + f[Len(f)].span
<1>1. Len(f) \in DOMAIN f
  BY FileFacts
<1>2. \A i \in DOMAIN f : f[i].at + f[i].span <= m /\ f[i].at + f[i].span \in Nat
  <2>1. TAKE i \in DOMAIN f
  <2>2. i = Len(f) \/ i < Len(f)
    BY FileFacts
  <2> QED BY <1>1, <2>2, FileFacts
<1>3. m \in S /\ \A y \in S : y \in Int /\ m >= y
  <2>1. m \in S
    BY <1>1 DEF Range
  <2>2. ASSUME NEW y \in S
        PROVE  y \in Int /\ m >= y
    <3>1. PICK i \in DOMAIN f : y = f[i].at + f[i].span
      BY <2>2 DEF Range
    <3>2. m \in Nat
      BY <1>1, <1>2
    <3> QED BY <1>2, <3>1, <3>2
  <2> QED BY <2>1, <2>2
<1>4. End(f) = Max(S)
  BY DEF End
<1> HIDE DEF S
<1>5. End(f) = m
  BY <1>3, <1>4, MaxOf
<1>6. m >= 1
  BY <1>1, FileFacts
<1> QED BY <1>1, <1>2, <1>5, <1>6 DEF Beyond

LEMMA PlaceOf ==
  ASSUME NEW f, FileOK(f), NEW i \in DOMAIN f, NEW at, f[i].at = at
  PROVE  PlaceAt(f, at) = i
<1>1. \A j \in DOMAIN f : f[j].at = at => j = i
  <2>1. TAKE j \in DOMAIN f
  <2>2. j = i \/ j < i \/ i < j
    BY FileFacts
  <2> QED BY <2>2, FileFacts
<1>2. {j \in DOMAIN f : f[j].at = at} = {i}
  BY <1>1
<1>3. i \in Int
  BY FileFacts
<1>4. Max({i}) = i
  BY <1>3, MaxOf
<1> QED BY <1>2, <1>4 DEF PlaceAt

LEMMA AllWhole ==
  ASSUME NEW f, FileOK(f), NEW i \in DOMAIN f
  PROVE  Whole(f, i)
<1>1. ASSUME NEW j \in DOMAIN f, j > i
      PROVE  ~ Overlap(f[i], f[j])
  <2>1. f[i].at + f[i].span <= f[j].at
    BY <1>1, FileFacts
  <2> QED BY <2>1, FileFacts DEF Overlap
<1> QED BY <1>1 DEF Whole

LEMMA IntactIs ==
  ASSUME FileOK(file), NEW i \in DOMAIN file
  PROVE  Undamaged(i) <=> i \notin DOMAIN damage
BY AllWhole DEF Undamaged

LEMMA LongerThrough ==
  ASSUME NEW f, NEW g, NEW h, FileOK(f), FileOK(g), Longer(f, g), Longer(g, h), Len(h) \in Nat
  PROVE  Longer(f, h)
BY FileFacts DEF Longer

LEMMA LongerSelf ==
  ASSUME NEW f, FileOK(f)
  PROVE  Longer(f, f)
BY FileFacts DEF Longer

(* One more structure. *)
LEMMA OneMore ==
  ASSUME NEW f, FileOK(f), NEW n, Beyond(f, n), NEW span \in Nat \ {0}, NEW kind, NEW value
  PROVE  LET g == Append(f, Structure(kind, n, span, value))
         IN  /\ FileOK(g) /\ Longer(f, g) /\ Beyond(g, n + span)
             /\ Len(g) = Len(f) + 1 /\ g[Len(f) + 1] = Structure(kind, n, span, value)
<1> DEFINE x == Structure(kind, n, span, value)
<1>1. x.kind = kind /\ x.at = n /\ x.span = span /\ x.value = value
  BY DEF Structure
<1> HIDE DEF x
<1>2. PICK g : g = Append(f, x)
  OBVIOUS
<1>3. /\ IsSeq(g) /\ Len(g) = Len(f) + 1 /\ DOMAIN g = 1..(Len(f) + 1)
      /\ \A i \in DOMAIN f : g[i] = f[i]
      /\ g[Len(f) + 1] = x
  BY <1>2, AppendFacts DEF FileOK
<1>4. \A i \in DOMAIN g : i \in DOMAIN f \/ i = Len(f) + 1
  BY <1>3, FileFacts
<1>5. n \in Nat /\ \A i \in DOMAIN f : f[i].at + f[i].span <= n
  BY DEF Beyond
<1>6. Ordered(g)
  <2>1. \A i \in DOMAIN g : g[i].at \in Nat /\ g[i].span \in Nat \ {0}
    BY <1>1, <1>3, <1>4, <1>5, FileFacts
  <2>2. ASSUME NEW i \in DOMAIN g, NEW j \in DOMAIN g, i < j
        PROVE  g[i].at + g[i].span <= g[j].at
    <3>1. i \in DOMAIN f
      BY <1>3, <1>4, <2>2, FileFacts
    <3>2. CASE j \in DOMAIN f
      BY <1>3, <2>2, <3>1, <3>2, FileFacts
    <3>3. CASE j = Len(f) + 1
      BY <1>1, <1>3, <1>5, <3>1, <3>3
    <3> QED BY <1>4, <3>2, <3>3
  <2> QED BY <2>1, <2>2 DEF Ordered
<1>7. FileOK(g)
  <2>1. 1 \in DOMAIN f /\ Len(g) > 0
    BY <1>3, FileFacts
  <2> QED BY <1>3, <1>6, <2>1 DEF FileOK
<1>8. Longer(f, g)
  BY <1>3, FileFacts DEF Longer
<1>9. Beyond(g, n + span)
  <2>1. ASSUME NEW i \in DOMAIN g
        PROVE  g[i].at + g[i].span <= n + span
    <3>1. CASE i \in DOMAIN f
      BY <1>3, <1>5, <3>1, FileFacts
    <3>2. CASE i = Len(f) + 1
      BY <1>1, <1>3, <1>5, <3>2
    <3> QED BY <1>4, <3>1, <3>2
  <2> QED BY <1>5, <2>1 DEF Beyond
<1> QED BY <1>2, <1>3, <1>7, <1>8, <1>9 DEF x

(* The blocks of parity of a stripe. *)
LEMMA Multiples ==
  ASSUME NEW a \in Nat, NEW n \in Nat, NEW j \in Nat, NEW k \in Nat, k < j
  PROVE  /\ k * n \in Nat /\ j * n \in Nat
         /\ a + k * n \in Nat /\ a + k * n + n <= a + j * n
<1>1. k * n \in Nat /\ j * n \in Nat
  OBVIOUS
<1>2. k + 1 <= j
  OBVIOUS
<1>3. (k + 1) * n <= j * n
  BY <1>2
<1>4. (k + 1) * n = k * n + n
  OBVIOUS
<1> QED BY <1>1, <1>3, <1>4

LEMMA ParityAppended ==
  ASSUME NEW f, FileOK(f), NEW size \in Nat \ {0}, NEW kind, NEW content
  PROVE  LET g == AppendParity(f, kind, size, content)
         IN  /\ FileOK(g) /\ Longer(f, g) /\ Len(g) = Len(f) + M
             /\ \A m \in 1..M :
                   /\ Len(f) + m \in DOMAIN g /\ g[Len(f) + m].value = content
                   /\ g[Len(f) + m].span = size /\ g[Len(f) + m].kind = kind
             /\ \A i \in DOMAIN g : i \in DOMAIN f \/ g[i].kind = kind
<1> DEFINE p == [m \in 1..M |-> Structure(kind, End(f) + (m - 1) * size, size, content)]
<1>0. M \in Nat /\ M >= 1 /\ End(f) \in Nat /\ Beyond(f, End(f))
  BY CodeAssumption, EndOf DEF Beyond
<1>1. IsSeq(p) /\ Len(p) = M /\ DOMAIN p = 1..M
  <2>1. PICK S : S = Range(p)
    OBVIOUS
  <2>2. \A m \in 1..M : p[m] \in S
    BY <2>1 DEF Range
  <2>3. p = [m \in 1..M |-> p[m]]
    OBVIOUS
  <2> HIDE DEF p
  <2>4. [m \in 1..M |-> p[m]] \in Seq(S)
    BY <1>0, <2>2
  <2>5. p \in Seq(S)
    BY <2>3, <2>4
  <2>6. DOMAIN p = 1..M
    BY <2>3
  <2>7. Len(p) = M
    BY <1>0, <2>5, <2>6
  <2> QED BY <2>5, <2>6, <2>7, SequenceIs
<1>2. \A m \in 1..M : /\ p[m].kind = kind /\ p[m].at = End(f) + (m - 1) * size
                      /\ p[m].span = size /\ p[m].value = content
  BY DEF Structure
<1> HIDE DEF p
<1>3. PICK g : g = f \o p
  OBVIOUS
<1>4. g = AppendParity(f, kind, size, content)
  BY <1>3 DEF AppendParity, p
<1>5. /\ IsSeq(g) /\ Len(g) = Len(f) + M /\ DOMAIN g = 1..(Len(f) + M)
      /\ \A i \in DOMAIN f : g[i] = f[i]
      /\ \A m \in 1..M : g[Len(f) + m] = p[m]
  <2>1. PICK q : q = p
    OBVIOUS
  <2>2. IsSeq(f) /\ IsSeq(q)
    BY <1>1, <2>1 DEF FileOK
  <2>3. /\ IsSeq(f \o q) /\ Len(f \o q) = Len(f) + Len(q)
        /\ DOMAIN (f \o q) = 1..(Len(f) + Len(q))
        /\ \A i \in DOMAIN f : (f \o q)[i] = f[i]
        /\ \A i \in 1..Len(q) : (f \o q)[Len(f) + i] = q[i]
    BY <2>2, ConcatFacts
  <2>4. g = f \o q /\ Len(q) = M /\ DOMAIN q = 1..M
    BY <1>1, <1>3, <2>1
  <2> QED BY <2>1, <2>3, <2>4
<1>6. \A i \in DOMAIN g : i \in DOMAIN f \/ \E m \in 1..M : i = Len(f) + m
  <2>1. TAKE i \in DOMAIN g
  <2>2. CASE i <= Len(f)
    BY <1>5, <2>2, FileFacts
  <2>3. CASE i > Len(f)
    <3>1. i - Len(f) \in 1..M /\ i = Len(f) + (i - Len(f))
      BY <1>0, <1>5, <2>3, FileFacts
    <3> QED BY <3>1
  <2> QED BY <1>5, <2>2, <2>3, FileFacts
<1>7. \A m \in 1..M : (m - 1) * size \in Nat /\ p[m].at \in Nat /\ End(f) <= p[m].at
  <2>1. TAKE m \in 1..M
  <2>2. m - 1 \in Nat /\ size \in Nat
    OBVIOUS
  <2>3. (m - 1) * size \in Nat
    BY <2>2
  <2> QED BY <1>0, <1>2, <2>3
<1>8. Ordered(g)
  <2>1. \A i \in DOMAIN g : g[i].at \in Nat /\ g[i].span \in Nat \ {0}
    <3>1. TAKE i \in DOMAIN g
    <3>2. CASE i \in DOMAIN f
      BY <1>5, <3>2, FileFacts
    <3>3. CASE \E m \in 1..M : i = Len(f) + m
      BY <1>2, <1>5, <1>7, <3>3
    <3> QED BY <1>6, <3>2, <3>3
  <2>2. ASSUME NEW i \in DOMAIN g, NEW j \in DOMAIN g, i < j
        PROVE  g[i].at + g[i].span <= g[j].at
    <3>1. CASE i \in DOMAIN f /\ j \in DOMAIN f
      BY <1>5, <2>2, <3>1, FileFacts
    <3>2. CASE i \in DOMAIN f /\ j \notin DOMAIN f
      <4>1. PICK m \in 1..M : j = Len(f) + m
        BY <1>6, <3>2
      <4>2. f[i].at + f[i].span <= End(f)
        BY <1>0, <3>2 DEF Beyond
      <4>3. g[i] = f[i] /\ g[j] = p[m] /\ f[i].at \in Nat /\ f[i].span \in Nat
        BY <1>5, <3>2, <4>1, FileFacts
      <4> QED BY <1>0, <1>7, <4>2, <4>3
    <3>3. CASE i \notin DOMAIN f
      <4>1. PICK k \in 1..M : i = Len(f) + k
        BY <1>6, <3>3
      <4>2. j \notin DOMAIN f
        BY <2>2, <4>1, FileFacts
      <4>3. PICK m \in 1..M : j = Len(f) + m
        BY <1>6, <4>2
      <4>4. k - 1 < m - 1 /\ k - 1 \in Nat /\ m - 1 \in Nat /\ size \in Nat
        BY <2>2, <4>1, <4>3, FileFacts
      <4>5. End(f) + (k - 1) * size + size <= End(f) + (m - 1) * size
        BY <1>0, <4>4, Multiples
      <4>6. g[i].at = End(f) + (k - 1) * size /\ g[i].span = size /\ g[j].at = End(f) + (m - 1) * size
        BY <1>2, <1>5, <4>1, <4>3
      <4> QED BY <4>5, <4>6
    <3> QED BY <3>1, <3>2, <3>3
  <2> QED BY <2>1, <2>2 DEF Ordered
<1>9. FileOK(g)
  <2>1. 1 \in DOMAIN f /\ Len(g) > 0
    BY <1>0, <1>5, FileFacts
  <2> QED BY <1>5, <1>8, <2>1 DEF FileOK
<1>10. Longer(f, g)
  BY <1>0, <1>5, FileFacts DEF Longer
<1>11. \A m \in 1..M :
          /\ Len(f) + m \in DOMAIN g /\ g[Len(f) + m].value = content
          /\ g[Len(f) + m].span = size /\ g[Len(f) + m].kind = kind
  <2>1. TAKE m \in 1..M
  <2>2. Len(f) + m \in DOMAIN g
    BY <1>0, <1>5, FileFacts
  <2> QED BY <1>2, <1>5, <2>2
<1>12. \A i \in DOMAIN g : i \in DOMAIN f \/ g[i].kind = kind
  BY <1>2, <1>5, <1>6
<1> QED BY <1>4, <1>5, <1>9, <1>10, <1>11, <1>12

(***************************************************************************)
(* What the file has, a longer file has.                                   *)
(***************************************************************************)
LEMMA AddsFacts ==
  ASSUME NEW f, NEW g, NEW kinds, Adds(f, g, kinds)
  PROVE  /\ FileOK(f) /\ FileOK(g) /\ Longer(f, g)
         /\ \A i \in DOMAIN f : i \in DOMAIN g /\ g[i] = f[i]
         /\ \A i \in DOMAIN g : i \notin DOMAIN f => i > Len(f) /\ g[i].kind \in kinds
<1>1. FileOK(f) /\ FileOK(g) /\ Longer(f, g)
  BY DEF Adds
<1>2. \A i \in DOMAIN f : i \in DOMAIN g /\ g[i] = f[i]
  BY <1>1, FileFacts DEF Longer
<1>3. \A i \in DOMAIN g : i \notin DOMAIN f => i > Len(f)
  BY <1>1, FileFacts
<1> QED BY <1>1, <1>2, <1>3 DEF Adds

LEMMA AddsThrough ==
  ASSUME NEW f, NEW g, NEW h, NEW A, NEW B, NEW C,
         Adds(f, g, A), Adds(g, h, B), A \subseteq C, B \subseteq C
  PROVE  Adds(f, h, C)
<1>1. FileOK(f) /\ FileOK(g) /\ FileOK(h) /\ Longer(f, g) /\ Longer(g, h)
  BY DEF Adds
<1>2. Longer(f, h)
  BY <1>1, LongerThrough, FileFacts
<1>3. ASSUME NEW i \in DOMAIN h, i \notin DOMAIN f
      PROVE  h[i].kind \in C
  <2>1. CASE i \in DOMAIN g
    BY <1>3, <2>1, AddsFacts
  <2>2. CASE i \notin DOMAIN g
    BY <2>2, AddsFacts
  <2> QED BY <2>1, <2>2
<1> QED BY <1>1, <1>2, <1>3 DEF Adds

LEMMA AddsNothing ==
  ASSUME NEW f, FileOK(f), NEW kinds
  PROVE  Adds(f, f, kinds)
BY LongerSelf DEF Adds

LEMMA ShardStays ==
  ASSUME NEW f, NEW g, NEW kinds, Adds(f, g, kinds), NEW e, NEW shard, ShardOK(f, e, shard)
  PROVE  ShardOK(g, e, shard)
<1>1. \A i \in DOMAIN f : i \in DOMAIN g /\ g[i] = f[i]
  BY AddsFacts
<1> QED BY <1>1 DEF ShardOK

LEMMA ParityStays ==
  ASSUME NEW f, NEW g, NEW kinds, Adds(f, g, kinds), NEW at, NEW stripe, ParityOK(f, at, stripe)
  PROVE  ParityOK(g, at, stripe)
<1>1. \A i \in DOMAIN f : i \in DOMAIN g /\ g[i] = f[i]
  BY AddsFacts
<1> QED BY <1>1 DEF ParityOK

LEMMA StripeStays ==
  ASSUME NEW f, NEW g, NEW kinds, Adds(f, g, kinds), NEW n, NEW shard, NEW stripe,
         StripeOK(f, n, shard, stripe)
  PROVE  StripeOK(g, n, shard, stripe)
BY ShardStays, ParityStays DEF StripeOK

LEMMA MapGroupStays ==
  ASSUME NEW f, NEW g, NEW kinds, Adds(f, g, kinds), NEW group, MapGroupOK(f, group)
  PROVE  MapGroupOK(g, group)
BY StripeStays DEF MapGroupOK

LEMMA MapStays ==
  ASSUME NEW f, NEW g, NEW kinds, Adds(f, g, kinds), NEW map, MapOK(f, map)
  PROVE  MapOK(g, map)
BY MapGroupStays DEF MapOK

LEMMA MapsStay ==
  ASSUME NEW f, NEW g, NEW kinds, Adds(f, g, kinds), MapsOK(f),
         \A i \in DOMAIN g \ DOMAIN f : g[i].kind = "ecmb" => MapOK(g, g[i].value)
  PROVE  MapsOK(g)
<1> SUFFICES ASSUME NEW i \in DOMAIN g, g[i].kind = "ecmb"
             PROVE  MapOK(g, g[i].value)
  BY DEF MapsOK
<1>1. CASE i \in DOMAIN f
  <2>1. g[i] = f[i]
    BY <1>1, AddsFacts
  <2>2. MapOK(f, f[i].value)
    BY <1>1, <2>1 DEF MapsOK
  <2> QED BY <2>1, <2>2, MapStays
<1> QED BY <1>1

LEMMA FootersStay ==
  ASSUME NEW f, NEW g, NEW kinds, Adds(f, g, kinds), FootersOK(f),
         \A i \in DOMAIN g \ DOMAIN f : g[i].kind = "footer" =>
            \E j \in DOMAIN g : g[j].kind = "ecmb" /\ g[j].at = g[i].value
  PROVE  FootersOK(g)
<1> SUFFICES ASSUME NEW i \in DOMAIN g, g[i].kind = "footer"
             PROVE  \E j \in DOMAIN g : g[j].kind = "ecmb" /\ g[j].at = g[i].value
  BY DEF FootersOK
<1>1. CASE i \in DOMAIN f
  <2>1. g[i] = f[i]
    BY <1>1, AddsFacts
  <2>2. PICK j \in DOMAIN f : f[j].kind = "ecmb" /\ f[j].at = f[i].value
    BY <1>1, <2>1 DEF FootersOK
  <2>3. j \in DOMAIN g /\ g[j] = f[j]
    BY AddsFacts
  <2> QED BY <2>1, <2>2, <2>3
<1> QED BY <1>1

(* Blocks and parity leave the maps and the footers as they are. *)
LEMMA MapsAndFootersStay ==
  ASSUME NEW f, NEW g, NEW kinds, Adds(f, g, kinds), {"ecmb", "footer"} \cap kinds = {},
         MapsOK(f), FootersOK(f)
  PROVE  MapsOK(g) /\ FootersOK(g)
<1>1. \A i \in DOMAIN g \ DOMAIN f : g[i].kind # "ecmb" /\ g[i].kind # "footer"
  BY AddsFacts
<1> QED BY <1>1, MapsStay, FootersStay

LEMMA TableStays ==
  ASSUME NEW f, NEW g, NEW kinds, Adds(f, g, kinds), NEW s, NEW e, EntryOK(f, s, e)
  PROVE  EntryOK(g, s, e)
<1>1. \A i \in DOMAIN f : i \in DOMAIN g /\ g[i] = f[i]
  BY AddsFacts
<1>2. CASE e.status = "Generable"
  BY <1>2 DEF EntryOK
<1>3. CASE e.status # "Generable"
  <2>1. PICK j \in DOMAIN f :
           f[j].kind = "data" /\ f[j].at = e.at /\ e.offset >= 1 /\ e.offset <= f[j].span
    BY <1>3 DEF EntryOK
  <2>2. (e.status = "Unencrypted") <=> HasKey(s)
    BY <1>3 DEF EntryOK
  <2> QED BY <1>1, <1>3, <2>1, <2>2 DEF EntryOK
<1> QED BY <1>2, <1>3

LEMMA IndexedStays ==
  ASSUME NEW f, NEW g, NEW kinds, Adds(f, g, kinds), NEW i \in DOMAIN f, IndexedAt(f, i)
  PROVE  IndexedAt(g, i)
<1>1. PICK j \in DOMAIN f : /\ j > i /\ f[j].kind = "index"
                            /\ \A k \in (i + 1)..j : f[k].kind # "ecmb"
  BY DEF IndexedAt
<1>2. \A k \in DOMAIN f : k \in DOMAIN g /\ g[k] = f[k]
  BY AddsFacts
<1>3. \A k \in (i + 1)..j : k \in DOMAIN f
  <2>1. FileOK(f)
    BY DEF Adds
  <2> QED BY <2>1, FileFacts
<1> QED BY <1>1, <1>2, <1>3 DEF IndexedAt

(* A block, or the parity of a stripe, at the end. *)
LEMMA OneMoreAdds ==
  ASSUME NEW f, FileOK(f), NEW n, Beyond(f, n), NEW span \in Nat \ {0}, NEW kind, NEW value
  PROVE  /\ Adds(f, Append(f, Structure(kind, n, span, value)), {kind})
         /\ Beyond(Append(f, Structure(kind, n, span, value)), n + span)
<1>1. PICK g : g = Append(f, Structure(kind, n, span, value))
  OBVIOUS
<1>2. /\ FileOK(g) /\ Longer(f, g) /\ Beyond(g, n + span)
      /\ Len(g) = Len(f) + 1 /\ g[Len(f) + 1] = Structure(kind, n, span, value)
  BY <1>1, OneMore
<1>3. \A i \in DOMAIN g : i \in DOMAIN f \/ i = Len(f) + 1
  BY <1>2, FileFacts
<1>4. g[Len(f) + 1].kind = kind
  BY <1>2 DEF Structure
<1> QED BY <1>1, <1>2, <1>3, <1>4 DEF Adds

LEMMA AppendBlockAdds ==
  ASSUME NEW f, FileOK(f), NEW span \in Nat \ {0}, NEW kind, NEW value
  PROVE  LET g == AppendBlock(f, kind, span, value)
         IN  /\ Adds(f, g, {kind}) /\ Len(g) = Len(f) + 1
             /\ g[Len(g)].kind = kind /\ g[Len(g)].at = End(f) /\ g[Len(g)].value = value
             /\ g[Len(g)].span = span
<1>1. Beyond(f, End(f))
  BY EndOf
<1>2. PICK g : g = Append(f, Structure(kind, End(f), span, value))
  OBVIOUS
<1>3. Adds(f, g, {kind}) /\ Len(g) = Len(f) + 1
  BY <1>1, <1>2, OneMoreAdds, OneMore
<1>4. g[Len(g)] = Structure(kind, End(f), span, value)
  BY <1>1, <1>2, <1>3, OneMore
<1> QED BY <1>2, <1>3, <1>4 DEF AppendBlock, Structure

LEMMA ParityAdds ==
  ASSUME NEW f, FileOK(f), NEW size \in Nat \ {0}, NEW kind, NEW content
  PROVE  Adds(f, AppendParity(f, kind, size, content), {kind})
<1>1. PICK g : g = AppendParity(f, kind, size, content)
  OBVIOUS
<1>2. /\ FileOK(g) /\ Longer(f, g)
      /\ \A i \in DOMAIN g : i \in DOMAIN f \/ g[i].kind = kind
  BY <1>1, ParityAppended
<1> QED BY <1>1, <1>2 DEF Adds

(***************************************************************************)
(* Numbers.                                                                *)
(***************************************************************************)
(* By the sets of what is not greater, ordered by inclusion. *)
LEMMA LeastElement ==
  ASSUME NEW T, T \subseteq Nat, T # {}
  PROVE  \E x \in T : \A y \in T : x <= y
<1> DEFINE UpTo(x) == 0..x
           P == {UpTo(x) : x \in T}
           R == StrictSubsetOrdering(Nat)
           F == FiniteSubsetsOf(Nat)
<1>1. P \subseteq F
  <2>1. \A x \in T : 0..x \in SUBSET Nat /\ IsFiniteSet(0..x)
    BY FS_Interval
  <2> QED BY <2>1 DEF FiniteSubsetsOf
<1>2. P # {}
  OBVIOUS
<1>3. IsWellFoundedOn(R, F)
  BY FS_StrictSubsetOrderingWellFounded
<1>4. PICK q \in P : \A r \in P : <<r, q>> \notin R
  <2> HIDE DEF P, R, F
  <2> QED BY <1>1, <1>2, <1>3, WFMin
<1>5. PICK x \in T : q = 0..x
  BY <1>4
<1>6. ASSUME NEW y \in T, y < x
      PROVE  FALSE
  <2>1. 0..y \in P /\ 0..y \in SUBSET Nat /\ 0..x \in SUBSET Nat
    OBVIOUS
  <2>2. 0..y \subseteq 0..x /\ 0..y # 0..x
    <3>1. x \in 0..x /\ x \notin 0..y
      BY <1>6
    <3>2. \A z \in 0..y : z \in 0..x
      BY <1>6
    <3> QED BY <3>1, <3>2
  <2>3. <<0..y, 0..x>> \in R
    BY <2>1, <2>2 DEF StrictSubsetOrdering
  <2> QED BY <1>4, <1>5, <2>1, <2>3
<1>7. \A y \in T : x <= y
  BY <1>6
<1> QED BY <1>7

LEMMA InductionUpTo ==
  ASSUME NEW m \in Nat, NEW S, 0 \in S, \A n \in 0..(m - 1) : n \in S => n + 1 \in S
  PROVE  0..m \subseteq S
<1> DEFINE T == S \cup {n \in Nat : n > m}
<1>1. 0 \in T /\ \A n \in Nat : n \in T => n + 1 \in T
  OBVIOUS
<1>2. ASSUME Nat \ T # {}
      PROVE  FALSE
  <2>1. PICK x \in Nat \ T : \A y \in Nat \ T : x <= y
    BY <1>2, LeastElement
  <2>2. x # 0 /\ x - 1 \in Nat
    BY <1>1, <2>1
  <2>3. x - 1 \in T
    BY <2>1, <2>2
  <2> HIDE DEF T
  <2> QED BY <1>1, <2>1, <2>2, <2>3
<1> QED BY <1>2

LEMMA MaxIn ==
  ASSUME NEW S, S \subseteq Nat, S # {}, NEW b \in Nat, \A x \in S : x <= b
  PROVE  Max(S) \in S /\ \A x \in S : x <= Max(S)
<1> DEFINE T == {b - x : x \in S}
<1>1. T \subseteq Nat /\ T # {}
  <2>1. \A x \in S : b - x \in Nat
    OBVIOUS
  <2> QED BY <2>1
<1>2. PICK t \in T : \A x \in T : t <= x
  <2> HIDE DEF T
  <2> QED BY <1>1, LeastElement
<1>3. PICK m \in S : t = b - m
  OBVIOUS
<1>4. \A x \in S : x <= m
  <2>1. TAKE x \in S
  <2>2. b - m <= b - x
    BY <1>2, <1>3
  <2>3. m \in Nat /\ x \in Nat
    OBVIOUS
  <2> QED BY <2>2, <2>3
<1>5. \E x \in S : \A y \in S : x >= y
  BY <1>4
<1>6. Max(S) \in S /\ \A y \in S : Max(S) >= y
  BY <1>5 DEF Max
<1> QED BY <1>6

LEMMA MinIn ==
  ASSUME NEW S, S \subseteq Nat, S # {}
  PROVE  Min(S) \in S /\ \A x \in S : Min(S) <= x
<1>1. PICK m \in S : \A x \in S : m <= x
  BY LeastElement
<1> QED BY <1>1 DEF Min

LEMMA LargestIs ==
  ASSUME NEW q, IsSeq(q), q # <<>>, NEW b \in Nat,
         \A k \in DOMAIN q : q[k].size \in Nat \ {0} /\ q[k].size <= b
  PROVE  /\ Largest(q) \in Nat \ {0}
         /\ Largest(q) <= b
         /\ \A k \in DOMAIN q : q[k].size <= Largest(q)
<1> DEFINE S == {q[k].size : k \in DOMAIN q}
<1>1. 1 \in DOMAIN q
  BY DEF IsSeq
<1>2. S \subseteq Nat /\ S # {} /\ \A x \in S : x # 0 /\ x <= b
  BY <1>1
<1>3. \A k \in DOMAIN q : q[k].size \in S
  OBVIOUS
<1>4. Largest(q) = Max(S)
  BY DEF Largest
<1> HIDE DEF S
<1>5. Max(S) \in S /\ \A x \in S : x <= Max(S)
  BY <1>2, MaxIn
<1> QED BY <1>2, <1>3, <1>4, <1>5

(***************************************************************************)
(* The writer.                                                             *)
(***************************************************************************)
LEMMA WriterFacts ==
  ASSUME NEW f, NEW w, WriterOK(f, w)
  PROVE  /\ w = [next |-> w.next, enabled |-> w.enabled, shard |-> w.shard, parity |-> w.parity,
                 slot |-> w.slot, stripes |-> w.stripes]
         /\ w.next \in Nat /\ w.enabled \in BOOLEAN /\ w.shard \in Nat
         /\ w.parity \in SUBSET (Nat \X Nat) /\ w.slot \in Seq(Shard)
         /\ w.stripes \in Seq(StripeType)
BY DEF WriterOK, WriterType

LEMMA ShardWidens ==
  ASSUME NEW f, NEW e, NEW a \in Nat, NEW b \in Nat, a <= b, ShardOK(f, e, a)
  PROVE  ShardOK(f, e, b)
BY DEF ShardOK

LEMMA StripeWidens ==
  ASSUME NEW f, NEW stripe, NEW a \in Nat, NEW b \in Nat, a <= b, NEW n, StripeOK(f, n, a, stripe)
  PROVE  StripeOK(f, n, b, stripe)
BY ShardWidens DEF StripeOK

(* The writer of a longer file, with the position moved. *)
LEMMA WriterStays ==
  ASSUME NEW f, NEW g, NEW kinds, Adds(f, g, kinds), NEW w, WriterOK(f, w)
  PROVE  WriterOK(g, w)
<1>1. SlotOK(g, w.slot, w.shard)
  BY ShardStays DEF WriterOK, SlotOK
<1>2. \A s \in DOMAIN w.stripes : StripeOK(g, K, w.shard, w.stripes[s])
  BY StripeStays DEF WriterOK
<1> QED BY <1>1, <1>2 DEF WriterOK

LEMMA WriterMoved ==
  ASSUME NEW f, NEW w, WriterOK(f, w), NEW n \in Nat
  PROVE  /\ WriterOK(f, [w EXCEPT !.next = n])
         /\ [w EXCEPT !.next = n].next = n
         /\ [w EXCEPT !.next = n].slot = w.slot
         /\ [w EXCEPT !.next = n].enabled = w.enabled
<1>1. PICK v : v = [w EXCEPT !.next = n]
  OBVIOUS
<1>2. /\ v = [next |-> n, enabled |-> w.enabled, shard |-> w.shard, parity |-> w.parity,
              slot |-> w.slot, stripes |-> w.stripes]
  BY <1>1, WriterFacts
<1>3. v \in WriterType
  BY <1>2, WriterFacts DEF WriterType
<1>4. /\ v.next = n /\ v.enabled = w.enabled /\ v.shard = w.shard /\ v.parity = w.parity
      /\ v.slot = w.slot /\ v.stripes = w.stripes
  BY <1>2
<1>5. WriterOK(f, v)
  BY <1>3, <1>4 DEF WriterOK
<1> QED BY <1>1, <1>4, <1>5

Fresh(w, n, b) == w = [NewWriter(n) EXCEPT !.enabled = b]

LEMMA NewWriterOK ==
  ASSUME NEW f, NEW n \in Nat, NEW b \in BOOLEAN, NEW w, Fresh(w, n, b)
  PROVE  WriterOK(f, w) /\ w.next = n /\ w.slot = <<>> /\ (w.enabled <=> b)
<1>1. w = [next |-> n, enabled |-> b, shard |-> 0, parity |-> {}, slot |-> <<>>, stripes |-> <<>>]
  BY DEF NewWriter, Fresh
<1>2. w.next = n /\ (w.enabled <=> b) /\ w.shard = 0 /\ w.parity = {} /\ w.slot = <<>> /\ w.stripes = <<>>
  BY <1>1
<1>3. w \in WriterType
  <2>1. <<>> \in Seq(Shard) /\ <<>> \in Seq(StripeType) /\ {} \in SUBSET (Nat \X Nat) /\ 0 \in Nat
    OBVIOUS
  <2>2. \A x \in Nat, c \in BOOLEAN, y \in Nat, p \in SUBSET (Nat \X Nat), q \in Seq(Shard),
           r \in Seq(StripeType) :
          [next |-> x, enabled |-> c, shard |-> y, parity |-> p, slot |-> q, stripes |-> r]
             \in WriterType
    BY Zenon DEF WriterType
  <2>3. [next |-> n, enabled |-> b, shard |-> 0, parity |-> {}, slot |-> <<>>, stripes |-> <<>>]
           \in WriterType
    BY <2>1, <2>2
  <2> QED BY <1>1, <2>3, Zenon
<1>4. DOMAIN w.slot = {} /\ DOMAIN w.stripes = {}
  BY <1>2
<1>5. SlotOK(f, w.slot, w.shard) /\ w.parity = Fed(w.slot)
  BY <1>2, <1>4 DEF SlotOK, Fed
<1> QED BY <1>2, <1>3, <1>4, <1>5 DEF WriterOK

LEMMA FreshIs ==
  ASSUME NEW n
  PROVE  Fresh(NewWriter(n), n, FALSE)
<1>1. PICK v : v = NewWriter(n)
  OBVIOUS
<1>2. v = [next |-> n, enabled |-> FALSE, shard |-> 0, parity |-> {}, slot |-> <<>>,
           stripes |-> <<>>]
  BY <1>1 DEF NewWriter
<1>3. PICK w : w = [v EXCEPT !.enabled = FALSE]
  OBVIOUS
<1>4. w = [next |-> n, enabled |-> FALSE, shard |-> 0, parity |-> {}, slot |-> <<>>,
           stripes |-> <<>>]
  BY <1>2, <1>3
<1> QED BY <1>1, <1>2, <1>3, <1>4 DEF Fresh

LEMMA AccumulatedOK ==
  ASSUME NEW f, FileOK(f), NEW w, WriterOK(f, w), w.enabled, Len(w.slot) < K,
         NEW at, NEW size \in Nat \ {0}, NEW value \in Nat,
         NEW i \in DOMAIN f, f[i].at = at, f[i].span = size, f[i].value = value
  PROVE  LET v == Accumulated(w, at, size, value)
         IN  /\ WriterOK(f, v) /\ v.next = w.next /\ v.enabled
             /\ Len(v.slot) = Len(w.slot) + 1 /\ Len(v.slot) <= K /\ v.slot # <<>>
<1> DEFINE shard == ShardFor(w.shard, size)
           e == [at |-> at, size |-> size, crc |-> Crc(value, size)]
           parity == rs_encode_incremental(w.parity, Len(w.slot) + 1, value)
<1>1. shard \in Nat /\ w.shard <= shard /\ size <= shard
  BY WriterFacts DEF ShardFor
<1>2. e \in Shard /\ e.at = at /\ e.size = size /\ e.crc = Crc(value, size) /\ e.crc.value = value
      /\ e.crc = Crc(e.crc.value, e.size)
  BY FileFacts DEF Shard, Crc
<1>3. ShardOK(f, e, shard)
  BY <1>1, <1>2 DEF ShardOK
<1>4. PICK slot : slot = Append(w.slot, e)
  OBVIOUS
<1>5. /\ slot \in Seq(Shard) /\ Len(slot) = Len(w.slot) + 1 /\ Len(w.slot) \in Nat
      /\ DOMAIN slot = 1..(Len(w.slot) + 1) /\ DOMAIN w.slot = 1..Len(w.slot)
      /\ \A k \in DOMAIN w.slot : slot[k] = w.slot[k]
      /\ slot[Len(w.slot) + 1] = e
  <2> HIDE DEF e
  <2> QED BY <1>2, <1>4, WriterFacts
<1>6. w.parity = Fed(w.slot) /\ SlotOK(f, w.slot, w.shard)
  BY DEF WriterOK
<1>7. parity = Fed(slot)
  <2>1. <<Len(w.slot) + 1, value>> \notin Fed(w.slot)
    BY <1>5 DEF Fed
  <2>2. parity = Fed(w.slot) \cup {<<Len(w.slot) + 1, value>>}
    BY <1>6, <2>1 DEF rs_encode_incremental, SymDiff
  <2>3. \A k \in DOMAIN slot : k \in DOMAIN w.slot \/ k = Len(w.slot) + 1
    BY <1>5
  <2>4. \A k \in DOMAIN w.slot : k \in DOMAIN slot
    BY <1>5
  <2>5. Len(w.slot) + 1 \in DOMAIN slot
    BY <1>5
  <2>6. slot[Len(w.slot) + 1].crc.value = value
    BY <1>2, <1>5
  <2>7. ASSUME NEW x
        PROVE  x \in Fed(slot) <=> x \in Fed(w.slot) \cup {<<Len(w.slot) + 1, value>>}
    BY <1>5, <2>3, <2>4, <2>5, <2>6 DEF Fed
  <2> HIDE DEF parity
  <2> QED BY <2>2, <2>7
<1>8. SlotOK(f, slot, shard)
  <2>1. ASSUME NEW k \in DOMAIN slot
        PROVE  ShardOK(f, slot[k], shard) /\ slot[k].crc = Crc(slot[k].crc.value, slot[k].size)
    <3>1. CASE k \in DOMAIN w.slot
      <4>1. ShardOK(f, w.slot[k], w.shard) /\ w.slot[k].crc = Crc(w.slot[k].crc.value, w.slot[k].size)
        BY <1>6, <3>1 DEF SlotOK
      <4>2. w.shard \in Nat
        BY WriterFacts
      <4>3. ShardOK(f, w.slot[k], shard)
        BY <1>1, <4>1, <4>2, ShardWidens
      <4> QED BY <1>5, <3>1, <4>1, <4>3
    <3>2. CASE k = Len(w.slot) + 1
      BY <1>2, <1>3, <1>5, <3>2
    <3> QED BY <1>5, <3>1, <3>2
  <2> QED BY <2>1 DEF SlotOK
<1>9. \A s \in DOMAIN w.stripes : StripeOK(f, K, shard, w.stripes[s]) /\ OwnCrc(w.stripes[s])
  <2>1. TAKE s \in DOMAIN w.stripes
  <2>2. StripeOK(f, K, w.shard, w.stripes[s]) /\ OwnCrc(w.stripes[s])
    BY DEF WriterOK
  <2>3. w.shard \in Nat
    BY WriterFacts
  <2> QED BY <1>1, <2>2, <2>3, StripeWidens
<1>10. parity \in SUBSET (Nat \X Nat)
  <2>1. <<Len(w.slot) + 1, value>> \in Nat \X Nat
    BY <1>5
  <2> QED BY <2>1, WriterFacts DEF rs_encode_incremental, SymDiff
<1>11. PICK v : v = Accumulated(w, at, size, value)
  OBVIOUS
<1>12. v = [next |-> w.next, enabled |-> w.enabled, shard |-> shard, parity |-> parity,
            slot |-> slot, stripes |-> w.stripes]
  <2>1. v = [w EXCEPT !.shard = shard, !.slot = slot, !.parity = parity]
    BY <1>4, <1>11 DEF Accumulated
  <2> HIDE DEF shard, parity
  <2>2. PICK x, y : x = shard /\ y = parity
    OBVIOUS
  <2>3. v = [w EXCEPT !.shard = x, !.slot = slot, !.parity = y]
    BY <2>1, <2>2
  <2>4. w = [next |-> w.next, enabled |-> w.enabled, shard |-> w.shard, parity |-> w.parity,
             slot |-> w.slot, stripes |-> w.stripes]
    BY WriterFacts
  <2>5. v = [next |-> w.next, enabled |-> w.enabled, shard |-> x, parity |-> y,
             slot |-> slot, stripes |-> w.stripes]
    BY <2>3, <2>4
  <2> QED BY <2>2, <2>5
<1> HIDE DEF shard, parity
<1>13. /\ v.next = w.next /\ v.enabled = w.enabled /\ v.shard = shard /\ v.parity = parity
       /\ v.slot = slot /\ v.stripes = w.stripes
  BY <1>12
<1>14. v \in WriterType
  BY <1>1, <1>5, <1>10, <1>12, WriterFacts DEF WriterType
<1>15. v.enabled
  BY <1>13
<1>16. WriterOK(f, v)
  BY <1>7, <1>8, <1>9, <1>13, <1>14, <1>15 DEF WriterOK
<1>17. Len(v.slot) = Len(w.slot) + 1 /\ Len(v.slot) <= K /\ v.slot # <<>>
  BY <1>5, <1>13, CodeAssumption
<1> QED BY <1>11, <1>13, <1>15, <1>16, <1>17

(* The parity of the slot goes to the end of the file, and a descriptor of *)
(* its stripe to the writer.                                               *)
LEMMA FlushOK ==
  ASSUME NEW y, FileOK(y.file), WriterOK(y.file, y.writer), y.writer.slot # <<>>,
         Len(y.writer.slot) <= K, y.writer.enabled
  PROVE  LET r == ec_flush_data_stripe(y)
         IN  /\ Adds(y.file, r.file, {"parity"}) /\ WriterOK(r.file, r.writer)
             /\ r.writer.slot = <<>> /\ r.writer.next = End(r.file) /\ r.writer.enabled
<1>1. PICK f, w : f = y.file /\ w = y.writer
  OBVIOUS
<1>2. /\ FileOK(f) /\ WriterOK(f, w) /\ w.slot # <<>> /\ Len(w.slot) <= K /\ w.enabled
  BY <1>1
<1>3. /\ w.slot \in Seq(Shard) /\ IsSeq(w.slot) /\ DOMAIN w.slot = 1..Len(w.slot)
      /\ Len(w.slot) \in Nat /\ w.shard \in Nat
  BY <1>2, WriterFacts, SequenceIs
<1>4. \A k \in DOMAIN w.slot : /\ w.slot[k] \in Shard /\ w.slot[k].size \in Nat \ {0}
                               /\ w.slot[k].size <= w.shard
  <2>1. TAKE k \in DOMAIN w.slot
  <2>2. w.slot[k] \in Shard
    BY <1>3
  <2>3. w.slot[k].size \in Nat \ {0}
    BY <2>2 DEF Shard
  <2>4. ShardOK(f, w.slot[k], w.shard)
    BY <1>2 DEF WriterOK, SlotOK
  <2> QED BY <2>2, <2>3, <2>4 DEF ShardOK
<1>5. PICK size \in Nat \ {0} : size = Largest(w.slot)
  BY <1>2, <1>3, <1>4, LargestIs
<1>6. PICK g : g = AppendParity(f, "parity", size, w.parity)
  OBVIOUS
<1>7. /\ Adds(f, g, {"parity"}) /\ FileOK(g) /\ End(g) \in Nat
      /\ \A m \in 1..M : /\ Len(f) + m \in DOMAIN g /\ g[Len(f) + m].value = w.parity
                         /\ g[Len(f) + m].span = size
  <2>1. Adds(f, g, {"parity"}) /\ FileOK(g)
    BY <1>2, <1>6, ParityAdds, AddsFacts
  <2>2. \A m \in 1..M : /\ Len(f) + m \in DOMAIN g /\ g[Len(f) + m].value = w.parity
                        /\ g[Len(f) + m].span = size
    BY <1>2, <1>6, ParityAppended
  <2> QED BY <2>1, <2>2, EndOf DEF Beyond
<1>8. PICK offsets : offsets = ParityOffsets(f, g)
  OBVIOUS
<1>9. offsets \in [1..M -> Nat] /\ \A m \in 1..M : offsets[m] = g[Len(f) + m].at
  <2>1. \A m \in 1..M : g[Len(f) + m].at \in Nat
    BY <1>7, FileFacts
  <2> QED BY <1>8, <2>1 DEF ParityOffsets
<1>10. PICK stripe : stripe = Stripe(w, offsets)
  OBVIOUS
<1>11. stripe \in StripeType /\ stripe.data = w.slot /\ stripe.parity = offsets
  BY <1>3, <1>9, <1>10 DEF Stripe, StripeType
<1>12. StripeOK(g, K, w.shard, stripe) /\ OwnCrc(stripe)
  <2>1. w.parity = Encoded(stripe)
    BY <1>2, <1>11 DEF WriterOK, Fed, Encoded
  <2>2. \A m \in 1..M : ParityOK(g, stripe.parity[m], stripe)
    BY <1>5, <1>7, <1>9, <1>11, <2>1 DEF ParityOK
  <2>3. SlotOK(g, w.slot, w.shard)
    BY <1>2, <1>7, WriterStays DEF WriterOK
  <2>4. \A k \in DOMAIN stripe.data : ShardOK(g, stripe.data[k], w.shard)
    BY <1>11, <2>3 DEF SlotOK
  <2>5. OwnCrc(stripe)
    BY <1>11, <2>3 DEF SlotOK, OwnCrc
  <2> QED BY <1>2, <1>3, <1>11, <2>2, <2>4, <2>5 DEF StripeOK
<1>13. PICK stripes : stripes = Append(w.stripes, stripe)
  OBVIOUS
<1>14. /\ stripes \in Seq(StripeType) /\ DOMAIN stripes = 1..(Len(w.stripes) + 1)
       /\ DOMAIN w.stripes = 1..Len(w.stripes) /\ Len(w.stripes) \in Nat
       /\ \A s \in DOMAIN w.stripes : stripes[s] = w.stripes[s]
       /\ stripes[Len(w.stripes) + 1] = stripe
  BY <1>2, <1>11, <1>13, WriterFacts
<1>15. \A s \in DOMAIN stripes : StripeOK(g, K, w.shard, stripes[s]) /\ OwnCrc(stripes[s])
  <2>1. TAKE s \in DOMAIN stripes
  <2>2. CASE s \in DOMAIN w.stripes
    <3>1. StripeOK(g, K, w.shard, w.stripes[s]) /\ OwnCrc(w.stripes[s])
      BY <1>2, <1>7, <2>2, WriterStays DEF WriterOK
    <3> QED BY <1>14, <2>2, <3>1
  <2>3. CASE s = Len(w.stripes) + 1
    BY <1>12, <1>14, <2>3
  <2> QED BY <1>14, <2>2, <2>3
<1>16. PICK v : v = ResetSlot([w EXCEPT !.next = End(g), !.stripes = stripes])
  OBVIOUS
<1>17. v = [next |-> End(g), enabled |-> w.enabled, shard |-> w.shard, parity |-> {},
            slot |-> <<>>, stripes |-> stripes]
  <2>1. w = [next |-> w.next, enabled |-> w.enabled, shard |-> w.shard, parity |-> w.parity,
             slot |-> w.slot, stripes |-> w.stripes]
    BY <1>2, WriterFacts
  <2>2. PICK n : n = End(g)
    OBVIOUS
  <2>3. PICK u : u = [w EXCEPT !.next = n, !.stripes = stripes]
    OBVIOUS
  <2>4. u = [next |-> n, enabled |-> w.enabled, shard |-> w.shard, parity |-> w.parity,
             slot |-> w.slot, stripes |-> stripes]
    BY <2>1, <2>3
  <2>5. v = [u EXCEPT !.slot = <<>>, !.parity = {}]
    BY <1>16, <2>2, <2>3 DEF ResetSlot
  <2>6. v = [next |-> n, enabled |-> w.enabled, shard |-> w.shard, parity |-> {},
             slot |-> <<>>, stripes |-> stripes]
    BY <2>4, <2>5
  <2> QED BY <2>2, <2>6
<1>18. /\ v.next = End(g) /\ v.enabled = w.enabled /\ v.shard = w.shard /\ v.parity = {}
       /\ v.slot = <<>> /\ v.stripes = stripes
  BY <1>17
<1>19. v \in WriterType
  <2>1. <<>> \in Seq(Shard) /\ {} \in SUBSET (Nat \X Nat) /\ End(g) \in Nat /\ w.enabled \in BOOLEAN
    BY <1>2, <1>7, WriterFacts
  <2>2. PICK n \in Nat : n = End(g)
    BY <2>1
  <2> QED BY <1>3, <1>14, <1>17, <2>1, <2>2 DEF WriterType
<1>20. v.enabled
  BY <1>2, <1>18
<1>21. WriterOK(g, v)
  <2>1. DOMAIN v.slot = {}
    BY <1>18
  <2>2. SlotOK(g, v.slot, v.shard) /\ v.parity = Fed(v.slot)
    BY <1>18, <2>1 DEF SlotOK, Fed
  <2> QED BY <1>15, <1>18, <1>19, <1>20, <2>2 DEF WriterOK
<1>22. ec_flush_data_stripe(y) = [file |-> g, writer |-> v]
  <2>1. ec_flush_data_stripe(y) = RecordStripe(y, g)
    BY <1>1, <1>5, <1>6 DEF ec_flush_data_stripe
  <2>2. [y.writer EXCEPT !.next = End(g),
                          !.stripes = Append(@, Stripe(y.writer, ParityOffsets(y.file, g)))]
          = [w EXCEPT !.next = End(g), !.stripes = stripes]
    BY <1>1, <1>8, <1>10, <1>13
  <2> QED BY <1>16, <2>1, <2>2 DEF RecordStripe
<1> QED BY <1>1, <1>7, <1>18, <1>20, <1>21, <1>22

LEMMA BeyondMore ==
  ASSUME NEW f, FileOK(f), NEW n, Beyond(f, n), NEW k \in Nat
  PROVE  Beyond(f, n + k)
<1>1. n \in Nat /\ \A i \in DOMAIN f : f[i].at + f[i].span <= n
  BY DEF Beyond
<1>2. ASSUME NEW i \in DOMAIN f
      PROVE  f[i].at + f[i].span <= n + k
  <2>1. f[i].at + f[i].span <= n /\ f[i].at \in Nat /\ f[i].span \in Nat
    BY <1>1, FileFacts
  <2> QED BY <1>1, <2>1
<1> QED BY <1>1, <1>2 DEF Beyond

LEMMA AccumulateOK ==
  ASSUME NEW y, FileOK(y.file), WriterOK(y.file, y.writer), Len(y.writer.slot) < K,
         NEW at, NEW size \in Nat \ {0}, NEW value \in Nat, NEW i \in DOMAIN y.file,
         y.file[i].at = at, y.file[i].span = size, y.file[i].value = value,
         y = [file |-> y.file, writer |-> y.writer],
         Beyond(y.file, y.writer.next + size), y.writer.next \in Nat
  PROVE  LET r == ec_accumulate_data_block(y, at, size, value)
         IN  /\ r = [file |-> r.file, writer |-> r.writer]
             /\ Adds(y.file, r.file, {"parity"}) /\ WriterOK(r.file, r.writer)
             /\ Len(r.writer.slot) < K /\ r.writer.next \in Nat
             /\ Beyond(r.file, r.writer.next + size)
<1>1. PICK f, w : f = y.file /\ w = y.writer
  OBVIOUS
<1>2. /\ FileOK(f) /\ WriterOK(f, w) /\ Len(w.slot) < K /\ y = [file |-> f, writer |-> w]
      /\ f[i].at = at /\ f[i].span = size /\ f[i].value = value /\ i \in DOMAIN f
      /\ Beyond(f, w.next + size) /\ w.next \in Nat
  BY <1>1
<1>3. CASE ~ w.enabled
  <2>1. ec_accumulate_data_block(y, at, size, value) = y
    BY <1>1, <1>3 DEF ec_accumulate_data_block
  <2> QED BY <1>1, <1>2, <2>1, AddsNothing
<1>4. CASE w.enabled
  <2>1. PICK v : v = Accumulated(w, at, size, value)
    OBVIOUS
  <2>2. /\ WriterOK(f, v) /\ v.next = w.next /\ v.enabled
        /\ Len(v.slot) = Len(w.slot) + 1 /\ Len(v.slot) <= K /\ v.slot # <<>>
    BY <1>2, <1>4, <2>1, AccumulatedOK
  <2>3. PICK z : z = [file |-> f, writer |-> v]
    OBVIOUS
  <2>4. z.file = f /\ z.writer = v
    BY <2>3
  <2>5. ec_accumulate_data_block(y, at, size, value) = FlushIfFull(z)
    <3>1. [y EXCEPT !.writer = v] = z
      BY <1>2, <2>3
    <3> QED BY <1>1, <1>4, <2>1, <3>1 DEF ec_accumulate_data_block
  <2>6. CASE Len(v.slot) = K
    <3>1. PICK r : r = ec_flush_data_stripe(z)
      OBVIOUS
    <3>2. /\ Adds(f, r.file, {"parity"}) /\ WriterOK(r.file, r.writer)
          /\ r.writer.slot = <<>> /\ r.writer.next = End(r.file)
      BY <1>2, <2>2, <2>4, <3>1, FlushOK
    <3>3. r = [file |-> r.file, writer |-> r.writer]
      BY <3>1 DEF ec_flush_data_stripe, RecordStripe
    <3>4. Len(r.writer.slot) < K
      BY <3>2, CodeAssumption
    <3>5. FileOK(r.file)
      BY <3>2, AddsFacts
    <3>6. End(r.file) \in Nat /\ Beyond(r.file, End(r.file))
      BY <3>5, EndOf DEF Beyond
    <3>7. Beyond(r.file, End(r.file) + size)
      BY <3>5, <3>6, BeyondMore
    <3>8. ec_accumulate_data_block(y, at, size, value) = r
      BY <2>4, <2>5, <2>6, <3>1 DEF FlushIfFull
    <3> QED BY <1>1, <3>2, <3>3, <3>4, <3>6, <3>7, <3>8
  <2>7. CASE Len(v.slot) # K
    <3>1. ec_accumulate_data_block(y, at, size, value) = z
      BY <2>4, <2>5, <2>7 DEF FlushIfFull
    <3>2. Len(v.slot) < K
      BY <2>2, <2>7, WriterFacts, CodeAssumption
    <3>3. Adds(f, f, {"parity"})
      BY <1>2, AddsNothing
    <3> QED BY <1>1, <1>2, <2>2, <2>3, <2>4, <3>1, <3>2, <3>3
  <2> QED BY <2>6, <2>7
<1> QED BY <1>3, <1>4

LEMMA BlockWritten ==
  ASSUME NEW f, FileOK(f), NEW w, WriterOK(f, w), Len(w.slot) < K, Beyond(f, w.next),
         NEW n \in Nat \ {0}, NEW memory \in BOOLEAN,
         NEW y, y = [file |-> f, writer |-> w]
  PROVE  LET r == close_current_block(y, n, w.next, memory)
         IN  /\ Adds(f, r.file, {"data", "parity"}) /\ WriterOK(r.file, r.writer)
             /\ Len(r.writer.slot) < K /\ Beyond(r.file, r.writer.next)
             /\ \E j \in DOMAIN r.file :
                   r.file[j].kind = "data" /\ r.file[j].at = w.next /\ r.file[j].span = n
<1>1. PICK x : x = w.next
  OBVIOUS
<1>2. x \in Nat
  BY <1>1 DEF Beyond
<1>3. PICK g : g = Append(f, Structure("data", x, n, x))
  OBVIOUS
<1>4. /\ Adds(f, g, {"data"}) /\ FileOK(g) /\ Beyond(g, x + n) /\ Len(g) = Len(f) + 1
      /\ g[Len(f) + 1] = Structure("data", x, n, x)
  BY <1>1, <1>3, OneMoreAdds, OneMore
<1>5. PICK j : j = Len(f) + 1
  OBVIOUS
<1>6. j \in DOMAIN g /\ g[j].kind = "data" /\ g[j].at = x /\ g[j].span = n /\ g[j].value = x
  BY <1>4, <1>5, FileFacts DEF Structure
<1>7. PICK z : z = [file |-> g, writer |-> w]
  OBVIOUS
<1>8. z.file = g /\ z.writer = w /\ PutData(y, n, w.next) = z
  <2>1. y.file = f /\ y.writer = w
    OBVIOUS
  <2>2. PutData(y, n, w.next) = [y EXCEPT !.file = g]
    BY <1>1, <1>3, <2>1 DEF PutData
  <2> QED BY <1>7, <2>2
<1>9. WriterOK(g, w)
  BY <1>4, WriterStays
<1>10. PICK r : r = IF memory THEN ec_accumulate_data_block(z, x, n, x) ELSE z
  OBVIOUS
<1>11. /\ r = [file |-> r.file, writer |-> r.writer]
       /\ Adds(g, r.file, {"parity"}) /\ WriterOK(r.file, r.writer)
       /\ Len(r.writer.slot) < K /\ r.writer.next \in Nat
       /\ Beyond(r.file, r.writer.next + n)
  <2>1. CASE memory
    <3>1. /\ FileOK(z.file) /\ WriterOK(z.file, z.writer) /\ Len(z.writer.slot) < K
          /\ j \in DOMAIN z.file /\ z.file[j].at = x /\ z.file[j].span = n /\ z.file[j].value = x
          /\ z = [file |-> z.file, writer |-> z.writer]
          /\ Beyond(z.file, z.writer.next + n) /\ z.writer.next \in Nat
      BY <1>1, <1>2, <1>4, <1>6, <1>7, <1>8, <1>9
    <3>2. r = ec_accumulate_data_block(z, x, n, x)
      BY <1>10, <2>1
    <3> QED BY <1>2, <1>8, <3>1, <3>2, AccumulateOK
  <2>2. CASE ~ memory
    <3>1. r = z
      BY <1>10, <2>2
    <3>2. Adds(g, g, {"parity"})
      BY <1>4, AddsNothing
    <3> QED BY <1>1, <1>2, <1>4, <1>7, <1>8, <1>9, <3>1, <3>2
  <2> QED BY <2>1, <2>2
<1>12. PICK v : v = [r.writer EXCEPT !.next = r.writer.next + n]
  OBVIOUS
<1>13. WriterOK(r.file, v) /\ v.next = r.writer.next + n /\ v.slot = r.writer.slot
  <2>1. r.writer.next + n \in Nat
    BY <1>11
  <2> QED BY <1>11, <1>12, <2>1, WriterMoved
<1>14. close_current_block(y, n, w.next, memory) = [file |-> r.file, writer |-> v]
  <2>1. y.writer = w
    OBVIOUS
  <2>2. close_current_block(y, n, w.next, memory) = Advance(r, n)
    BY <1>1, <1>8, <1>10, <2>1 DEF close_current_block
  <2>3. Advance(r, n) = [r EXCEPT !.writer.next = r.writer.next + n]
    BY DEF Advance
  <2>4. PICK p, q : p = r.file /\ q = r.writer
    OBVIOUS
  <2>5. r = [file |-> p, writer |-> q] /\ v = [q EXCEPT !.next = q.next + n]
    BY <1>11, <1>12, <2>4
  <2>6. [r EXCEPT !.writer.next = q.next + n] = [file |-> p, writer |-> v]
    BY <2>5
  <2> QED BY <2>2, <2>3, <2>4, <2>6
<1>15. Adds(f, r.file, {"data", "parity"})
  BY <1>4, <1>11, AddsThrough
<1>16. j \in DOMAIN r.file /\ r.file[j] = g[j]
  BY <1>6, <1>11, AddsFacts
<1> QED BY <1>1, <1>6, <1>11, <1>13, <1>14, <1>15, <1>16

(***************************************************************************)
(* The recursive functions of the model, step by step.                     *)
(***************************************************************************)
(* AppendBlocks: what is appended to u by the m-th of the blocks. *)
BlocksStep(f, blocks, u, m) ==
    AppendBlock(u, blocks[m].kind, blocks[m].span, <<blocks[m].kind, sessions, m>>)

BlocksUpTo(f, blocks, u, n) ==
    u = [m \in 0..n |-> IF m = 0 THEN f ELSE BlocksStep(f, blocks, u[m - 1], m)]

LEMMA BlocksSteps ==
  ASSUME NEW f, NEW blocks, IsSeq(blocks)
  PROVE  \E u : /\ u[0] = f
                /\ \A m \in 1..Len(blocks) : u[m] = BlocksStep(f, blocks, u[m - 1], m)
                /\ AppendBlocks(f, blocks) = u[Len(blocks)]
<1> DEFINE S == {n \in 0..Len(blocks) : \E u : BlocksUpTo(f, blocks, u, n)}
<1>0. Len(blocks) \in Nat
  BY SeqFacts
<1>1. 0 \in S
  <2>1. BlocksUpTo(f, blocks, [m \in 0..0 |-> f], 0)
    BY DEF BlocksUpTo
  <2> QED BY <1>0, <2>1
<1>2. ASSUME NEW n \in 0..(Len(blocks) - 1), n \in S
      PROVE  n + 1 \in S
  <2>1. PICK v : BlocksUpTo(f, blocks, v, n)
    BY <1>2
  <2> DEFINE g == [m \in 0..(n + 1) |-> IF m <= n THEN v[m] ELSE BlocksStep(f, blocks, v[m - 1], m)]
             h == [m \in 0..(n + 1) |-> IF m = 0 THEN f ELSE BlocksStep(f, blocks, g[m - 1], m)]
  <2>2. \A m \in 0..n : v[m] = IF m = 0 THEN f ELSE BlocksStep(f, blocks, v[m - 1], m)
    BY <2>1 DEF BlocksUpTo
  <2>3. ASSUME NEW m \in 0..(n + 1)
        PROVE  g[m] = h[m]
    <3>1. m # 0 => g[m - 1] = v[m - 1]
      OBVIOUS
    <3>2. g[m] = IF m <= n THEN v[m] ELSE BlocksStep(f, blocks, v[m - 1], m)
      OBVIOUS
    <3>3. h[m] = IF m = 0 THEN f ELSE BlocksStep(f, blocks, g[m - 1], m)
      OBVIOUS
    <3> HIDE DEF g, h
    <3> QED BY <2>2, <3>1, <3>2, <3>3
  <2>4. g = h
    <3>1. g = [m \in 0..(n + 1) |-> g[m]] /\ h = [m \in 0..(n + 1) |-> h[m]]
      OBVIOUS
    <3> HIDE DEF g, h
    <3> QED BY <2>3, <3>1
  <2>5. BlocksUpTo(f, blocks, g, n + 1)
    <3> HIDE DEF g
    <3> QED BY <2>4 DEF BlocksUpTo
  <2> QED BY <1>0, <2>5
<1>3. Len(blocks) \in S
  <2> HIDE DEF S
  <2>1. 0..Len(blocks) \subseteq S
    BY <1>0, <1>1, <1>2, InductionUpTo
  <2> QED BY <1>0, <2>1
<1>4. \E u : BlocksUpTo(f, blocks, u, Len(blocks))
  BY <1>3
<1>5. PICK u : u = CHOOSE x : BlocksUpTo(f, blocks, x, Len(blocks))
  OBVIOUS
<1>6. BlocksUpTo(f, blocks, u, Len(blocks))
  BY <1>4, <1>5
<1>7. AppendBlocks(f, blocks) = u[Len(blocks)]
  BY <1>5 DEF AppendBlocks, BlocksUpTo, BlocksStep
<1>8. u[0] = f /\ \A m \in 1..Len(blocks) : u[m] = BlocksStep(f, blocks, u[m - 1], m)
  <2>1. \A m \in 0..Len(blocks) : u[m] = IF m = 0 THEN f ELSE BlocksStep(f, blocks, u[m - 1], m)
    BY <1>6 DEF BlocksUpTo
  <2> QED BY <1>0, <2>1
<1> QED BY <1>7, <1>8

(* BatchParity. *)
BatchStep(blocks, u, m) ==
    rs_encode_incremental(u, m, blocks[m].value)

BatchUpTo(blocks, u, n) ==
    u = [m \in 0..n |-> IF m = 0 THEN {} ELSE BatchStep(blocks, u[m - 1], m)]

LEMMA BatchSteps ==
  ASSUME NEW blocks, IsSeq(blocks)
  PROVE  \E u : /\ u[0] = {}
                /\ \A m \in 1..Len(blocks) : u[m] = BatchStep(blocks, u[m - 1], m)
                /\ BatchParity(blocks) = u[Len(blocks)]
<1> DEFINE S == {n \in 0..Len(blocks) : \E u : BatchUpTo(blocks, u, n)}
<1>0. Len(blocks) \in Nat
  BY SeqFacts
<1>1. 0 \in S
  <2>1. BatchUpTo(blocks, [m \in 0..0 |-> {}], 0)
    BY DEF BatchUpTo
  <2> QED BY <1>0, <2>1
<1>2. ASSUME NEW n \in 0..(Len(blocks) - 1), n \in S
      PROVE  n + 1 \in S
  <2>1. PICK v : BatchUpTo(blocks, v, n)
    BY <1>2
  <2> DEFINE g == [m \in 0..(n + 1) |-> IF m <= n THEN v[m] ELSE BatchStep(blocks, v[m - 1], m)]
             h == [m \in 0..(n + 1) |-> IF m = 0 THEN {} ELSE BatchStep(blocks, g[m - 1], m)]
  <2>2. \A m \in 0..n : v[m] = IF m = 0 THEN {} ELSE BatchStep(blocks, v[m - 1], m)
    BY <2>1 DEF BatchUpTo
  <2>3. ASSUME NEW m \in 0..(n + 1)
        PROVE  g[m] = h[m]
    <3>1. m # 0 => g[m - 1] = v[m - 1]
      OBVIOUS
    <3>2. g[m] = IF m <= n THEN v[m] ELSE BatchStep(blocks, v[m - 1], m)
      OBVIOUS
    <3>3. h[m] = IF m = 0 THEN {} ELSE BatchStep(blocks, g[m - 1], m)
      OBVIOUS
    <3> HIDE DEF g, h
    <3> QED BY <2>2, <3>1, <3>2, <3>3
  <2>4. g = h
    <3>1. g = [m \in 0..(n + 1) |-> g[m]] /\ h = [m \in 0..(n + 1) |-> h[m]]
      OBVIOUS
    <3> HIDE DEF g, h
    <3> QED BY <2>3, <3>1
  <2>5. BatchUpTo(blocks, g, n + 1)
    <3> HIDE DEF g
    <3> QED BY <2>4 DEF BatchUpTo
  <2> QED BY <1>0, <2>5
<1>3. Len(blocks) \in S
  <2> HIDE DEF S
  <2>1. 0..Len(blocks) \subseteq S
    BY <1>0, <1>1, <1>2, InductionUpTo
  <2> QED BY <1>0, <2>1
<1>4. \E u : BatchUpTo(blocks, u, Len(blocks))
  BY <1>3
<1>5. PICK u : u = CHOOSE x : BatchUpTo(blocks, x, Len(blocks))
  OBVIOUS
<1>6. BatchUpTo(blocks, u, Len(blocks))
  BY <1>4, <1>5
<1>7. BatchParity(blocks) = u[Len(blocks)]
  BY <1>5 DEF BatchParity, BatchUpTo, BatchStep
<1>8. u[0] = {} /\ \A m \in 1..Len(blocks) : u[m] = BatchStep(blocks, u[m - 1], m)
  <2>1. \A m \in 0..Len(blocks) : u[m] = IF m = 0 THEN {} ELSE BatchStep(blocks, u[m - 1], m)
    BY <1>6 DEF BatchUpTo
  <2> QED BY <1>0, <2>1
<1> QED BY <1>7, <1>8

(* CollectMetadata. *)
CollectStep(f, u, m) ==
    IF f[m].kind \in MetaKinds THEN Append(u, Metadata(f, f[m])) ELSE u

CollectUpTo(f, u, n) ==
    u = [m \in 0..n |-> IF m = 0 THEN <<>> ELSE CollectStep(f, u[m - 1], m)]

LEMMA CollectSteps ==
  ASSUME NEW f, FileOK(f)
  PROVE  \E u : /\ u[0] = <<>>
                /\ \A m \in 1..Len(f) : u[m] = CollectStep(f, u[m - 1], m)
                /\ CollectMetadata(f) = u[Len(f)]
<1> DEFINE S == {n \in 0..Len(f) : \E u : CollectUpTo(f, u, n)}
<1>0. Len(f) \in Nat
  BY FileFacts
<1>1. 0 \in S
  <2>1. CollectUpTo(f, [m \in 0..0 |-> <<>>], 0)
    BY DEF CollectUpTo
  <2> QED BY <1>0, <2>1
<1>2. ASSUME NEW n \in 0..(Len(f) - 1), n \in S
      PROVE  n + 1 \in S
  <2>1. PICK v : CollectUpTo(f, v, n)
    BY <1>2
  <2> DEFINE g == [m \in 0..(n + 1) |-> IF m <= n THEN v[m] ELSE CollectStep(f, v[m - 1], m)]
             h == [m \in 0..(n + 1) |-> IF m = 0 THEN <<>> ELSE CollectStep(f, g[m - 1], m)]
  <2>2. \A m \in 0..n : v[m] = IF m = 0 THEN <<>> ELSE CollectStep(f, v[m - 1], m)
    BY <2>1 DEF CollectUpTo
  <2>3. ASSUME NEW m \in 0..(n + 1)
        PROVE  g[m] = h[m]
    <3>1. m # 0 => g[m - 1] = v[m - 1]
      OBVIOUS
    <3>2. g[m] = IF m <= n THEN v[m] ELSE CollectStep(f, v[m - 1], m)
      OBVIOUS
    <3>3. h[m] = IF m = 0 THEN <<>> ELSE CollectStep(f, g[m - 1], m)
      OBVIOUS
    <3> HIDE DEF g, h
    <3> QED BY <2>2, <3>1, <3>2, <3>3
  <2>4. g = h
    <3>1. g = [m \in 0..(n + 1) |-> g[m]] /\ h = [m \in 0..(n + 1) |-> h[m]]
      OBVIOUS
    <3> HIDE DEF g, h
    <3> QED BY <2>3, <3>1
  <2>5. CollectUpTo(f, g, n + 1)
    <3> HIDE DEF g
    <3> QED BY <2>4 DEF CollectUpTo
  <2> QED BY <1>0, <2>5
<1>3. Len(f) \in S
  <2> HIDE DEF S
  <2>1. 0..Len(f) \subseteq S
    BY <1>0, <1>1, <1>2, InductionUpTo
  <2> QED BY <1>0, <2>1
<1>4. \E u : CollectUpTo(f, u, Len(f))
  BY <1>3
<1>5. PICK u : u = CHOOSE x : CollectUpTo(f, x, Len(f))
  OBVIOUS
<1>6. CollectUpTo(f, u, Len(f))
  BY <1>4, <1>5
<1>7. CollectMetadata(f) = u[Len(f)]
  BY <1>5 DEF CollectMetadata, CollectUpTo, CollectStep
<1>8. u[0] = <<>> /\ \A m \in 1..Len(f) : u[m] = CollectStep(f, u[m - 1], m)
  <2>1. \A m \in 0..Len(f) : u[m] = IF m = 0 THEN <<>> ELSE CollectStep(f, u[m - 1], m)
    BY <1>6 DEF CollectUpTo
  <2> QED BY <1>0, <2>1
<1> QED BY <1>7, <1>8

(* Bytes. *)
BytesStep(cache, u, m) ==
    u + cache[m].size

BytesUpTo(cache, u, n) ==
    u = [m \in 0..n |-> IF m = 0 THEN 0 ELSE BytesStep(cache, u[m - 1], m)]

LEMMA BytesSteps ==
  ASSUME NEW cache, IsSeq(cache)
  PROVE  \E u : /\ u[0] = 0
                /\ \A m \in 1..Len(cache) : u[m] = BytesStep(cache, u[m - 1], m)
                /\ Bytes(cache) = u[Len(cache)]
<1> DEFINE S == {n \in 0..Len(cache) : \E u : BytesUpTo(cache, u, n)}
<1>0. Len(cache) \in Nat
  BY SeqFacts
<1>1. 0 \in S
  <2>1. BytesUpTo(cache, [m \in 0..0 |-> 0], 0)
    BY DEF BytesUpTo
  <2> QED BY <1>0, <2>1
<1>2. ASSUME NEW n \in 0..(Len(cache) - 1), n \in S
      PROVE  n + 1 \in S
  <2>1. PICK v : BytesUpTo(cache, v, n)
    BY <1>2
  <2> DEFINE g == [m \in 0..(n + 1) |-> IF m <= n THEN v[m] ELSE BytesStep(cache, v[m - 1], m)]
             h == [m \in 0..(n + 1) |-> IF m = 0 THEN 0 ELSE BytesStep(cache, g[m - 1], m)]
  <2>2. \A m \in 0..n : v[m] = IF m = 0 THEN 0 ELSE BytesStep(cache, v[m - 1], m)
    BY <2>1 DEF BytesUpTo
  <2>3. ASSUME NEW m \in 0..(n + 1)
        PROVE  g[m] = h[m]
    <3>1. m # 0 => g[m - 1] = v[m - 1]
      OBVIOUS
    <3>2. g[m] = IF m <= n THEN v[m] ELSE BytesStep(cache, v[m - 1], m)
      OBVIOUS
    <3>3. h[m] = IF m = 0 THEN 0 ELSE BytesStep(cache, g[m - 1], m)
      OBVIOUS
    <3> HIDE DEF g, h
    <3> QED BY <2>2, <3>1, <3>2, <3>3
  <2>4. g = h
    <3>1. g = [m \in 0..(n + 1) |-> g[m]] /\ h = [m \in 0..(n + 1) |-> h[m]]
      OBVIOUS
    <3> HIDE DEF g, h
    <3> QED BY <2>3, <3>1
  <2>5. BytesUpTo(cache, g, n + 1)
    <3> HIDE DEF g
    <3> QED BY <2>4 DEF BytesUpTo
  <2> QED BY <1>0, <2>5
<1>3. Len(cache) \in S
  <2> HIDE DEF S
  <2>1. 0..Len(cache) \subseteq S
    BY <1>0, <1>1, <1>2, InductionUpTo
  <2> QED BY <1>0, <2>1
<1>4. \E u : BytesUpTo(cache, u, Len(cache))
  BY <1>3
<1>5. PICK u : u = CHOOSE x : BytesUpTo(cache, x, Len(cache))
  OBVIOUS
<1>6. BytesUpTo(cache, u, Len(cache))
  BY <1>4, <1>5
<1>7. Bytes(cache) = u[Len(cache)]
  BY <1>5 DEF Bytes, BytesUpTo, BytesStep
<1>8. u[0] = 0 /\ \A m \in 1..Len(cache) : u[m] = BytesStep(cache, u[m - 1], m)
  <2>1. \A m \in 0..Len(cache) : u[m] = IF m = 0 THEN 0 ELSE BytesStep(cache, u[m - 1], m)
    BY <1>6 DEF BytesUpTo
  <2> QED BY <1>0, <2>1
<1> QED BY <1>7, <1>8

NothingBuilt(r) == [reader |-> r, contents |-> <<>>, holes |-> FALSE]

(* BuildGroup: the m-th sector of the group. *)
BuildStep(r, s, data, oom, u, m) ==
    IF GroupOf(s)[m] = s THEN [u EXCEPT !.contents = Append(@, data)]
    ELSE AddSlice(u, ReadStored(u.reader, GroupOf(s)[m], oom))

BuildUpTo(r, s, data, oom, u, n) ==
    u = [m \in 0..n |-> IF m = 0 THEN NothingBuilt(r) ELSE BuildStep(r, s, data, oom, u[m - 1], m)]

LEMMA BuildSteps ==
  ASSUME NEW r, NEW s, NEW data, NEW oom
  PROVE  \E u : /\ u[0] = NothingBuilt(r)
                /\ \A m \in 1..GroupSize : u[m] = BuildStep(r, s, data, oom, u[m - 1], m)
                /\ BuildGroup(r, s, data, oom) = u[GroupSize]
<1> DEFINE S == {n \in 0..GroupSize : \E u : BuildUpTo(r, s, data, oom, u, n)}
<1>0. GroupSize \in Nat
  BY ReaderAssumption
<1>1. 0 \in S
  <2>1. BuildUpTo(r, s, data, oom, [m \in 0..0 |-> NothingBuilt(r)], 0)
    BY DEF BuildUpTo
  <2> QED BY <1>0, <2>1
<1>2. ASSUME NEW n \in 0..(GroupSize - 1), n \in S
      PROVE  n + 1 \in S
  <2>1. PICK v : BuildUpTo(r, s, data, oom, v, n)
    BY <1>2
  <2> DEFINE g == [m \in 0..(n + 1) |-> IF m <= n THEN v[m] ELSE BuildStep(r, s, data, oom, v[m - 1], m)]
             h == [m \in 0..(n + 1) |-> IF m = 0 THEN NothingBuilt(r) ELSE BuildStep(r, s, data, oom, g[m - 1], m)]
  <2>2. \A m \in 0..n : v[m] = IF m = 0 THEN NothingBuilt(r) ELSE BuildStep(r, s, data, oom, v[m - 1], m)
    BY <2>1 DEF BuildUpTo
  <2>3. ASSUME NEW m \in 0..(n + 1)
        PROVE  g[m] = h[m]
    <3>1. m # 0 => g[m - 1] = v[m - 1]
      OBVIOUS
    <3>2. g[m] = IF m <= n THEN v[m] ELSE BuildStep(r, s, data, oom, v[m - 1], m)
      OBVIOUS
    <3>3. h[m] = IF m = 0 THEN NothingBuilt(r) ELSE BuildStep(r, s, data, oom, g[m - 1], m)
      OBVIOUS
    <3> HIDE DEF g, h
    <3> QED BY <2>2, <3>1, <3>2, <3>3
  <2>4. g = h
    <3>1. g = [m \in 0..(n + 1) |-> g[m]] /\ h = [m \in 0..(n + 1) |-> h[m]]
      OBVIOUS
    <3> HIDE DEF g, h
    <3> QED BY <2>3, <3>1
  <2>5. BuildUpTo(r, s, data, oom, g, n + 1)
    <3> HIDE DEF g
    <3> QED BY <2>4 DEF BuildUpTo
  <2> QED BY <1>0, <2>5
<1>3. GroupSize \in S
  <2> HIDE DEF S
  <2>1. 0..GroupSize \subseteq S
    BY <1>0, <1>1, <1>2, InductionUpTo
  <2> QED BY <1>0, <2>1
<1>4. \E u : BuildUpTo(r, s, data, oom, u, GroupSize)
  BY <1>3
<1>5. PICK u : u = CHOOSE x : BuildUpTo(r, s, data, oom, x, GroupSize)
  OBVIOUS
<1>6. BuildUpTo(r, s, data, oom, u, GroupSize)
  BY <1>4, <1>5
<1>7. BuildGroup(r, s, data, oom) = u[GroupSize]
  BY <1>5 DEF BuildGroup, BuildUpTo, BuildStep, NothingBuilt
<1>8. u[0] = NothingBuilt(r) /\ \A m \in 1..GroupSize : u[m] = BuildStep(r, s, data, oom, u[m - 1], m)
  <2>1. \A m \in 0..GroupSize : u[m] = IF m = 0 THEN NothingBuilt(r) ELSE BuildStep(r, s, data, oom, u[m - 1], m)
    BY <1>6 DEF BuildUpTo
  <2> QED BY <1>0, <2>1
<1> QED BY <1>7, <1>8

(***************************************************************************)
(* Close.                                                                  *)
(***************************************************************************)
LEMMA BlocksAppended ==
  ASSUME NEW f, FileOK(f), NEW blocks, IsSeq(blocks), blocks # <<>>, NEW kinds,
         \A m \in DOMAIN blocks : blocks[m].span \in Nat \ {0} /\ blocks[m].kind \in kinds
  PROVE  LET g == AppendBlocks(f, blocks)
         IN  Adds(f, g, kinds) /\ g[Len(g)].kind = blocks[Len(blocks)].kind
<1>0. Len(blocks) \in Nat /\ DOMAIN blocks = 1..Len(blocks) /\ Len(blocks) # 0
  BY DEF IsSeq
<1>1. PICK u : /\ u[0] = f
               /\ \A m \in 1..Len(blocks) : u[m] = BlocksStep(f, blocks, u[m - 1], m)
               /\ AppendBlocks(f, blocks) = u[Len(blocks)]
  BY BlocksSteps
<1> DEFINE S == {n \in 0..Len(blocks) :
                   Adds(f, u[n], kinds) /\ (n # 0 => u[n][Len(u[n])].kind = blocks[n].kind)}
<1>2. 0 \in S
  BY <1>0, <1>1, AddsNothing
<1>3. ASSUME NEW n \in 0..(Len(blocks) - 1), n \in S
      PROVE  n + 1 \in S
  <2>1. Adds(f, u[n], kinds) /\ FileOK(u[n])
    BY <1>3, AddsFacts
  <2>2. n + 1 \in 1..Len(blocks) /\ (n + 1) - 1 = n /\ n + 1 # 0
    BY <1>0
  <2>3. PICK m : m = n + 1
    OBVIOUS
  <2>4. PICK kind, span, value : kind = blocks[m].kind /\ span = blocks[m].span
                                 /\ value = <<blocks[m].kind, sessions, m>>
    OBVIOUS
  <2>5. u[m] = AppendBlock(u[n], kind, span, value)
    BY <1>1, <2>2, <2>3, <2>4 DEF BlocksStep
  <2>6. span \in Nat \ {0} /\ kind \in kinds
    BY <1>0, <2>2, <2>3, <2>4
  <2>7. Adds(u[n], u[m], {kind}) /\ u[m][Len(u[m])].kind = kind
    BY <2>1, <2>5, <2>6, AppendBlockAdds
  <2>8. Adds(f, u[m], kinds)
    BY <2>1, <2>6, <2>7, AddsThrough
  <2> QED BY <2>2, <2>3, <2>4, <2>7, <2>8
<1>4. Len(blocks) \in S
  <2> HIDE DEF S
  <2>1. 0..Len(blocks) \subseteq S
    BY <1>0, <1>2, <1>3, InductionUpTo
  <2> QED BY <1>0, <2>1
<1> QED BY <1>0, <1>1, <1>4

CloseKinds == {"ddt2", "ddt", "meta", "key", "index"}

LEMMA BlocksOfCloseAre ==
  /\ IsSeq(BlocksOfClose) /\ BlocksOfClose # <<>>
  /\ \A m \in DOMAIN BlocksOfClose :
        BlocksOfClose[m].span \in Nat \ {0} /\ BlocksOfClose[m].kind \in CloseKinds
  /\ BlocksOfClose[Len(BlocksOfClose)].kind = "index"
<1> DEFINE T == [kind : CloseKinds, span : Nat \ {0}]
           a == [kind |-> "ddt2", span |-> 1]
           b == [kind |-> "ddt", span |-> 1]
           c == [kind |-> "index", span |-> 1]
           q == IF sessions = 1 THEN MetaBlocks ELSE <<>>
<1>1. a \in T /\ b \in T /\ c \in T /\ c.kind = "index"
  BY DEF CloseKinds
<1>2. q \in Seq(T)
  <2>1. MetaBlocks \in Seq([kind : MetaKinds, span : Nat \ {0}])
    BY ReaderAssumption
  <2>2. [kind : MetaKinds, span : Nat \ {0}] \subseteq T
    BY DEF MetaKinds, CloseKinds
  <2>3. \A i \in 1..Len(MetaBlocks) : MetaBlocks[i] \in T
    <3> HIDE DEF T
    <3>1. PICK X : X = [kind : MetaKinds, span : Nat \ {0}]
      OBVIOUS
    <3>2. MetaBlocks \in Seq(X) /\ X \subseteq T
      BY <2>1, <2>2, <3>1
    <3>3. \A i \in 1..Len(MetaBlocks) : MetaBlocks[i] \in X
      BY <3>2
    <3> QED BY <3>2, <3>3
  <2>4. MetaBlocks \in Seq(T)
    <3>1. MetaBlocks = [i \in 1..Len(MetaBlocks) |-> MetaBlocks[i]] /\ Len(MetaBlocks) \in Nat
      BY <2>1
    <3> HIDE DEF T
    <3>2. [i \in 1..Len(MetaBlocks) |-> MetaBlocks[i]] \in Seq(T)
      BY <2>3, <3>1
    <3> QED BY <3>1, <3>2
  <2> QED BY <2>4
<1> HIDE DEF T, a, b, c, q
<1>3. PICK p : p = <<a, b>> \o q
  OBVIOUS
<1>4. p \in Seq(T)
  <2>1. <<a, b>> \in Seq(T)
    BY <1>1
  <2> QED BY <1>2, <1>3, <2>1
<1>5. PICK w : w = p \o <<c>>
  OBVIOUS
<1>6. w \in Seq(T) /\ Len(w) = Len(p) + 1 /\ w[Len(p) + 1] = c /\ Len(p) \in Nat
  BY <1>1, <1>4, <1>5
<1>7. BlocksOfClose = w
  BY <1>3, <1>5 DEF BlocksOfClose, a, b, c, q
<1>8. IsSeq(w) /\ w # <<>>
  BY <1>6, SequenceIs
<1>9. \A m \in DOMAIN w : w[m] \in T
  BY <1>6
<1>10. \A m \in DOMAIN w : w[m].span \in Nat \ {0} /\ w[m].kind \in CloseKinds
  BY <1>9 DEF T
<1>11. w[Len(w)].kind = "index"
  BY <1>1, <1>6
<1> QED BY <1>7, <1>8, <1>10, <1>11

(***************************************************************************)
(* A stripe of its own for the blocks of a type.                           *)
(***************************************************************************)
BlockOf(f, e) ==
    \E i \in DOMAIN f : f[i].at = e.at /\ f[i].value = e.value
                        /\ f[i].span <= e.size /\ e.size \in Nat \ {0}

BlocksOf(f, q) ==
    /\ IsSeq(q)
    /\ \A k \in DOMAIN q : BlockOf(f, q[k]) /\ q[k].size <= End(f)

LEMMA BatchParityIs ==
  ASSUME NEW q, IsSeq(q)
  PROVE  BatchParity(q) = {<<k, q[k].value>> : k \in DOMAIN q}
<1>0. Len(q) \in Nat /\ DOMAIN q = 1..Len(q)
  BY DEF IsSeq
<1>1. PICK u : /\ u[0] = {}
               /\ \A m \in 1..Len(q) : u[m] = BatchStep(q, u[m - 1], m)
               /\ BatchParity(q) = u[Len(q)]
  BY BatchSteps
<1> DEFINE Is(n) == {<<k, q[k].value>> : k \in 1..n}
           S == {n \in 0..Len(q) : u[n] = Is(n)}
<1>2. 0 \in S
  BY <1>0, <1>1
<1>3. ASSUME NEW n \in 0..(Len(q) - 1), n \in S
      PROVE  n + 1 \in S
  <2>1. n + 1 \in 1..Len(q) /\ (n + 1) - 1 = n
    BY <1>0
  <2>2. u[n + 1] = SymDiff(Is(n), {<<n + 1, q[n + 1].value>>})
    BY <1>1, <1>3, <2>1 DEF BatchStep, rs_encode_incremental
  <2>3. <<n + 1, q[n + 1].value>> \notin Is(n)
    OBVIOUS
  <2>4. \A k \in 1..(n + 1) : k \in 1..n \/ k = n + 1
    OBVIOUS
  <2>5. \A k \in 1..n : k \in 1..(n + 1)
    OBVIOUS
  <2>6. Is(n + 1) = Is(n) \cup {<<n + 1, q[n + 1].value>>}
    <3>1. n + 1 \in 1..(n + 1)
      OBVIOUS
    <3> QED BY <2>4, <2>5, <3>1
  <2> HIDE DEF Is
  <2>7. u[n + 1] = Is(n + 1)
    BY <2>2, <2>3, <2>6 DEF SymDiff
  <2> QED BY <2>1, <2>7
<1>4. Len(q) \in S
  <2> HIDE DEF S
  <2>1. 0..Len(q) \subseteq S
    BY <1>0, <1>2, <1>3, InductionUpTo
  <2> QED BY <1>0, <2>1
<1> QED BY <1>0, <1>1, <1>4

LEMMA BatchOK ==
  ASSUME NEW f, FileOK(f), NEW q, BlocksOf(f, q), NEW kind
  PROVE  LET y == ec_write_batch_parity(f, q, kind)
         IN  Adds(f, y.file, {kind}) /\ MapGroupOK(y.file, y.group)
<1>1. CASE q = <<>>
  <2>1. PICK y : y = ec_write_batch_parity(f, q, kind)
    OBVIOUS
  <2>2. y.file = f /\ y.group = NoGroup
    BY <1>1, <2>1 DEF ec_write_batch_parity
  <2>3. NoGroup.K = 0 /\ NoGroup.shard = 0 /\ NoGroup.stripes = <<>> /\ DOMAIN NoGroup.stripes = {}
    BY DEF NoGroup
  <2>4. IsSeq(NoGroup.stripes)
    BY <2>3 DEF IsSeq
  <2>5. MapGroupOK(f, NoGroup)
    BY <2>3, <2>4 DEF MapGroupOK
  <2> QED BY <2>1, <2>2, <2>5, AddsNothing
<1>2. CASE q # <<>>
  <2>0. /\ IsSeq(q) /\ Len(q) \in Nat /\ DOMAIN q = 1..Len(q)
        /\ \A k \in DOMAIN q : BlockOf(f, q[k]) /\ q[k].size <= End(f)
    BY SeqFacts DEF BlocksOf
  <2>1. End(f) \in Nat /\ \A k \in DOMAIN q : q[k].size \in Nat \ {0} /\ q[k].size <= End(f)
    BY <2>0, EndOf DEF Beyond, BlockOf
  <2>2. PICK size \in Nat \ {0} : size = Largest(q) /\ \A k \in DOMAIN q : q[k].size <= size
    BY <1>2, <2>0, <2>1, LargestIs
  <2>3. PICK parity : parity = BatchParity(q)
    OBVIOUS
  <2>4. PICK g : g = AppendParity(f, kind, size, parity)
    OBVIOUS
  <2>5. Adds(f, g, {kind}) /\ FileOK(g)
    BY <2>4, ParityAdds, AddsFacts
  <2>6. \A m \in 1..M : /\ Len(f) + m \in DOMAIN g /\ g[Len(f) + m].value = parity
                        /\ g[Len(f) + m].span = size
    BY <2>4, ParityAppended
  <2>7. PICK offsets : offsets = ParityOffsets(f, g)
    OBVIOUS
  <2>8. \A m \in 1..M : offsets[m] = g[Len(f) + m].at
    BY <2>7 DEF ParityOffsets
  <2>9. PICK data : data = BatchData(q, size)
    OBVIOUS
  <2>10. /\ DOMAIN data = DOMAIN q
         /\ \A k \in DOMAIN q : /\ data[k].at = q[k].at /\ data[k].size = q[k].size
                                /\ data[k].crc.value = q[k].value
    BY <2>9 DEF BatchData, Crc
  <2>11. IsSeq(data) /\ Len(data) = Len(q)
    <3>1. PICK T : T = Range(data)
      OBVIOUS
    <3>2. \A k \in 1..Len(q) : data[k] \in T
      BY <2>0, <2>10, <3>1 DEF Range
    <3>3. data = [k \in 1..Len(q) |-> data[k]]
      BY <2>0, <2>9 DEF BatchData
    <3>4. [k \in 1..Len(q) |-> data[k]] \in Seq(T)
      BY <2>0, <3>2
    <3>5. data \in Seq(T)
      BY <3>3, <3>4
    <3>6. Len(data) = Len(q)
      BY <2>0, <2>10, <3>5
    <3> QED BY <3>5, <3>6, SequenceIs
  <2>12. PICK stripe : stripe = [data |-> data, parity |-> offsets]
    OBVIOUS
  <2>13. stripe.data = data /\ stripe.parity = offsets
    BY <2>12
  <2>14. Encoded(stripe) = parity
    BY <2>0, <2>3, <2>10, <2>13, BatchParityIs DEF Encoded
  <2>15. Largest(stripe.data) = size
    <3>1. {data[k].size : k \in DOMAIN data} = {q[k].size : k \in DOMAIN q}
      BY <2>10
    <3> QED BY <2>2, <2>13, <3>1 DEF Largest
  <2>16. \A m \in 1..M : ParityOK(g, stripe.parity[m], stripe)
    BY <2>6, <2>8, <2>13, <2>14, <2>15 DEF ParityOK
  <2>17. \A k \in DOMAIN stripe.data : ShardOK(g, stripe.data[k], size)
    <3>1. TAKE k \in DOMAIN stripe.data
    <3>2. k \in DOMAIN q
      BY <2>10, <2>13
    <3>3. PICK i \in DOMAIN f : f[i].at = q[k].at /\ f[i].value = q[k].value
                                /\ f[i].span <= q[k].size /\ q[k].size \in Nat \ {0}
      BY <2>0, <3>2 DEF BlockOf
    <3>4. i \in DOMAIN g /\ g[i] = f[i]
      BY <2>5, AddsFacts
    <3> QED BY <2>2, <2>10, <2>13, <3>2, <3>3, <3>4 DEF ShardOK
  <2>18. StripeOK(g, Len(q), size, stripe)
    BY <2>0, <2>11, <2>13, <2>16, <2>17 DEF StripeOK
  <2>19. PICK group : group = [K |-> Len(q), shard |-> size, stripes |-> <<stripe>>]
    OBVIOUS
  <2>20. group.K = Len(q) /\ group.shard = size /\ group.stripes = <<stripe>>
    BY <2>19
  <2>21. MapGroupOK(g, group)
    <3>1. DOMAIN group.stripes = {1} /\ group.stripes[1] = stripe
      BY <2>20
    <3>2. <<stripe>> \in Seq({stripe})
      OBVIOUS
    <3>3. IsSeq(group.stripes)
      BY <2>20, <3>2, SequenceIs
    <3> QED BY <2>0, <2>18, <2>20, <3>1, <3>3 DEF MapGroupOK
  <2>22. PICK y : y = ec_write_batch_parity(f, q, kind)
    OBVIOUS
  <2>23. y = BatchGroup(f, g, q, size)
    BY <1>2, <2>2, <2>3, <2>4, <2>22 DEF ec_write_batch_parity
  <2>24. y.file = g /\ y.group = group
    BY <2>7, <2>9, <2>12, <2>19, <2>23 DEF BatchGroup
  <2> QED BY <2>5, <2>21, <2>22, <2>24
<1> QED BY <1>1, <1>2

(***************************************************************************)
(* What ec_finalize collects.                                              *)
(***************************************************************************)
LEMMA BoundedByEnd ==
  ASSUME NEW f, FileOK(f), NEW i \in DOMAIN f
  PROVE  f[i].span <= End(f) /\ f[i].at + f[i].span <= End(f) /\ End(f) \in Nat
<1>1. End(f) \in Nat /\ f[i].at + f[i].span <= End(f)
  BY EndOf DEF Beyond
<1>2. f[i].at \in Nat /\ f[i].span \in Nat
  BY FileFacts
<1> QED BY <1>1, <1>2

LEMMA PlacesIn ==
  ASSUME NEW f, FileOK(f), NEW kind, PlacesOf(f, kind) # {}
  PROVE  Max(PlacesOf(f, kind)) \in DOMAIN f /\ f[Max(PlacesOf(f, kind))].kind = kind
<1>1. PICK S : S = PlacesOf(f, kind)
  OBVIOUS
<1>2. DOMAIN f = 1..Len(f) /\ Len(f) \in Nat
  BY FileFacts
<1>3. S \subseteq Nat /\ S # {} /\ \A x \in S : x <= Len(f)
  BY <1>1, <1>2 DEF PlacesOf
<1>4. Max(S) \in S
  BY <1>2, <1>3, MaxIn
<1> QED BY <1>1, <1>4 DEF PlacesOf

LEMMA RowsOfFew ==
  ASSUME NEW q, IsSeq(q), Len(q) <= 1
  PROVE  Rows(q) = q
<1>0. Len(q) \in Nat /\ MaxShards - M \in Nat /\ Len(q) <= MaxShards - M
  BY CodeAssumption DEF IsSeq
<1>1. Min({Len(q), MaxShards - M}) = Len(q)
  <2>1. PICK S : S = {Len(q), MaxShards - M}
    OBVIOUS
  <2>2. Len(q) \in S /\ (\A y \in S : y \in Int) /\ \A y \in S : Len(q) <= y
    BY <1>0, <2>1
  <2> QED BY <2>1, <2>2, MinOf
<1>2. SubSeq(q, 1, Len(q)) = q
  <2>1. q \in Seq(Range(q))
    BY DEF IsSeq
  <2> QED BY <1>0, <2>1
<1> QED BY <1>1, <1>2 DEF Rows

LEMMA TableCollected ==
  ASSUME NEW f, FileOK(f), NEW kind
  PROVE  LET q == ec_collect_blocks_by_type(f, kind) IN BlocksOf(f, q) /\ Rows(q) = q
<1>1. PICK q : q = ec_collect_blocks_by_type(f, kind)
  OBVIOUS
<1>2. CASE PlacesOf(f, kind) = {}
  <2>1. q = <<>>
    BY <1>1, <1>2 DEF ec_collect_blocks_by_type
  <2>2. q \in Seq({}) /\ Len(q) <= 1 /\ DOMAIN q = {}
    BY <2>1
  <2>3. IsSeq(q)
    BY <2>2, SequenceIs
  <2> QED BY <1>1, <2>2, <2>3, RowsOfFew DEF BlocksOf
<1>3. CASE PlacesOf(f, kind) # {}
  <2>1. PICK i \in DOMAIN f : i = Max(PlacesOf(f, kind))
    BY <1>3, PlacesIn
  <2>2. PICK e : e = [at |-> f[i].at, size |-> f[i].span, value |-> f[i].value]
    OBVIOUS
  <2>3. q = <<e>>
    BY <1>1, <1>3, <2>1, <2>2 DEF ec_collect_blocks_by_type
  <2>4. e.at = f[i].at /\ e.size = f[i].span /\ e.value = f[i].value
    BY <2>2
  <2>5. f[i].span \in Nat \ {0} /\ f[i].span <= f[i].span /\ f[i].span <= End(f)
    BY FileFacts, BoundedByEnd
  <2>6. BlockOf(f, e) /\ e.size <= End(f)
    BY <2>4, <2>5 DEF BlockOf
  <2>7. q \in Seq({e}) /\ Len(q) = 1 /\ DOMAIN q = {1} /\ q[1] = e
    BY <2>3
  <2>8. IsSeq(q)
    BY <2>7, SequenceIs
  <2>9. \A k \in DOMAIN q : BlockOf(f, q[k]) /\ q[k].size <= End(f)
    BY <2>6, <2>7
  <2>10. BlocksOf(f, q)
    BY <2>8, <2>9 DEF BlocksOf
  <2>11. Rows(q) = q
    BY <2>7, <2>8, RowsOfFew
  <2> QED BY <1>1, <2>10, <2>11
<1> QED BY <1>2, <1>3

(* The distance to the next block is no less than the block. *)
LEMMA MetadataIs ==
  ASSUME NEW f, FileOK(f), NEW i \in DOMAIN f, i # Len(f)
  PROVE  BlockOf(f, Metadata(f, f[i])) /\ Metadata(f, f[i]).size <= End(f)
<1>1. PICK e : e = Metadata(f, f[i])
  OBVIOUS
<1>2. /\ e.at = f[i].at /\ e.value = f[i].value
      /\ e.size = IF f[i].kind = "key" THEN f[i].span ELSE Following(f, f[i].at) - f[i].at
  BY <1>1 DEF Metadata
<1>3. /\ f[i].at \in Nat /\ f[i].span \in Nat /\ f[i].span >= 1
  BY FileFacts
<1>4. e.size \in Nat /\ f[i].span <= e.size /\ e.size <= End(f)
  <2>1. CASE f[i].kind = "key"
    BY <1>2, <1>3, <2>1, BoundedByEnd
  <2>2. CASE f[i].kind # "key"
    <3>1. PICK T : T = {s.at : s \in {s \in Range(f) : s.at > f[i].at}}
      OBVIOUS
    <3>2. \A x \in T : \E j \in DOMAIN f : f[j].at = x /\ x > f[i].at
      BY <3>1 DEF Range
    <3>3. Len(f) \in DOMAIN f /\ i < Len(f)
      BY FileFacts
    <3>4. f[Len(f)].at > f[i].at
      BY <1>3, <3>3, FileFacts
    <3>5. T # {}
      BY <3>1, <3>3, <3>4 DEF Range
    <3>6. T \subseteq Nat
      <4>1. ASSUME NEW x \in T
            PROVE  x \in Nat
        <5>1. PICK j \in DOMAIN f : f[j].at = x
          BY <3>2
        <5> QED BY <5>1, FileFacts
      <4> QED BY <4>1
    <3>7. PICK x \in T : x = Min(T)
      BY <3>5, <3>6, MinIn
    <3>8. PICK j \in DOMAIN f : f[j].at = x /\ x > f[i].at
      BY <3>2
    <3>9. i < j
      <4>1. i = j \/ i < j \/ j < i
        BY FileFacts
      <4>2. ~ j < i
        <5>1. ASSUME j < i
              PROVE  FALSE
          <6>1. f[j].at + f[j].span <= f[i].at /\ f[j].at \in Nat /\ f[j].span \in Nat
            BY <5>1, FileFacts
          <6> QED BY <1>3, <3>8, <6>1
        <5> QED BY <5>1
      <4>3. i # j
        BY <1>3, <3>8
      <4> QED BY <4>1, <4>2, <4>3
    <3>10. f[i].at + f[i].span <= x /\ x \in Nat
      BY <3>6, <3>8, <3>9, FileFacts
    <3>11. x <= End(f) /\ End(f) \in Nat
      <4>1. f[j].at + f[j].span <= End(f) /\ End(f) \in Nat /\ f[j].at \in Nat /\ f[j].span \in Nat
        BY BoundedByEnd, FileFacts
      <4> QED BY <3>8, <4>1
    <3>12. e.size = x - f[i].at
      BY <1>2, <2>2, <3>1, <3>7 DEF Following
    <3> QED BY <1>3, <3>10, <3>11, <3>12
  <2> QED BY <2>1, <2>2
<1>5. BlockOf(f, e)
  BY <1>2, <1>3, <1>4 DEF BlockOf
<1> QED BY <1>1, <1>4, <1>5

LEMMA MetadataCollected ==
  ASSUME NEW f, FileOK(f), f[Len(f)].kind \notin MetaKinds
  PROVE  BlocksOf(f, CollectMetadata(f))
<1>0. Len(f) \in Nat /\ DOMAIN f = 1..Len(f)
  BY FileFacts
<1>1. PICK u : /\ u[0] = <<>>
               /\ \A m \in 1..Len(f) : u[m] = CollectStep(f, u[m - 1], m)
               /\ CollectMetadata(f) = u[Len(f)]
  BY CollectSteps
<1> DEFINE S == {n \in 0..Len(f) : BlocksOf(f, u[n])}
<1>2. 0 \in S
  <2>1. u[0] \in Seq({}) /\ DOMAIN u[0] = {}
    BY <1>1
  <2> QED BY <1>0, <2>1, SequenceIs DEF BlocksOf
<1>3. ASSUME NEW n \in 0..(Len(f) - 1), n \in S
      PROVE  n + 1 \in S
  <2>1. BlocksOf(f, u[n])
    BY <1>3
  <2>2. PICK m \in 1..Len(f) : m = n + 1 /\ m - 1 = n
    BY <1>0
  <2>3. u[m] = CollectStep(f, u[n], m)
    BY <1>1, <2>2
  <2>4. CASE f[m].kind \notin MetaKinds
    BY <2>1, <2>2, <2>3, <2>4 DEF CollectStep
  <2>5. CASE f[m].kind \in MetaKinds
    <3>1. m \in DOMAIN f /\ m # Len(f)
      BY <1>0, <2>5
    <3>2. PICK e : e = Metadata(f, f[m])
      OBVIOUS
    <3>3. BlockOf(f, e) /\ e.size <= End(f)
      BY <3>1, <3>2, MetadataIs
    <3>4. PICK q : q = u[n]
      OBVIOUS
    <3>5. PICK p : p = Append(q, e)
      OBVIOUS
    <3>6. u[m] = p
      BY <2>3, <2>5, <3>2, <3>4, <3>5 DEF CollectStep
    <3>7. IsSeq(q) /\ Len(q) \in Nat /\ DOMAIN q = 1..Len(q)
      BY <2>1, <3>4, SeqFacts DEF BlocksOf
    <3>8. /\ IsSeq(p) /\ DOMAIN p = 1..(Len(q) + 1)
          /\ \A i \in DOMAIN q : p[i] = q[i]
          /\ p[Len(q) + 1] = e
      BY <3>5, <3>7, AppendFacts
    <3>9. \A k \in DOMAIN p : BlockOf(f, p[k]) /\ p[k].size <= End(f)
      <4>1. TAKE k \in DOMAIN p
      <4>2. CASE k \in DOMAIN q
        BY <2>1, <3>4, <3>8, <4>2 DEF BlocksOf
      <4>3. CASE k = Len(q) + 1
        BY <3>3, <3>8, <4>3
      <4> QED BY <3>7, <3>8, <4>2, <4>3
    <3>10. BlocksOf(f, p)
      BY <3>8, <3>9 DEF BlocksOf
    <3> QED BY <1>0, <2>2, <3>6, <3>10
  <2> QED BY <2>4, <2>5
<1>4. Len(f) \in S
  <2> HIDE DEF S
  <2>1. 0..Len(f) \subseteq S
    BY <1>0, <1>2, <1>3, InductionUpTo
  <2> QED BY <1>0, <2>1
<1> QED BY <1>0, <1>1, <1>4

(***************************************************************************)
(* ec_finalize.                                                            *)
(***************************************************************************)
ParityKinds == {"parity", "parity_ddt2", "parity_ddt", "parity_meta", "parity_index"}

LastNotMeta(f) == f[Len(f)].kind \notin MetaKinds

(* A file and the map of it so far. *)
GroupsOK(x) ==
    /\ x = [file |-> x.file, map |-> x.map]
    /\ FileOK(x.file) /\ MapOK(x.file, x.map) /\ LastNotMeta(x.file)

LEMMA LastStaysParity ==
  ASSUME NEW f, NEW g, NEW kinds, Adds(f, g, kinds), kinds \cap MetaKinds = {}, LastNotMeta(f)
  PROVE  LastNotMeta(g)
<1>1. Len(g) \in DOMAIN g /\ Len(f) \in Nat /\ Len(g) \in Nat
  BY AddsFacts, FileFacts
<1>2. CASE Len(g) \in DOMAIN f
  <2>1. Len(g) = Len(f)
    BY <1>1, <1>2, FileFacts DEF Adds, Longer
  <2>2. g[Len(g)] = f[Len(f)]
    BY <1>2, <2>1, AddsFacts
  <2> QED BY <2>2 DEF LastNotMeta
<1>3. CASE Len(g) \notin DOMAIN f
  BY <1>1, <1>3, AddsFacts DEF LastNotMeta
<1> QED BY <1>2, <1>3

LEMMA GroupAdded ==
  ASSUME NEW x, GroupsOK(x), NEW name \in {"ddt2", "meta"}, NEW kind \in ParityKinds,
         NEW q, BlocksOf(x.file, q)
  PROVE  LET y == With(x, name, ec_write_batch_parity(x.file, q, kind))
         IN  GroupsOK(y) /\ Adds(x.file, y.file, ParityKinds)
<1>1. PICK f, map : f = x.file /\ map = x.map
  OBVIOUS
<1>2. FileOK(f) /\ MapOK(f, map) /\ LastNotMeta(f)
  BY <1>1 DEF GroupsOK
<1>3. PICK b : b = ec_write_batch_parity(f, q, kind)
  OBVIOUS
<1>4. Adds(f, b.file, {kind}) /\ MapGroupOK(b.file, b.group)
  BY <1>1, <1>2, <1>3, BatchOK
<1>5. PICK g, group : g = b.file /\ group = b.group
  OBVIOUS
<1>6. Adds(f, g, ParityKinds) /\ FileOK(g) /\ MapGroupOK(g, group)
  <2>1. Adds(f, g, {kind}) /\ FileOK(g)
    BY <1>4, <1>5, AddsFacts
  <2> QED BY <1>2, <1>4, <1>5, <2>1, AddsNothing, AddsThrough
<1>7. PICK m : m = [map EXCEPT ![name] = group]
  OBVIOUS
<1>8. MapOK(g, map) /\ DOMAIN map = Groups
  BY <1>2, <1>6, MapStays DEF MapOK
<1>9. /\ DOMAIN m = Groups /\ m[name] = group
      /\ \A other \in Groups \ {name} : m[other] = map[other]
  BY <1>7, <1>8 DEF Groups
<1>10. MapOK(g, m)
  <2>1. m["data"] = map["data"]
    BY <1>9 DEF Groups
  <2>2. \A other \in Groups : MapGroupOK(g, m[other])
    BY <1>6, <1>8, <1>9 DEF MapOK
  <2> QED BY <1>8, <1>9, <2>1, <2>2 DEF MapOK
<1>11. PICK y : y = With(x, name, b)
  OBVIOUS
<1>12. y = [file |-> g, map |-> m]
  BY <1>1, <1>5, <1>7, <1>11 DEF With
<1>13. y.file = g /\ y.map = m
  BY <1>12
<1>14. LastNotMeta(g)
  BY <1>2, <1>6, LastStaysParity DEF ParityKinds, MetaKinds
<1>15. GroupsOK(y)
  BY <1>6, <1>10, <1>12, <1>13, <1>14 DEF GroupsOK
<1> QED BY <1>1, <1>3, <1>6, <1>11, <1>13, <1>15

LEMMA ParityOnlyAdded ==
  ASSUME NEW x, GroupsOK(x), NEW kind \in ParityKinds, NEW q, BlocksOf(x.file, q)
  PROVE  LET y == [x EXCEPT !.file = ec_write_batch_parity(x.file, q, kind).file]
         IN  GroupsOK(y) /\ Adds(x.file, y.file, ParityKinds)
<1>1. PICK f, map : f = x.file /\ map = x.map
  OBVIOUS
<1>2. FileOK(f) /\ MapOK(f, map) /\ LastNotMeta(f) /\ x = [file |-> f, map |-> map]
  BY <1>1 DEF GroupsOK
<1>3. PICK b : b = ec_write_batch_parity(f, q, kind)
  OBVIOUS
<1>a. PICK g : g = b.file
  OBVIOUS
<1>4. Adds(f, g, {kind}) /\ FileOK(g)
  <2>1. Adds(f, b.file, {kind})
    BY <1>1, <1>2, <1>3, BatchOK
  <2> QED BY <1>a, <2>1, AddsFacts
<1>5. Adds(f, g, ParityKinds)
  BY <1>2, <1>4, AddsNothing, AddsThrough
<1>6. MapOK(g, map)
  BY <1>2, <1>5, MapStays
<1>7. PICK y : y = [x EXCEPT !.file = g]
  OBVIOUS
<1>8. y = [file |-> g, map |-> map]
  BY <1>2, <1>7
<1>9. y.file = g /\ y.map = map
  BY <1>8
<1>10. LastNotMeta(g)
  BY <1>2, <1>5, LastStaysParity DEF ParityKinds, MetaKinds
<1>11. GroupsOK(y)
  BY <1>4, <1>6, <1>8, <1>9, <1>10 DEF GroupsOK
<1> QED BY <1>1, <1>3, <1>a, <1>5, <1>7, <1>9, <1>11

LEMMA Ddt2GroupOK ==
  ASSUME NEW x, GroupsOK(x)
  PROVE  GroupsOK(Ddt2Group(x)) /\ Adds(x.file, Ddt2Group(x).file, ParityKinds)
<1>1. PICK q : q = Rows(ec_collect_blocks_by_type(x.file, "ddt2"))
  OBVIOUS
<1>2. BlocksOf(x.file, q)
  BY <1>1, TableCollected DEF GroupsOK
<1>3. Ddt2Group(x) = With(x, "ddt2", ec_write_batch_parity(x.file, q, "parity_ddt2"))
  BY <1>1 DEF Ddt2Group
<1>4. "ddt2" \in {"ddt2", "meta"} /\ "parity_ddt2" \in ParityKinds
  BY DEF ParityKinds
<1> QED BY <1>2, <1>3, <1>4, GroupAdded

LEMMA DdtGroupOK ==
  ASSUME NEW x, GroupsOK(x)
  PROVE  GroupsOK(DdtGroup(x)) /\ Adds(x.file, DdtGroup(x).file, ParityKinds)
<1>1. PICK q : q = Rows(ec_collect_blocks_by_type(x.file, "ddt"))
  OBVIOUS
<1>2. BlocksOf(x.file, q)
  BY <1>1, TableCollected DEF GroupsOK
<1>3. DdtGroup(x) = [x EXCEPT !.file = ec_write_batch_parity(x.file, q, "parity_ddt").file]
  BY <1>1 DEF DdtGroup
<1>4. "parity_ddt" \in ParityKinds
  BY DEF ParityKinds
<1> QED BY <1>2, <1>3, <1>4, ParityOnlyAdded

LEMMA MetadataGroupOK ==
  ASSUME NEW x, GroupsOK(x)
  PROVE  GroupsOK(MetadataGroup(x)) /\ Adds(x.file, MetadataGroup(x).file, ParityKinds)
<1>1. PICK q : q = CollectMetadata(x.file)
  OBVIOUS
<1>2. BlocksOf(x.file, q)
  BY <1>1, MetadataCollected DEF GroupsOK, LastNotMeta
<1>3. CASE Len(CollectMetadata(x.file)) > MaxShards - M
  <2>1. MetadataGroup(x) = x
    BY <1>3 DEF MetadataGroup
  <2> QED BY <2>1, AddsNothing DEF GroupsOK
<1>4. CASE ~ Len(CollectMetadata(x.file)) > MaxShards - M
  <2>1. MetadataGroup(x) = With(x, "meta", ec_write_batch_parity(x.file, q, "parity_meta"))
    BY <1>1, <1>4 DEF MetadataGroup
  <2>2. "meta" \in {"ddt2", "meta"} /\ "parity_meta" \in ParityKinds
    BY DEF ParityKinds
  <2> QED BY <1>2, <2>1, <2>2, GroupAdded
<1> QED BY <1>3, <1>4

LEMMA IndexGroupOK ==
  ASSUME NEW x, GroupsOK(x)
  PROVE  GroupsOK(IndexGroup(x)) /\ Adds(x.file, IndexGroup(x).file, ParityKinds)
<1>1. PICK q : q = ec_collect_blocks_by_type(x.file, "index")
  OBVIOUS
<1>2. BlocksOf(x.file, q)
  BY <1>1, TableCollected DEF GroupsOK
<1>3. IndexGroup(x) = [x EXCEPT !.file = ec_write_batch_parity(x.file, q, "parity_index").file]
  BY <1>1 DEF IndexGroup
<1>4. "parity_index" \in ParityKinds
  BY DEF ParityKinds
<1> QED BY <1>2, <1>3, <1>4, ParityOnlyAdded

(* The map of the data, without the other groups. *)
LEMMA DataGroupOK ==
  ASSUME NEW y, FileOK(y.file), WriterOK(y.file, y.writer), LastNotMeta(y.file)
  PROVE  GroupsOK(DataGroup(y)) /\ DataGroup(y).file = y.file
<1>1. PICK f, w : f = y.file /\ w = y.writer
  OBVIOUS
<1>2. PICK g : g = [K |-> K, shard |-> w.shard, stripes |-> w.stripes]
  OBVIOUS
<1>3. g.K = K /\ g.shard = w.shard /\ g.stripes = w.stripes
  BY <1>2
<1>4. MapGroupOK(f, g) /\ \A s \in DOMAIN g.stripes : OwnCrc(g.stripes[s])
  <2>1. w.shard \in Nat /\ w.stripes \in Seq(StripeType) /\ K \in Nat
    BY <1>1, WriterFacts, CodeAssumption
  <2>2. IsSeq(w.stripes)
    BY <2>1, SequenceIs
  <2>3. \A s \in DOMAIN w.stripes : StripeOK(f, K, w.shard, w.stripes[s]) /\ OwnCrc(w.stripes[s])
    BY <1>1 DEF WriterOK
  <2> QED BY <1>3, <2>1, <2>2, <2>3 DEF MapGroupOK
<1>5. MapGroupOK(f, NoGroup)
  <2>1. NoGroup.K = 0 /\ NoGroup.shard = 0 /\ NoGroup.stripes = <<>> /\ DOMAIN NoGroup.stripes = {}
    BY DEF NoGroup
  <2>2. IsSeq(NoGroup.stripes)
    BY <2>1 DEF IsSeq
  <2> QED BY <2>1, <2>2 DEF MapGroupOK
<1>6. PICK map : map = [name \in Groups |-> IF name = "data" THEN g ELSE NoGroup]
  OBVIOUS
<1>7. /\ DOMAIN map = Groups /\ map["data"] = g
      /\ \A name \in Groups : map[name] = g \/ map[name] = NoGroup
  BY <1>6 DEF Groups
<1>8. MapOK(f, map)
  BY <1>3, <1>4, <1>5, <1>7 DEF MapOK
<1>9. DataGroup(y) = [file |-> f, map |-> map]
  BY <1>1, <1>2, <1>6 DEF DataGroup
<1>10. PICK x : x = DataGroup(y)
  OBVIOUS
<1>11. x.file = f /\ x.map = map /\ x = [file |-> x.file, map |-> x.map]
  BY <1>9, <1>10
<1> QED BY <1>1, <1>8, <1>10, <1>11 DEF GroupsOK

(* The map twice, and the footer that leads to the first. *)
LEMMA MapWritten ==
  ASSUME NEW x, GroupsOK(x), MapsOK(x.file), FootersOK(x.file)
  PROVE  LET g == WriteMap(x)
         IN  Adds(x.file, g, {"ecmb", "footer"}) /\ MapsOK(g) /\ FootersOK(g)
<1>1. PICK f, map : f = x.file /\ map = x.map
  OBVIOUS
<1>2. FileOK(f) /\ MapOK(f, map) /\ MapsOK(f) /\ FootersOK(f)
  BY <1>1 DEF GroupsOK
<1>3. 1 \in Nat \ {0}
  OBVIOUS
<1>4. PICK a : a = AppendBlock(f, "ecmb", 1, map)
  OBVIOUS
<1>5. /\ Adds(f, a, {"ecmb"}) /\ Len(a) = Len(f) + 1 /\ FileOK(a)
      /\ a[Len(a)].kind = "ecmb" /\ a[Len(a)].at = End(f) /\ a[Len(a)].value = map
  BY <1>2, <1>3, <1>4, AppendBlockAdds, AddsFacts
<1>6. PICK b : b = AppendBlock(a, "ecmb", 1, map)
  OBVIOUS
<1>7. /\ Adds(a, b, {"ecmb"}) /\ Len(b) = Len(a) + 1 /\ FileOK(b)
      /\ b[Len(b)].kind = "ecmb" /\ b[Len(b)].value = map
  BY <1>3, <1>5, <1>6, AppendBlockAdds, AddsFacts
<1>8. PICK g : g = AppendBlock(b, "footer", 1, End(f))
  OBVIOUS
<1>9. /\ Adds(b, g, {"footer"}) /\ Len(g) = Len(b) + 1 /\ FileOK(g)
      /\ g[Len(g)].kind = "footer" /\ g[Len(g)].value = End(f)
  BY <1>3, <1>7, <1>8, AppendBlockAdds, AddsFacts
<1>10. MapsOK(a) /\ FootersOK(a)
  <2>1. \A i \in DOMAIN a \ DOMAIN f : a[i] = a[Len(a)]
    BY <1>2, <1>5, FileFacts
  <2>2. MapOK(a, map)
    BY <1>2, <1>5, MapStays
  <2> QED BY <1>2, <1>5, <2>1, <2>2, MapsStay, FootersStay
<1>11. MapsOK(b) /\ FootersOK(b)
  <2>1. \A i \in DOMAIN b \ DOMAIN a : b[i] = b[Len(b)]
    BY <1>5, <1>7, FileFacts
  <2>2. MapOK(b, map)
    BY <1>2, <1>5, <1>7, MapStays
  <2> QED BY <1>7, <1>10, <2>1, <2>2, MapsStay, FootersStay
<1>12. MapsOK(g) /\ FootersOK(g)
  <2>1. \A i \in DOMAIN g \ DOMAIN b : g[i] = g[Len(g)]
    BY <1>7, <1>9, FileFacts
  <2>2. MapsOK(g)
    BY <1>9, <1>11, <2>1, MapsStay
  <2>3. Len(a) \in DOMAIN a
    BY <1>5, FileFacts
  <2>4. Len(a) \in DOMAIN b /\ b[Len(a)] = a[Len(a)]
    BY <1>7, <2>3, AddsFacts
  <2>5. Len(a) \in DOMAIN g /\ g[Len(a)] = a[Len(a)]
    BY <1>9, <2>4, AddsFacts
  <2> QED BY <1>5, <1>9, <1>11, <2>1, <2>2, <2>5, FootersStay
<1>13. Adds(f, g, {"ecmb", "footer"})
  <2>1. Adds(f, b, {"ecmb"})
    BY <1>5, <1>7, AddsThrough
  <2> QED BY <1>9, <2>1, AddsThrough
<1>14. WriteMap(x) = g
  BY <1>1, <1>4, <1>6, <1>8 DEF WriteMap
<1> QED BY <1>1, <1>12, <1>13, <1>14

FinalKinds == ParityKinds \cup {"ecmb", "footer"}

LEMMA Finalized ==
  ASSUME NEW y, FileOK(y.file), WriterOK(y.file, y.writer), Len(y.writer.slot) < K,
         MapsOK(y.file), FootersOK(y.file), LastNotMeta(y.file)
  PROVE  LET g == ec_finalize(y) IN Adds(y.file, g, FinalKinds) /\ MapsOK(g) /\ FootersOK(g)
<1>1. CASE ~ y.writer.enabled
  <2>1. ec_finalize(y) = y.file
    BY <1>1 DEF ec_finalize
  <2> QED BY <2>1, AddsNothing
<1>2. CASE y.writer.enabled
  <2>1. PICK z : z = IF y.writer.slot # <<>> THEN ec_flush_data_stripe(y) ELSE y
    OBVIOUS
  <2>2. Adds(y.file, z.file, ParityKinds) /\ WriterOK(z.file, z.writer)
    <3>1. CASE y.writer.slot # <<>>
      <4>1. z = ec_flush_data_stripe(y)
        BY <2>1, <3>1
      <4>2. Len(y.writer.slot) <= K
        BY WriterFacts, CodeAssumption
      <4>3. Adds(y.file, z.file, {"parity"}) /\ WriterOK(z.file, z.writer)
        BY <1>2, <3>1, <4>1, <4>2, FlushOK
      <4>4. Adds(y.file, y.file, {}) /\ {"parity"} \subseteq ParityKinds
        BY AddsNothing DEF ParityKinds
      <4> QED BY <4>3, <4>4, AddsThrough
    <3>2. CASE y.writer.slot = <<>>
      BY <2>1, <3>2, AddsNothing
    <3> QED BY <3>1, <3>2
  <2>3. LastNotMeta(z.file) /\ FileOK(z.file)
    BY <2>2, LastStaysParity, AddsFacts DEF ParityKinds, MetaKinds
  <2>4. PICK a : a = DataGroup(z)
    OBVIOUS
  <2>5. GroupsOK(a) /\ a.file = z.file
    BY <2>2, <2>3, <2>4, DataGroupOK
  <2>6. PICK b : b = Ddt2Group(a)
    OBVIOUS
  <2>7. GroupsOK(b) /\ Adds(a.file, b.file, ParityKinds)
    BY <2>5, <2>6, Ddt2GroupOK
  <2>8. PICK c : c = DdtGroup(b)
    OBVIOUS
  <2>9. GroupsOK(c) /\ Adds(b.file, c.file, ParityKinds)
    BY <2>7, <2>8, DdtGroupOK
  <2>10. PICK d : d = MetadataGroup(c)
    OBVIOUS
  <2>11. GroupsOK(d) /\ Adds(c.file, d.file, ParityKinds)
    BY <2>9, <2>10, MetadataGroupOK
  <2>12. PICK e : e = IndexGroup(d)
    OBVIOUS
  <2>13. GroupsOK(e) /\ Adds(d.file, e.file, ParityKinds)
    BY <2>11, <2>12, IndexGroupOK
  <2>14. Adds(y.file, e.file, ParityKinds)
    <3>1. Adds(y.file, b.file, ParityKinds)
      BY <2>2, <2>5, <2>7, AddsThrough
    <3>2. Adds(y.file, c.file, ParityKinds)
      BY <2>9, <3>1, AddsThrough
    <3>3. Adds(y.file, d.file, ParityKinds)
      BY <2>11, <3>2, AddsThrough
    <3> QED BY <2>13, <3>3, AddsThrough
  <2>15. MapsOK(e.file) /\ FootersOK(e.file)
    <3>1. {"ecmb", "footer"} \cap ParityKinds = {}
      BY DEF ParityKinds
    <3> QED BY <2>14, <3>1, MapsAndFootersStay
  <2>16. PICK g : g = WriteMap(e)
    OBVIOUS
  <2>17. Adds(e.file, g, {"ecmb", "footer"}) /\ MapsOK(g) /\ FootersOK(g)
    BY <2>13, <2>15, <2>16, MapWritten
  <2>18. Adds(y.file, g, FinalKinds)
    BY <2>14, <2>17, AddsThrough DEF FinalKinds
  <2>19. ec_finalize(y) = g
    BY <1>2, <2>1, <2>4, <2>6, <2>8, <2>10, <2>12, <2>16 DEF ec_finalize
  <2> QED BY <2>17, <2>18, <2>19
<1> QED BY <1>1, <1>2

(***************************************************************************)
(* The actions that write.                                                 *)
(***************************************************************************)
LEMMA NoneAfterStays ==
  ASSUME NEW f, NEW g, NEW kinds, Adds(f, g, kinds), {"index", "ecmb"} \cap kinds = {},
         NEW i \in DOMAIN g, i \in DOMAIN f => NoneAfter(f, i)
  PROVE  NoneAfter(g, i)
<1> SUFFICES ASSUME NEW j \in DOMAIN g, j > i
             PROVE  g[j].kind \notin {"index", "ecmb"}
  BY DEF NoneAfter
<1>1. CASE j \in DOMAIN f
  <2>1. i \in DOMAIN f
    BY <1>1, AddsFacts, FileFacts
  <2> QED BY <1>1, <2>1, AddsFacts DEF NoneAfter
<1>2. CASE j \notin DOMAIN f
  BY <1>2, AddsFacts
<1> QED BY <1>1, <1>2

LEMMA BlocksStayIndexed ==
  ASSUME NEW f, NEW g, NEW kinds, Adds(f, g, kinds), {"index", "ecmb"} \cap kinds = {},
         BlocksIndexed(f, TRUE)
  PROVE  BlocksIndexed(g, TRUE)
<1> SUFFICES ASSUME NEW i \in DOMAIN g, g[i].kind = "data"
             PROVE  IndexedAt(g, i) \/ NoneAfter(g, i)
  BY DEF BlocksIndexed
<1>1. CASE i \in DOMAIN f
  <2>1. f[i].kind = "data"
    BY <1>1, AddsFacts
  <2>2. IndexedAt(f, i) \/ NoneAfter(f, i)
    BY <1>1, <2>1 DEF BlocksIndexed
  <2> QED BY <1>1, <2>2, IndexedStays, NoneAfterStays
<1>2. CASE i \notin DOMAIN f
  BY <1>2, NoneAfterStays
<1> QED BY <1>1, <1>2

(* The index that a close writes is after every block. *)
LEMMA IndexWritten ==
  ASSUME NEW f, NEW g, NEW h, Adds(f, g, CloseKinds), Adds(g, h, FinalKinds),
         g[Len(g)].kind = "index", BlocksIndexed(f, TRUE), Len(f) < Len(g)
  PROVE  BlocksIndexed(h, FALSE)
<1> SUFFICES ASSUME NEW i \in DOMAIN h, h[i].kind = "data"
             PROVE  IndexedAt(h, i)
  BY DEF BlocksIndexed
<1>0. FileOK(f) /\ FileOK(g) /\ FileOK(h)
  BY AddsFacts
<1>1. i \in DOMAIN g
  <2>1. "data" \notin FinalKinds
    BY DEF FinalKinds, ParityKinds
  <2> QED BY <2>1, AddsFacts
<1>2. h[i] = g[i]
  BY <1>1, AddsFacts
<1>3. i \in DOMAIN f
  <2>1. "data" \notin CloseKinds
    BY DEF CloseKinds
  <2> QED BY <1>1, <1>2, <2>1, AddsFacts
<1>4. f[i].kind = "data"
  BY <1>2, <1>3, AddsFacts
<1>5. CASE IndexedAt(f, i)
  BY <1>1, <1>3, <1>5, IndexedStays
<1>6. CASE NoneAfter(f, i)
  <2>1. Len(g) \in DOMAIN g /\ Len(g) > i
    BY <1>0, <1>3, FileFacts
  <2>2. ASSUME NEW k \in (i + 1)..Len(g)
        PROVE  g[k].kind # "ecmb"
    <3>1. k \in DOMAIN g /\ k > i
      BY <1>0, <1>1, FileFacts
    <3>2. CASE k \in DOMAIN f
      <4>1. g[k] = f[k]
        BY <3>2, AddsFacts
      <4> QED BY <1>6, <3>1, <3>2, <4>1 DEF NoneAfter
    <3>3. CASE k \notin DOMAIN f
      BY <3>1, <3>3, AddsFacts DEF CloseKinds
    <3> QED BY <3>2, <3>3
  <2>3. IndexedAt(g, i)
    BY <2>1, <2>2 DEF IndexedAt
  <2> QED BY <1>1, <2>3, IndexedStays
<1>7. IndexedAt(f, i) \/ NoneAfter(f, i)
  BY <1>3, <1>4 DEF BlocksIndexed
<1> QED BY <1>5, <1>6, <1>7

LEMMA NotReading ==
  ASSUME SectorInv, phase \in {"writing", "closed"}, phase' \in {"writing", "closed"},
         reader' = reader, last' = last
  PROVE  ReadingOK' /\ AnswersRight' /\ WithinParityAnswered'
<1>1. reader' = None /\ last' = None
  BY DEF SectorInv, ReadingOK
<1>2. ReadingOK'
  BY <1>1 DEF ReadingOK
<1>3. AnswersRight'
  BY <1>1 DEF AnswersRight
<1>4. WithinParityAnswered'
  BY <1>1 DEF WithinParityAnswered
<1> QED BY <1>2, <1>3, <1>4

LEMMA SectorInvStarts == Init => SectorInv
<1> SUFFICES ASSUME Init
             PROVE  SectorInv
  OBVIOUS
<1>1. PICK x : x = Structure("header", 0, 1, None)
  OBVIOUS
<1>2. x.kind = "header" /\ x.at = 0 /\ x.span = 1
  BY <1>1 DEF Structure
<1>3. file = <<x>> /\ Len(file) = 1 /\ DOMAIN file = {1} /\ file[1] = x /\ file \in Seq({x})
  BY <1>1 DEF Init
<1>4. FileOK(file)
  <2>1. IsSeq(file)
    BY <1>3, SequenceIs
  <2>2. Ordered(file)
    BY <1>2, <1>3 DEF Ordered
  <2> QED BY <1>2, <1>3, <2>1, <2>2 DEF FileOK
<1>5. MapsOK(file) /\ FootersOK(file) /\ BlocksIndexed(file, TRUE)
  BY <1>2, <1>3 DEF MapsOK, FootersOK, BlocksIndexed
<1>6. WriterOK(file, writer) /\ writer.next = 1 /\ writer.slot = <<>>
  <2>1. Fresh(NewWriter(1), 1, FALSE)
    BY FreshIs
  <2>2. writer = NewWriter(1)
    BY DEF Init
  <2> QED BY <2>1, <2>2, NewWriterOK
<1>7. Beyond(file, writer.next)
  BY <1>2, <1>3, <1>6 DEF Beyond
<1>8. TableOK(file)
  <2>1. table = <<>> /\ Len(table) = 0 /\ DOMAIN table = {} /\ table \in Seq(Entry)
    BY DEF Init
  <2> QED BY <2>1, ReaderAssumption DEF TableOK
<1>9. DamageOK
  BY DEF Init, DamageOK
<1>10. ReadingOK /\ AnswersRight /\ WithinParityAnswered
  BY DEF Init, ReadingOK, AnswersRight, WithinParityAnswered
<1>11. Len(writer.slot) < K
  BY <1>6, CodeAssumption
<1> QED BY <1>4, <1>5, <1>6, <1>7, <1>8, <1>9, <1>10, <1>11 DEF SectorInv, Init

LEMMA SetErasureCodingKeeps ==
  ASSUME SectorInv, SetErasureCoding
  PROVE  SectorInv'
<1>1. /\ phase = "writing" /\ phase' = "writing" /\ writer' = set_erasure_coding(writer)
      /\ UNCHANGED <<file, damage, profile, table, reader, last>>
  BY DEF SetErasureCoding
<1>2. writer.next \in Nat /\ Beyond(file, writer.next)
  BY <1>1, WriterFacts DEF SectorInv
<1>3. WriterOK(file, writer') /\ writer'.next = writer.next /\ writer'.slot = <<>>
  <2>1. PICK w, n : w = writer' /\ n = writer.next
    OBVIOUS
  <2>2. Fresh(w, n, TRUE)
    BY <1>1, <2>1 DEF set_erasure_coding, Fresh
  <2>3. WriterOK(file, w) /\ w.next = n /\ w.slot = <<>>
    BY <1>2, <2>1, <2>2, NewWriterOK
  <2> QED BY <2>1, <2>3
<1>4. ReadingOK' /\ AnswersRight' /\ WithinParityAnswered'
  BY <1>1, NotReading
<1>5. Len(writer'.slot) < K
  BY <1>3, CodeAssumption
<1>6. TableOK(file)' /\ DamageOK' /\ BlocksIndexed(file, phase = "writing")'
  BY <1>1 DEF SectorInv, TableOK, EntryOK, HasKey, IsGame, DamageOK
<1> QED BY <1>1, <1>2, <1>3, <1>4, <1>5, <1>6 DEF SectorInv

LEMMA WriteGenerableKeeps ==
  ASSUME SectorInv, WriteGenerable
  PROVE  SectorInv'
<1>1. /\ phase = "writing" /\ phase' = "writing" /\ Len(table) < Sectors
      /\ table' = Append(table, [status |-> "Generable", at |-> 0, offset |-> 0])
      /\ UNCHANGED <<file, writer, damage, profile, reader, last>>
  BY DEF WriteGenerable
<1>2. PICK e : e = [status |-> "Generable", at |-> 0, offset |-> 0]
  OBVIOUS
<1>3. e \in Entry /\ e.status = "Generable" /\ e.at = 0
  BY <1>2 DEF Entry
<1>4. table \in Seq(Entry) /\ Len(table) \in Nat /\ DOMAIN table = 1..Len(table)
  BY DEF SectorInv, TableOK
<1>5. /\ table' \in Seq(Entry) /\ Len(table') = Len(table) + 1
      /\ DOMAIN table' = 1..(Len(table) + 1)
      /\ \A i \in DOMAIN table : table'[i] = table[i]
      /\ table'[Len(table) + 1] = e
  BY <1>1, <1>2, <1>3, <1>4
<1>6. TableOK(file)'
  <2>1. \A s : HasKey(s)' <=> HasKey(s)
    BY <1>1 DEF HasKey, IsGame
  <2>2. ASSUME NEW i \in DOMAIN table'
        PROVE  EntryOK(file, i - 1, table[i])'
    <3>1. CASE i \in DOMAIN table
      <4>1. EntryOK(file, i - 1, table[i])
        BY <3>1 DEF SectorInv, TableOK
      <4> QED BY <1>1, <1>5, <2>1, <3>1, <4>1 DEF EntryOK
    <3>2. CASE i = Len(table) + 1
      BY <1>3, <1>5, <3>2 DEF EntryOK
    <3> QED BY <1>4, <1>5, <3>1, <3>2
  <2>3. Len(table') <= Sectors
    BY <1>1, <1>4, <1>5, ReaderAssumption
  <2> QED BY <1>5, <2>2, <2>3 DEF TableOK
<1>7. ReadingOK' /\ AnswersRight' /\ WithinParityAnswered'
  BY <1>1, NotReading
<1>8. DamageOK' /\ BlocksIndexed(file, phase = "writing")'
  BY <1>1 DEF SectorInv, DamageOK
<1> QED BY <1>1, <1>6, <1>7, <1>8 DEF SectorInv

LEMMA BlocksLengthen ==
  ASSUME NEW f, FileOK(f), NEW blocks, IsSeq(blocks), blocks # <<>>,
         \A m \in DOMAIN blocks : blocks[m].span \in Nat \ {0}
  PROVE  Len(f) < Len(AppendBlocks(f, blocks))
<1>0. Len(blocks) \in Nat /\ DOMAIN blocks = 1..Len(blocks) /\ Len(blocks) # 0
  BY DEF IsSeq
<1>1. PICK u : /\ u[0] = f
               /\ \A m \in 1..Len(blocks) : u[m] = BlocksStep(f, blocks, u[m - 1], m)
               /\ AppendBlocks(f, blocks) = u[Len(blocks)]
  BY BlocksSteps
<1> DEFINE S == {n \in 0..Len(blocks) : FileOK(u[n]) /\ Len(u[n]) = Len(f) + n}
<1>2. 0 \in S
  BY <1>0, <1>1, FileFacts
<1>3. ASSUME NEW n \in 0..(Len(blocks) - 1), n \in S
      PROVE  n + 1 \in S
  <2>1. n + 1 \in 1..Len(blocks) /\ (n + 1) - 1 = n
    BY <1>0
  <2>2. PICK m : m = n + 1
    OBVIOUS
  <2>3. PICK kind, span, value : kind = blocks[m].kind /\ span = blocks[m].span
                                 /\ value = <<blocks[m].kind, sessions, m>>
    OBVIOUS
  <2>4. u[m] = AppendBlock(u[n], kind, span, value)
    BY <1>1, <2>1, <2>2, <2>3 DEF BlocksStep
  <2>5. span \in Nat \ {0}
    BY <1>0, <2>1, <2>2, <2>3
  <2>6. PICK p, q : p = u[n] /\ q = u[m]
    OBVIOUS
  <2>7. FileOK(p) /\ Len(p) = Len(f) + n /\ q = AppendBlock(p, kind, span, value)
    BY <1>3, <2>4, <2>6
  <2>8. Adds(p, q, {kind}) /\ Len(q) = Len(p) + 1
    BY <2>5, <2>7, AppendBlockAdds
  <2>9. FileOK(q)
    BY <2>8, AddsFacts
  <2>10. Len(q) = Len(f) + (n + 1)
    BY <2>7, <2>8, FileFacts
  <2> QED BY <2>1, <2>2, <2>6, <2>9, <2>10
<1>4. Len(blocks) \in S
  <2> HIDE DEF S
  <2>1. 0..Len(blocks) \subseteq S
    BY <1>0, <1>2, <1>3, InductionUpTo
  <2> QED BY <1>0, <2>1
<1> QED BY <1>0, <1>1, <1>4, FileFacts

LEMMA WriteBlockKeeps ==
  ASSUME SectorInv, NEW n \in 1..MaxSize, NEW memory \in BOOLEAN, WriteBlock(n, memory)
  PROVE  SectorInv'
<1>1. /\ phase = "writing" /\ phase' = "writing" /\ Len(table) + n <= Sectors
      /\ Become(close_current_block(st, n, writer.next, memory))
      /\ table' = table \o
            [i \in 1..n |->
                [at |-> writer.next, offset |-> i,
                 status |-> IF HasKey(Len(table) + i - 1) THEN "Unencrypted" ELSE "Dumped"]]
      /\ UNCHANGED <<damage, profile, reader, last>>
  BY DEF WriteBlock
<1>2. n \in Nat \ {0}
  BY ReaderAssumption
<1>3. /\ FileOK(file) /\ WriterOK(file, writer) /\ Len(writer.slot) < K
      /\ Beyond(file, writer.next) /\ writer.next \in Nat
  BY <1>1, WriterFacts DEF SectorInv
<1>4. PICK f, w, x : f = file' /\ w = writer' /\ x = writer.next
  OBVIOUS
<1>5. /\ Adds(file, f, {"data", "parity"}) /\ WriterOK(f, w)
      /\ Len(w.slot) < K /\ Beyond(f, w.next)
      /\ \E j \in DOMAIN f : f[j].kind = "data" /\ f[j].at = x /\ f[j].span = n
  <2>1. PICK y : y = [file |-> file, writer |-> writer]
    OBVIOUS
  <2>2. PICK r : r = close_current_block(y, n, writer.next, memory)
    OBVIOUS
  <2>3. /\ Adds(file, r.file, {"data", "parity"}) /\ WriterOK(r.file, r.writer)
        /\ Len(r.writer.slot) < K /\ Beyond(r.file, r.writer.next)
        /\ \E j \in DOMAIN r.file :
              r.file[j].kind = "data" /\ r.file[j].at = writer.next /\ r.file[j].span = n
    BY <1>2, <1>3, <2>1, <2>2, BlockWritten
  <2>4. f = r.file /\ w = r.writer
    BY <1>1, <1>4, <2>1, <2>2 DEF Become, st
  <2> QED BY <1>4, <2>3, <2>4
<1>6. MapsOK(f) /\ FootersOK(f) /\ FileOK(f)
  <2>1. MapsOK(file) /\ FootersOK(file)
    BY DEF SectorInv
  <2>2. {"ecmb", "footer"} \cap {"data", "parity"} = {}
    OBVIOUS
  <2>3. MapsOK(f) /\ FootersOK(f)
    BY <1>5, <2>1, <2>2, MapsAndFootersStay
  <2> QED BY <1>5, <2>3, AddsFacts
<1>7. BlocksIndexed(f, TRUE)
  <2>1. BlocksIndexed(file, TRUE)
    BY <1>1 DEF SectorInv
  <2>2. {"index", "ecmb"} \cap {"data", "parity"} = {}
    OBVIOUS
  <2> QED BY <1>5, <2>1, <2>2, BlocksStayIndexed
<1>8. PICK e : e = [i \in 1..n |->
                      [at |-> x, offset |-> i,
                       status |-> IF HasKey(Len(table) + i - 1) THEN "Unencrypted" ELSE "Dumped"]]
  OBVIOUS
<1>9. /\ \A i \in 1..n : /\ e[i].at = x /\ e[i].offset = i
                         /\ e[i].status = IF HasKey(Len(table) + i - 1)
                                          THEN "Unencrypted" ELSE "Dumped"
      /\ \A i \in 1..n : e[i] \in Entry
  <2>1. \A i \in 1..n : e[i] = [at |-> x, offset |-> i,
            status |-> IF HasKey(Len(table) + i - 1) THEN "Unencrypted" ELSE "Dumped"]
    BY <1>8
  <2>2. ASSUME NEW i \in 1..n
        PROVE  /\ e[i].at = x /\ e[i].offset = i
               /\ e[i].status = IF HasKey(Len(table) + i - 1) THEN "Unencrypted" ELSE "Dumped"
               /\ e[i] \in Entry
    <3>1. PICK t \in {"Unencrypted", "Dumped"} :
             t = IF HasKey(Len(table) + i - 1) THEN "Unencrypted" ELSE "Dumped"
      OBVIOUS
    <3>2. e[i] = [at |-> x, offset |-> i, status |-> t]
      BY <2>1, <3>1
    <3>3. x \in Nat /\ i \in Nat
      BY <1>3, <1>4
    <3>4. e[i].at = x /\ e[i].offset = i /\ e[i].status = t /\ e[i] \in Entry
      BY <3>2, <3>3 DEF Entry
    <3> QED BY <3>1, <3>4
  <2> QED BY <2>2
<1>10. table \in Seq(Entry) /\ Len(table) \in Nat /\ DOMAIN table = 1..Len(table)
  BY DEF SectorInv, TableOK
<1>11. /\ e \in Seq(Entry) /\ Len(e) = n
  <2>1. e = [i \in 1..n |-> e[i]]
    BY <1>8
  <2>2. [i \in 1..n |-> e[i]] \in Seq(Entry)
    BY <1>2, <1>9
  <2>3. e \in Seq(Entry) /\ DOMAIN e = 1..n
    BY <2>1, <2>2
  <2> QED BY <1>2, <2>3
<1>12. PICK t : t = table'
  OBVIOUS
<1>13. /\ t \in Seq(Entry) /\ Len(t) = Len(table) + n /\ DOMAIN t = 1..(Len(table) + n)
       /\ \A i \in DOMAIN table : t[i] = table[i]
       /\ \A i \in 1..n : t[Len(table) + i] = e[i]
  <2>1. t = table \o e
    BY <1>1, <1>4, <1>8, <1>12
  <2>2. PICK T : T = Entry
    OBVIOUS
  <2>3. /\ table \in Seq(T) /\ Len(table) \in Nat /\ DOMAIN table = 1..Len(table)
        /\ e \in Seq(T) /\ Len(e) = n /\ n \in Nat
    BY <1>2, <1>10, <1>11, <2>2
  <2>4. IsSeq(table) /\ IsSeq(e)
    BY <2>3, SequenceIs
  <2>5. /\ Len(table \o e) = Len(table) + Len(e)
        /\ DOMAIN (table \o e) = 1..(Len(table) + Len(e))
        /\ \A i \in DOMAIN table : (table \o e)[i] = table[i]
        /\ \A i \in 1..Len(e) : (table \o e)[Len(table) + i] = e[i]
    BY <2>4, ConcatFacts
  <2>6. table \o e \in Seq(T)
    BY <2>3
  <2> QED BY <2>1, <2>2, <2>3, <2>5, <2>6
<1>14. ASSUME NEW i \in DOMAIN t
       PROVE  EntryOK(f, i - 1, t[i])
  <2>1. CASE i \in DOMAIN table
    <3>1. EntryOK(file, i - 1, table[i])
      BY <2>1 DEF SectorInv, TableOK
    <3> QED BY <1>5, <1>13, <2>1, <3>1, TableStays
  <2>2. CASE i \notin DOMAIN table
    <3>1. PICK k \in 1..n : i = Len(table) + k
      <4>1. i - Len(table) \in 1..n /\ i = Len(table) + (i - Len(table))
        BY <1>2, <1>10, <1>13, <2>2
      <4> QED BY <4>1
    <3>2. t[i] = e[k] /\ i - 1 = Len(table) + k - 1
      BY <1>10, <1>13, <3>1
    <3>3. e[k].status # "Generable" /\ (e[k].status = "Unencrypted" <=> HasKey(Len(table) + k - 1))
      BY <1>9
    <3>4. e[k].at = x /\ e[k].offset = k /\ k >= 1 /\ k <= n
      BY <1>2, <1>9
    <3> QED BY <1>5, <3>2, <3>3, <3>4 DEF EntryOK
  <2> QED BY <2>1, <2>2
<1>15. TableOK(file)'
  <2>1. \A s : HasKey(s)' <=> HasKey(s)
    BY <1>1 DEF HasKey, IsGame
  <2>2. ASSUME NEW i \in DOMAIN table'
        PROVE  EntryOK(file, i - 1, table[i])'
    BY <1>4, <1>12, <1>14, <2>1 DEF EntryOK
  <2>3. Len(table') <= Sectors
    BY <1>1, <1>12, <1>13
  <2> QED BY <1>12, <1>13, <2>2, <2>3 DEF TableOK
<1>16. ReadingOK' /\ AnswersRight' /\ WithinParityAnswered'
  BY <1>1, NotReading
<1>17. DamageOK'
  BY <1>1 DEF SectorInv, DamageOK
<1> QED BY <1>1, <1>4, <1>5, <1>6, <1>7, <1>15, <1>16, <1>17 DEF SectorInv

LEMMA CloseKeeps ==
  ASSUME SectorInv, Close
  PROVE  SectorInv'
<1>1. /\ phase = "writing" /\ phase' = "closed"
      /\ file' = ec_finalize([file |-> AppendBlocks(file, BlocksOfClose), writer |-> writer])
      /\ writer' = NewWriter(0)
      /\ UNCHANGED <<damage, profile, table, reader, last>>
  BY DEF Close
<1>2. /\ FileOK(file) /\ WriterOK(file, writer) /\ Len(writer.slot) < K
      /\ MapsOK(file) /\ FootersOK(file) /\ BlocksIndexed(file, TRUE)
  BY <1>1 DEF SectorInv
<1>3. PICK blocks : blocks = BlocksOfClose
  OBVIOUS
<1>4. PICK g : g = AppendBlocks(file, blocks)
  OBVIOUS
<1>5. Adds(file, g, CloseKinds) /\ g[Len(g)].kind = "index" /\ FileOK(g)
  <2>1. /\ IsSeq(blocks) /\ blocks # <<>>
        /\ \A m \in DOMAIN blocks : blocks[m].span \in Nat \ {0} /\ blocks[m].kind \in CloseKinds
        /\ blocks[Len(blocks)].kind = "index"
    BY <1>3, BlocksOfCloseAre
  <2>2. Adds(file, g, CloseKinds) /\ g[Len(g)].kind = "index"
    BY <1>2, <1>4, <2>1, BlocksAppended
  <2> QED BY <2>2, AddsFacts
<1>6. Len(file) < Len(g)
  BY <1>2, <1>3, <1>4, BlocksLengthen, BlocksOfCloseAre
<1>7. PICK y : y = [file |-> g, writer |-> writer]
  OBVIOUS
<1>8. y.file = g /\ y.writer = writer
  BY <1>7
<1>9. PICK h : h = file'
  OBVIOUS
<1>10. h = ec_finalize(y)
  BY <1>1, <1>3, <1>4, <1>7, <1>9
<1>11. Adds(g, h, FinalKinds) /\ MapsOK(h) /\ FootersOK(h) /\ FileOK(h)
  <2>1. WriterOK(g, writer)
    BY <1>2, <1>5, WriterStays
  <2>2. {"ecmb", "footer"} \cap CloseKinds = {}
    BY DEF CloseKinds
  <2>3. MapsOK(g) /\ FootersOK(g)
    BY <1>2, <1>5, <2>2, MapsAndFootersStay
  <2>4. LastNotMeta(g)
    BY <1>5 DEF LastNotMeta, MetaKinds
  <2>5. Adds(g, h, FinalKinds) /\ MapsOK(h) /\ FootersOK(h)
    BY <1>2, <1>5, <1>8, <1>10, <2>1, <2>3, <2>4, Finalized
  <2> QED BY <2>5, AddsFacts
<1>12. BlocksIndexed(h, FALSE)
  BY <1>2, <1>5, <1>6, <1>11, IndexWritten
<1>13. PICK w : w = writer'
  OBVIOUS
<1>14. WriterOK(h, w) /\ w.slot = <<>>
  <2>1. Fresh(w, 0, FALSE)
    BY <1>1, <1>13, FreshIs
  <2> QED BY <2>1, NewWriterOK
<1>15. TableOK(file)'
  <2>1. \A s : HasKey(s)' <=> HasKey(s)
    BY <1>1 DEF HasKey, IsGame
  <2>2. ASSUME NEW i \in DOMAIN table
        PROVE  EntryOK(file, i - 1, table[i])'
    <3>1. PICK e : e = table[i]
      OBVIOUS
    <3>2. EntryOK(file, i - 1, e)
      BY <3>1 DEF SectorInv, TableOK
    <3>3. EntryOK(h, i - 1, e)
      BY <1>5, <1>11, <3>2, TableStays
    <3> QED BY <1>1, <1>9, <2>1, <3>1, <3>3 DEF EntryOK
  <2>3. table \in Seq(Entry) /\ Len(table) <= Sectors
    BY DEF SectorInv, TableOK
  <2> QED BY <1>1, <2>2, <2>3 DEF TableOK
<1>16. ReadingOK' /\ AnswersRight' /\ WithinParityAnswered'
  BY <1>1, NotReading
<1>17. DamageOK'
  <2>1. damage' = damage /\ DOMAIN damage = {}
    BY <1>1 DEF SectorInv, DamageOK
  <2> QED BY <1>1, <2>1 DEF DamageOK
<1>18. Len(w.slot) < K
  BY <1>14, CodeAssumption
<1> QED BY <1>1, <1>9, <1>11, <1>12, <1>13, <1>14, <1>15, <1>16, <1>17, <1>18 DEF SectorInv

LEMMA ResumeKeeps ==
  ASSUME SectorInv, Resume
  PROVE  SectorInv'
<1>1. /\ phase = "closed" /\ phase' = "writing" /\ damage = <<>>
      /\ writer' = NewWriter(End(file))
      /\ UNCHANGED <<file, damage, profile, table, reader, last>>
  BY DEF Resume
<1>2. FileOK(file) /\ BlocksIndexed(file, FALSE)
  BY <1>1 DEF SectorInv
<1>3. Beyond(file, End(file)) /\ End(file) \in Nat
  BY <1>2, EndOf DEF Beyond
<1>4. PICK w, n : w = writer' /\ n = End(file)
  OBVIOUS
<1>5. WriterOK(file, w) /\ w.next = n /\ w.slot = <<>>
  <2>1. Fresh(w, n, FALSE)
    BY <1>1, <1>4, FreshIs
  <2> QED BY <1>3, <1>4, <2>1, NewWriterOK
<1>6. BlocksIndexed(file, TRUE)
  BY <1>2 DEF BlocksIndexed
<1>7. TableOK(file)'
  BY <1>1 DEF SectorInv, TableOK, EntryOK, HasKey, IsGame
<1>8. DamageOK'
  BY <1>1 DEF DamageOK
<1>9. ReadingOK' /\ AnswersRight' /\ WithinParityAnswered'
  BY <1>1, NotReading
<1>10. Len(w.slot) < K
  BY <1>5, CodeAssumption
<1> QED BY <1>1, <1>2, <1>3, <1>4, <1>5, <1>6, <1>7, <1>8, <1>9, <1>10 DEF SectorInv

LEMMA DamageKeeps ==
  ASSUME SectorInv, NEW i \in DOMAIN file, NEW d \in DamageOf(file[i].kind), Damage(i, d)
  PROVE  SectorInv'
<1>1. /\ phase = "closed" /\ phase' = "closed"
      /\ damage' = [j \in DOMAIN damage \cup {i} |-> IF j = i THEN d ELSE damage[j]]
      /\ UNCHANGED <<file, writer, profile, table, reader, last>>
  BY DEF Damage
<1>2. TableOK(file)'
  BY <1>1 DEF SectorInv, TableOK, EntryOK, HasKey, IsGame
<1>3. DamageOK'
  <2>1. /\ DOMAIN damage' = DOMAIN damage \cup {i}
        /\ \A j \in DOMAIN damage' : damage'[j] = IF j = i THEN d ELSE damage[j]
    BY <1>1
  <2>2. DOMAIN damage \subseteq DOMAIN file
        /\ \A j \in DOMAIN damage : damage[j] \in DamageOf(file[j].kind)
    BY DEF SectorInv, DamageOK
  <2> QED BY <1>1, <2>1, <2>2 DEF DamageOK
<1>4. ReadingOK' /\ AnswersRight' /\ WithinParityAnswered'
  BY <1>1, NotReading
<1> QED BY <1>1, <1>2, <1>3, <1>4 DEF SectorInv

(***************************************************************************)
(* The caches.                                                             *)
(***************************************************************************)
LEMMA IndexInIs ==
  ASSUME NEW c, IsSeq(c), NEW key
  PROVE  \/ IndexIn(c, key) = 0 /\ \A i \in DOMAIN c : c[i].key # key
         \/ /\ IndexIn(c, key) \in DOMAIN c /\ IndexIn(c, key) # 0
            /\ c[IndexIn(c, key)].key = key
<1>0. Len(c) \in Nat /\ DOMAIN c = 1..Len(c)
  BY SeqFacts
<1>1. PICK S : S = {i \in 1..Len(c) : c[i].key = key}
  OBVIOUS
<1>2. IndexIn(c, key) = IF S # {} THEN Min(S) ELSE 0
  BY <1>1 DEF IndexIn, SelectInSeq
<1>3. CASE S = {}
  BY <1>0, <1>1, <1>2, <1>3
<1>4. CASE S # {}
  <2>1. S \subseteq Nat
    BY <1>1
  <2>2. Min(S) \in S
    BY <1>4, <2>1, MinIn
  <2> QED BY <1>0, <1>1, <1>2, <1>4, <2>2
<1> QED BY <1>3, <1>4

LEMMA RemovedIs ==
  ASSUME NEW c, IsSeq(c), NEW i \in DOMAIN c
  PROVE  LET d == RemoveAt(c, i)
         IN  /\ IsSeq(d) /\ Len(d) = Len(c) - 1 /\ DOMAIN d = 1..(Len(c) - 1)
             /\ \A j \in DOMAIN d : d[j] = IF j < i THEN c[j] ELSE c[j + 1]
<1>0. Len(c) \in Nat /\ DOMAIN c = 1..Len(c) /\ i \in 1..Len(c)
  BY SeqFacts
<1>1. PICK T : T = Range(c)
  OBVIOUS
<1>2. c \in Seq(T)
  BY <1>1 DEF IsSeq
<1>3. PICK a, b : a = SubSeq(c, 1, i - 1) /\ b = SubSeq(c, i + 1, Len(c))
  OBVIOUS
<1>4. /\ a \in Seq(T) /\ Len(a) = i - 1 /\ \A j \in 1..(i - 1) : a[j] = c[j]
  BY <1>0, <1>2, <1>3
<1>5. /\ b \in Seq(T) /\ Len(b) = Len(c) - i /\ \A j \in 1..(Len(c) - i) : b[j] = c[j + i]
  BY <1>0, <1>2, <1>3
<1>6. PICK d : d = a \o b
  OBVIOUS
<1>7. IsSeq(a) /\ IsSeq(b)
  BY <1>4, <1>5, SequenceIs
<1>8. /\ IsSeq(d) /\ Len(d) = Len(a) + Len(b) /\ DOMAIN d = 1..(Len(a) + Len(b))
      /\ \A j \in DOMAIN a : d[j] = a[j]
      /\ \A j \in 1..Len(b) : d[Len(a) + j] = b[j]
  BY <1>6, <1>7, ConcatFacts
<1>9. Len(d) = Len(c) - 1 /\ DOMAIN d = 1..(Len(c) - 1) /\ DOMAIN a = 1..(i - 1)
  BY <1>0, <1>4, <1>5, <1>7, <1>8, SeqFacts
<1>10. ASSUME NEW j \in DOMAIN d
       PROVE  d[j] = IF j < i THEN c[j] ELSE c[j + 1]
  <2>1. CASE j < i
    <3>1. j \in DOMAIN a
      BY <1>0, <1>9, <2>1
    <3> QED BY <1>4, <1>8, <1>9, <2>1, <3>1
  <2>2. CASE ~ j < i
    <3>1. PICK k : k = j - (i - 1)
      OBVIOUS
    <3>2. k \in 1..Len(b) /\ j = Len(a) + k /\ k + i = j + 1
      BY <1>0, <1>4, <1>5, <1>9, <2>2, <3>1
    <3>3. d[j] = b[k]
      BY <1>8, <3>2
    <3>4. b[k] = c[k + i]
      BY <1>5, <3>2
    <3> QED BY <2>2, <3>2, <3>3, <3>4
  <2> QED BY <2>1, <2>2
<1>11. RemoveAt(c, i) = d
  BY <1>3, <1>6 DEF RemoveAt
<1> QED BY <1>8, <1>9, <1>10, <1>11

Sized(c) == IsSeq(c) /\ \A i \in DOMAIN c : c[i].size \in Nat

(* The sums that Bytes goes through. *)
Sums(c, u) ==
    /\ u[0] = 0
    /\ \A m \in 1..Len(c) : u[m] = u[m - 1] + c[m].size
    /\ \A m \in 0..Len(c) : u[m] \in Nat
    /\ Bytes(c) = u[Len(c)]

LEMMA SumsOf ==
  ASSUME NEW c, Sized(c)
  PROVE  \E u : Sums(c, u)
<1>0. Len(c) \in Nat /\ DOMAIN c = 1..Len(c) /\ IsSeq(c)
  BY SeqFacts DEF Sized
<1>1. PICK u : /\ u[0] = 0
               /\ \A m \in 1..Len(c) : u[m] = BytesStep(c, u[m - 1], m)
               /\ Bytes(c) = u[Len(c)]
  BY <1>0, BytesSteps
<1>2. \A m \in 1..Len(c) : u[m] = u[m - 1] + c[m].size
  BY <1>1 DEF BytesStep
<1> DEFINE S == {n \in 0..Len(c) : u[n] \in Nat}
<1>3. 0 \in S
  BY <1>0, <1>1
<1>4. ASSUME NEW n \in 0..(Len(c) - 1), n \in S
      PROVE  n + 1 \in S
  <2>1. n + 1 \in 1..Len(c) /\ (n + 1) - 1 = n
    BY <1>0
  <2>2. c[n + 1].size \in Nat
    BY <1>0, <2>1 DEF Sized
  <2> QED BY <1>2, <1>4, <2>1, <2>2
<1>5. 0..Len(c) \subseteq S
  <2> HIDE DEF S
  <2> QED BY <1>0, <1>3, <1>4, InductionUpTo
<1> QED BY <1>1, <1>2, <1>5 DEF Sums

LEMMA BytesAppended ==
  ASSUME NEW c, Sized(c), NEW e, e.size \in Nat
  PROVE  /\ Sized(Append(c, e)) /\ Bytes(Append(c, e)) = Bytes(c) + e.size
         /\ Bytes(c) \in Nat
<1>0. Len(c) \in Nat /\ DOMAIN c = 1..Len(c) /\ IsSeq(c)
  BY SeqFacts DEF Sized
<1>1. PICK d : d = Append(c, e)
  OBVIOUS
<1>2. /\ IsSeq(d) /\ Len(d) = Len(c) + 1 /\ DOMAIN d = 1..(Len(c) + 1)
      /\ \A i \in DOMAIN c : d[i] = c[i]
      /\ d[Len(c) + 1] = e
  BY <1>0, <1>1, AppendFacts
<1>3. Sized(d)
  <2>1. \A i \in DOMAIN d : i \in DOMAIN c \/ i = Len(c) + 1
    BY <1>0, <1>2
  <2> QED BY <1>2, <2>1 DEF Sized
<1>4. PICK u : Sums(c, u)
  BY SumsOf
<1>5. PICK v : Sums(d, v)
  BY <1>3, SumsOf
<1> DEFINE S == {n \in 0..Len(c) : u[n] = v[n]}
<1>6. 0 \in S
  BY <1>0, <1>4, <1>5 DEF Sums
<1>7. ASSUME NEW n \in 0..(Len(c) - 1), n \in S
      PROVE  n + 1 \in S
  <2>1. n + 1 \in 1..Len(c) /\ n + 1 \in 1..Len(d) /\ (n + 1) - 1 = n
    BY <1>0, <1>2
  <2>2. d[n + 1] = c[n + 1]
    BY <1>0, <1>2, <2>1
  <2>3. u[n + 1] = u[n] + c[n + 1].size /\ v[n + 1] = v[n] + d[n + 1].size
    BY <1>4, <1>5, <2>1 DEF Sums
  <2> QED BY <1>7, <2>1, <2>2, <2>3
<1>8. 0..Len(c) \subseteq S
  <2> HIDE DEF S
  <2> QED BY <1>0, <1>6, <1>7, InductionUpTo
<1>9. u[Len(c)] = v[Len(c)]
  BY <1>0, <1>8
<1>10. v[Len(c) + 1] = v[Len(c)] + e.size
  <2>1. Len(c) + 1 \in 1..Len(d) /\ (Len(c) + 1) - 1 = Len(c)
    BY <1>0, <1>2
  <2> QED BY <1>2, <1>5, <2>1 DEF Sums
<1>11. Bytes(c) = u[Len(c)] /\ Bytes(d) = v[Len(c) + 1] /\ u[Len(c)] \in Nat
  <2>1. Len(c) \in 0..Len(c)
    BY <1>0
  <2> QED BY <1>2, <1>4, <1>5, <2>1 DEF Sums
<1> QED BY <1>1, <1>3, <1>9, <1>10, <1>11

LEMMA BytesRemoved ==
  ASSUME NEW c, Sized(c), NEW i \in DOMAIN c
  PROVE  /\ Sized(RemoveAt(c, i)) /\ Bytes(RemoveAt(c, i)) + c[i].size = Bytes(c)
         /\ Bytes(RemoveAt(c, i)) \in Nat
<1>0. Len(c) \in Nat /\ DOMAIN c = 1..Len(c) /\ IsSeq(c) /\ i \in 1..Len(c) /\ c[i].size \in Nat
  BY SeqFacts DEF Sized
<1>1. PICK d : d = RemoveAt(c, i)
  OBVIOUS
<1>2. /\ IsSeq(d) /\ Len(d) = Len(c) - 1 /\ DOMAIN d = 1..(Len(c) - 1)
      /\ \A j \in DOMAIN d : d[j] = IF j < i THEN c[j] ELSE c[j + 1]
  BY <1>0, <1>1, RemovedIs
<1>3. Sized(d)
  <2>1. ASSUME NEW j \in DOMAIN d
        PROVE  d[j].size \in Nat
    <3>1. j \in DOMAIN c /\ j + 1 \in DOMAIN c
      BY <1>0, <1>2
    <3> QED BY <1>2, <3>1 DEF Sized
  <2> QED BY <1>2, <2>1 DEF Sized
<1>4. PICK u : Sums(c, u)
  BY SumsOf
<1>5. PICK v : Sums(d, v)
  BY <1>3, SumsOf
<1> DEFINE S == {n \in 0..(Len(c) - 1) :
                   IF n < i THEN v[n] = u[n] ELSE v[n] + c[i].size = u[n + 1]}
<1>6. 0 \in S
  BY <1>0, <1>4, <1>5 DEF Sums
<1>7. ASSUME NEW n \in 0..((Len(c) - 1) - 1), n \in S
      PROVE  n + 1 \in S
  <2>1. n + 1 \in 1..Len(d) /\ n + 1 \in DOMAIN d /\ (n + 1) - 1 = n /\ n + 1 \in 0..(Len(c) - 1)
    BY <1>0, <1>2
  <2>2. v[n + 1] = v[n] + d[n + 1].size
    BY <1>5, <2>1 DEF Sums
  <2>3. u[n + 1] = u[n] + c[n + 1].size
    <3>1. n + 1 \in 1..Len(c)
      BY <1>0
    <3> QED BY <1>4, <2>1, <3>1 DEF Sums
  <2>4. u[(n + 1) + 1] = u[n + 1] + c[(n + 1) + 1].size
    <3>1. (n + 1) + 1 \in 1..Len(c) /\ ((n + 1) + 1) - 1 = n + 1
      BY <1>0
    <3> QED BY <1>4, <3>1 DEF Sums
  <2>5. d[n + 1] = IF n + 1 < i THEN c[n + 1] ELSE c[(n + 1) + 1]
    BY <1>2, <2>1
  <2>6. /\ v[n] \in Nat /\ u[n] \in Nat /\ u[n + 1] \in Nat
        /\ c[n + 1].size \in Nat /\ c[(n + 1) + 1].size \in Nat
    <3>1. n \in 0..Len(d) /\ n \in 0..Len(c) /\ n + 1 \in 0..Len(c)
      BY <1>0, <1>2
    <3>2. n + 1 \in DOMAIN c /\ (n + 1) + 1 \in DOMAIN c
      BY <1>0
    <3> QED BY <1>4, <1>5, <3>1, <3>2 DEF Sums, Sized
  <2>7. CASE n + 1 < i
    BY <1>0, <1>7, <2>1, <2>2, <2>3, <2>5, <2>6, <2>7
  <2>8. CASE n + 1 = i
    BY <1>0, <1>7, <2>1, <2>2, <2>3, <2>4, <2>5, <2>6, <2>8
  <2>9. CASE n + 1 > i
    <3>1. ~ n < i /\ ~ n + 1 < i
      BY <1>0, <2>9
    <3>2. v[n] + c[i].size = u[n + 1]
      BY <1>7, <3>1
    <3>3. v[n + 1] = v[n] + c[(n + 1) + 1].size
      BY <2>2, <2>5, <3>1
    <3>4. v[n + 1] + c[i].size = u[(n + 1) + 1]
      BY <1>0, <2>4, <2>6, <3>2, <3>3
    <3> QED BY <2>1, <3>1, <3>4
  <2> QED BY <1>0, <2>7, <2>8, <2>9
<1>8. 0..(Len(c) - 1) \subseteq S
  <2>1. Len(c) - 1 \in Nat
    BY <1>0
  <2> HIDE DEF S
  <2> QED BY <1>6, <1>7, <2>1, InductionUpTo
<1>9. Bytes(c) = u[Len(c)] /\ Bytes(d) = v[Len(c) - 1] /\ v[Len(c) - 1] \in Nat
  <2>1. Len(c) - 1 \in 0..Len(d)
    BY <1>0, <1>2
  <2> QED BY <1>2, <1>4, <1>5, <2>1 DEF Sums
<1>10. v[Len(c) - 1] + c[i].size = u[Len(c)]
  <2>1. Len(c) - 1 \in S
    BY <1>0, <1>8
  <2>2. CASE Len(c) - 1 < i
    <3>1. i = Len(c)
      BY <1>0, <2>2
    <3>2. v[Len(c) - 1] = u[Len(c) - 1]
      BY <2>1, <2>2
    <3>3. u[Len(c)] = u[Len(c) - 1] + c[Len(c)].size
      BY <1>0, <1>4 DEF Sums
    <3> QED BY <3>1, <3>2, <3>3
  <2>3. CASE ~ Len(c) - 1 < i
    <3>1. (Len(c) - 1) + 1 = Len(c)
      BY <1>0
    <3> QED BY <2>1, <2>3, <3>1
  <2> QED BY <2>2, <2>3
<1> QED BY <1>1, <1>3, <1>9, <1>10

OneKey(c) == \A i, j \in DOMAIN c : c[i].key = c[j].key => i = j

(* What is in d was in c, or is the entry e. *)
From(d, c, e) == \A i \in DOMAIN d : d[i] = e \/ \E j \in DOMAIN c : d[i] = c[j]

LEMMA CacheFacts ==
  ASSUME NEW c, NEW budget, CacheOK(c, budget)
  PROVE  /\ Sized(c) /\ OneKey(c) /\ IsSeq(c) /\ Len(c) \in Nat /\ DOMAIN c = 1..Len(c)
         /\ Bytes(c) <= budget \/ Len(c) = 1
BY SeqFacts DEF CacheOK, CacheWithin, Sized, OneKey

LEMMA Dropped ==
  ASSUME NEW c, Sized(c), OneKey(c), NEW key
  PROVE  LET d == drop_entry(c, key)
         IN  /\ Sized(d) /\ OneKey(d)
             /\ \A i \in DOMAIN d : d[i].key # key /\ \E j \in DOMAIN c : d[i] = c[j]
<1>0. Len(c) \in Nat /\ DOMAIN c = 1..Len(c) /\ IsSeq(c)
  BY SeqFacts DEF Sized
<1>1. PICK i : i = IndexIn(c, key)
  OBVIOUS
<1>2. PICK d : d = drop_entry(c, key)
  OBVIOUS
<1>3. CASE i = 0
  <2>1. \A j \in DOMAIN c : c[j].key # key
    BY <1>0, <1>1, <1>3, IndexInIs
  <2>2. d = c
    BY <1>1, <1>2, <1>3 DEF drop_entry
  <2> QED BY <1>2, <2>1, <2>2
<1>4. CASE i # 0
  <2>1. i \in DOMAIN c /\ c[i].key = key
    BY <1>0, <1>1, <1>4, IndexInIs
  <2>2. d = RemoveAt(c, i)
    BY <1>1, <1>2, <1>4 DEF drop_entry
  <2>3. /\ IsSeq(d) /\ DOMAIN d = 1..(Len(c) - 1)
        /\ \A j \in DOMAIN d : d[j] = IF j < i THEN c[j] ELSE c[j + 1]
    BY <1>0, <2>1, <2>2, RemovedIs
  <2>4. Sized(d)
    BY <2>1, <2>2, BytesRemoved
  <2>5. \A j \in DOMAIN d : \E k \in DOMAIN c :
           d[j] = c[k] /\ k # i /\ k = IF j < i THEN j ELSE j + 1
    <3>1. TAKE j \in DOMAIN d
    <3>2. PICK k : k = IF j < i THEN j ELSE j + 1
      OBVIOUS
    <3>3. k \in DOMAIN c /\ k # i /\ d[j] = c[k]
      BY <1>0, <2>1, <2>3, <3>2
    <3> QED BY <3>2, <3>3
  <2>6. OneKey(d)
    <3>1. ASSUME NEW j \in DOMAIN d, NEW m \in DOMAIN d, d[j].key = d[m].key
          PROVE  j = m
      <4>1. PICK k \in DOMAIN c : d[j] = c[k] /\ k = IF j < i THEN j ELSE j + 1
        BY <2>5
      <4>2. PICK l \in DOMAIN c : d[m] = c[l] /\ l = IF m < i THEN m ELSE m + 1
        BY <2>5
      <4>3. k = l
        BY <3>1, <4>1, <4>2 DEF OneKey
      <4> QED BY <1>0, <2>1, <2>3, <4>1, <4>2, <4>3
    <3> QED BY <3>1 DEF OneKey
  <2>7. \A j \in DOMAIN d : d[j].key # key
    BY <2>1, <2>5 DEF OneKey
  <2> QED BY <1>2, <2>4, <2>5, <2>6, <2>7
<1> QED BY <1>3, <1>4

(* A new entry at the end of what has no entry with its key. *)
LEMMA NewestAdded ==
  ASSUME NEW c, Sized(c), OneKey(c), NEW e, e.size \in Nat,
         \A i \in DOMAIN c : c[i].key # e.key
  PROVE  LET d == Append(c, e)
         IN  /\ Sized(d) /\ OneKey(d) /\ From(d, c, e)
             /\ Len(d) \in DOMAIN d /\ d[Len(d)] = e
<1>0. Len(c) \in Nat /\ DOMAIN c = 1..Len(c) /\ IsSeq(c)
  BY SeqFacts DEF Sized
<1>1. PICK d : d = Append(c, e)
  OBVIOUS
<1>2. /\ IsSeq(d) /\ Len(d) = Len(c) + 1 /\ DOMAIN d = 1..(Len(c) + 1)
      /\ \A i \in DOMAIN c : d[i] = c[i]
      /\ d[Len(c) + 1] = e
  BY <1>0, <1>1, AppendFacts
<1>3. \A i \in DOMAIN d : i \in DOMAIN c \/ i = Len(c) + 1
  BY <1>0, <1>2
<1>4. Sized(d)
  BY <1>1, BytesAppended
<1>5. OneKey(d)
  BY <1>2, <1>3 DEF OneKey
<1>6. From(d, c, e)
  BY <1>2, <1>3 DEF From
<1>7. Len(d) \in DOMAIN d /\ d[Len(d)] = e
  BY <1>0, <1>2
<1> QED BY <1>1, <1>4, <1>5, <1>6, <1>7

LEMMA FoundIn ==
  ASSUME NEW c, NEW budget \in Nat, CacheOK(c, budget), NEW key, IndexIn(c, key) # 0
  PROVE  LET d == find_in_cache(c, key)
         IN  /\ CacheOK(d, budget) /\ \A i \in DOMAIN d : \E j \in DOMAIN c : d[i] = c[j]
             /\ Len(d) \in DOMAIN d /\ d[Len(d)] = c[IndexIn(c, key)]
<1>0. Len(c) \in Nat /\ DOMAIN c = 1..Len(c) /\ IsSeq(c) /\ Sized(c) /\ OneKey(c)
  BY CacheFacts
<1>1. PICK i : i = IndexIn(c, key)
  OBVIOUS
<1>2. i \in DOMAIN c /\ c[i].key = key /\ i # 0
  BY <1>0, <1>1, IndexInIs
<1>3. PICK b, e : b = RemoveAt(c, i) /\ e = c[i]
  OBVIOUS
<1>4. drop_entry(c, key) = b
  BY <1>1, <1>2, <1>3 DEF drop_entry
<1>5. /\ Sized(b) /\ OneKey(b)
      /\ \A j \in DOMAIN b : b[j].key # key /\ \E k \in DOMAIN c : b[j] = c[k]
  BY <1>0, <1>4, Dropped
<1>6. PICK d : d = Append(b, e)
  OBVIOUS
<1>7. find_in_cache(c, key) = d
  BY <1>1, <1>2, <1>3, <1>4, <1>6 DEF find_in_cache
<1>8. e.size \in Nat /\ e.key = key
  BY <1>0, <1>2, <1>3 DEF Sized
<1>9. /\ Sized(d) /\ OneKey(d) /\ From(d, b, e)
      /\ Len(d) \in DOMAIN d /\ d[Len(d)] = e
  BY <1>5, <1>6, <1>8, NewestAdded
<1>10. Bytes(d) = Bytes(c) /\ Len(d) = Len(c)
  <2>1. Bytes(b) + e.size = Bytes(c) /\ Bytes(b) \in Nat
    BY <1>0, <1>2, <1>3, BytesRemoved
  <2>2. Bytes(d) = Bytes(b) + e.size
    BY <1>5, <1>6, <1>8, BytesAppended
  <2>3. IsSeq(b) /\ Len(b) = Len(c) - 1
    BY <1>0, <1>2, <1>3, RemovedIs
  <2>4. Len(d) = Len(b) + 1
    BY <1>6, <2>3, AppendFacts
  <2> QED BY <1>0, <2>1, <2>2, <2>3, <2>4
<1>11. CacheOK(d, budget)
  <2>1. Bytes(d) <= budget \/ Len(d) = 1
    BY <1>10, CacheFacts
  <2>2. CacheWithin(d, budget)
    BY <1>9, <2>1 DEF CacheWithin, OneKey
  <2> QED BY <1>9, <2>2 DEF CacheOK, Sized
<1>12. \A j \in DOMAIN d : \E k \in DOMAIN c : d[j] = c[k]
  BY <1>2, <1>3, <1>5, <1>9 DEF From
<1> QED BY <1>1, <1>3, <1>7, <1>9, <1>11, <1>12

(* The end of a sequence. *)
IsTail(d, c, n, l) == d = SubSeq(c, n, Len(c)) /\ l = Len(c) - n + 1

LEMMA TailFacts ==
  ASSUME NEW c, IsSeq(c), NEW n \in 1..Len(c), NEW l, NEW d, IsTail(d, c, n, l)
  PROVE  /\ IsSeq(d) /\ Len(d) = l /\ l \in Nat /\ l >= 1 /\ DOMAIN d = 1..l
         /\ \A i \in 1..l : n + i - 1 \in DOMAIN c /\ d[i] = c[n + i - 1]
<1>1. PICK T : T = Range(c)
  OBVIOUS
<1>2. c \in Seq(T) /\ Len(c) \in Nat /\ DOMAIN c = 1..Len(c)
  BY <1>1 DEF IsSeq
<1>3. n \in Nat /\ l \in Nat /\ l >= 1
  BY <1>2 DEF IsTail
<1>4. d \in Seq(T) /\ Len(d) = l /\ DOMAIN d = 1..l
  BY <1>2, <1>3 DEF IsTail
<1>5. \A i \in 1..l : n + i - 1 \in DOMAIN c
  BY <1>2, <1>3 DEF IsTail
<1>6. \A i \in 1..l : d[i] = c[n + i - 1]
  BY <1>2, <1>3, <1>4 DEF IsTail
<1> QED BY <1>3, <1>4, <1>5, <1>6, SequenceIs

(* What is left has the newest entry, and fits or is that entry alone. *)
LEMMA EvictedKeeps ==
  ASSUME NEW c, Sized(c), OneKey(c), Len(c) \in DOMAIN c, NEW budget \in Nat
  PROVE  LET d == Evicted(c, budget)
         IN  /\ CacheOK(d, budget) /\ \A i \in DOMAIN d : \E j \in DOMAIN c : d[i] = c[j]
             /\ Len(d) \in DOMAIN d /\ d[Len(d)] = c[Len(c)]
<1>0. Len(c) \in Nat /\ DOMAIN c = 1..Len(c) /\ IsSeq(c) /\ Len(c) >= 1
  BY SeqFacts DEF Sized
<1>1. PICK F : F = {n \in DOMAIN c : Bytes(SubSeq(c, n, Len(c))) <= budget \/ n = Len(c)}
  OBVIOUS
<1>2. PICK n : n = Min(F)
  OBVIOUS
<1>3. n \in F
  <2>1. Len(c) \in F
    BY <1>0, <1>1
  <2>2. F \subseteq Nat
    BY <1>0, <1>1
  <2> QED BY <1>2, <2>1, <2>2, MinIn
<1>4. n \in 1..Len(c) /\ n \in Nat
  BY <1>0, <1>1, <1>3
<1>5. Bytes(SubSeq(c, n, Len(c))) <= budget \/ n = Len(c)
  BY <1>1, <1>3
<1>6. PICK d : d = SubSeq(c, n, Len(c))
  OBVIOUS
<1>7. Evicted(c, budget) = d
  BY <1>1, <1>2, <1>6 DEF Evicted
<1>8. PICK l : l = Len(c) - n + 1
  OBVIOUS
<1>9. /\ IsSeq(d) /\ Len(d) = l /\ l \in Nat /\ l >= 1 /\ DOMAIN d = 1..l
      /\ \A i \in 1..l : n + i - 1 \in DOMAIN c /\ d[i] = c[n + i - 1]
  <2>1. IsTail(d, c, n, l)
    BY <1>6, <1>8 DEF IsTail
  <2> QED BY <1>0, <1>4, <2>1, TailFacts
<1>11. Sized(d)
  BY <1>9 DEF Sized
<1>12. OneKey(d)
  <2>1. ASSUME NEW i \in DOMAIN d, NEW j \in DOMAIN d, d[i].key = d[j].key
        PROVE  i = j
    <3>1. i \in 1..l /\ j \in 1..l
      BY <1>9
    <3>2. n + i - 1 \in DOMAIN c /\ n + j - 1 \in DOMAIN c
      BY <1>9, <3>1
    <3>3. c[n + i - 1].key = c[n + j - 1].key
      BY <1>9, <2>1, <3>1
    <3>4. n + i - 1 = n + j - 1
      BY <3>2, <3>3 DEF OneKey
    <3> QED BY <1>4, <1>9, <3>1, <3>4
  <2> QED BY <2>1 DEF OneKey
<1>13. Bytes(d) <= budget \/ Len(d) = 1
  <2>1. CASE n = Len(c)
    <3>1. l = 1
      BY <1>0, <1>8, <2>1
    <3> QED BY <1>9, <3>1
  <2>2. CASE Bytes(SubSeq(c, n, Len(c))) <= budget
    BY <1>6, <2>2
  <2> QED BY <1>5, <2>1, <2>2
<1>14. CacheOK(d, budget)
  <2>1. CacheWithin(d, budget)
    BY <1>12, <1>13 DEF CacheWithin, OneKey
  <2> QED BY <1>11, <2>1 DEF CacheOK, Sized
<1>15. Len(d) \in DOMAIN d /\ d[Len(d)] = c[Len(c)]
  <2>1. l \in 1..l /\ n + l - 1 = Len(c)
    BY <1>0, <1>4, <1>8, <1>9
  <2> QED BY <1>9, <2>1
<1>16. \A i \in DOMAIN d : \E j \in DOMAIN c : d[i] = c[j]
  BY <1>9
<1> QED BY <1>7, <1>14, <1>15, <1>16

LEMMA Added ==
  ASSUME NEW c, NEW budget \in Nat, CacheOK(c, budget), NEW key, NEW value, NEW size \in Nat
  PROVE  LET d == add_to_cache(c, key, value, size, budget)
         IN  /\ CacheOK(d, budget)
             /\ \A i \in DOMAIN d : \/ d[i].key = key /\ d[i].value = value
                                    \/ \E j \in DOMAIN c : d[i] = c[j]
             /\ Len(d) \in DOMAIN d /\ d[Len(d)].key = key /\ d[Len(d)].value = value
<1>0. Sized(c) /\ OneKey(c)
  BY CacheFacts
<1>1. PICK e : e = [key |-> key, value |-> value, size |-> size]
  OBVIOUS
<1>2. e.key = key /\ e.value = value /\ e.size = size
  BY <1>1
<1>3. PICK b : b = drop_entry(c, key)
  OBVIOUS
<1>4. /\ Sized(b) /\ OneKey(b)
      /\ \A j \in DOMAIN b : b[j].key # key /\ \E k \in DOMAIN c : b[j] = c[k]
  BY <1>0, <1>3, Dropped
<1>5. PICK a : a = Append(b, e)
  OBVIOUS
<1>6. /\ Sized(a) /\ OneKey(a) /\ From(a, b, e) /\ Len(a) \in DOMAIN a /\ a[Len(a)] = e
  BY <1>2, <1>4, <1>5, NewestAdded
<1>7. PICK d : d = Evicted(a, budget)
  OBVIOUS
<1>8. /\ CacheOK(d, budget) /\ \A i \in DOMAIN d : \E j \in DOMAIN a : d[i] = a[j]
      /\ Len(d) \in DOMAIN d /\ d[Len(d)] = a[Len(a)]
  BY <1>6, <1>7, EvictedKeeps
<1>9. add_to_cache(c, key, value, size, budget) = d
  BY <1>1, <1>3, <1>5, <1>7 DEF add_to_cache
<1>10. \A i \in DOMAIN d : \/ d[i].key = key /\ d[i].value = value
                           \/ \E j \in DOMAIN c : d[i] = c[j]
  BY <1>2, <1>4, <1>6, <1>8 DEF From
<1> QED BY <1>2, <1>6, <1>8, <1>9, <1>10

(***************************************************************************)
(* The entries of the table.                                               *)
(***************************************************************************)
(* The image that is read. *)
Image == FileOK(file) /\ TableOK(file)

IsStored(t) == EntryOf(t).status \in {"Dumped", "Unencrypted"}

SpanOf(at) == file[PlaceAt(file, at)].span

LEMMA EntryCases ==
  ASSUME Image, NEW t \in Nat
  PROVE  /\ EntryOf(t).status \in {"NotDumped", "Generable"} \/ IsStored(t)
         /\ EntryOf(t).status = "NotDumped" => Plain(t) = Zero /\ EntryOf(t).at = 0
         /\ EntryOf(t).status = "Generable" => Plain(t) = Junk(t) /\ EntryOf(t).at = 0
         /\ t >= Sectors => EntryOf(t).status = "NotDumped"
         /\ HasKey(t) /\ EntryOf(t).status # "NotDumped"
               => EntryOf(t).status \in {"Unencrypted", "Generable"}
<1>1. table \in Seq(Entry) /\ Len(table) <= Sectors /\ Sectors \in Nat
  BY ReaderAssumption DEF Image, TableOK
<1>2. CASE t < Len(table)
  <2>1. PICK e : e = EntryOf(t)
    OBVIOUS
  <2>2. t + 1 \in DOMAIN table /\ e = table[t + 1]
    BY <1>1, <1>2, <2>1 DEF EntryOf
  <2>3. e \in Entry
    BY <1>1, <2>2
  <2>4. EntryOK(file, (t + 1) - 1, table[t + 1])
    BY <2>2 DEF Image, TableOK
  <2>5. EntryOK(file, t, e)
    <3>1. (t + 1) - 1 = t
      OBVIOUS
    <3> QED BY <2>2, <2>4, <3>1
  <2>6. e.status \in {"Dumped", "Unencrypted", "Generable"}
    BY <2>3 DEF Entry
  <2>7. e.status = "Generable" => e.at = 0
    BY <2>5 DEF EntryOK
  <2>8. HasKey(t) /\ e.status # "Generable" => e.status = "Unencrypted"
    BY <2>5 DEF EntryOK
  <2> QED BY <1>1, <1>2, <2>1, <2>6, <2>7, <2>8 DEF IsStored, Plain
<1>3. CASE ~ (t < Len(table))
  <2>1. EntryOf(t) = NotDumped
    BY <1>3 DEF EntryOf
  <2>2. EntryOf(t).status = "NotDumped" /\ EntryOf(t).at = 0
    BY <2>1 DEF NotDumped
  <2> QED BY <2>2 DEF Plain, IsStored
<1> QED BY <1>2, <1>3

LEMMA StoredEntry ==
  ASSUME Image, NEW t \in Nat, IsStored(t)
  PROVE  LET e == EntryOf(t)
         IN  /\ Plain(t) = Stored(e.at, e.offset) /\ e.at \in Nat /\ e.at # 0
             /\ SpanOf(e.at) \in Nat /\ e.offset \in 1..SpanOf(e.at)
             /\ \E j \in DOMAIN file : file[j].kind = "data" /\ file[j].at = e.at
             /\ e.status = "Unencrypted" <=> HasKey(t)
             /\ e.status = "Unencrypted" \/ e.status = "Dumped"
<1>1. table \in Seq(Entry)
  BY DEF Image, TableOK
<1>2. PICK e : e = EntryOf(t)
  OBVIOUS
<1>3. e.status \in {"Dumped", "Unencrypted"}
  BY <1>2 DEF IsStored
<1>4. t < Len(table)
  <2>1. SUFFICES ASSUME ~ (t < Len(table)) PROVE FALSE
    OBVIOUS
  <2>2. e = NotDumped
    BY <1>2, <2>1 DEF EntryOf
  <2> QED BY <1>3, <2>2 DEF NotDumped
<1>5. t + 1 \in DOMAIN table /\ e = table[t + 1]
  BY <1>1, <1>2, <1>4 DEF EntryOf
<1>6. e \in Entry
  BY <1>1, <1>5
<1>7. EntryOK(file, t, e)
  <2>1. EntryOK(file, (t + 1) - 1, table[t + 1])
    BY <1>5 DEF Image, TableOK
  <2>2. (t + 1) - 1 = t
    OBVIOUS
  <2> QED BY <1>5, <2>1, <2>2
<1>8. PICK j \in DOMAIN file : file[j].kind = "data" /\ file[j].at = e.at
                               /\ e.offset >= 1 /\ e.offset <= file[j].span
  BY <1>3, <1>7 DEF EntryOK
<1>9. e.status = "Unencrypted" <=> HasKey(t)
  BY <1>3, <1>7 DEF EntryOK
<1>10. FileOK(file)
  BY DEF Image
<1>11. PlaceAt(file, e.at) = j
  BY <1>8, <1>10, PlaceOf
<1>12. SpanOf(e.at) = file[j].span
  BY <1>11 DEF SpanOf
<1>13. j # 1
  BY <1>8, <1>10 DEF FileOK
<1>14. file[j].at \in Nat /\ file[j].at >= 1 /\ file[j].span \in Nat
  BY <1>10, <1>13, FileFacts
<1>15. e.offset \in Nat
  BY <1>6 DEF Entry
<1>16. Plain(t) = Stored(e.at, e.offset)
  BY <1>2, <1>3 DEF Plain
<1> QED BY <1>2, <1>3, <1>8, <1>9, <1>12, <1>14, <1>15, <1>16

(* The sectors of a block that was rebuilt, or read where nothing is silent. *)
IsMade(q, n) == \E S : q = [i \in 1..n |-> S[i]]

LEMMA BlockHas ==
  ASSUME NEW at, SpanOf(at) \in Nat
  PROVE  /\ Len(Rebuilt(at)) = SpanOf(at) /\ Len(BlockAt(at)) = SpanOf(at)
         /\ \A i \in 1..SpanOf(at) : Rebuilt(at)[i] = Stored(at, i)
         /\ DamageAt(at) # "silent" => BlockAt(at) = Rebuilt(at)
<1>1. /\ Rebuilt(at) = [i \in 1..SpanOf(at) |-> Stored(at, i)]
      /\ BlockAt(at) = [i \in 1..SpanOf(at) |-> IF DamageAt(at) = "silent" THEN Wrong ELSE Stored(at, i)]
  BY DEF Rebuilt, BlockAt, SpanOf
<1>2. \A q : IsMade(q, SpanOf(at)) => Len(q) = SpanOf(at)
  BY DEF IsMade
<1>3. IsMade(Rebuilt(at), SpanOf(at)) /\ IsMade(BlockAt(at), SpanOf(at))
  BY <1>1 DEF IsMade
<1> QED BY <1>1, <1>2, <1>3

(***************************************************************************)
(* Readers and answers.                                                    *)
(***************************************************************************)
WithHeaders(q, r, c) == q = [r EXCEPT !.headers = c]

WithBlocks(q, r, c) == q = [r EXCEPT !.blocks = c]

WithSecondary(q, r, x) == q = [r EXCEPT !.secondary = x]

LEMMA HeadersPut ==
  ASSUME NEW r, Shaped(r), NEW c, NEW q, WithHeaders(q, r, c)
  PROVE  /\ Shaped(q) /\ q.headers = c
         /\ q.map = r.map /\ q.keys = r.keys /\ q.tracks = r.tracks
         /\ q.secondary = r.secondary /\ q.blocks = r.blocks /\ q.group = r.group
         /\ q.verified = r.verified
BY DEF Shaped, WithHeaders

LEMMA BlocksPut ==
  ASSUME NEW r, Shaped(r), NEW c, NEW q, WithBlocks(q, r, c)
  PROVE  /\ Shaped(q) /\ q.blocks = c
         /\ q.map = r.map /\ q.keys = r.keys /\ q.tracks = r.tracks
         /\ q.secondary = r.secondary /\ q.headers = r.headers /\ q.group = r.group
         /\ q.verified = r.verified
BY DEF Shaped, WithBlocks

LEMMA SecondaryPut ==
  ASSUME NEW r, Shaped(r), NEW x, NEW q, WithSecondary(q, r, x)
  PROVE  /\ Shaped(q) /\ q.secondary = x
         /\ q.map = r.map /\ q.keys = r.keys /\ q.tracks = r.tracks
         /\ q.blocks = r.blocks /\ q.headers = r.headers /\ q.group = r.group
         /\ q.verified = r.verified
BY DEF Shaped, WithSecondary

(* What no read of stored bytes changes. *)
Alike(r, q) ==
    /\ q.map = r.map /\ q.keys = r.keys /\ q.tracks = r.tracks
    /\ q.group = r.group /\ q.verified = r.verified

IsAnswer(a) ==
    a = [reader |-> a.reader, ret |-> a.ret, data |-> a.data, status |-> a.status,
         holes |-> a.holes]

LEMMA AnswerIs ==
  ASSUME NEW r, NEW ret, NEW data, NEW status, NEW a, a = Answer(r, ret, data, status)
  PROVE  /\ a.reader = r /\ a.ret = ret /\ a.data = data /\ a.status = status
         /\ ~ a.holes /\ IsAnswer(a)
<1>1. a.reader = r /\ a.ret = ret /\ a.data = data /\ a.status = status /\ a.holes = FALSE
  BY DEF Answer
<1>2. ~ a.holes
  BY <1>1, Zenon
<1>3. IsAnswer(a)
  BY DEF Answer, IsAnswer
<1> QED BY <1>1, <1>2, <1>3

(***************************************************************************)
(* The caches of a reader.                                                 *)
(***************************************************************************)
LEMMA HeaderCached ==
  ASSUME NEW r, ReaderOK(r), NEW at, NEW h, h \in {HeaderAt(at), "good"}
  PROVE  LET q == CacheHeader(r, at, h)
         IN  /\ ReaderOK(q) /\ Alike(r, q) /\ q.secondary = r.secondary
             /\ q.blocks = r.blocks /\ Last(q.headers).value = h
<1>1. PICK d : d = add_to_cache(r.headers, at, h, 1, HeaderBudget)
  OBVIOUS
<1>2. PICK q : q = CacheHeader(r, at, h)
  OBVIOUS
<1>3. WithHeaders(q, r, d)
  BY <1>1, <1>2 DEF WithHeaders, CacheHeader
<1>4. /\ Shaped(q) /\ q.headers = d
      /\ q.map = r.map /\ q.keys = r.keys /\ q.tracks = r.tracks
      /\ q.secondary = r.secondary /\ q.blocks = r.blocks /\ q.group = r.group
      /\ q.verified = r.verified
  BY <1>3, HeadersPut DEF ReaderOK
<1>5. CacheOK(r.headers, HeaderBudget) /\ HeadersOK(r.headers) /\ HeaderBudget \in Nat
  BY ReaderAssumption DEF ReaderOK
<1>6. 1 \in Nat
  OBVIOUS
<1>7. /\ CacheOK(d, HeaderBudget)
      /\ \A i \in DOMAIN d : \/ d[i].key = at /\ d[i].value = h
                             \/ \E j \in DOMAIN r.headers : d[i] = r.headers[j]
      /\ Len(d) \in DOMAIN d /\ d[Len(d)].value = h
  BY <1>1, <1>5, <1>6, Added
<1>8. HeadersOK(d)
  BY <1>5, <1>7 DEF HeadersOK
<1>9. ReaderOK(q)
  BY <1>4, <1>7, <1>8 DEF ReaderOK, GroupRight
<1>10. Last(q.headers).value = h
  BY <1>4, <1>7 DEF Last
<1> QED BY <1>2, <1>4, <1>9, <1>10 DEF Alike

LEMMA HeaderRead ==
  ASSUME NEW r, ReaderOK(r), NEW at
  PROVE  LET q == ReadHeader(r, at)
         IN  /\ ReaderOK(q) /\ Alike(r, q) /\ q.secondary = r.secondary
             /\ q.blocks = r.blocks /\ Last(q.headers).value \in {HeaderAt(at), "good"}
<1>1. CASE IndexIn(r.headers, at) = 0
  <2>1. ReadHeader(r, at) = CacheHeader(r, at, HeaderAt(at))
    BY <1>1 DEF ReadHeader
  <2>2. HeaderAt(at) \in {HeaderAt(at), "good"}
    OBVIOUS
  <2>3. PICK h : h = HeaderAt(at)
    OBVIOUS
  <2>4. PICK q : q = CacheHeader(r, at, h)
    OBVIOUS
  <2>5. /\ ReaderOK(q) /\ Alike(r, q) /\ q.secondary = r.secondary
        /\ q.blocks = r.blocks /\ Last(q.headers).value = h
    BY <2>2, <2>3, <2>4, HeaderCached
  <2> QED BY <2>1, <2>3, <2>4, <2>5
<1>2. CASE IndexIn(r.headers, at) # 0
  <2>1. PICK d : d = find_in_cache(r.headers, at)
    OBVIOUS
  <2>2. PICK q : q = ReadHeader(r, at)
    OBVIOUS
  <2>3. WithHeaders(q, r, d)
    BY <1>2, <2>1, <2>2 DEF WithHeaders, ReadHeader
  <2>4. /\ Shaped(q) /\ q.headers = d
        /\ q.map = r.map /\ q.keys = r.keys /\ q.tracks = r.tracks
        /\ q.secondary = r.secondary /\ q.blocks = r.blocks /\ q.group = r.group
        /\ q.verified = r.verified
    BY <2>3, HeadersPut DEF ReaderOK
  <2>5. CacheOK(r.headers, HeaderBudget) /\ HeadersOK(r.headers) /\ HeaderBudget \in Nat
    BY ReaderAssumption DEF ReaderOK
  <2>6. /\ CacheOK(d, HeaderBudget)
        /\ \A i \in DOMAIN d : \E j \in DOMAIN r.headers : d[i] = r.headers[j]
        /\ Len(d) \in DOMAIN d /\ d[Len(d)] = r.headers[IndexIn(r.headers, at)]
    BY <1>2, <2>1, <2>5, FoundIn
  <2>7. HeadersOK(d)
    BY <2>5, <2>6 DEF HeadersOK
  <2>8. ReaderOK(q)
    BY <2>4, <2>6, <2>7 DEF ReaderOK, GroupRight
  <2>9. IndexIn(r.headers, at) \in DOMAIN r.headers /\ r.headers[IndexIn(r.headers, at)].key = at
    BY <1>2, <2>5, IndexInIs DEF CacheOK
  <2>10. Last(q.headers).value \in {HeaderAt(at), "good"}
    <3>1. Last(q.headers) = r.headers[IndexIn(r.headers, at)]
      BY <2>4, <2>6 DEF Last
    <3> QED BY <2>5, <2>9, <3>1 DEF HeadersOK
  <2> QED BY <2>2, <2>4, <2>8, <2>10 DEF Alike
<1> QED BY <1>1, <1>2

LEMMA BlockCached ==
  ASSUME NEW r, ReaderOK(r), NEW at, NEW b, Len(b) \in Nat,
         b = Rebuilt(at) \/ DamageAt(at) = "silent"
  PROVE  LET q == CacheBlock(r, at, b)
         IN  ReaderOK(q) /\ Alike(r, q) /\ q.secondary = r.secondary
<1>1. PICK d : d = add_to_cache(r.blocks, at, b, Len(b), BlockBudget)
  OBVIOUS
<1>2. PICK q : q = CacheBlock(r, at, b)
  OBVIOUS
<1>3. WithBlocks(q, r, d)
  BY <1>1, <1>2 DEF WithBlocks, CacheBlock
<1>4. /\ Shaped(q) /\ q.blocks = d
      /\ q.map = r.map /\ q.keys = r.keys /\ q.tracks = r.tracks
      /\ q.secondary = r.secondary /\ q.headers = r.headers /\ q.group = r.group
      /\ q.verified = r.verified
  BY <1>3, BlocksPut DEF ReaderOK
<1>5. CacheOK(r.blocks, BlockBudget) /\ BlocksOK(r.blocks) /\ BlockBudget \in Nat
  BY ReaderAssumption DEF ReaderOK
<1>6. /\ CacheOK(d, BlockBudget)
      /\ \A i \in DOMAIN d : \/ d[i].key = at /\ d[i].value = b
                             \/ \E j \in DOMAIN r.blocks : d[i] = r.blocks[j]
  BY <1>1, <1>5, Added
<1>7. BlocksOK(d)
  BY <1>5, <1>6 DEF BlocksOK
<1>8. ReaderOK(q)
  BY <1>4, <1>6, <1>7 DEF ReaderOK, GroupRight
<1> QED BY <1>2, <1>4, <1>8 DEF Alike

LEMMA BlockFound ==
  ASSUME NEW r, ReaderOK(r), NEW at, IndexIn(r.blocks, at) # 0, NEW q,
         WithBlocks(q, r, find_in_cache(r.blocks, at))
  PROVE  /\ ReaderOK(q) /\ Alike(r, q) /\ q.secondary = r.secondary
         /\ \/ r.blocks[IndexIn(r.blocks, at)].value = Rebuilt(at)
            \/ DamageAt(at) = "silent"
<1>1. PICK d : d = find_in_cache(r.blocks, at)
  OBVIOUS
<1>2. /\ Shaped(q) /\ q.blocks = d
      /\ q.map = r.map /\ q.keys = r.keys /\ q.tracks = r.tracks
      /\ q.secondary = r.secondary /\ q.headers = r.headers /\ q.group = r.group
      /\ q.verified = r.verified
  BY <1>1, BlocksPut DEF ReaderOK
<1>3. CacheOK(r.blocks, BlockBudget) /\ BlocksOK(r.blocks) /\ BlockBudget \in Nat
  BY ReaderAssumption DEF ReaderOK
<1>4. /\ CacheOK(d, BlockBudget)
      /\ \A i \in DOMAIN d : \E j \in DOMAIN r.blocks : d[i] = r.blocks[j]
  BY <1>1, <1>3, FoundIn
<1>5. BlocksOK(d)
  BY <1>3, <1>4 DEF BlocksOK
<1>6. ReaderOK(q)
  BY <1>2, <1>4, <1>5 DEF ReaderOK, GroupRight
<1>7. IndexIn(r.blocks, at) \in DOMAIN r.blocks /\ r.blocks[IndexIn(r.blocks, at)].key = at
  BY <1>3, IndexInIs DEF CacheOK
<1> QED BY <1>2, <1>3, <1>6, <1>7 DEF Alike, BlocksOK

(***************************************************************************)
(* The stored bytes of a sector.                                           *)
(***************************************************************************)
(* An answer with the bytes of a block, or none. *)
FromBlock(r, t, a) ==
    /\ ReaderOK(a.reader) /\ Alike(r, a.reader) /\ a.reader.secondary = r.secondary
    /\ a.ret \in {"ok", "recovered", "damaged", "short", "no_memory"}
    /\ IsAnswer(a) /\ ~ a.holes
    /\ a.ret \in Good => a.status = EntryOf(t).status
    /\ a.ret \in Good /\ DamageAt(EntryOf(t).at) # "silent" => a.data = Plain(t)

(* Damage that leads to recovery, and recovery that succeeds. *)
Repairable(map, at) ==
    /\ DamageAt(at) \in {"intact", "identifier", "payload"}
    /\ ec_recover_data_block(map, at) = "right"

LEMMA RefusedIs ==
  ASSUME NEW r, ReaderOK(r), NEW t, NEW ret \in {"damaged", "short", "no_memory"}
  PROVE  FromBlock(r, t, Failed(r, ret)) /\ Failed(r, ret).ret = ret
<1>1. PICK a : a = Failed(r, ret)
  OBVIOUS
<1>2. a = Answer(r, ret, Zero, "NotDumped")
  BY <1>1 DEF Failed
<1>3. a.reader = r /\ a.ret = ret /\ ~ a.holes /\ IsAnswer(a)
  BY <1>2, AnswerIs
<1>4. ret \notin Good
  BY DEF Good
<1> QED BY <1>1, <1>3, <1>4 DEF FromBlock, Alike

LEMMA RecoveryTried ==
  ASSUME Image, NEW r, ReaderOK(r), NEW t \in Nat, IsStored(t)
  PROVE  LET a == ec_try_recovery(r, EntryOf(t))
         IN  /\ FromBlock(r, t, a)
             /\ ec_recover_data_block(r.map, EntryOf(t).at) = "right" => a.ret = "recovered"
<1>1. PICK e : e = EntryOf(t)
  OBVIOUS
<1>2. /\ Plain(t) = Stored(e.at, e.offset) /\ SpanOf(e.at) \in Nat
      /\ e.offset \in 1..SpanOf(e.at)
  BY <1>1, StoredEntry
<1>3. CASE ec_recover_data_block(r.map, e.at) = "right"
  <2>1. PICK b : b = Rebuilt(e.at)
    OBVIOUS
  <2>2. Len(b) \in Nat /\ b[e.offset] = Plain(t)
    BY <1>2, <2>1, BlockHas
  <2>3. PICK p : p = CacheBlock(r, e.at, b)
    OBVIOUS
  <2>4. ReaderOK(p) /\ Alike(r, p) /\ p.secondary = r.secondary
    BY <2>1, <2>2, <2>3, BlockCached
  <2>5. PICK q : q = CacheHeader(p, e.at, "good")
    OBVIOUS
  <2>6. ReaderOK(q) /\ Alike(p, q) /\ q.secondary = p.secondary
    <3>1. "good" \in {HeaderAt(e.at), "good"}
      OBVIOUS
    <3> QED BY <2>4, <2>5, <3>1, HeaderCached
  <2>7. PICK a : a = ec_try_recovery(r, e)
    OBVIOUS
  <2>8. a = Answer(q, "recovered", b[e.offset], e.status)
    BY <1>3, <2>1, <2>3, <2>5, <2>7 DEF ec_try_recovery
  <2>9. a.reader = q /\ a.ret = "recovered" /\ a.data = b[e.offset] /\ a.status = e.status
        /\ ~ a.holes /\ IsAnswer(a)
    BY <2>8, AnswerIs
  <2>10. Alike(r, q) /\ q.secondary = r.secondary
    BY <2>4, <2>6 DEF Alike
  <2> QED BY <1>1, <2>2, <2>6, <2>7, <2>9, <2>10 DEF FromBlock
<1>4. CASE ec_recover_data_block(r.map, e.at) # "right"
  <2>1. ec_try_recovery(r, e) = Failed(r, "damaged")
    BY <1>4 DEF ec_try_recovery
  <2> QED BY <1>1, <1>4, <2>1, RefusedIs
<1> QED BY <1>3, <1>4

LEMMA CacheRead ==
  ASSUME Image, NEW r, ReaderOK(r), NEW t \in Nat, IsStored(t),
         IndexIn(r.blocks, EntryOf(t).at) # 0
  PROVE  LET a == FromCache(r, EntryOf(t)) IN FromBlock(r, t, a) /\ a.ret = "ok"
<1>1. PICK e : e = EntryOf(t)
  OBVIOUS
<1>2. /\ Plain(t) = Stored(e.at, e.offset) /\ SpanOf(e.at) \in Nat
      /\ e.offset \in 1..SpanOf(e.at)
  BY <1>1, StoredEntry
<1>3. PICK q : WithBlocks(q, r, find_in_cache(r.blocks, e.at))
  BY DEF WithBlocks
<1>4. PICK v : v = r.blocks[IndexIn(r.blocks, e.at)].value
  OBVIOUS
<1>5. /\ ReaderOK(q) /\ Alike(r, q) /\ q.secondary = r.secondary
      /\ v = Rebuilt(e.at) \/ DamageAt(e.at) = "silent"
  BY <1>1, <1>3, <1>4, BlockFound
<1>6. PICK a : a = FromCache(r, e)
  OBVIOUS
<1>7. a = Answer(q, "ok", v[e.offset], e.status)
  BY <1>3, <1>4, <1>6 DEF FromCache, WithBlocks
<1>8. a.reader = q /\ a.ret = "ok" /\ a.data = v[e.offset] /\ a.status = e.status
      /\ ~ a.holes /\ IsAnswer(a)
  BY <1>7, AnswerIs
<1>9. DamageAt(e.at) # "silent" => v[e.offset] = Plain(t)
  BY <1>2, <1>5, BlockHas
<1> QED BY <1>1, <1>5, <1>6, <1>8, <1>9 DEF FromBlock

LEMMA FileRead ==
  ASSUME Image, NEW r, ReaderOK(r), NEW t \in Nat, IsStored(t)
  PROVE  LET a == FromFile(r, EntryOf(t)) IN FromBlock(r, t, a) /\ a.ret = "ok"
<1>1. PICK e : e = EntryOf(t)
  OBVIOUS
<1>2. /\ Plain(t) = Stored(e.at, e.offset) /\ SpanOf(e.at) \in Nat
      /\ e.offset \in 1..SpanOf(e.at)
  BY <1>1, StoredEntry
<1>3. PICK b : b = BlockAt(e.at)
  OBVIOUS
<1>4. Len(b) \in Nat /\ (b = Rebuilt(e.at) \/ DamageAt(e.at) = "silent")
  BY <1>2, <1>3, BlockHas
<1>5. PICK q : q = CacheBlock(r, e.at, b)
  OBVIOUS
<1>6. ReaderOK(q) /\ Alike(r, q) /\ q.secondary = r.secondary
  BY <1>4, <1>5, BlockCached
<1>7. PICK a : a = FromFile(r, e)
  OBVIOUS
<1>8. a = Answer(q, "ok", b[e.offset], e.status)
  BY <1>3, <1>5, <1>7 DEF FromFile
<1>9. a.reader = q /\ a.ret = "ok" /\ a.data = b[e.offset] /\ a.status = e.status
      /\ ~ a.holes /\ IsAnswer(a)
  BY <1>8, AnswerIs
<1>10. DamageAt(e.at) # "silent" => b[e.offset] = Plain(t)
  BY <1>2, <1>4, BlockHas
<1> QED BY <1>1, <1>6, <1>7, <1>9, <1>10 DEF FromBlock

LEMMA BlockRead ==
  ASSUME Image, NEW r, ReaderOK(r), NEW t \in Nat, IsStored(t),
         Last(r.headers).value \in {HeaderAt(EntryOf(t).at), "good"}
  PROVE  LET a == ReadBlock(r, EntryOf(t))
         IN  FromBlock(r, t, a) /\ (Repairable(r.map, EntryOf(t).at) => a.ret \in Good)
<1>1. PICK e : e = EntryOf(t)
  OBVIOUS
<1>2. CASE NeedsRecovery(r, e)
  <2>1. ReadBlock(r, e) = ec_try_recovery(r, e)
    BY <1>2 DEF ReadBlock
  <2> QED BY <1>1, <2>1, RecoveryTried DEF Good, Repairable
<1>3. CASE ~ NeedsRecovery(r, e) /\ IndexIn(r.blocks, e.at) # 0
  <2>1. ReadBlock(r, e) = FromCache(r, e)
    BY <1>3 DEF ReadBlock
  <2> QED BY <1>1, <1>3, <2>1, CacheRead DEF Good
<1>4. CASE /\ ~ NeedsRecovery(r, e) /\ IndexIn(r.blocks, e.at) = 0
           /\ Last(r.headers).value = "length"
  <2>1. ReadBlock(r, e) = Failed(r, "short")
    BY <1>4 DEF ReadBlock
  <2>2. DamageAt(e.at) = "length"
    BY <1>1, <1>4 DEF HeaderAt
  <2>3. ~ Repairable(r.map, e.at)
    BY <2>2 DEF Repairable
  <2> QED BY <1>1, <2>1, <2>3, RefusedIs
<1>5. CASE /\ ~ NeedsRecovery(r, e) /\ IndexIn(r.blocks, e.at) = 0
           /\ Last(r.headers).value # "length"
  <2>1. ReadBlock(r, e) = FromFile(r, e)
    BY <1>5 DEF ReadBlock
  <2> QED BY <1>1, <2>1, FileRead DEF Good
<1> QED BY <1>2, <1>3, <1>4, <1>5

SilentAt(t) == EntryOf(t).at # 0 /\ DamageAt(EntryOf(t).at) = "silent"

(* The bytes of an answer of ReadStored, with the table as it was written. *)
BytesOK(r, t, oom, a) ==
    /\ a.ret \in Good => IsStored(t) \/ (a.ret = "ok" /\ EntryOf(t).status = "Generable")
    /\ a.ret \in Good => a.status = EntryOf(t).status
    /\ a.ret \in Good /\ r.keys = "right" /\ ~ SilentAt(t) => a.data = Plain(t)
    /\ a.ret \in {"not_dumped", "bounds"} => Plain(t) = Zero
    /\ EntryOf(t).at # 0 /\ oom # t /\ Repairable(r.map, EntryOf(t).at) => a.ret \in Good

(* An answer of ReadStored. *)
StoredOK(r, t, oom, a) ==
    /\ ReaderOK(a.reader) /\ Alike(r, a.reader)
    /\ a.reader.secondary = IF t >= Sectors THEN r.secondary ELSE SecondaryOf(r.map)
    /\ a.ret \in Answers \cup {"bounds"} /\ (t < Sectors => a.ret \in Answers)
    /\ IsAnswer(a) /\ ~ a.holes
    /\ SecondaryOf(r.map) = "right" => BytesOK(r, t, oom, a)

LEMMA SecondaryRead ==
  ASSUME NEW r, ReaderOK(r)
  PROVE  LET q == decode_ddt_entry(r)
         IN  ReaderOK(q) /\ Alike(r, q) /\ q.secondary = SecondaryOf(r.map)
<1>1. PICK q : q = decode_ddt_entry(r)
  OBVIOUS
<1>2. CASE r.secondary \in {"right", "wrong"}
  <2>1. q = r
    BY <1>1, <1>2 DEF decode_ddt_entry
  <2>2. r.secondary # None
    BY <1>2, ReaderAssumption
  <2> QED BY <1>1, <2>1, <2>2 DEF ReaderOK, Alike
<1>3. CASE r.secondary \notin {"right", "wrong"}
  <2>1. PICK x : x = SecondaryOf(r.map)
    OBVIOUS
  <2>2. WithSecondary(q, r, x)
    BY <1>1, <1>3, <2>1 DEF decode_ddt_entry, WithSecondary, SecondaryOf
  <2>3. /\ Shaped(q) /\ q.secondary = x
        /\ q.map = r.map /\ q.keys = r.keys /\ q.tracks = r.tracks
        /\ q.blocks = r.blocks /\ q.headers = r.headers /\ q.group = r.group
        /\ q.verified = r.verified
    BY <2>2, SecondaryPut DEF ReaderOK
  <2>4. ReaderOK(q)
    BY <2>1, <2>3 DEF ReaderOK, GroupRight
  <2> QED BY <1>1, <2>1, <2>3, <2>4 DEF Alike
<1> QED BY <1>2, <1>3

LEMMA EntryRead ==
  ASSUME Image, NEW r, ReaderOK(r), r.secondary = SecondaryOf(r.map), NEW t \in 0..Sectors - 1,
         NEW oom
  PROVE  StoredOK(r, t, oom, ReadEntry(r, EntryOf(t), t, oom))
<1>0. t \in Nat /\ ~ (t >= Sectors) /\ t < Sectors
  BY ReaderAssumption
<1>1. PICK e : e = EntryOf(t)
  OBVIOUS
<1>2. PICK a : a = ReadEntry(r, e, t, oom)
  OBVIOUS
<1>3. SUFFICES StoredOK(r, t, oom, a)
  BY <1>1, <1>2
<1>4. CASE r.secondary = "failed"
  <2>1. a = Answer(r, "damaged", Zero, "NotDumped")
    BY <1>2, <1>4 DEF ReadEntry, Failed
  <2>2. a.reader = r /\ a.ret = "damaged" /\ ~ a.holes /\ IsAnswer(a)
    BY <2>1, AnswerIs
  <2>3. SecondaryOf(r.map) # "right"
    BY <1>4
  <2> QED BY <1>0, <2>2, <2>3 DEF StoredOK, BytesOK, Alike, Answers
<1>5. CASE r.secondary = "wrong"
  <2>1. a = Answer(r, "ok", Wrong, "Dumped")
    BY <1>2, <1>5 DEF ReadEntry
  <2>2. a.reader = r /\ a.ret = "ok" /\ ~ a.holes /\ IsAnswer(a)
    BY <2>1, AnswerIs
  <2>3. SecondaryOf(r.map) # "right"
    BY <1>5
  <2> QED BY <1>0, <2>2, <2>3 DEF StoredOK, BytesOK, Alike, Answers
<1>6. CASE r.secondary \notin {"failed", "wrong"} /\ e.status = "NotDumped"
  <2>1. a = Answer(r, "not_dumped", Zero, "NotDumped")
    BY <1>2, <1>6 DEF ReadEntry, Failed
  <2>2. a.reader = r /\ a.ret = "not_dumped" /\ ~ a.holes /\ IsAnswer(a)
    BY <2>1, AnswerIs
  <2>3. Plain(t) = Zero /\ EntryOf(t).at = 0
    BY <1>0, <1>1, <1>6, EntryCases
  <2>4. a.ret \notin Good
    BY <2>2 DEF Good
  <2> QED BY <1>0, <2>2, <2>3, <2>4 DEF StoredOK, BytesOK, Alike, Answers
<1>7. CASE r.secondary \notin {"failed", "wrong"} /\ e.status = "Generable"
  <2>1. PICK d : d = IF r.keys = "right" THEN Junk(t) ELSE Zero
    OBVIOUS
  <2>2. a = Answer(r, "ok", d, "Generable")
    BY <1>2, <1>7, <2>1 DEF ReadEntry, ngcw_regenerate_junk_sector, ngcw_junk_lazy_init
  <2>3. a.reader = r /\ a.ret = "ok" /\ a.data = d /\ a.status = "Generable" /\ ~ a.holes /\ IsAnswer(a)
    BY <2>2, AnswerIs
  <2>4. Plain(t) = Junk(t) /\ EntryOf(t).at = 0
    BY <1>0, <1>1, <1>7, EntryCases
  <2>5. a.ret \in Good
    BY <2>3 DEF Good
  <2> QED BY <1>0, <1>1, <1>7, <2>1, <2>3, <2>4, <2>5 DEF StoredOK, BytesOK, Alike, Answers
<1>8. CASE r.secondary \notin {"failed", "wrong"} /\ e.status \notin {"NotDumped", "Generable"}
  <2>1. IsStored(t)
    BY <1>0, <1>1, <1>8, EntryCases
  <2>2. PICK q : q = ReadHeader(r, e.at)
    OBVIOUS
  <2>3. /\ ReaderOK(q) /\ Alike(r, q) /\ q.secondary = r.secondary
        /\ Last(q.headers).value \in {HeaderAt(e.at), "good"}
    BY <2>2, HeaderRead
  <2>4. a = ReadDumped(q, e, t, oom)
    BY <1>2, <1>8, <2>2 DEF ReadEntry
  <2>5. FromBlock(q, t, a) /\ (oom # t /\ Repairable(q.map, e.at) => a.ret \in Good)
    <3>1. CASE oom = t /\ IndexIn(q.blocks, e.at) = 0
      <4>1. a = Failed(q, "no_memory")
        BY <2>4, <3>1 DEF ReadDumped
      <4> QED BY <2>3, <3>1, <4>1, RefusedIs
    <3>2. CASE ~ (oom = t /\ IndexIn(q.blocks, e.at) = 0)
      <4>1. a = ReadBlock(q, e)
        BY <2>4, <3>2 DEF ReadDumped
      <4> QED BY <1>0, <1>1, <2>1, <2>3, <4>1, BlockRead
    <3> QED BY <3>1, <3>2
  <2>6. ReaderOK(a.reader) /\ Alike(r, a.reader) /\ a.reader.secondary = r.secondary
    BY <2>3, <2>5 DEF FromBlock, Alike
  <2>7. /\ a.ret \in {"ok", "recovered", "damaged", "short", "no_memory"}
        /\ a.ret \in Good => a.status = EntryOf(t).status
        /\ a.ret \in Good /\ DamageAt(EntryOf(t).at) # "silent" => a.data = Plain(t)
    BY <2>5 DEF FromBlock
  <2>8. IsAnswer(a) /\ ~ a.holes
    BY <2>5 DEF FromBlock
  <2>9. q.map = r.map
    BY <2>3 DEF Alike
  <2>10. EntryOf(t).at # 0
    BY <1>0, <2>1, StoredEntry
  <2>11. a.ret \notin {"not_dumped", "bounds"} /\ a.ret \in Answers
    BY <2>7 DEF Answers
  <2>12. oom # t /\ Repairable(r.map, EntryOf(t).at) => a.ret \in Good
    BY <1>1, <2>5, <2>9
  <2>13. ~ SilentAt(t) => DamageAt(EntryOf(t).at) # "silent"
    BY <2>10 DEF SilentAt
  <2>14. /\ a.ret \in Answers \cup {"bounds"}
         /\ a.reader.secondary = IF t >= Sectors THEN r.secondary ELSE SecondaryOf(r.map)
    BY <1>0, <2>6, <2>11
  <2>15. BytesOK(r, t, oom, a)
    BY <2>1, <2>7, <2>11, <2>12, <2>13 DEF BytesOK
  <2> QED BY <2>6, <2>8, <2>11, <2>14, <2>15 DEF StoredOK
<1> QED BY <1>4, <1>5, <1>6, <1>7, <1>8

LEMMA StoredRead ==
  ASSUME Image, NEW r, ReaderOK(r), NEW t \in Nat, NEW oom
  PROVE  StoredOK(r, t, oom, ReadStored(r, t, oom))
<1>0. Sectors \in Nat
  BY ReaderAssumption
<1>1. CASE t >= Sectors
  <2>1. PICK a : a = ReadStored(r, t, oom)
    OBVIOUS
  <2>2. a = Answer(r, "bounds", Zero, "NotDumped")
    BY <1>1, <2>1 DEF ReadStored, Failed
  <2>3. a.reader = r /\ a.ret = "bounds" /\ ~ a.holes /\ IsAnswer(a)
    BY <2>2, AnswerIs
  <2>4. a.ret \notin Good
    BY <2>3 DEF Good
  <2>5. Plain(t) = Zero /\ EntryOf(t).at = 0
    BY <1>1, EntryCases
  <2>6. ~ (t < Sectors)
    BY <1>0, <1>1
  <2> QED BY <1>1, <2>1, <2>3, <2>4, <2>5, <2>6 DEF StoredOK, BytesOK, Alike
<1>2. CASE ~ (t >= Sectors)
  <2>1. t \in 0..Sectors - 1
    BY <1>0, <1>2
  <2>2. PICK q : q = decode_ddt_entry(r)
    OBVIOUS
  <2>3. ReaderOK(q) /\ Alike(r, q) /\ q.secondary = SecondaryOf(r.map)
    BY <2>2, SecondaryRead
  <2>4. q.map = r.map /\ q.keys = r.keys
    BY <2>3 DEF Alike
  <2>5. PICK a : a = ReadEntry(q, EntryOf(t), t, oom)
    OBVIOUS
  <2>6. StoredOK(q, t, oom, a)
    BY <2>1, <2>3, <2>4, <2>5, EntryRead
  <2>7. StoredOK(r, t, oom, a)
    BY <1>2, <2>3, <2>4, <2>6 DEF StoredOK, BytesOK, Alike
  <2>8. ReadStored(r, t, oom) = a
    BY <1>2, <2>2, <2>5 DEF ReadStored
  <2> QED BY <2>7, <2>8
<1> QED BY <1>1, <1>2

(***************************************************************************)
(* Groups of sectors.                                                      *)
(***************************************************************************)
LEMMA GroupHolds ==
  ASSUME NEW s \in Nat
  PROVE  /\ FirstOf(s) \in Nat /\ DOMAIN GroupOf(s) = 1..GroupSize
         /\ \A i \in 1..GroupSize : /\ GroupOf(s)[i] = FirstOf(s) + i - 1
                                    /\ GroupOf(s)[i] \in Nat
         /\ \E i \in 1..GroupSize : GroupOf(s)[i] = s
<1>0. GroupSize \in Nat /\ GroupSize >= 1
  BY ReaderAssumption
<1>1. FirstOf(s) \in Nat
  BY <1>0 DEF FirstOf
<1>2. PICK m \in 0..GroupSize - 1 : s = FirstOf(s) + m
  <2>1. s = GroupSize * (s \div GroupSize) + (s % GroupSize) /\ s % GroupSize \in 0..GroupSize - 1
    BY <1>0
  <2>2. FirstOf(s) = GroupSize * (s \div GroupSize)
    BY <1>0 DEF FirstOf
  <2> QED BY <2>1, <2>2
<1>3. DOMAIN GroupOf(s) = 1..GroupSize /\ \A i \in 1..GroupSize : GroupOf(s)[i] = FirstOf(s) + i - 1
  BY DEF GroupOf
<1>4. \A i \in 1..GroupSize : GroupOf(s)[i] \in Nat
  BY <1>0, <1>1, <1>3
<1>5. m + 1 \in 1..GroupSize /\ FirstOf(s) + (m + 1) - 1 = s
  BY <1>0, <1>1, <1>2
<1>6. GroupOf(s)[m + 1] = s
  BY <1>3, <1>5
<1> QED BY <1>1, <1>3, <1>4, <1>5, <1>6

LEMMA SilentGroup ==
  ASSUME NEW s \in Nat
  PROVE  /\ SilentIn(s) <=> SilentFrom(FirstOf(s))
         /\ SilentAt(s) => SilentIn(s)
<1>1. /\ DOMAIN GroupOf(s) = 1..GroupSize
      /\ \A i \in 1..GroupSize : GroupOf(s)[i] = FirstOf(s) + i - 1
      /\ \E i \in 1..GroupSize : GroupOf(s)[i] = s
  BY GroupHolds
<1>2. SilentIn(s) <=> \E i \in 1..GroupSize : SilentAt(GroupOf(s)[i])
  BY <1>1 DEF SilentIn, SilentAt, Range
<1>3. SilentFrom(FirstOf(s)) <=> \E i \in 1..GroupSize : SilentAt(FirstOf(s) + i - 1)
  BY DEF SilentFrom, SilentAt
<1> QED BY <1>1, <1>2, <1>3

(* The bytes of the group of s from the first on, right or with holes. *)
RightUpTo(r, s, data, contents, n) ==
    /\ SecondaryOf(r.map) = "right" /\ r.keys = "right" /\ ~ SilentFrom(FirstOf(s))
    /\ data = Plain(s)
    => \A i \in 1..n : contents[i] = Plain(FirstOf(s) + i - 1)

BuildOK(r, s, data, n, g) ==
    /\ g = [reader |-> g.reader, contents |-> g.contents, holes |-> g.holes]
    /\ ReaderOK(g.reader) /\ Alike(r, g.reader) /\ g.reader.secondary = SecondaryOf(r.map)
    /\ IsSeq(g.contents) /\ Len(g.contents) = n
    /\ g.holes \/ RightUpTo(r, s, data, g.contents, n)

RightNext(r, s, data, e, n) ==
    /\ SecondaryOf(r.map) = "right" /\ r.keys = "right" /\ ~ SilentFrom(FirstOf(s))
    /\ data = Plain(s)
    => e = Plain(FirstOf(s) + n)

LEMMA RightOneMore ==
  ASSUME NEW r, NEW s \in Nat, NEW data, NEW q, IsSeq(q), NEW n \in 0..GroupSize - 1, Len(q) = n,
         NEW e, RightUpTo(r, s, data, q, n), RightNext(r, s, data, e, n)
  PROVE  RightUpTo(r, s, data, Append(q, e), n + 1)
<1>0. GroupSize \in Nat /\ n \in Nat /\ FirstOf(s) \in Nat
  BY ReaderAssumption, GroupHolds
<1>1. PICK d : d = Append(q, e)
  OBVIOUS
<1>2. (\A i \in DOMAIN q : d[i] = q[i]) /\ d[n + 1] = e /\ DOMAIN q = 1..n
  BY <1>1, AppendFacts, SeqFacts
<1>3. SUFFICES ASSUME SecondaryOf(r.map) = "right", r.keys = "right",
                      ~ SilentFrom(FirstOf(s)), data = Plain(s), NEW i \in 1..n + 1
               PROVE  d[i] = Plain(FirstOf(s) + i - 1)
  BY <1>1 DEF RightUpTo
<1>4. CASE i \in 1..n
  BY <1>2, <1>3, <1>4 DEF RightUpTo
<1>5. CASE i = n + 1
  <2>1. FirstOf(s) + i - 1 = FirstOf(s) + n
    BY <1>0, <1>5
  <2> QED BY <1>2, <1>3, <1>5, <2>1 DEF RightNext
<1> QED BY <1>0, <1>4, <1>5

LEMMA SliceAdded ==
  ASSUME NEW g, NEW a
  PROVE  LET h == AddSlice(g, a)
         IN  /\ h = [reader |-> h.reader, contents |-> h.contents, holes |-> h.holes]
             /\ h.reader = a.reader /\ h.contents = Append(g.contents, Slice(a))
             /\ h.holes = (g.holes \/ a.ret \notin Good \cup {"not_dumped", "bounds"})
BY DEF AddSlice

LEMMA BuildGoesOn ==
  ASSUME Image, NEW r, NEW s \in Nat, NEW data, NEW oom, NEW n \in 0..GroupSize - 1, NEW g,
         BuildOK(r, s, data, n, g)
  PROVE  BuildOK(r, s, data, n + 1, BuildStep(r, s, data, oom, g, n + 1))
<1>0. GroupSize \in Nat /\ n \in Nat /\ FirstOf(s) \in Nat /\ n + 1 \in 1..GroupSize
  BY ReaderAssumption, GroupHolds
<1>1. PICK t : t = GroupOf(s)[n + 1]
  OBVIOUS
<1>2. t = FirstOf(s) + n /\ t \in Nat
  <2>1. t = FirstOf(s) + (n + 1) - 1
    BY <1>0, <1>1, GroupHolds
  <2> QED BY <1>0, <2>1
<1>3. /\ g = [reader |-> g.reader, contents |-> g.contents, holes |-> g.holes]
      /\ ReaderOK(g.reader) /\ Alike(r, g.reader) /\ g.reader.secondary = SecondaryOf(r.map)
      /\ IsSeq(g.contents) /\ Len(g.contents) = n
  BY DEF BuildOK
<1>4. g.holes \/ RightUpTo(r, s, data, g.contents, n)
  BY DEF BuildOK
<1>5. PICK h : h = BuildStep(r, s, data, oom, g, n + 1)
  OBVIOUS
<1>6. CASE t = s
  <2>1. h = [g EXCEPT !.contents = Append(@, data)]
    BY <1>1, <1>5, <1>6 DEF BuildStep
  <2>2. /\ h = [reader |-> h.reader, contents |-> h.contents, holes |-> h.holes]
        /\ h.reader = g.reader /\ h.contents = Append(g.contents, data)
        /\ h.holes = g.holes
    BY <1>3, <2>1
  <2>3. IsSeq(h.contents) /\ Len(h.contents) = n + 1
    BY <1>3, <2>2, AppendFacts
  <2>4. RightNext(r, s, data, data, n)
    BY <1>2, <1>6 DEF RightNext
  <2>5. RightUpTo(r, s, data, g.contents, n) => RightUpTo(r, s, data, h.contents, n + 1)
    <3>1. PICK q : q = g.contents
      OBVIOUS
    <3>2. IsSeq(q) /\ Len(q) = n
      BY <1>3, <3>1
    <3>3. RightUpTo(r, s, data, q, n) => RightUpTo(r, s, data, Append(q, data), n + 1)
      BY <2>4, <3>2, RightOneMore
    <3>4. h.contents = Append(q, data)
      BY <2>2, <3>1
    <3> QED BY <3>1, <3>3, <3>4
  <2>6. h.holes \/ RightUpTo(r, s, data, h.contents, n + 1)
    <3>1. CASE g.holes
      <4>1. h.holes
        BY <2>2, <3>1, Zenon
      <4> QED BY <4>1
    <3>2. CASE RightUpTo(r, s, data, g.contents, n)
      BY <2>5, <3>2
    <3> QED BY <1>4, <3>1, <3>2
  <2> QED BY <1>3, <1>5, <2>2, <2>3, <2>6 DEF BuildOK
<1>7. CASE t # s
  <2>1. PICK a : a = ReadStored(g.reader, t, oom)
    OBVIOUS
  <2>2. StoredOK(g.reader, t, oom, a)
    BY <1>2, <1>3, <2>1, StoredRead
  <2>3. h = AddSlice(g, a)
    BY <1>1, <1>5, <1>7, <2>1 DEF BuildStep
  <2>4. /\ h = [reader |-> h.reader, contents |-> h.contents, holes |-> h.holes]
        /\ h.reader = a.reader /\ h.contents = Append(g.contents, Slice(a))
        /\ h.holes = (g.holes \/ a.ret \notin Good \cup {"not_dumped", "bounds"})
    BY <2>3, SliceAdded
  <2>5. IsSeq(h.contents) /\ Len(h.contents) = n + 1
    BY <1>3, <2>4, AppendFacts
  <2>6. g.reader.map = r.map /\ g.reader.keys = r.keys
    BY <1>3 DEF Alike
  <2>7. ReaderOK(h.reader) /\ Alike(r, h.reader) /\ h.reader.secondary = SecondaryOf(r.map)
    BY <1>3, <2>2, <2>4, <2>6 DEF StoredOK, BytesOK, Alike
  <2>8. ASSUME a.ret \in Good \cup {"not_dumped", "bounds"}, RightUpTo(r, s, data, g.contents, n)
        PROVE  RightUpTo(r, s, data, h.contents, n + 1)
    <3>1. PICK e : e = Slice(a)
      OBVIOUS
    <3>2. ASSUME SecondaryOf(r.map) = "right", r.keys = "right", ~ SilentFrom(FirstOf(s)),
                 data = Plain(s)
          PROVE  e = Plain(FirstOf(s) + n)
      <4>1. ~ SilentAt(t)
        <5>1. FirstOf(s) + (n + 1) - 1 = t
          BY <1>0, <1>2
        <5> QED BY <1>0, <3>2, <5>1 DEF SilentFrom, SilentAt
      <4>2. a.ret \in Good => a.data = Plain(t)
        BY <2>2, <2>6, <3>2, <4>1 DEF StoredOK, BytesOK
      <4>3. a.ret \in {"not_dumped", "bounds"} => Plain(t) = Zero
        BY <2>2, <2>6, <3>2 DEF StoredOK, BytesOK
      <4> QED BY <1>2, <2>8, <3>1, <4>2, <4>3 DEF Slice
    <3>3. RightNext(r, s, data, e, n)
      BY <3>2 DEF RightNext
    <3>4. PICK q : q = g.contents
      OBVIOUS
    <3>5. IsSeq(q) /\ Len(q) = n /\ RightUpTo(r, s, data, q, n)
      BY <1>3, <2>8, <3>4
    <3>6. RightUpTo(r, s, data, Append(q, e), n + 1)
      BY <3>3, <3>5, RightOneMore
    <3>7. h.contents = Append(q, e)
      BY <2>4, <3>1, <3>4
    <3> QED BY <3>6, <3>7
  <2>9. h.holes \/ RightUpTo(r, s, data, h.contents, n + 1)
    <3>1. CASE g.holes \/ a.ret \notin Good \cup {"not_dumped", "bounds"}
      <4>1. h.holes
        BY <2>4, <3>1, Zenon
      <4> QED BY <4>1
    <3>2. CASE ~ (g.holes \/ a.ret \notin Good \cup {"not_dumped", "bounds"})
      BY <1>4, <2>8, <3>2
    <3> QED BY <3>1, <3>2
  <2> QED BY <1>5, <2>4, <2>5, <2>7, <2>9 DEF BuildOK
<1> QED BY <1>6, <1>7

LEMMA GroupBuilt ==
  ASSUME Image, NEW r, ReaderOK(r), r.secondary = SecondaryOf(r.map), NEW s \in Nat,
         NEW data, NEW oom
  PROVE  BuildOK(r, s, data, GroupSize, BuildGroup(r, s, data, oom))
<1>0. GroupSize \in Nat
  BY ReaderAssumption
<1>1. PICK u : /\ u[0] = NothingBuilt(r)
               /\ \A m \in 1..GroupSize : u[m] = BuildStep(r, s, data, oom, u[m - 1], m)
               /\ BuildGroup(r, s, data, oom) = u[GroupSize]
  BY BuildSteps
<1>2. PICK S : S = {n \in 0..GroupSize : BuildOK(r, s, data, n, u[n])}
  OBVIOUS
<1>3. 0 \in S
  <2>1. PICK g : g = NothingBuilt(r)
    OBVIOUS
  <2>2. /\ g = [reader |-> g.reader, contents |-> g.contents, holes |-> g.holes]
        /\ g.reader = r /\ g.contents = <<>>
    BY <2>1 DEF NothingBuilt
  <2>3. IsSeq(<<>>) /\ Len(<<>>) = 0
    BY DEF IsSeq
  <2>4. RightUpTo(r, s, data, g.contents, 0)
    BY DEF RightUpTo
  <2>5. BuildOK(r, s, data, 0, g)
    BY <2>2, <2>3, <2>4 DEF BuildOK, Alike
  <2> QED BY <1>0, <1>1, <1>2, <2>1, <2>5
<1>4. ASSUME NEW n \in 0..GroupSize - 1, n \in S
      PROVE  n + 1 \in S
  <2>1. BuildOK(r, s, data, n, u[n])
    BY <1>2, <1>4
  <2>2. n + 1 \in 1..GroupSize /\ (n + 1) - 1 = n /\ n + 1 \in 0..GroupSize
    BY <1>0
  <2>3. u[n + 1] = BuildStep(r, s, data, oom, u[n], n + 1)
    BY <1>1, <2>2
  <2>4. PICK g : g = u[n]
    OBVIOUS
  <2>5. BuildOK(r, s, data, n + 1, BuildStep(r, s, data, oom, g, n + 1))
    BY <2>1, <2>4, BuildGoesOn
  <2> QED BY <1>2, <2>2, <2>3, <2>4, <2>5
<1>5. 0..GroupSize \subseteq S
  BY <1>0, <1>3, <1>4, InductionUpTo
<1>6. GroupSize \in 0..GroupSize
  BY <1>0
<1>7. BuildOK(r, s, data, GroupSize, u[GroupSize])
  BY <1>2, <1>5, <1>6
<1> QED BY <1>1, <1>7

(***************************************************************************)
(* What read_sector answers.                                               *)
(***************************************************************************)
WithGroup(q, r, group) == q = [r EXCEPT !.group = group]

(* What no read changes. *)
Kept(r, q) ==
    q.map = r.map /\ q.keys = r.keys /\ q.tracks = r.tracks /\ q.verified = r.verified

LEMMA GroupPut ==
  ASSUME NEW r, Shaped(r), NEW group, NEW q, WithGroup(q, r, group)
  PROVE  /\ Shaped(q) /\ q.group = group
         /\ q.map = r.map /\ q.keys = r.keys /\ q.tracks = r.tracks
         /\ q.blocks = r.blocks /\ q.headers = r.headers /\ q.secondary = r.secondary
         /\ q.verified = r.verified
BY DEF Shaped, WithGroup

(* The bytes at hand when a group is built. *)
DataRight(r, s, data) ==
    SecondaryOf(r.map) = "right" /\ r.keys = "right" /\ ~ SilentFrom(FirstOf(s))
    => data = Plain(s)

LEMMA GroupCachedRight ==
  ASSUME Image, NEW r, ReaderOK(r), r.secondary = SecondaryOf(r.map), NEW s \in Nat,
         NEW data, NEW g, BuildOK(r, s, data, GroupSize, g), DataRight(r, s, data)
  PROVE  LET q == CacheGroup(g, s)
         IN  /\ ReaderOK(q) /\ Kept(r, q) /\ q.secondary = r.secondary
             /\ q.group.first = FirstOf(s)
<1>1. /\ ReaderOK(g.reader) /\ Alike(r, g.reader) /\ g.reader.secondary = SecondaryOf(r.map)
      /\ g.holes \/ RightUpTo(r, s, data, g.contents, GroupSize)
  BY DEF BuildOK
<1>2. PICK p : p = g.reader
  OBVIOUS
<1>3. PICK c : c = wii_reconstruct_group_junk(p, s, g.contents)
  OBVIOUS
<1>4. PICK group : group = [first |-> FirstOf(s), contents |-> c, holes |-> g.holes]
  OBVIOUS
<1>5. group.first = FirstOf(s) /\ group.contents = c /\ group.holes = g.holes
  BY <1>4
<1>6. PICK q : q = CacheGroup(g, s)
  OBVIOUS
<1>7. WithGroup(q, p, group)
  BY <1>2, <1>3, <1>4, <1>6 DEF WithGroup, CacheGroup
<1>8. /\ Shaped(q) /\ q.group = group
      /\ q.map = p.map /\ q.keys = p.keys /\ q.tracks = p.tracks
      /\ q.blocks = p.blocks /\ q.headers = p.headers /\ q.secondary = p.secondary
      /\ q.verified = p.verified
  BY <1>1, <1>2, <1>7, GroupPut DEF ReaderOK
<1>9. p.map = r.map /\ p.keys = r.keys /\ p.tracks = r.tracks /\ p.verified = r.verified
  BY <1>1, <1>2 DEF Alike
<1>10. ASSUME ~ q.group.holes, q.keys = "right", SecondaryOf(q.map) = "right",
              ~ SilentFrom(q.group.first)
       PROVE  q.group.contents = [i \in 1..GroupSize |-> Plain(q.group.first + i - 1)]
  <2>1. q.group.holes = g.holes
    BY <1>5, <1>8
  <2>2. ~ g.holes
    BY <2>1, <1>10, Zenon
  <2>3. r.keys = "right" /\ SecondaryOf(r.map) = "right" /\ ~ SilentFrom(FirstOf(s))
    BY <1>5, <1>8, <1>9, <1>10
  <2>4. \A i \in 1..GroupSize : g.contents[i] = Plain(FirstOf(s) + i - 1)
    BY <1>1, <2>2, <2>3 DEF RightUpTo, DataRight
  <2>5. c = [i \in 1..GroupSize |->
                IF /\ profile.media = "wii" /\ p.keys = "right"
                   /\ EntryOf(GroupOf(s)[i]).status = "Generable"
                THEN Junk(GroupOf(s)[i]) ELSE g.contents[i]]
    BY <1>3 DEF wii_reconstruct_group_junk, ngcw_junk_lazy_init
  <2>6. ASSUME NEW i \in 1..GroupSize
        PROVE  c[i] = Plain(FirstOf(s) + i - 1)
    <3>1. GroupOf(s)[i] = FirstOf(s) + i - 1 /\ GroupOf(s)[i] \in Nat
      BY GroupHolds
    <3>2. EntryOf(GroupOf(s)[i]).status = "Generable" =>
             Junk(GroupOf(s)[i]) = Plain(GroupOf(s)[i])
      BY <3>1, EntryCases
    <3> QED BY <2>4, <2>5, <3>1, <3>2
  <2>7. c = [i \in 1..GroupSize |-> Plain(FirstOf(s) + i - 1)]
    BY <2>5, <2>6
  <2> QED BY <1>5, <1>8, <2>7
<1>11. GroupRight(q)
  BY <1>10 DEF GroupRight
<1>12. ReaderOK(q)
  BY <1>1, <1>2, <1>8, <1>11 DEF ReaderOK
<1> QED BY <1>1, <1>2, <1>5, <1>6, <1>8, <1>9, <1>12 DEF Kept

(* An answer with the bytes of the disc. *)
RightFor(s, a) == a.data = IF a.status = "Unencrypted" THEN Plain(s) ELSE Original(s)

(* An answer of read_sector. *)
ReadOK(r, s, oom, a) ==
    /\ ReaderOK(a.reader) /\ Kept(r, a.reader) /\ a.reader.secondary = SecondaryOf(r.map)
    /\ a.ret \in Answers
    /\ a.ret \in Good /\ SecondaryOf(r.map) = "right" /\ r.keys = "right" /\ ~ SilentIn(s)
          /\ ~ a.holes => RightFor(s, a)
    /\ /\ SecondaryOf(r.map) = "right" /\ EntryOf(s).at # 0 /\ oom # s
       /\ Repairable(r.map, EntryOf(s).at)
       => a.ret \in Good

LEMMA GroupRead ==
  ASSUME Image, NEW r, ReaderOK(r), r.secondary = SecondaryOf(r.map), NEW s \in Nat,
         NEW data, NEW oom, DataRight(r, s, data), HasKey(s), profile.media # "ps3"
  PROVE  ReadOK(r, s, oom, wii_encrypt_group(r, s, data, oom))
<1>1. PICK q : q = IF GroupCached(r, s) THEN r ELSE CacheGroup(BuildGroup(r, s, data, oom), s)
  OBVIOUS
<1>2. /\ ReaderOK(q) /\ Kept(r, q) /\ q.secondary = r.secondary
      /\ q.group.first = FirstOf(s)
  <2>1. CASE GroupCached(r, s)
    BY <1>1, <2>1 DEF GroupCached, Kept
  <2>2. CASE ~ GroupCached(r, s)
    <3>1. PICK g : g = BuildGroup(r, s, data, oom)
      OBVIOUS
    <3>2. BuildOK(r, s, data, GroupSize, g)
      BY <3>1, GroupBuilt
    <3>3. q = CacheGroup(g, s)
      BY <1>1, <2>2, <3>1
    <3> QED BY <3>2, <3>3, GroupCachedRight
  <2> QED BY <2>1, <2>2
<1>3. PICK a : a = wii_encrypt_group(r, s, data, oom)
  OBVIOUS
<1>4. PICK b : b = Answer(q, "ok", Enc(q.group.contents, (s % GroupSize) + 1), "Dumped")
  OBVIOUS
<1>5. /\ b.reader = q /\ b.ret = "ok" /\ b.data = Enc(q.group.contents, (s % GroupSize) + 1)
      /\ b.status = "Dumped" /\ IsAnswer(b)
  BY <1>4, AnswerIs
<1>6. a = [b EXCEPT !.holes = q.group.holes]
  BY <1>1, <1>3, <1>4 DEF wii_encrypt_group, FromGroup
<1>7. /\ a.reader = q /\ a.ret = "ok" /\ a.data = b.data /\ a.status = "Dumped"
      /\ a.holes = q.group.holes
  BY <1>5, <1>6 DEF IsAnswer
<1>8. ASSUME SecondaryOf(r.map) = "right", r.keys = "right", ~ SilentIn(s), ~ a.holes
      PROVE  RightFor(s, a)
  <2>1. ~ q.group.holes
    BY <1>7, <1>8, Zenon
  <2>2. q.keys = "right" /\ SecondaryOf(q.map) = "right"
    BY <1>2, <1>8 DEF Kept
  <2>3. ~ SilentFrom(FirstOf(s)) /\ FirstOf(s) \in Nat
    BY <1>8, SilentGroup, GroupHolds
  <2>4. q.group.contents = [i \in 1..GroupSize |-> Plain(FirstOf(s) + i - 1)]
    <3>1. GroupRight(q)
      BY <1>2 DEF ReaderOK
    <3> QED BY <1>2, <2>1, <2>2, <2>3, <3>1 DEF GroupRight
  <2>5. \A i \in 1..GroupSize : GroupOf(s)[i] = FirstOf(s) + i - 1
    BY GroupHolds
  <2>6. q.group.contents = [i \in 1..GroupSize |-> Plain(GroupOf(s)[i])]
    BY <2>4, <2>5
  <2>7. Original(s) = Enc([i \in 1..GroupSize |-> Plain(GroupOf(s)[i])], (s % GroupSize) + 1)
    BY DEF Original
  <2>8. a.data = Original(s)
    BY <1>5, <1>7, <2>6, <2>7
  <2> QED BY <1>7, <2>8 DEF RightFor
<1>9. a.ret \in Good /\ a.ret \in Answers
  BY <1>7 DEF Good, Answers
<1> QED BY <1>2, <1>3, <1>7, <1>8, <1>9 DEF ReadOK

PassedRight(r, s, a) ==
    a.ret \in Good /\ SecondaryOf(r.map) = "right" /\ r.keys = "right" /\ ~ SilentIn(s)
    => RightFor(s, a)

LEMMA PassedOn ==
  ASSUME NEW r, NEW s \in 0..Sectors - 1, NEW oom, NEW b, StoredOK(r, s, oom, b),
         NEW a, a.reader = b.reader, a.ret = b.ret, PassedRight(r, s, a)
  PROVE  ReadOK(r, s, oom, a)
<1>0. s < Sectors /\ ~ (s >= Sectors)
  BY ReaderAssumption
<1>1. /\ ReaderOK(b.reader) /\ Alike(r, b.reader) /\ b.reader.secondary = SecondaryOf(r.map)
      /\ b.ret \in Answers
  BY <1>0 DEF StoredOK
<1>2. ReaderOK(a.reader) /\ Kept(r, a.reader) /\ a.reader.secondary = SecondaryOf(r.map)
      /\ a.ret \in Answers
  BY <1>1 DEF Alike, Kept
<1>3. ASSUME SecondaryOf(r.map) = "right", EntryOf(s).at # 0, oom # s,
             Repairable(r.map, EntryOf(s).at)
      PROVE  a.ret \in Good
  BY <1>3 DEF StoredOK, BytesOK
<1>4. ASSUME a.ret \in Good, SecondaryOf(r.map) = "right", r.keys = "right", ~ SilentIn(s)
      PROVE  RightFor(s, a)
  BY <1>4 DEF PassedRight
<1> QED BY <1>2, <1>3, <1>4 DEF ReadOK

LEMMA StatusPut ==
  ASSUME NEW b, IsAnswer(b), NEW a, NEW status, a = [b EXCEPT !.status = status]
  PROVE  a.reader = b.reader /\ a.ret = b.ret /\ a.data = b.data /\ a.status = status
BY DEF IsAnswer

LEMMA SectorRead ==
  ASSUME Image, NEW r, ReaderOK(r), NEW s \in 0..Sectors - 1, NEW oom
  PROVE  ReadOK(r, s, oom, read_sector(r, s, oom))
<1>0. s \in Nat /\ s < Sectors /\ ~ (s >= Sectors)
  BY ReaderAssumption
<1>1. PICK b : b = ReadStored(r, s, oom)
  OBVIOUS
<1>2. StoredOK(r, s, oom, b)
  BY <1>0, <1>1, StoredRead
<1>3. PICK p : p = b.reader
  OBVIOUS
<1>4. /\ ReaderOK(p) /\ p.map = r.map /\ p.keys = r.keys /\ Kept(r, p)
      /\ p.secondary = SecondaryOf(r.map)
  BY <1>0, <1>2, <1>3 DEF StoredOK, Alike, Kept
<1>5. IsAnswer(b)
  BY <1>2 DEF StoredOK
<1>6. PICK a : a = read_sector(r, s, oom)
  OBVIOUS
<1>7. a = Reencrypted(b, s, oom)
  BY <1>1, <1>6 DEF read_sector
<1>8. ASSUME b.ret \in Good, SecondaryOf(r.map) = "right", r.keys = "right", ~ SilentIn(s)
      PROVE  /\ b.data = Plain(s) /\ b.status = EntryOf(s).status
             /\ IsStored(s) \/ (b.ret = "ok" /\ EntryOf(s).status = "Generable")
             /\ EntryOf(s).status = "Dumped" => ~ HasKey(s)
  <2>1. BytesOK(r, s, oom, b)
    BY <1>2, <1>8 DEF StoredOK
  <2>2. ~ SilentAt(s)
    BY <1>0, <1>8, SilentGroup
  <2>3. b.data = Plain(s) /\ b.status = EntryOf(s).status
        /\ (IsStored(s) \/ (b.ret = "ok" /\ EntryOf(s).status = "Generable"))
    BY <1>8, <2>1, <2>2 DEF BytesOK
  <2>4. EntryOf(s).status = "Dumped" => ~ HasKey(s)
    BY <1>0, EntryCases
  <2> QED BY <2>3, <2>4
<1>9. ~ HasKey(s) => Original(s) = Plain(s)
  BY DEF Original
<1>10. CASE b.ret # "ok"
  <2>1. a = b
    BY <1>7, <1>10 DEF Reencrypted
  <2>2. PassedRight(r, s, b)
    <3>1. ASSUME b.ret \in Good, SecondaryOf(r.map) = "right", r.keys = "right", ~ SilentIn(s)
          PROVE  RightFor(s, b)
      <4>1. b.status \in {"Dumped", "Unencrypted"}
        BY <1>8, <1>10, <3>1 DEF IsStored
      <4>2. b.status = "Dumped" => Original(s) = Plain(s)
        BY <1>8, <1>9, <3>1
      <4>3. b.data = Plain(s)
        BY <1>8, <3>1
      <4> QED BY <4>1, <4>2, <4>3 DEF RightFor
    <3> QED BY <3>1 DEF PassedRight
  <2>3. ReadOK(r, s, oom, b)
    BY <1>2, <2>2, PassedOn
  <2> QED BY <1>6, <2>1, <2>3
<1>11. CASE b.ret = "ok" /\ b.status \notin {"Unencrypted", "Generable"}
  <2>1. a = b
    BY <1>7, <1>11 DEF Reencrypted
  <2>2. PassedRight(r, s, b)
    <3>1. ASSUME b.ret \in Good, SecondaryOf(r.map) = "right", r.keys = "right", ~ SilentIn(s)
          PROVE  RightFor(s, b)
      <4>1. b.status = "Dumped"
        BY <1>8, <1>11, <3>1 DEF IsStored
      <4>2. Original(s) = Plain(s) /\ b.data = Plain(s)
        BY <1>8, <1>9, <3>1, <4>1
      <4> QED BY <4>1, <4>2 DEF RightFor
    <3> QED BY <3>1 DEF PassedRight
  <2>3. ReadOK(r, s, oom, b)
    BY <1>2, <2>2, PassedOn
  <2> QED BY <1>6, <2>1, <2>3
<1>12. CASE /\ b.ret = "ok" /\ b.status \in {"Unencrypted", "Generable"}
            /\ ~ Keyed(p) \/ ~ HasKey(s)
  <2>1. a = [b EXCEPT !.status = "Dumped"]
    BY <1>3, <1>7, <1>12 DEF Reencrypted
  <2>2. a.reader = b.reader /\ a.ret = b.ret /\ a.data = b.data /\ a.status = "Dumped"
    BY <1>5, <2>1, StatusPut
  <2>3. PassedRight(r, s, a)
    <3>1. ASSUME a.ret \in Good, SecondaryOf(r.map) = "right", r.keys = "right", ~ SilentIn(s)
          PROVE  RightFor(s, a)
      <4>1. ~ HasKey(s)
        <5>1. Keyed(p) \/ ~ IsGame
          BY <1>4, <3>1 DEF Keyed, ps3_lazy_init, wiiu_lazy_init, wii_lazy_init, IsGame
        <5> QED BY <1>12, <5>1 DEF HasKey
      <4>2. a.data = Plain(s)
        BY <1>8, <2>2, <3>1
      <4> QED BY <1>9, <2>2, <4>1, <4>2 DEF RightFor
    <3> QED BY <3>1 DEF PassedRight
  <2>4. ReadOK(r, s, oom, a)
    BY <1>2, <2>2, <2>3, PassedOn
  <2> QED BY <1>6, <2>4
<1>13. CASE /\ b.ret = "ok" /\ b.status \in {"Unencrypted", "Generable"}
            /\ Keyed(p) /\ HasKey(s) /\ p.keys = "wrong"
  <2>1. a = [b EXCEPT !.status = "Dumped", !.data = Wrong]
    BY <1>3, <1>7, <1>13 DEF Reencrypted
  <2>2. a.reader = b.reader /\ a.ret = b.ret
    BY <1>5, <2>1 DEF IsAnswer
  <2>3. PassedRight(r, s, a)
    BY <1>4, <1>13 DEF PassedRight
  <2>4. ReadOK(r, s, oom, a)
    BY <1>2, <2>2, <2>3, PassedOn
  <2> QED BY <1>6, <2>4
<1>14. CASE /\ b.ret = "ok" /\ b.status \in {"Unencrypted", "Generable"}
            /\ Keyed(p) /\ HasKey(s) /\ p.keys # "wrong" /\ profile.media = "ps3"
  <2>1. a = ps3_encrypt_sector(b)
    BY <1>3, <1>7, <1>14 DEF Reencrypted
  <2>2. a = [b EXCEPT !.data = Enc(<<b.data>>, 1), !.status = "Dumped"]
    BY <2>1 DEF ps3_encrypt_sector
  <2>3. a.reader = b.reader /\ a.ret = b.ret /\ a.data = Enc(<<b.data>>, 1) /\ a.status = "Dumped"
    BY <1>5, <2>2 DEF IsAnswer
  <2>4. PassedRight(r, s, a)
    <3>1. ASSUME a.ret \in Good, SecondaryOf(r.map) = "right", r.keys = "right", ~ SilentIn(s)
          PROVE  RightFor(s, a)
      <4>1. b.data = Plain(s)
        BY <1>8, <2>3, <3>1
      <4>2. Original(s) = Enc(<<Plain(s)>>, 1)
        BY <1>14 DEF Original
      <4> QED BY <2>3, <4>1, <4>2 DEF RightFor
    <3> QED BY <3>1 DEF PassedRight
  <2>5. ReadOK(r, s, oom, a)
    BY <1>2, <2>3, <2>4, PassedOn
  <2> QED BY <1>6, <2>5
<1>15. CASE /\ b.ret = "ok" /\ b.status \in {"Unencrypted", "Generable"}
            /\ Keyed(p) /\ HasKey(s) /\ p.keys # "wrong" /\ profile.media # "ps3"
  <2>1. PICK d : d = b.data
    OBVIOUS
  <2>2. a = wii_encrypt_group(p, s, d, oom)
    BY <1>3, <1>7, <1>15, <2>1 DEF Reencrypted
  <2>3. DataRight(p, s, d)
    <3>1. ASSUME SecondaryOf(p.map) = "right", p.keys = "right", ~ SilentFrom(FirstOf(s))
          PROVE  d = Plain(s)
      <4>1. ~ SilentIn(s)
        BY <1>0, <3>1, SilentGroup
      <4>2. b.ret \in Good
        BY <1>15 DEF Good
      <4> QED BY <1>4, <1>8, <2>1, <3>1, <4>1, <4>2
    <3> QED BY <3>1 DEF DataRight
  <2>4. p.secondary = SecondaryOf(p.map)
    BY <1>4
  <2>5. ReadOK(p, s, oom, a)
    BY <1>0, <1>4, <1>15, <2>2, <2>3, <2>4, GroupRead
  <2>6. ReadOK(r, s, oom, a)
    BY <1>4, <2>5 DEF ReadOK, Kept
  <2> QED BY <1>6, <2>6
<1> QED BY <1>10, <1>11, <1>12, <1>13, <1>14, <1>15

(***************************************************************************)
(* What erasure coding promises.                                           *)
(***************************************************************************)
PromisedBy(map, at) ==
    /\ map # None
    /\ DamageAt(at) \in {"intact", "identifier", "payload"}
    /\ LET stripe == StripeOf(map["data"], at) IN
       /\ stripe # None
       /\ \A m \in 1..M : Undamaged(PlaceAt(file, stripe.parity[m]))
       /\ Cardinality({k \in DOMAIN stripe.data :
                          ~ Undamaged(PlaceAt(file, stripe.data[k].at))}) <= M

LEMMA StripeFound ==
  ASSUME NEW g, MapGroupOK(file, g), NEW at, StripeOf(g, at) # None
  PROVE  \E s \in DOMAIN g.stripes : StripeOf(g, at) = g.stripes[s]
<1>1. PICK found : found = {s \in DOMAIN g.stripes :
                              \E k \in DOMAIN g.stripes[s].data : g.stripes[s].data[k].at = at}
  OBVIOUS
<1>2. StripeOf(g, at) = IF found = {} THEN None ELSE g.stripes[Min(found)]
  BY <1>1 DEF StripeOf
<1>3. found # {}
  BY <1>2
<1>4. found \subseteq Nat
  <2>1. DOMAIN g.stripes = 1..Len(g.stripes) /\ Len(g.stripes) \in Nat
    BY SeqFacts DEF MapGroupOK
  <2> QED BY <1>1, <2>1
<1>5. Min(found) \in found
  BY <1>3, <1>4, MinIn
<1> QED BY <1>1, <1>2, <1>3, <1>5

(* A shard that nothing happened to is found with the CRC64 of the map. *)
LEMMA ShardPresent ==
  ASSUME FileOK(file), NEW g, g.shard \in Nat, NEW e, ShardOK(file, e, g.shard),
         e.crc = Crc(e.crc.value, e.size), Undamaged(PlaceAt(file, e.at))
  PROVE  DataPresent(g, e)
<1>1. PICK i \in DOMAIN file : /\ file[i].at = e.at /\ file[i].value = e.crc.value
                               /\ e.size <= g.shard /\ e.size \in Nat
  BY DEF ShardOK
<1>2. PlaceAt(file, e.at) = i
  BY <1>1, PlaceOf
<1>3. Min({e.size, g.shard}) = e.size
  <2>1. PICK S : S = {e.size, g.shard}
    OBVIOUS
  <2>2. e.size \in S /\ (\A y \in S : y \in Int) /\ \A y \in S : e.size <= y
    BY <1>1, <2>1
  <2>3. Min(S) = e.size
    BY <2>2, MinOf
  <2> QED BY <2>1, <2>3
<1> QED BY <1>1, <1>2, <1>3 DEF DataPresent

LEMMA DecodesRight ==
  ASSUME FileOK(file), NEW g, MapGroupOK(file, g), g.K = K, NEW stripe,
         StripeOK(file, K, g.shard, stripe), OwnCrc(stripe),
         \A m \in 1..M : Undamaged(PlaceAt(file, stripe.parity[m])),
         Cardinality({k \in DOMAIN stripe.data :
                        ~ Undamaged(PlaceAt(file, stripe.data[k].at))}) <= M
  PROVE  rs_decode(K, PresentData(g, stripe) \cup PresentParity(g, stripe), Genuine(g, stripe))
            = "right"
<1>0. K \in Nat /\ M \in Nat
  BY CodeAssumption
<1>1. PICK bad : bad = {k \in DOMAIN stripe.data :
                          ~ Undamaged(PlaceAt(file, stripe.data[k].at))}
  OBVIOUS
<1>2. PICK present : present = PresentData(g, stripe) \cup PresentParity(g, stripe)
  OBVIOUS
<1>3. Len(stripe.data) \in Nat /\ DOMAIN stripe.data = 1..Len(stripe.data)
  BY SeqFacts DEF StripeOK
<1>4. \A m \in 1..M : ParityGenuine(stripe, stripe.parity[m])
  <2>1. TAKE m \in 1..M
  <2>2. PICK i \in DOMAIN file : file[i].at = stripe.parity[m] /\ file[i].value = Encoded(stripe)
    BY DEF StripeOK, ParityOK
  <2>3. PlaceAt(file, stripe.parity[m]) = i
    BY <2>2, PlaceOf
  <2> QED BY <2>2, <2>3 DEF ParityGenuine
<1>5. \A m \in 1..M : ~ ParityLost(stripe.parity[m])
  BY DEF Undamaged, ParityLost
<1>6. present \subseteq Genuine(g, stripe)
  BY <1>2, <1>4 DEF PresentParity, Genuine
<1>7. (1..(K + M)) \ present \subseteq bad
  <2>1. SUFFICES ASSUME NEW i \in 1..(K + M), i \notin present
                 PROVE  i \in bad
    OBVIOUS
  <2>2. i <= K
    <3>1. SUFFICES ASSUME ~ (i <= K) PROVE FALSE
      OBVIOUS
    <3>2. i - K \in 1..M /\ i = K + (i - K)
      BY <1>0, <2>1, <3>1
    <3>3. i \in PresentParity(g, stripe)
      BY <1>5, <3>2 DEF PresentParity
    <3> QED BY <1>2, <2>1, <3>3
  <2>3. i \in 1..g.K
    BY <1>0, <2>1, <2>2
  <2>4. ~ (i > Len(stripe.data)) /\ ~ DataPresent(g, stripe.data[i])
    BY <1>2, <2>1, <2>3 DEF PresentData
  <2>5. i \in DOMAIN stripe.data
    BY <1>0, <1>3, <2>1, <2>4
  <2>6. PICK e : e = stripe.data[i]
    OBVIOUS
  <2>7. ShardOK(file, e, g.shard) /\ e.crc = Crc(e.crc.value, e.size) /\ g.shard \in Nat
    BY <2>5, <2>6 DEF StripeOK, OwnCrc, MapGroupOK
  <2>8. ~ Undamaged(PlaceAt(file, e.at))
    BY <2>4, <2>6, <2>7, ShardPresent
  <2> QED BY <1>1, <2>5, <2>6, <2>8
<1>8. IsFiniteSet(bad)
  <2>1. IsFiniteSet(1..Len(stripe.data))
    BY <1>3, FS_Interval
  <2>2. bad \subseteq 1..Len(stripe.data)
    BY <1>1, <1>3
  <2> QED BY <2>1, <2>2, FS_Subset
<1>9. /\ IsFiniteSet((1..(K + M)) \ present)
      /\ Cardinality((1..(K + M)) \ present) <= Cardinality(bad)
  BY <1>7, <1>8, FS_Subset
<1>10. Cardinality((1..(K + M)) \ present) \in Nat /\ Cardinality(bad) \in Nat
  BY <1>8, <1>9, FS_CardinalityType
<1>11. ~ (Cardinality(1..(K + M) \ present) > M)
  BY <1>0, <1>1, <1>9, <1>10
<1>12. rs_decode(K, present, Genuine(g, stripe)) = "right"
  BY <1>6, <1>11 DEF rs_decode
<1> QED BY <1>2, <1>12

LEMMA PromiseRepairs ==
  ASSUME FileOK(file), NEW map, MapOK(file, map), NEW at, PromisedBy(map, at)
  PROVE  Repairable(map, at)
<1>1. PICK g : g = map["data"]
  OBVIOUS
<1>2. MapGroupOK(file, g) /\ g.K = K /\ \A s \in DOMAIN g.stripes : OwnCrc(g.stripes[s])
  BY <1>1 DEF MapOK, Groups
<1>3. PICK stripe : stripe = StripeOf(g, at)
  OBVIOUS
<1>4. /\ stripe # None
      /\ \A m \in 1..M : Undamaged(PlaceAt(file, stripe.parity[m]))
      /\ Cardinality({k \in DOMAIN stripe.data :
                        ~ Undamaged(PlaceAt(file, stripe.data[k].at))}) <= M
  BY <1>1, <1>3 DEF PromisedBy
<1>5. PICK s \in DOMAIN g.stripes : stripe = g.stripes[s]
  BY <1>2, <1>3, <1>4, StripeFound
<1>6. StripeOK(file, K, g.shard, stripe) /\ OwnCrc(stripe)
  BY <1>2, <1>5 DEF MapGroupOK
<1>7. rs_decode(K, PresentData(g, stripe) \cup PresentParity(g, stripe), Genuine(g, stripe))
         = "right"
  BY <1>2, <1>4, <1>6, DecodesRight
<1>8. ec_recover_raw_block(g, at) = "right"
  BY <1>2, <1>3, <1>4, <1>7 DEF ec_recover_raw_block, Rebuild
<1>9. ec_recover_data_block(map, at) = "right"
  BY <1>1, <1>8 DEF ec_recover_data_block, PromisedBy
<1> QED BY <1>9 DEF Repairable, PromisedBy

(***************************************************************************)
(* While the file stays as it is.                                          *)
(***************************************************************************)
LEMMA StillPlaces ==
  ASSUME UNCHANGED <<file, damage, profile, table>>
  PROVE  /\ \A i : Undamaged(i)' <=> Undamaged(i)
         /\ \A at : DamageAt(at)' = DamageAt(at)
         /\ \A at : HeaderAt(at)' = HeaderAt(at)
         /\ \A t : EntryOf(t)' = EntryOf(t)
         /\ \A t : Plain(t)' = Plain(t)
         /\ \A s : HasKey(s)' <=> HasKey(s)
<1>1. \A i : Undamaged(i)' <=> Undamaged(i)
  BY DEF Undamaged
<1>2. \A at : DamageAt(at)' = DamageAt(at)
  BY DEF DamageAt
<1>3. \A at : HeaderAt(at)' = HeaderAt(at)
  BY <1>2 DEF HeaderAt
<1>4. \A t : EntryOf(t)' = EntryOf(t)
  BY DEF EntryOf
<1>5. \A t : Plain(t)' = Plain(t)
  BY <1>4 DEF Plain
<1>6. \A s : HasKey(s)' <=> HasKey(s)
  BY DEF HasKey, IsGame
<1> QED BY <1>1, <1>2, <1>3, <1>4, <1>5, <1>6

LEMMA StillBlocks ==
  ASSUME UNCHANGED <<file, damage, profile, table>>
  PROVE  /\ \A at : Rebuilt(at)' = Rebuilt(at)
         /\ \A first : SilentFrom(first)' <=> SilentFrom(first)
         /\ \A s : SilentIn(s)' <=> SilentIn(s)
         /\ \A s : Original(s)' = Original(s)
<1>1. \A at : Rebuilt(at)' = Rebuilt(at)
  BY DEF Rebuilt
<1>2. \A first : SilentFrom(first)' <=> SilentFrom(first)
  BY StillPlaces DEF SilentFrom
<1>3. \A s : SilentIn(s)' <=> SilentIn(s)
  BY StillPlaces DEF SilentIn
<1>4. \A s : Original(s)' = Original(s)
  <2>1. TAKE s
  <2>2. PICK c : c = [i \in 1..GroupSize |-> Plain(GroupOf(s)[i])]
    OBVIOUS
  <2>3. c = [i \in 1..GroupSize |-> Plain(GroupOf(s)[i])]'
    BY <2>2, StillPlaces
  <2>4. Original(s) = IF ~ HasKey(s) THEN Plain(s)
                      ELSE IF profile.media = "ps3" THEN Enc(<<Plain(s)>>, 1)
                      ELSE Enc(c, (s % GroupSize) + 1)
    BY <2>2 DEF Original
  <2>5. Original(s)' = IF ~ HasKey(s)' THEN Plain(s)'
                       ELSE IF profile'.media = "ps3" THEN Enc(<<Plain(s)'>>, 1)
                       ELSE Enc(c, (s % GroupSize) + 1)
    BY <2>3 DEF Original
  <2> QED BY <2>4, <2>5, StillPlaces
<1> QED BY <1>1, <1>2, <1>3, <1>4

LEMMA StillStripes ==
  ASSUME UNCHANGED <<file, damage, profile, table>>
  PROVE  \A map : SecondaryOf(map)' = SecondaryOf(map)
<1>1. \A g, e : DataPresent(g, e)' <=> DataPresent(g, e)
  BY StillPlaces DEF DataPresent
<1>2. \A at : ParityLost(at)' <=> ParityLost(at)
  BY DEF ParityLost
<1>3. \A s, at : ParityGenuine(s, at)' <=> ParityGenuine(s, at)
  BY StillPlaces DEF ParityGenuine
<1>4. \A g, s : PresentData(g, s)' = PresentData(g, s)
  BY <1>1 DEF PresentData
<1>5. \A g, s : PresentParity(g, s)' = PresentParity(g, s)
  BY <1>2 DEF PresentParity
<1>6. \A g, s : Genuine(g, s)' = Genuine(g, s)
  BY <1>3, <1>4 DEF Genuine
<1>7. \A g, at : ec_recover_raw_block(g, at)' = ec_recover_raw_block(g, at)
  BY <1>4, <1>5, <1>6 DEF ec_recover_raw_block
<1>8. \A map, at : ec_recover_ddt_block(map, at)' = ec_recover_ddt_block(map, at)
  BY <1>7 DEF ec_recover_ddt_block
<1> QED BY <1>8, StillPlaces DEF SecondaryOf

LEMMA StillVerified ==
  ASSUME UNCHANGED <<file, damage, profile, table>>
  PROVE  verify_image' <=> verify_image
BY DEF verify_image, verify_block, verify_ddt, verify_tracks, Indexed, Undamaged

LEMMA ReaderStays ==
  ASSUME UNCHANGED <<file, damage, profile, table>>, NEW CONSTANT r, ReaderOK(r)
  PROVE  ReaderOK(r)'
<1>1. r.secondary = None \/ r.secondary = SecondaryOf(r.map)'
  BY StillStripes DEF ReaderOK
<1>2. HeadersOK(r.headers)'
  BY StillPlaces DEF ReaderOK, HeadersOK
<1>3. BlocksOK(r.blocks)'
  BY StillPlaces, StillBlocks DEF ReaderOK, BlocksOK
<1>4. GroupRight(r)'
  BY StillPlaces, StillBlocks, StillStripes DEF ReaderOK, GroupRight
<1>5. r.verified => verify_image'
  BY StillVerified DEF ReaderOK
<1> QED BY <1>1, <1>2, <1>3, <1>4, <1>5 DEF ReaderOK

LEMMA StillPromised ==
  ASSUME UNCHANGED <<file, damage, profile, table>>
  PROVE  \A map, at : PromisedBy(map, at)' <=> PromisedBy(map, at)
<1>1. TAKE map, at
<1>2. PICK stripe : stripe = StripeOf(map["data"], at)
  OBVIOUS
<1>3. PICK bad : bad = {k \in DOMAIN stripe.data : ~ Undamaged(PlaceAt(file, stripe.data[k].at))}
  OBVIOUS
<1>4. bad = {k \in DOMAIN stripe.data : ~ Undamaged(PlaceAt(file, stripe.data[k].at))}'
  BY <1>3, StillPlaces
<1>5. PromisedBy(map, at) <=>
        /\ map # None /\ DamageAt(at) \in {"intact", "identifier", "payload"} /\ stripe # None
        /\ \A m \in 1..M : Undamaged(PlaceAt(file, stripe.parity[m]))
        /\ Cardinality(bad) <= M
  BY <1>2, <1>3 DEF PromisedBy
<1>6. PromisedBy(map, at)' <=>
        /\ map # None /\ DamageAt(at)' \in {"intact", "identifier", "payload"} /\ stripe # None
        /\ \A m \in 1..M : Undamaged(PlaceAt(file, stripe.parity[m]))'
        /\ Cardinality(bad) <= M
  BY <1>2, <1>4 DEF PromisedBy
<1> QED BY <1>5, <1>6, StillPlaces

(***************************************************************************)
(* The actions of a reader.                                                *)
(***************************************************************************)
LEMMA NothingCached ==
  ASSUME NEW budget \in Nat
  PROVE  CacheOK(<<>>, budget)
<1>1. IsSeq(<<>>) /\ DOMAIN <<>> = {} /\ Len(<<>>) = 0
  BY DEF IsSeq
<1>2. Sized(<<>>)
  BY <1>1 DEF Sized
<1>3. PICK u : Sums(<<>>, u)
  BY <1>2, SumsOf
<1>4. Bytes(<<>>) = 0
  BY <1>1, <1>3 DEF Sums
<1>5. CacheWithin(<<>>, budget)
  BY <1>1, <1>4 DEF CacheWithin
<1> QED BY <1>1, <1>5 DEF CacheOK

LEMMA MapLoaded ==
  ASSUME FileOK(file), MapsOK(file), FootersOK(file)
  PROVE  ec_load_ecmb = None \/ MapOK(file, ec_load_ecmb)
<1>1. PICK n : n = Len(file)
  OBVIOUS
<1>2. CASE ec_load_ecmb # None
  <2>1. file[n].kind = "footer" /\ ec_load_ecmb = file[PlaceAt(file, file[n].value)].value
    BY <1>1, <1>2 DEF ec_load_ecmb
  <2>2. n \in DOMAIN file
    BY <1>1, FileFacts
  <2>3. PICK j \in DOMAIN file : file[j].kind = "ecmb" /\ file[j].at = file[n].value
    BY <2>1, <2>2 DEF FootersOK
  <2>4. PlaceAt(file, file[n].value) = j
    BY <2>3, PlaceOf
  <2>5. MapOK(file, file[j].value)
    BY <2>3 DEF MapsOK
  <2> QED BY <2>1, <2>4, <2>5
<1> QED BY <1>2

LEMMA NewReaderOK ==
  ASSUME FileOK(file), MapsOK(file), FootersOK(file)
  PROVE  ReaderOK(NewReader)
<1>1. PICK map : map = ec_load_ecmb
  OBVIOUS
<1>2. PICK r : r = NewReader
  OBVIOUS
<1>3. /\ Shaped(r) /\ r.map = map /\ r.secondary = None /\ r.headers = <<>> /\ r.blocks = <<>>
      /\ r.group = NoGroupCache /\ r.verified = FALSE
  BY <1>1, <1>2 DEF NewReader, Shaped
<1>4. map = None \/ MapOK(file, map)
  BY <1>1, MapLoaded
<1>5. CacheOK(<<>>, HeaderBudget) /\ CacheOK(<<>>, BlockBudget)
  BY NothingCached, ReaderAssumption
<1>6. HeadersOK(<<>>) /\ BlocksOK(<<>>)
  BY DEF HeadersOK, BlocksOK
<1>7. GroupRight(r)
  <2>1. r.group.first = -1
    BY <1>3 DEF NoGroupCache
  <2> QED BY <2>1 DEF GroupRight
<1>8. ~ r.verified
  BY <1>3, Zenon
<1> QED BY <1>2, <1>3, <1>4, <1>5, <1>6, <1>7, <1>8 DEF ReaderOK

LEMMA ReadingKeeps ==
  ASSUME SectorInv, phase \in {"closed", "open"}, phase' \in {"open", "done"},
         UNCHANGED <<file, writer, damage, profile, table>>,
         ReadingOK', AnswersRight', WithinParityAnswered'
  PROVE  SectorInv'
<1>1. TableOK(file)'
  BY DEF SectorInv, TableOK, EntryOK, HasKey, IsGame
<1>2. DamageOK'
  BY DEF SectorInv, DamageOK
<1>3. BlocksIndexed(file, FALSE) /\ phase # "writing" /\ phase' # "writing"
  BY DEF SectorInv
<1>4. BlocksIndexed(file, phase = "writing")'
  BY <1>3
<1>5. FileOK(file)' /\ MapsOK(file)' /\ FootersOK(file)' /\ WriterOK(file, writer)'
      /\ Len(writer'.slot) < K
  BY DEF SectorInv
<1> QED BY <1>1, <1>2, <1>3, <1>4, <1>5 DEF SectorInv

LEMMA OpenKeeps ==
  ASSUME SectorInv, Open
  PROVE  SectorInv'
<1>1. /\ phase = "closed" /\ phase' = "open" /\ reader' = NewReader
      /\ UNCHANGED <<file, writer, damage, profile, table, last>>
  BY DEF Open
<1>2. PICK r : r = NewReader
  OBVIOUS
<1>3. ReaderOK(r)
  BY <1>2, NewReaderOK DEF SectorInv
<1>4. ReaderOK(reader)'
  BY <1>1, <1>2, <1>3, ReaderStays
<1>5. last' = None
  BY <1>1 DEF SectorInv, ReadingOK
<1>6. ReadingOK' /\ AnswersRight' /\ WithinParityAnswered'
  BY <1>1, <1>4, <1>5 DEF ReadingOK, AnswersRight, WithinParityAnswered
<1> QED BY <1>1, <1>6, ReadingKeeps

LEMMA CloseImageKeeps ==
  ASSUME SectorInv, CloseImage
  PROVE  SectorInv'
<1>1. /\ phase = "open" /\ phase' = "done" /\ last' = None
      /\ reader' = ec_free([reader EXCEPT !.headers = free_cache(@), !.blocks = free_cache(@),
                                          !.group = NoGroupCache])
      /\ UNCHANGED <<file, writer, damage, profile, table>>
  BY DEF CloseImage
<1>2. Shaped(reader)
  BY <1>1 DEF SectorInv, ReadingOK, ReaderOK
<1>3. reader'.headers = <<>> /\ reader'.blocks = <<>>
  BY <1>1, <1>2 DEF ec_free, free_cache, Shaped
<1>4. ReadingOK' /\ AnswersRight' /\ WithinParityAnswered'
  BY <1>1, <1>3 DEF ReadingOK, AnswersRight, WithinParityAnswered
<1> QED BY <1>1, <1>4, ReadingKeeps

LEMMA ReadSectorKeeps ==
  ASSUME SectorInv, NEW s \in 0..Sectors - 1, NEW oom \in {None} \cup (0..Sectors - 1),
         ReadSector(s, oom)
  PROVE  SectorInv'
<1>0. s \in Nat /\ None \notin Nat
  BY ReaderAssumption
<1>1. PICK r, a : r = reader /\ a = read_sector(r, s, oom)
  OBVIOUS
<1>2. /\ phase = "open" /\ phase' = "open" /\ reader' = a.reader
      /\ last' = [sector |-> s, ret |-> a.ret, data |-> a.data, status |-> a.status,
                  holes |-> a.holes, oom |-> oom]
      /\ UNCHANGED <<file, writer, damage, profile, table>>
  BY <1>1 DEF ReadSector
<1>3. Image /\ ReaderOK(r)
  BY <1>1, <1>2 DEF SectorInv, ReadingOK, Image
<1>4. ReadOK(r, s, oom, a)
  BY <1>1, <1>3, SectorRead
<1>5. PICK q : q = a.reader
  OBVIOUS
<1>6. /\ ReaderOK(q) /\ q.map = r.map /\ q.keys = r.keys
      /\ q.secondary = SecondaryOf(r.map) /\ a.ret \in Answers
  BY <1>4, <1>5 DEF ReadOK, Kept
<1>7. ReaderOK(reader)'
  BY <1>2, <1>5, <1>6, ReaderStays
<1>8. PICK l : l = last'
  OBVIOUS
<1>9. /\ l.sector = s /\ l.ret = a.ret /\ l.data = a.data /\ l.status = a.status
      /\ l.holes = a.holes /\ l.oom = oom
  BY <1>2, <1>8
<1>10. ReadingOK'
  BY <1>0, <1>2, <1>6, <1>7, <1>8, <1>9 DEF ReadingOK
<1>11. AnswersRight'
  <2>1. SUFFICES ASSUME l.ret \in Good, Trusted', ~ l.holes, ~ SilentIn(s)'
                 PROVE  Right(l)'
    BY <1>8, <1>9 DEF AnswersRight
  <2>2. r.keys = "right" /\ SecondaryOf(r.map) = "right"
    BY <1>2, <1>5, <1>6, <2>1 DEF Trusted
  <2>3. ~ a.holes
    BY <1>9, <2>1, Zenon
  <2>4. ~ SilentIn(s)
    BY <1>2, <2>1, StillBlocks
  <2>5. RightFor(s, a)
    BY <1>4, <1>9, <2>1, <2>2, <2>3, <2>4 DEF ReadOK
  <2>6. Plain(s)' = Plain(s) /\ Original(s)' = Original(s)
    BY <1>2, StillPlaces, StillBlocks
  <2>7. l.data = IF l.status = "Unencrypted" THEN Plain(s)' ELSE Original(s)'
    BY <1>9, <2>5, <2>6 DEF RightFor
  <2> QED BY <1>9, <2>7 DEF Right
<1>12. WithinParityAnswered'
  <2>1. PICK at : at = EntryOf(s).at
    OBVIOUS
  <2>2. EntryOf(s)' = EntryOf(s)
    BY <1>2, StillPlaces
  <2>3. SUFFICES ASSUME l.oom = None, reader'.secondary = "right", at # 0, Promised(at)'
                 PROVE  l.ret \in Good
    BY <1>8, <1>9, <2>1, <2>2 DEF WithinParityAnswered
  <2>4. PromisedBy(reader.map, at)'
    BY <2>3 DEF Promised, PromisedBy
  <2>5. PromisedBy(r.map, at)'
    BY <1>2, <1>5, <1>6, <2>4
  <2>6. PromisedBy(r.map, at)
    BY <1>2, <2>5, StillPromised
  <2>7. MapOK(file, r.map) /\ FileOK(file)
    BY <1>3, <2>6 DEF ReaderOK, PromisedBy, Image
  <2>8. Repairable(r.map, at)
    BY <2>6, <2>7, PromiseRepairs
  <2>9. SecondaryOf(r.map) = "right" /\ oom # s
    BY <1>0, <1>2, <1>5, <1>6, <1>9, <2>3
  <2> QED BY <1>4, <1>9, <2>1, <2>3, <2>8, <2>9 DEF ReadOK
<1> QED BY <1>2, <1>10, <1>11, <1>12, ReadingKeeps

(* An answer stays as right as it was while the map, the keys and the table do. *)
LEMMA AnswersStay ==
  ASSUME UNCHANGED <<file, damage, profile, table, last>>, reader'.map = reader.map,
         reader'.keys = reader.keys, reader'.secondary = reader.secondary,
         AnswersRight, WithinParityAnswered
  PROVE  AnswersRight' /\ WithinParityAnswered'
<1>1. PICK l, map : l = last /\ map = reader.map
  OBVIOUS
<1>2. last' = l /\ reader'.map = map
  BY <1>1
<1>3. AnswersRight'
  <2>1. SUFFICES ASSUME l # None, l.ret \in Good, Trusted', ~ l.holes, ~ SilentIn(l.sector)'
                 PROVE  Right(l)'
    BY <1>2 DEF AnswersRight
  <2>2. Trusted
    BY <2>1 DEF Trusted
  <2>3. ~ SilentIn(l.sector)
    BY <2>1, StillBlocks
  <2>4. Right(l)
    BY <1>1, <2>1, <2>2, <2>3 DEF AnswersRight
  <2>5. Plain(l.sector)' = Plain(l.sector) /\ Original(l.sector)' = Original(l.sector)
    BY StillPlaces, StillBlocks
  <2>6. l.data = IF l.status = "Unencrypted" THEN Plain(l.sector)' ELSE Original(l.sector)'
    BY <2>4, <2>5 DEF Right
  <2> QED BY <2>6 DEF Right
<1>4. WithinParityAnswered'
  <2>1. PICK at : at = EntryOf(l.sector).at
    OBVIOUS
  <2>2. EntryOf(l.sector)' = EntryOf(l.sector)
    BY StillPlaces
  <2>3. SUFFICES ASSUME l # None, l.oom = None, reader'.secondary = "right", at # 0, Promised(at)'
                 PROVE  l.ret \in Good
    BY <1>2, <2>1, <2>2 DEF WithinParityAnswered
  <2>4. PromisedBy(map, at)'
    BY <1>2, <2>3 DEF Promised, PromisedBy
  <2>5. PromisedBy(map, at)
    BY <2>4, StillPromised
  <2>6. Promised(at)
    BY <1>1, <2>5 DEF Promised, PromisedBy
  <2> QED BY <1>1, <2>1, <2>3, <2>6 DEF WithinParityAnswered
<1> QED BY <1>3, <1>4

LEMMA VerifyKeeps ==
  ASSUME SectorInv, Verify
  PROVE  SectorInv'
<1>1. /\ phase = "open" /\ phase' = "open" /\ reader' = [reader EXCEPT !.verified = verify_image]
      /\ UNCHANGED <<file, writer, damage, profile, table, last>>
  BY DEF Verify
<1>2. PICK r : r = reader
  OBVIOUS
<1>3. ReaderOK(r)
  BY <1>1, <1>2 DEF SectorInv, ReadingOK
<1>4. PICK q : q = [r EXCEPT !.verified = verify_image]
  OBVIOUS
<1>5. /\ Shaped(q) /\ q.map = r.map /\ q.keys = r.keys /\ q.tracks = r.tracks
      /\ q.blocks = r.blocks /\ q.headers = r.headers /\ q.secondary = r.secondary
      /\ q.group = r.group
  BY <1>3, <1>4 DEF ReaderOK, Shaped
<1>6. q.verified = verify_image
  BY <1>3, <1>4 DEF ReaderOK, Shaped
<1>7. q.verified => verify_image
  BY <1>6, Zenon
<1>8. ReaderOK(q)
  BY <1>3, <1>5, <1>7 DEF ReaderOK, GroupRight
<1>9. ReaderOK(reader)'
  BY <1>1, <1>2, <1>4, <1>8, ReaderStays
<1>10. ReadingOK'
  BY <1>1, <1>9 DEF SectorInv, ReadingOK
<1>11. AnswersRight /\ WithinParityAnswered
  BY DEF SectorInv
<1>12. reader'.map = reader.map /\ reader'.keys = reader.keys
       /\ reader'.secondary = reader.secondary
  BY <1>1, <1>2, <1>4, <1>5
<1>13. AnswersRight' /\ WithinParityAnswered'
  BY <1>1, <1>11, <1>12, AnswersStay
<1> QED BY <1>1, <1>10, <1>13, ReadingKeeps

LEMMA SectorInvStays == SectorInv /\ [Next]_vars => SectorInv'
<1> SUFFICES ASSUME SectorInv, [Next]_vars
             PROVE  SectorInv'
  OBVIOUS
<1>1. CASE SetErasureCoding
  BY <1>1, SetErasureCodingKeeps
<1>2. CASE \E n \in 1..MaxSize, memory \in BOOLEAN : WriteBlock(n, memory)
  BY <1>2, WriteBlockKeeps
<1>3. CASE WriteGenerable
  BY <1>3, WriteGenerableKeeps
<1>4. CASE Close
  BY <1>4, CloseKeeps
<1>5. CASE Resume
  BY <1>5, ResumeKeeps
<1>6. CASE \E i \in DOMAIN file : \E d \in DamageOf(file[i].kind) : Damage(i, d)
  BY <1>6, DamageKeeps
<1>7. CASE Open
  BY <1>7, OpenKeeps
<1>8. CASE \E s \in 0..Sectors - 1, oom \in {None} \cup (0..Sectors - 1) : ReadSector(s, oom)
  BY <1>8, ReadSectorKeeps
<1>9. CASE Verify
  BY <1>9, VerifyKeeps
<1>10. CASE CloseImage
  BY <1>10, CloseImageKeeps
<1>11. CASE UNCHANGED vars
  <2>1. UNCHANGED <<file, writer, damage, profile, phase, table, reader, last>>
    BY <1>11 DEF vars
  <2>2. CASE phase \in {"writing", "closed"}
    <3>1. ReadingOK' /\ AnswersRight' /\ WithinParityAnswered'
      BY <2>1, <2>2, NotReading
    <3>2. TableOK(file)' /\ DamageOK'
      BY <2>1 DEF SectorInv, TableOK, EntryOK, HasKey, IsGame, DamageOK
    <3> QED BY <2>1, <3>1, <3>2 DEF SectorInv
  <2>3. CASE phase \notin {"writing", "closed"}
    <3>1. ReadingOK'
      <4>1. PICK r : r = reader
        OBVIOUS
      <4>2. phase = "open" => ReaderOK(r)
        BY <4>1 DEF SectorInv, ReadingOK
      <4>3. phase = "open" => ReaderOK(reader)'
        BY <2>1, <4>1, <4>2, ReaderStays
      <4> QED BY <2>1, <4>3 DEF SectorInv, ReadingOK
    <3>2. AnswersRight'
      BY <2>1, AnswersStay DEF SectorInv
    <3>3. WithinParityAnswered'
      BY <2>1, AnswersStay DEF SectorInv
    <3>4. TableOK(file)' /\ DamageOK'
      BY <2>1 DEF SectorInv, TableOK, EntryOK, HasKey, IsGame, DamageOK
    <3> QED BY <2>1, <3>1, <3>2, <3>3, <3>4 DEF SectorInv
  <2> QED BY <2>2, <2>3
<1> QED BY <1>1, <1>2, <1>3, <1>4, <1>5, <1>6, <1>7, <1>8, <1>9, <1>10, <1>11 DEF Next

LEMMA SectorInvHolds == Spec => []SectorInv
BY SectorInvStarts, SectorInvStays, PTL DEF Spec

(***************************************************************************)
(* What the invariant says.                                                *)
(***************************************************************************)
LEMMA TypesFollow == SectorInv => TypeOK
<1> SUFFICES ASSUME SectorInv PROVE TypeOK
  OBVIOUS
<1>1. \A i \in DOMAIN file : file[i].at \in Nat /\ file[i].span \in Nat \ {0}
  BY DEF SectorInv, FileOK, Ordered
<1>2. writer.next \in Nat /\ (~ writer.enabled => writer.slot = <<>> /\ writer.stripes = <<>>)
  BY DEF SectorInv, WriterOK, WriterType
<1>3. phase \in {"writing", "closed", "open", "done"} /\ Len(writer.slot) < K
  BY DEF SectorInv
<1>4. Len(table) <= Sectors
  BY DEF SectorInv, TableOK
<1>5. DOMAIN damage \subseteq DOMAIN file
      /\ \A i \in DOMAIN damage : damage[i] \in DamageOf(file[i].kind)
  BY DEF SectorInv, DamageOK
<1>6. last # None => last.ret \in Answers
  BY DEF SectorInv, ReadingOK
<1> QED BY <1>1, <1>2, <1>3, <1>4, <1>5, <1>6 DEF TypeOK

LEMMA StripeDescribed ==
  ASSUME FileOK(file), NEW group, NEW stripe, StripeOK(file, group.K, group.shard, stripe),
         group.shard \in Nat
  PROVE  StripeDescribesFile(group, stripe)
<1>1. Len(stripe.data) <= group.K
  BY DEF StripeOK
<1>2. ASSUME NEW k \in DOMAIN stripe.data
      PROVE  LET s == file[PlaceAt(file, stripe.data[k].at)] IN
             /\ s.value = stripe.data[k].crc.value
             /\ s.span <= stripe.data[k].size /\ stripe.data[k].size <= group.shard
  <2>1. PICK e : e = stripe.data[k]
    OBVIOUS
  <2>2. ShardOK(file, e, group.shard)
    BY <1>2, <2>1 DEF StripeOK
  <2>3. PICK i \in DOMAIN file : /\ file[i].at = e.at /\ file[i].value = e.crc.value
                                 /\ file[i].span <= e.size /\ e.size <= group.shard
    BY <2>2 DEF ShardOK
  <2>4. PlaceAt(file, e.at) = i
    BY <2>3, PlaceOf
  <2> QED BY <2>1, <2>3, <2>4
<1>3. ASSUME NEW m \in 1..M
      PROVE  LET s == file[PlaceAt(file, stripe.parity[m])] IN
             s.value = Encoded(stripe) /\ s.span = Largest(stripe.data)
  <2>1. PICK at : at = stripe.parity[m]
    OBVIOUS
  <2>2. ParityOK(file, at, stripe)
    BY <1>3, <2>1 DEF StripeOK
  <2>3. PICK i \in DOMAIN file : /\ file[i].at = at /\ file[i].value = Encoded(stripe)
                                 /\ file[i].span = Largest(stripe.data)
    BY <2>2 DEF ParityOK
  <2>4. PlaceAt(file, at) = i
    BY <2>3, PlaceOf
  <2> QED BY <2>1, <2>3, <2>4
<1> QED BY <1>1, <1>2, <1>3 DEF StripeDescribesFile

LEMMA MapsFollow == SectorInv => MapsDescribeFile
<1> SUFFICES ASSUME SectorInv PROVE MapsDescribeFile
  OBVIOUS
<1>1. FileOK(file) /\ MapsOK(file)
  BY DEF SectorInv
<1>2. \A i \in DOMAIN file : Whole(file, i)
  BY <1>1, AllWhole
<1>3. ASSUME NEW i \in DOMAIN file, file[i].kind = "ecmb", NEW group \in Range(file[i].value),
             NEW stripe \in Range(group.stripes)
      PROVE  StripeDescribesFile(group, stripe)
  <2>1. PICK map : map = file[i].value
    OBVIOUS
  <2>2. MapOK(file, map)
    BY <1>1, <1>3, <2>1 DEF MapsOK
  <2>3. PICK name \in Groups : group = map[name]
    BY <1>3, <2>1, <2>2 DEF MapOK, Range
  <2>4. MapGroupOK(file, group)
    BY <2>2, <2>3 DEF MapOK
  <2>5. PICK s \in DOMAIN group.stripes : stripe = group.stripes[s]
    BY <1>3 DEF Range
  <2>6. StripeOK(file, group.K, group.shard, stripe) /\ group.shard \in Nat
    BY <2>4, <2>5 DEF MapGroupOK
  <2> QED BY <1>1, <2>6, StripeDescribed
<1> QED BY <1>2, <1>3 DEF MapsDescribeFile

LEMMA CachesFollow == SectorInv => CachesSound
<1> SUFFICES ASSUME SectorInv, reader # None
             PROVE  /\ CacheWithin(reader.headers, HeaderBudget)
                    /\ CacheWithin(reader.blocks, BlockBudget)
                    /\ \A e \in Range(reader.blocks) :
                          e.value = Rebuilt(e.key) \/ DamageAt(e.key) = "silent"
  BY DEF CachesSound
<1>1. phase = "open" \/ phase = "done"
  BY DEF SectorInv, ReadingOK
<1>2. CASE phase = "open"
  BY <1>2 DEF SectorInv, ReadingOK, ReaderOK, CacheOK, BlocksOK, Range
<1>3. CASE phase = "done"
  <2>1. reader.headers = <<>> /\ reader.blocks = <<>>
    BY <1>3 DEF SectorInv, ReadingOK
  <2>2. CacheWithin(<<>>, HeaderBudget) /\ CacheWithin(<<>>, BlockBudget)
    BY NothingCached, ReaderAssumption DEF CacheOK
  <2> QED BY <2>1, <2>2 DEF Range
<1> QED BY <1>1, <1>2, <1>3

(* What aaruf_verify_image passes has no silent damage that a read meets. *)
LEMMA VerifiedQuiet ==
  ASSUME SectorInv, phase # "writing", verify_image, NEW t \in Nat
  PROVE  ~ SilentAt(t)
<1> SUFFICES ASSUME SilentAt(t) PROVE FALSE
  OBVIOUS
<1>1. Image /\ FileOK(file) /\ BlocksIndexed(file, FALSE)
  BY DEF SectorInv, Image
<1>2. PICK at : at = EntryOf(t).at
  OBVIOUS
<1>3. at # 0 /\ DamageAt(at) = "silent"
  BY <1>2 DEF SilentAt
<1>4. IsStored(t)
  BY <1>1, <1>2, <1>3, EntryCases
<1>5. PICK j \in DOMAIN file : file[j].kind = "data" /\ file[j].at = at
  BY <1>1, <1>2, <1>4, StoredEntry
<1>6. j \in DOMAIN damage /\ damage[j] = "silent"
  <2>1. PlaceAt(file, at) = j
    BY <1>1, <1>5, PlaceOf
  <2> QED BY <1>3, <2>1 DEF DamageAt
<1>7. j \in Nat /\ j > 1
  <2>1. j # 1
    BY <1>1, <1>5 DEF FileOK
  <2> QED BY <1>1, <2>1, FileFacts
<1>8. Indexed(j)
  <2>1. PICK k \in DOMAIN file : /\ k > j /\ file[k].kind = "index"
                                 /\ \A i \in (j + 1)..k : file[i].kind # "ecmb"
    BY <1>1, <1>5 DEF BlocksIndexed, IndexedAt
  <2>2. PICK S : S = {i \in DOMAIN file : i > j /\ file[i].kind \in {"index", "ecmb"}}
    OBVIOUS
  <2>3. DOMAIN file \subseteq Nat
    BY <1>1, FileFacts
  <2>4. S \subseteq Nat /\ k \in S
    BY <2>1, <2>2, <2>3
  <2>5. PICK m : m = Min(S)
    OBVIOUS
  <2>6. m \in S /\ m <= k
    BY <2>4, <2>5, MinIn
  <2>7. m \in (j + 1)..k
    BY <1>7, <2>2, <2>3, <2>4, <2>6
  <2>8. file[m].kind = "index"
    BY <2>1, <2>2, <2>6, <2>7
  <2> QED BY <2>2, <2>5, <2>8 DEF Indexed
<1>9. verify_block(j)
  BY <1>5, <1>6, <1>7, <1>8 DEF verify_image
<1> QED BY <1>5, <1>6, <1>9 DEF verify_block

LEMMA VerifiedFollows == SectorInv => VerifiedAnswersRight
<1> SUFFICES ASSUME SectorInv, reader # None, reader.verified, last # None, last.ret \in Good,
                    reader.secondary = "right", reader.keys = "right", ~ last.holes
             PROVE  Right(last)
  BY DEF VerifiedAnswersRight
<1>1. phase = "open" /\ last.sector \in Nat
  BY DEF SectorInv, ReadingOK
<1>2. verify_image
  BY <1>1 DEF SectorInv, ReadingOK, ReaderOK
<1>3. \A i \in 1..GroupSize : ~ SilentAt(GroupOf(last.sector)[i])
  BY <1>1, <1>2, GroupHolds, VerifiedQuiet
<1>4. ~ SilentIn(last.sector)
  <2>1. DOMAIN GroupOf(last.sector) = 1..GroupSize
    BY <1>1, GroupHolds
  <2> QED BY <1>3, <2>1 DEF SilentIn, SilentAt, Range
<1> QED BY <1>4 DEF SectorInv, AnswersRight, Trusted

(***************************************************************************)
(* The theorems.                                                           *)
(***************************************************************************)
(* A slot never overflows, nothing is accumulated without erasure coding,  *)
(* and every structure, damage and answer is one that the code can make    *)
(* (close_current_block, ec_flush_data_stripe, aaruf_read_sector).         *)
THEOREM ReaderIsTyped == Spec => []TypeOK
BY SectorInvHolds, TypesFollow, PTL

(* No structure is written over another, and each map of stripes describes *)
(* the file, whatever was written, resumed and finalized (ec_finalize,     *)
(* ec_flush_data_stripe).                                                  *)
THEOREM MapsAreTrue == Spec => []MapsDescribeFile
BY SectorInvHolds, MapsFollow, PTL

(* A sector is answered right or not at all, with the exceptions that the  *)
(* property names, however the image is damaged and whatever was read      *)
(* before (aaruf_read_sector, ec_recover_data_block, src/lru.c).           *)
THEOREM ReadsAreRight == Spec => []AnswersRight
<1>1. SectorInv => AnswersRight
  BY DEF SectorInv
<1> QED BY <1>1, SectorInvHolds, PTL

(* Where aaruf_verify_image passed, silent damage is no exception.         *)
THEOREM VerifiedReadsAreRight == Spec => []VerifiedAnswersRight
BY SectorInvHolds, VerifiedFollows, PTL

(* A sector of a stripe with no more than M shards lost, and its parity    *)
(* undamaged, is answered (ec_recover_data_block, rs_decode).              *)
THEOREM ParityIsEnough == Spec => []WithinParityAnswered
<1>1. SectorInv => WithinParityAnswered
  BY DEF SectorInv
<1> QED BY <1>1, SectorInvHolds, PTL

(* The caches hold the sectors of the disc, a key once, and no more than   *)
(* their budgets (add_to_cache_uint64, find_in_cache_uint64).              *)
THEOREM CachesAreSound == Spec => []CachesSound
BY SectorInvHolds, CachesFollow, PTL
=============================================================================
