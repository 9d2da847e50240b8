--------------------------- MODULE ImageOpenProofs ---------------------------
(***************************************************************************)
(* For tables of every size and every harm to any number of structures: a  *)
(* lookup is right, an error, or what the verifier tells of; and an image  *)
(* is refused for a reason.                                                *)
(*                                                                         *)
(* The inductive invariant follows the table from the index entry that     *)
(* leads to it to the context: what of it is not good comes from harm to   *)
(* the table or to the index, and the cached secondary table is the one of *)
(* its place.                                                              *)
(***************************************************************************)
EXTENDS ImageOpen, TLAPS

IndexTypes == {"tag", "ddt", "cd", "tracks", "flux"}

IndexEntry == [type : IndexTypes, leads : {"home", "nowhere", "first"}]

ImageOK ==
    /\ image.version \in 1..2 /\ image.index \in 1..3 /\ image.levels \in 1..2
    /\ image.version = 1 => image.levels = 1
    /\ image.levels = 2 => ~image.resumed
    /\ image.version = 1 => ~image.resumed
    /\ image.packed \in {"none", "lzma", "zstd"}
    /\ image.flux \in BOOLEAN
    /\ image.made \subseteq Position
    /\ \A part \in DOMAIN image.harm : image.harm[part] \in Harms

OneTable(p) == \A j, k \in DOMAIN p : p[j].type = "ddt" /\ p[k].type = "ddt" => j = k

Astray(p) ==
    \A k \in DOMAIN p : /\ p[k].leads # "home" => IndexHarm = "altered"
                        /\ p[k].leads = "first" => image.resumed

HasTable(p) == \E k \in DOMAIN p : p[k].type = "ddt"

IndexOK(p) == p \in Seq(IndexEntry) /\ OneTable(p) /\ Astray(p)

(* The table is not found before its entry is processed, and in a sound    *)
(* image the entry is there.                                               *)
PendingOK ==
    /\ IndexOK(pending)
    /\ HasTable(pending) /\ image.version = 2 => ctx.table = "none" /\ ~ctx.found
    /\ Sound => ctx.found \/ HasTable(pending)

TableFine(c) ==
    /\ c.table = "wrong" => HarmOf(Part("ddt")) = "altered"
    /\ c.table = "freed" => HarmOf(Part("ddt")) = "cut"
    /\ c.table = "first" => IndexHarm = "altered" /\ image.resumed
    /\ c.table \in IF image.version = 1 THEN {"none", "good", "wrong", "freed"}
                                        ELSE {"none", "good", "first"}
    /\ image.version = 2 => (c.found <=> c.table # "none")

TableOK == TableFine(ctx)

Context ==
    [found : BOOLEAN, flux : BOOLEAN, cd : BOOLEAN, readable : BOOLEAN, tag : BOOLEAN,
     tracks : BOOLEAN, noUserDdt : BOOLEAN, isWriting : BOOLEAN, rewinded : BOOLEAN,
     table : {"none", "good", "wrong", "freed", "first"}, loaded : Nat, at : Nat]

CacheOK ==
    /\ ctx.loaded = ctx.at
    /\ ctx.at = 0 \/ ctx.at - 1 \in image.made

OpenInv ==
    /\ ImageOK
    /\ LookupsTrueOrTold
    /\ phase # "open" => got = NoLookup
    /\ phase = "refused" => ~Sound \/ (resuming /\ image.version = 1)
    /\ phase \in {"closed", "refused", "header", "entries", "open"}
    /\ resuming \in BOOLEAN
    /\ phase \notin {"entries", "open"} => ctx = NoContext
    /\ ctx \in Context /\ TableOK /\ CacheOK
    /\ phase = "entries" => PendingOK
    /\ phase = "open" => (ctx.noUserDdt <=> ~ctx.found)

(***************************************************************************)
(* The image does not change.                                              *)
(***************************************************************************)
LEMMA ImageStays ==
  ASSUME image' = image
  PROVE  /\ ImageOK' <=> ImageOK
         /\ Sound' <=> Sound
         /\ IndexHarm' = IndexHarm
         /\ HarmOf(Part("ddt"))' = HarmOf(Part("ddt"))
         /\ aaruf_verify_image' <=> aaruf_verify_image
         /\ \A i \in Slot : NeverMade(i)' <=> NeverMade(i)
<1>1. \A p : HarmOf(p)' = HarmOf(p)
  BY DEF HarmOf
<1>2. IndexHarm' = IndexHarm
  BY <1>1 DEF IndexHarm, Part
<1>3. HarmOf(Part("ddt"))' = HarmOf(Part("ddt"))
  BY <1>1 DEF Part
<1>4. ImageOK' <=> ImageOK
  BY DEF ImageOK
<1>5. Sound' <=> Sound
  BY DEF Sound
<1>6. aaruf_verify_image' <=> aaruf_verify_image
  BY DEF aaruf_verify_image, verify_index, verify_index_v1, verify_index_v2, verify_index_v3,
         IndexHarm, HarmOf, Part
<1>7. \A i \in Slot : NeverMade(i)' <=> NeverMade(i)
  BY DEF NeverMade
<1> QED BY <1>2, <1>3, <1>4, <1>5, <1>6, <1>7

LEMMA HarmKinds ==
  ASSUME ImageOK, NEW p
  PROVE  HarmOf(p) \in {"none", "cut", "altered", "lost"}
BY DEF ImageOK, HarmOf, Harms

LEMMA SoundHasNoHarm ==
  ASSUME Sound, NEW p
  PROVE  HarmOf(p) = "none" /\ ~image.memory /\ image.needs = "nothing"
BY DEF Sound, HarmOf

(* What the verifier tells of. *)
LEMMA VerifierTells ==
  ASSUME ImageOK,
         HarmOf(Part("ddt")) \in {"altered", "cut"} \/ IndexHarm = "altered"
  PROVE  ~aaruf_verify_image
<1>1. verify_index => IndexHarm = "none"
  <2>1. image.index = 1 \/ image.index = 2 \/ image.index = 3
    BY DEF ImageOK
  <2>2. CASE image.index = 1
    BY <2>2 DEF verify_index, verify_index_v1
  <2>3. CASE image.index = 2
    BY <2>3 DEF verify_index, verify_index_v2
  <2>4. CASE image.index = 3
    BY <2>4 DEF verify_index, verify_index_v3
  <2> QED BY <2>1, <2>2, <2>3, <2>4
<1>2. aaruf_verify_image => IndexHarm = "none" /\ HarmOf(Part("ddt")) \in {"none", "lost"}
  BY <1>1 DEF aaruf_verify_image
<1> QED BY <1>2

(***************************************************************************)
(* Lookups.                                                                *)
(***************************************************************************)
TrueOrTold(i, answer) ==
    \/ answer.result = "error"
    \/ answer = EntryOf("good", i)
    \/ NeverMade(i)
    \/ ~aaruf_verify_image

LEMMA PlaceOfSlot ==
  ASSUME NEW i \in Slot
  PROVE  /\ PositionOf(i) \in Position
         /\ PositionOf(i) * Items + (i % Items) = i
<1>1. Tables \in Nat \ {0} /\ Items \in Nat \ {0} /\ i \in 0..(Tables * Items - 1)
  BY OpenAssumption DEF Slot
<1>2. i \in Nat /\ i < Tables * Items
  BY <1>1
<1>3. i = Items * (i \div Items) + (i % Items) /\ i \div Items \in Nat /\ i % Items \in 0..(Items - 1)
  BY <1>1, <1>2
<1>4. i \div Items < Tables
  BY <1>1, <1>2, <1>3
<1> QED BY <1>1, <1>3, <1>4 DEF PositionOf, Position

LEMMA LookedSafe ==
  ASSUME OpenInv, phase = "open", NEW i \in Slot, NEW c, NEW answer, Looked(i, c, answer),
         TrueOrTold(i, answer),
         c \in Context, c.table = ctx.table, c.found = ctx.found, c.noUserDdt = ctx.noUserDdt,
         c.loaded = c.at, c.at = 0 \/ c.at - 1 \in image.made
  PROVE  OpenInv'
<1>1. /\ ctx' = c /\ got' = [sector |-> i, answer |-> answer]
      /\ image' = image /\ phase' = phase /\ resuming' = resuming /\ pending' = pending
  BY DEF Looked
<1>2. LookupsTrueOrTold'
  BY <1>1, ImageStays DEF TrueOrTold, LookupsTrueOrTold, EntryOf, Blank
<1>3. TableOK' /\ CacheOK'
  <2>1. TableOK'
    BY <1>1, ImageStays DEF OpenInv, TableOK, TableFine
  <2>2. CacheOK'
    BY <1>1 DEF CacheOK
  <2> QED BY <2>1, <2>2
<1> QED BY <1>1, <1>2, <1>3, ImageStays DEF OpenInv

LEMMA LookupSafe ==
  ASSUME OpenInv, NEW i \in Slot,
         LookupNothing(i) \/ LookupOneLevel(i) \/ LookupCached(i) \/ LookupLoading(i)
  PROVE  OpenInv'
<1>0. /\ phase = "open" /\ ImageOK /\ TableOK /\ (ctx.noUserDdt <=> ~ctx.found)
      /\ ctx \in Context /\ ctx.loaded = ctx.at
      /\ ctx.at = 0 \/ ctx.at - 1 \in image.made
  BY DEF OpenInv, CacheOK, LookupNothing, LookupOneLevel, LookupCached, LookupLoading
<1>1. CASE LookupNothing(i)
  <2>1. PICK a : a = Error("USER_DATA_NOT_PRESENT")
    OBVIOUS
  <2>2. Looked(i, ctx, a) /\ TrueOrTold(i, a)
    BY <1>1, <2>1 DEF LookupNothing, TrueOrTold, Error
  <2> QED BY <1>0, <2>2, LookedSafe
<1>2. CASE LookupOneLevel(i)
  <2>1. PICK a : a = IF image.version = 1 THEN decode_ddt_entry_v1(i)
                                          ELSE decode_ddt_single_level_v2(i)
    OBVIOUS
  <2>2. Looked(i, ctx, a) /\ ctx.found
    BY <1>0, <1>2, <2>1 DEF LookupOneLevel
  <2>3. TrueOrTold(i, a)
    <3>1. CASE ctx.table = "good"
      <4>1. /\ decode_ddt_entry_v1(i) = EntryOf("good", i)
            /\ decode_ddt_single_level_v2(i) = EntryOf("good", i)
        BY <3>1 DEF decode_ddt_entry_v1, decode_ddt_single_level_v2
      <4> QED BY <2>1, <4>1 DEF TrueOrTold
    <3>2. CASE ctx.table \in {"wrong", "freed", "first"}
      <4>1. ~aaruf_verify_image
        BY <1>0, <3>2, VerifierTells DEF TableOK, TableFine
      <4> QED BY <4>1 DEF TrueOrTold
    <3>3. CASE ctx.table = "none"
      <4>1. image.version = 1
        BY <1>0, <2>2, <3>3 DEF TableOK, TableFine, ImageOK
      <4>2. decode_ddt_entry_v1(i) = Error("NOT_AARUFORMAT")
        BY <3>3 DEF decode_ddt_entry_v1
      <4> QED BY <2>1, <4>1, <4>2 DEF TrueOrTold, Error
    <3> QED BY <1>0, <3>1, <3>2, <3>3 DEF Context
  <2> QED BY <1>0, <2>2, <2>3, LookedSafe
<1>3. CASE LookupCached(i)
  <2>1. PICK a : a = InCached(ctx, i)
    OBVIOUS
  <2>2. Looked(i, ctx, a) /\ image.levels = 2 /\ ctx.at = OffsetOf(PositionOf(i))
    BY <1>3, <2>1 DEF LookupCached, CacheHit
  <2>3. TrueOrTold(i, a)
    <3>1. CASE PositionOf(i) \in image.made
      <4>1. ctx.loaded = PositionOf(i) + 1 /\ PositionOf(i) \in Nat
        BY <1>0, <2>2, <3>1, PlaceOfSlot DEF OffsetOf, Position
      <4>2. ctx.loaded # 0 /\ ctx.loaded - 1 = PositionOf(i)
        BY <4>1
      <4>3. (ctx.loaded - 1) * Items + (i % Items) = i
        BY <4>2, PlaceOfSlot
      <4>4. a = EntryOf("good", i)
        BY <2>1, <4>2, <4>3 DEF InCached
      <4> QED BY <4>4 DEF TrueOrTold
    <3>2. CASE PositionOf(i) \notin image.made
      BY <2>2, <3>2 DEF NeverMade, TrueOrTold
    <3> QED BY <3>1, <3>2
  <2> QED BY <1>0, <2>2, <2>3, LookedSafe
<1>4. CASE LookupLoading(i)
  <2>1. PICK f : f = OffsetOf(PositionOf(i))
    OBVIOUS
  <2>2. PICK o \in SecondaryOutcomes(f) :
            Looked(i, Cached(f, o), IF o = "good" THEN InCached(Cached(f, o), i)
                                                  ELSE Error(SecondaryError(o)))
    BY <1>4, <2>1 DEF LookupLoading
  <2>3. PICK c : c = Cached(f, o)
    OBVIOUS
  <2>4. PICK a : a = IF o = "good" THEN InCached(c, i) ELSE Error(SecondaryError(o))
    OBVIOUS
  <2>5. Looked(i, c, a)
    BY <2>2, <2>3, <2>4
  <2>6. CASE o = "good"
    <3>1. f # 0
      BY <2>2, <2>6 DEF SecondaryOutcomes
    <3>2. PositionOf(i) \in image.made /\ f = PositionOf(i) + 1 /\ PositionOf(i) \in Nat
      BY <2>1, <3>1, PlaceOfSlot DEF OffsetOf, Position
    <3>3. /\ c.table = ctx.table /\ c.found = ctx.found /\ c.noUserDdt = ctx.noUserDdt
          /\ c.loaded = f /\ c.at = f /\ c \in Context
      <4>1. c = [ctx EXCEPT !.at = f, !.loaded = f]
        BY <2>3, <2>6 DEF Cached
      <4>2. f \in Nat
        BY <3>2
      <4> QED BY <1>0, <4>1, <4>2 DEF Context
    <3>4. f - 1 = PositionOf(i) /\ f \in Nat
      BY <3>2
    <3>5. a = EntryOf("good", i)
      <4>1. (f - 1) * Items + (i % Items) = i
        BY <3>4, PlaceOfSlot
      <4> QED BY <2>4, <2>6, <3>1, <3>3, <4>1 DEF InCached
    <3>6. TrueOrTold(i, a)
      BY <3>5 DEF TrueOrTold
    <3> QED BY <1>0, <2>5, <3>2, <3>3, <3>4, <3>6, LookedSafe
  <2>7. CASE o # "good"
    <3>1. c = ctx /\ a = Error(SecondaryError(o))
      BY <2>3, <2>4, <2>7 DEF Cached
    <3>2. TrueOrTold(i, a)
      BY <3>1 DEF TrueOrTold, Error
    <3> QED BY <1>0, <2>5, <3>1, <3>2, LookedSafe
  <2> QED BY <2>6, <2>7
<1> QED BY <1>1, <1>2, <1>3, <1>4

(***************************************************************************)
(* The index.                                                              *)
(***************************************************************************)
LEMMA WholeIndexOK ==
  ASSUME ImageOK
  PROVE  /\ WholeIndex \in Seq(IndexEntry) /\ Len(WholeIndex) \in {4, 5}
         /\ \A k \in DOMAIN WholeIndex :
               /\ WholeIndex[k].type = "ddt" <=> k = 2
               /\ WholeIndex[k].leads = "home"
<1> DEFINE all == <<Entries["tag"], Entries["ddt"], Entries["cd"], Entries["tracks"], Entries["flux"]>>
<1>1. \A t \in IndexTypes : Entries[t] = [type |-> t, leads |-> "home"]
  BY DEF Entries, IndexTypes
<1>2. ASSUME NEW t \in IndexTypes
      PROVE  Entries[t] \in IndexEntry /\ Entries[t].type = t /\ Entries[t].leads = "home"
  <2>1. PICK e : e = Entries[t]
    OBVIOUS
  <2>2. e = [type |-> t, leads |-> "home"]
    BY <1>1, <2>1
  <2>3. e \in IndexEntry /\ e.type = t /\ e.leads = "home"
    BY <2>2 DEF IndexEntry
  <2> QED BY <2>1, <2>3
<1>3. /\ Entries["tag"] \in IndexEntry /\ Entries["ddt"] \in IndexEntry
      /\ Entries["cd"] \in IndexEntry /\ Entries["tracks"] \in IndexEntry
      /\ Entries["flux"] \in IndexEntry
  BY <1>2 DEF IndexTypes
<1>4. all \in Seq(IndexEntry) /\ Len(all) = 5
  BY <1>3
<1>5. /\ all[1] = Entries["tag"] /\ all[2] = Entries["ddt"] /\ all[3] = Entries["cd"]
      /\ all[4] = Entries["tracks"] /\ all[5] = Entries["flux"]
  OBVIOUS
<1>6. \A k \in 1..5 : /\ all[k].type = "ddt" <=> k = 2
                      /\ all[k].leads = "home"
  BY <1>2, <1>5 DEF IndexTypes
<1>7. PICK n \in {4, 5} : WholeIndex = SubSeq(all, 1, n)
  BY DEF WholeIndex
<1> HIDE DEF all
<1>8. /\ WholeIndex \in Seq(IndexEntry) /\ Len(WholeIndex) = n
      /\ \A k \in 1..n : WholeIndex[k] = all[k]
  BY <1>4, <1>7
<1>9. DOMAIN WholeIndex = 1..n
  BY <1>8
<1> QED BY <1>6, <1>8, <1>9

LEMMA IndexIsOK ==
  ASSUME ImageOK, NEW p \in process_index
  PROVE  /\ IndexOK(p)
         /\ Sound => HasTable(p)
<1>1. p \in EntriesRead
  BY DEF process_index, process_index_v1, process_index_v2, process_index_v3, ImageOK
<1>2. IndexHarm \in {"none", "cut", "altered", "lost"}
  BY HarmKinds DEF IndexHarm
<1>3. CASE p = WholeIndex
  <2>1. IndexOK(p)
    BY <1>3, WholeIndexOK DEF IndexOK, OneTable, Astray
  <2>2. HasTable(p)
    <3>1. DOMAIN WholeIndex = 1..Len(WholeIndex) /\ Len(WholeIndex) \in {4, 5}
      BY WholeIndexOK
    <3>2. 2 \in DOMAIN WholeIndex
      BY <3>1
    <3>3. WholeIndex[2].type = "ddt"
      BY <3>2, WholeIndexOK
    <3> QED BY <1>3, <3>2, <3>3 DEF HasTable
  <2> QED BY <2>1, <2>2
<1>4. CASE p \in AlteredIndexes /\ IndexHarm = "altered"
  <2>1. PICK k \in DOMAIN WholeIndex, l \in {"nowhere", "first"} :
            /\ p = [WholeIndex EXCEPT ![k].leads = l]
            /\ l = "first" => image.resumed
    BY <1>4 DEF AlteredIndexes
  <2>2. PICK w : w = WholeIndex
    OBVIOUS
  <2>3. /\ w \in Seq(IndexEntry) /\ k \in DOMAIN w
        /\ \A j \in DOMAIN w : /\ w[j].type = "ddt" <=> j = 2
                               /\ w[j].leads = "home"
    BY <2>1, <2>2, WholeIndexOK
  <2>4. PICK e : e = [w[k] EXCEPT !.leads = l]
    OBVIOUS
  <2>5. e \in IndexEntry /\ e.type = w[k].type /\ e.leads = l
    <3>1. w[k] \in IndexEntry
      BY <2>3
    <3> QED BY <2>4, <3>1 DEF IndexEntry
  <2>6. p = [w EXCEPT ![k] = e]
    BY <2>1, <2>2, <2>4
  <2>7. /\ p \in Seq(IndexEntry) /\ DOMAIN p = DOMAIN w /\ p[k] = e
        /\ \A j \in DOMAIN w : j # k => p[j] = w[j]
    BY <2>3, <2>5, <2>6
  <2>8. ASSUME NEW j \in DOMAIN p
        PROVE  /\ p[j].type = "ddt" <=> j = 2
               /\ p[j].leads = "first" => image.resumed
    <3>1. CASE j = k
      <4>1. p[j].type = w[k].type /\ p[j].leads = l
        BY <2>5, <2>7, <3>1
      <4> QED BY <2>1, <2>3, <3>1, <4>1
    <3>2. CASE j # k
      <4>1. p[j] = w[j] /\ j \in DOMAIN w
        BY <2>7, <3>2
      <4> QED BY <2>3, <4>1
    <3> QED BY <3>1, <3>2
  <2>9. IndexOK(p)
    BY <1>4, <2>7, <2>8 DEF IndexOK, OneTable, Astray
  <2>10. ~Sound
    BY <1>4, SoundHasNoHarm DEF IndexHarm
  <2> QED BY <2>9, <2>10
<1>5. p = WholeIndex \/ (p \in AlteredIndexes /\ IndexHarm = "altered")
  BY <1>1, <1>2 DEF EntriesRead
<1> QED BY <1>3, <1>4, <1>5

(***************************************************************************)
(* The steps of aaruf_open.                                                *)
(***************************************************************************)
LEMMA NoContextOK ==
  ASSUME ImageOK
  PROVE  /\ NoContext \in Context /\ TableFine(NoContext)
         /\ NoContext.loaded = 0 /\ NoContext.at = 0
         /\ NoContext.table = "none" /\ ~NoContext.found
BY DEF NoContext, Context, TableFine, ImageOK

LEMMA RefuseSafe ==
  ASSUME OpenInv, phase # "open", NEW e, Refuse(e), ~Sound \/ (resuming /\ image.version = 1)
  PROVE  OpenInv'
<1>1. /\ phase' = "refused" /\ ctx' = NoContext /\ image' = image
      /\ resuming' = resuming /\ got' = got
  BY DEF Refuse
<1>2. got' = NoLookup /\ ImageOK
  BY <1>1 DEF OpenInv
<1>3. LookupsTrueOrTold'
  BY <1>2 DEF LookupsTrueOrTold
<1>4. TableOK' /\ CacheOK' /\ ctx' \in Context
  BY <1>1, <1>2, NoContextOK, ImageStays DEF TableOK, TableFine, CacheOK
<1> QED BY <1>1, <1>2, <1>3, <1>4, ImageStays DEF OpenInv

LEMMA ReadIndexSafe ==
  ASSUME OpenInv, ReadIndex
  PROVE  OpenInv'
<1>1. /\ phase = "header" /\ pending' \in process_index /\ phase' = "entries"
      /\ image' = image /\ resuming' = resuming /\ ctx' = ctx /\ got' = got
  BY DEF ReadIndex
<1>2. got' = NoLookup /\ ImageOK /\ ctx = NoContext
  BY <1>1 DEF OpenInv
<1>3. LookupsTrueOrTold'
  BY <1>2 DEF LookupsTrueOrTold
<1>4. TableOK' /\ CacheOK' /\ ctx' \in Context
  BY <1>1, <1>2, NoContextOK, ImageStays DEF TableOK, TableFine, CacheOK
<1>5. IndexOK(pending') /\ (Sound => HasTable(pending'))
  BY <1>1, <1>2, IndexIsOK
<1>6. PendingOK'
  <2>1. IndexOK(pending)'
    BY <1>1, <1>5, ImageStays DEF IndexOK, OneTable, Astray
  <2>2. HasTable(pending)' <=> HasTable(pending')
    BY DEF HasTable
  <2> QED BY <1>1, <1>2, <1>5, <2>1, <2>2, NoContextOK, ImageStays DEF PendingOK
<1> QED BY <1>1, <1>2, <1>3, <1>4, <1>6, ImageStays DEF OpenInv

(* What a processed entry makes of the context. *)
StepOK(c) ==
    /\ c \in Context /\ TableFine(c)
    /\ c.loaded = ctx.loaded /\ c.at = ctx.at
    /\ image.version = 2 /\ Head(pending).type # "ddt" =>
          c.table = ctx.table /\ (c.found <=> ctx.found)
    /\ Sound => (ctx.found => c.found) /\ (Head(pending).type = "ddt" => c.found)

LEMMA TailOK ==
  ASSUME NEW p, IndexOK(p), p # <<>>
  PROVE  /\ IndexOK(Tail(p))
         /\ HasTable(p) => Head(p).type = "ddt" \/ HasTable(Tail(p))
         /\ HasTable(Tail(p)) => Head(p).type # "ddt" /\ HasTable(p)
         /\ Head(p).leads # "home" => IndexHarm = "altered"
         /\ Head(p).leads = "first" => image.resumed
         /\ Head(p).type = "ddt" => HasTable(p)
<1>1. p \in Seq(IndexEntry) /\ Len(p) \in Nat /\ Len(p) >= 1
  BY DEF IndexOK
<1>2. Head(p) = p[1] /\ 1 \in DOMAIN p
  BY <1>1
<1>3. PICK t : t = Tail(p)
  OBVIOUS
<1>4. /\ t \in Seq(IndexEntry) /\ Len(t) = Len(p) - 1
      /\ \A k \in 1..Len(t) : t[k] = p[k + 1]
  BY <1>1, <1>3
<1>5. DOMAIN t = 1..(Len(p) - 1) /\ DOMAIN p = 1..Len(p)
  BY <1>1, <1>4
<1>6. \A k \in DOMAIN t : k + 1 \in DOMAIN p /\ t[k] = p[k + 1] /\ k \in Nat /\ k + 1 # 1
  BY <1>1, <1>4, <1>5
<1>7. \A k \in DOMAIN p : k # 1 => k - 1 \in DOMAIN t /\ t[k - 1] = p[k]
  BY <1>1, <1>4, <1>5
<1>8. OneTable(p) /\ Astray(p)
  BY DEF IndexOK
<1>9. OneTable(t)
  BY <1>6, <1>8 DEF OneTable
<1>10. Astray(t)
  BY <1>6, <1>8 DEF Astray
<1>11. HasTable(p) => p[1].type = "ddt" \/ HasTable(t)
  BY <1>7 DEF HasTable
<1>12. HasTable(t) => p[1].type # "ddt" /\ HasTable(p)
  BY <1>2, <1>6, <1>8 DEF HasTable, OneTable
<1> QED BY <1>2, <1>3, <1>4, <1>8, <1>9, <1>10, <1>11, <1>12 DEF IndexOK, Astray, HasTable

LEMMA EntrySafe ==
  ASSUME OpenInv, phase = "entries", pending # <<>>, NEW c, Processed(c), StepOK(c)
  PROVE  OpenInv'
<1>1. /\ ctx' = c /\ pending' = Tail(pending) /\ image' = image /\ phase' = phase
      /\ resuming' = resuming /\ got' = got
  BY DEF Processed
<1>2. got' = NoLookup /\ ImageOK /\ PendingOK /\ CacheOK
  BY <1>1 DEF OpenInv
<1>3. LookupsTrueOrTold'
  BY <1>2 DEF LookupsTrueOrTold
<1>4. /\ c \in Context /\ TableFine(c) /\ c.loaded = ctx.loaded /\ c.at = ctx.at
  BY DEF StepOK
<1>5. TableOK' /\ CacheOK' /\ ctx' \in Context
  BY <1>1, <1>2, <1>4, ImageStays DEF TableOK, TableFine, CacheOK
<1>6. PendingOK'
  <2>1. IndexOK(Tail(pending))
    BY <1>2, TailOK DEF PendingOK
  <2>2. IndexOK(pending)' /\ (HasTable(pending)' <=> HasTable(Tail(pending)))
    BY <1>1, <2>1, ImageStays DEF IndexOK, OneTable, Astray, HasTable
  <2>3. ASSUME HasTable(Tail(pending)), image.version = 2
        PROVE  c.table = "none" /\ ~c.found
    <3>1. Head(pending).type # "ddt" /\ HasTable(pending)
      BY <1>2, <2>3, TailOK DEF PendingOK
    <3> QED BY <1>2, <2>3, <3>1 DEF PendingOK, StepOK
  <2>4. ASSUME Sound
        PROVE  c.found \/ HasTable(Tail(pending))
    BY <1>2, <2>4, TailOK DEF PendingOK, StepOK
  <2> QED BY <1>1, <2>2, <2>3, <2>4, ImageStays DEF PendingOK
<1> QED BY <1>1, <1>2, <1>3, <1>5, <1>6, ImageStays DEF OpenInv

(***************************************************************************)
(* What comes to memory of a structure.                                    *)
(***************************************************************************)
LEMMA OutcomesTell ==
  ASSUME ImageOK, NEW part, NEW o \in Outcomes(part)
  PROVE  /\ o \in {"good", "noHeader", "short", "undecodable", "wrong", "unknown", "noMemory"}
         /\ o = "wrong" => HarmOf(part) = "altered"
         /\ o = "short" => HarmOf(part) = "cut"
         /\ Sound => o = "good"
<1>1. HarmOf(part) \in {"none", "cut", "altered", "lost"}
  BY HarmKinds
<1>2. PICK h : h = HarmOf(part)
  OBVIOUS
<1>3. PICK u \in {{"undecodable", "wrong"}, {"wrong"}} : o \in WithMemory(OutOfHarm(h, u))
  BY <1>2 DEF Outcomes, LzmaOutcomes, ZstdOutcomes, PlainOutcomes, ImageOK
<1>4. o \in OutOfHarm(h, u) \/ (o = "noMemory" /\ image.memory)
  BY <1>3 DEF WithMemory
<1>5. Sound => h = "none" /\ ~image.memory
  BY <1>2, SoundHasNoHarm
<1>6. \/ h = "none" /\ OutOfHarm(h, u) = {"good"}
      \/ h = "cut" /\ OutOfHarm(h, u) = {"noHeader", "short"}
      \/ h = "altered" /\ OutOfHarm(h, u) = u
      \/ h = "lost" /\ OutOfHarm(h, u) = {"unknown"}
  BY <1>1, <1>2 DEF OutOfHarm
<1> QED BY <1>2, <1>3, <1>4, <1>5, <1>6

LEMMA SettleSafe ==
  ASSUME OpenInv, phase = "entries", pending # <<>>, NEW r, Settle(r), StepOK(r.ctx),
         Sound => r.error = "OK"
  PROVE  OpenInv'
<1>1. CASE r.error = "OK"
  <2>1. Processed(r.ctx)
    BY <1>1 DEF Settle
  <2> QED BY <2>1, EntrySafe
<1>2. CASE r.error # "OK"
  <2>1. Refuse(r.error) /\ ~Sound
    BY <1>2 DEF Settle
  <2> QED BY <2>1, RefuseSafe
<1> QED BY <1>1, <1>2

(* What holds while the entries are processed. *)
LEMMA AtEntries ==
  ASSUME OpenInv, phase = "entries", pending # <<>>
  PROVE  /\ ImageOK /\ ctx \in Context /\ TableFine(ctx)
         /\ Head(pending).leads # "home" => ~Sound
         /\ Head(pending).leads = "first" => IndexHarm = "altered" /\ image.resumed /\ image.version = 2
         /\ Head(pending).type = "ddt" /\ image.version = 2 => ctx.table = "none" /\ ~ctx.found
<1>1. ImageOK /\ ctx \in Context /\ TableFine(ctx) /\ PendingOK
  BY DEF OpenInv, TableOK
<1>2. IndexOK(pending)
  BY <1>1 DEF PendingOK
<1>3. /\ Head(pending).leads # "home" => IndexHarm = "altered"
      /\ Head(pending).leads = "first" => image.resumed
      /\ Head(pending).type = "ddt" => HasTable(pending)
  BY <1>2, TailOK
<1>4. IndexHarm = "altered" => ~Sound
  BY SoundHasNoHarm DEF IndexHarm
<1> QED BY <1>1, <1>3, <1>4 DEF PendingOK, ImageOK

LEMMA SkipSafe ==
  ASSUME OpenInv, SkipEntry
  PROVE  OpenInv'
<1>1. phase = "entries" /\ pending # <<>> /\ Head(pending).leads = "nowhere" /\ Processed(ctx)
  BY DEF SkipEntry
<1>2. StepOK(ctx)
  BY <1>1, AtEntries DEF StepOK
<1> QED BY <1>1, <1>2, EntrySafe

LEMMA DataBlockSafe ==
  ASSUME OpenInv, ProcessDataBlock
  PROVE  OpenInv'
<1>1. /\ phase = "entries" /\ pending # <<>> /\ Head(pending).type = "tag"
  BY DEF ProcessDataBlock, Current
<1>2. PICK o \in Outcomes(Part("tag")) : Settle(process_data_block(o))
  BY DEF ProcessDataBlock
<1>3. PICK r : r = process_data_block(o)
  OBVIOUS
<1>4. r.ctx = TagKept(o) /\ (Sound => r.error = "OK")
  BY <1>1, <1>3, AtEntries, OutcomesTell DEF process_data_block
<1>5. StepOK(r.ctx)
  <2>1. PICK c : c = TagKept(o)
    OBVIOUS
  <2>2. /\ c \in Context /\ c.table = ctx.table /\ c.found = ctx.found
        /\ c.loaded = ctx.loaded /\ c.at = ctx.at
    BY <1>1, <2>1, AtEntries DEF TagKept, Context
  <2>3. TableFine(c)
    BY <1>1, <2>2, AtEntries DEF TableFine
  <2> QED BY <1>1, <1>4, <2>1, <2>2, <2>3 DEF StepOK
<1>6. Settle(r)
  BY <1>2, <1>3
<1> QED BY <1>1, <1>4, <1>5, <1>6, SettleSafe

LEMMA TracksSafe ==
  ASSUME OpenInv, ProcessTracks
  PROVE  OpenInv'
<1>1. /\ phase = "entries" /\ pending # <<>> /\ Head(pending).type = "tracks"
  BY DEF ProcessTracks, Current
<1>2. PICK b \in BOOLEAN : Processed([ctx EXCEPT !.tracks = b])
  BY DEF ProcessTracks
<1>3. PICK c : c = [ctx EXCEPT !.tracks = b]
  OBVIOUS
<1>4. /\ c \in Context /\ c.table = ctx.table /\ c.found = ctx.found
      /\ c.loaded = ctx.loaded /\ c.at = ctx.at
  BY <1>1, <1>3, AtEntries DEF Context
<1>5. TableFine(c)
  BY <1>1, <1>4, AtEntries DEF TableFine
<1>6. Processed(c) /\ StepOK(c)
  BY <1>1, <1>2, <1>3, <1>4, <1>5 DEF StepOK
<1> QED BY <1>1, <1>6, EntrySafe

LEMMA FluxSafe ==
  ASSUME OpenInv, SeeFlux
  PROVE  OpenInv'
<1>1. /\ phase = "entries" /\ pending # <<>> /\ Head(pending).type = "flux"
  BY DEF SeeFlux, Current
<1>2. PICK c : c = [ctx EXCEPT !.flux = TRUE]
  OBVIOUS
<1>3. /\ c \in Context /\ c.table = ctx.table /\ c.found = ctx.found
      /\ c.loaded = ctx.loaded /\ c.at = ctx.at
  BY <1>1, <1>2, AtEntries DEF Context
<1>4. TableFine(c)
  BY <1>1, <1>3, AtEntries DEF TableFine
<1>5. Processed(c) /\ StepOK(c)
  BY <1>1, <1>2, <1>3, <1>4 DEF StepOK, SeeFlux
<1> QED BY <1>1, <1>5, EntrySafe

LEMMA DdtV1Safe ==
  ASSUME OpenInv, ProcessDdtV1
  PROVE  OpenInv'
<1>1. /\ phase = "entries" /\ pending # <<>> /\ Head(pending).type = "ddt" /\ image.version = 1
  BY DEF ProcessDdtV1, Current
<1>2. PICK o \in Outcomes(Part("ddt")) : Settle(process_ddt_v1_user(o))
  BY DEF ProcessDdtV1
<1>3. PICK r : r = process_ddt_v1_user(o)
  OBVIOUS
<1>4. /\ o = "wrong" => HarmOf(Part("ddt")) = "altered"
      /\ o = "short" => HarmOf(Part("ddt")) = "cut"
      /\ Sound => o = "good"
  BY <1>1, AtEntries, OutcomesTell
<1>5. r.ctx = UserTableV1(o) /\ r.error = LoadError(o, FALSE)
  BY <1>3 DEF process_ddt_v1_user
<1>6. StepOK(r.ctx)
  <2>1. PICK c : c = UserTableV1(o)
    OBVIOUS
  <2>2. PICK t : t = CASE o \in {"good", "wrong"}                    -> o
                       [] o = "short" /\ image.packed = "none"      -> "freed"
                       [] OTHER                                     -> "none"
    OBVIOUS
  <2>3. /\ t \in {"none", "good", "wrong", "freed"}
        /\ t = "wrong" => HarmOf(Part("ddt")) = "altered"
        /\ t = "freed" => HarmOf(Part("ddt")) = "cut"
    BY <1>4, <2>2
  <2>4. PICK b \in BOOLEAN : b <=> o # "unknown"
    OBVIOUS
  <2>5. c = [ctx EXCEPT !.found = b, !.table = t]
    <3>1. b = (o # "unknown")
      BY <2>4
    <3> QED BY <2>1, <2>2, <3>1 DEF UserTableV1
  <2>6. /\ c \in Context /\ c.table = t /\ c.found = b
        /\ c.loaded = ctx.loaded /\ c.at = ctx.at
    BY <1>1, <2>3, <2>5, AtEntries DEF Context
  <2>7. TableFine(c)
    BY <1>1, <2>3, <2>6 DEF TableFine
  <2>8. Sound => c.found
    BY <1>4, <2>4, <2>6
  <2> QED BY <1>1, <1>5, <2>1, <2>6, <2>7, <2>8 DEF StepOK
<1>7. Sound => r.error = "OK"
  BY <1>4, <1>5 DEF LoadError
<1>8. Settle(r)
  BY <1>2, <1>3
<1> QED BY <1>1, <1>6, <1>7, <1>8, SettleSafe

(* Version 2, whichever table the entry leads to. *)
LEMMA UserTableSafe ==
  ASSUME OpenInv, Current("ddt"), image.version = 2, NEW o, NEW leads,
         Settle(process_ddt_v2_user(o, leads)), Sound => o = "good",
         leads = "good" \/ (leads = "first" /\ IndexHarm = "altered" /\ image.resumed)
  PROVE  OpenInv'
<1>1. phase = "entries" /\ pending # <<>> /\ Head(pending).type = "ddt"
  BY DEF Current
<1>2. PICK r : r = process_ddt_v2_user(o, leads)
  OBVIOUS
<1>3. r.ctx = UserTableV2(o, leads) /\ r.error = LoadError(o, TRUE)
  BY <1>2 DEF process_ddt_v2_user
<1>4. StepOK(r.ctx)
  <2>1. PICK c : c = UserTableV2(o, leads)
    OBVIOUS
  <2>2. ctx.table = "none" /\ ~ctx.found /\ ctx \in Context
    BY <1>1, AtEntries
  <2>3. CASE o = "good"
    <3>1. PICK b \in BOOLEAN : b <=> TRUE
      OBVIOUS
    <3>2. c = [ctx EXCEPT !.found = (ctx.found \/ TRUE), !.table = leads]
      BY <2>1, <2>3 DEF UserTableV2
    <3>3. /\ c \in Context /\ c.table = leads /\ c.found
          /\ c.loaded = ctx.loaded /\ c.at = ctx.at
      BY <2>2, <3>2 DEF Context
    <3>4. TableFine(c)
      BY <3>3 DEF TableFine
    <3> QED BY <1>1, <1>3, <2>1, <3>3, <3>4 DEF StepOK
  <2>4. CASE o # "good"
    <3>1. PICK b \in BOOLEAN : b = IF o = "unknown" THEN FALSE ELSE ctx.found \/ o = "good"
      BY <2>2 DEF Context
    <3>2. c = [ctx EXCEPT !.found = b, !.table = ctx.table]
      BY <2>1, <2>4, <3>1 DEF UserTableV2
    <3>3. /\ c \in Context /\ c.table = "none" /\ c.found = b
          /\ c.loaded = ctx.loaded /\ c.at = ctx.at
      BY <2>2, <3>2 DEF Context
    <3>4. ~b
      BY <2>2, <2>4, <3>1
    <3>5. TableFine(c)
      BY <3>3, <3>4 DEF TableFine
    <3> QED BY <1>1, <1>3, <2>1, <2>2, <2>4, <3>3, <3>5 DEF StepOK
  <2> QED BY <2>3, <2>4
<1>5. Sound => r.error = "OK"
  BY <1>3 DEF LoadError
<1>6. Settle(r)
  BY <1>2
<1> QED BY <1>1, <1>4, <1>5, <1>6, SettleSafe

LEMMA DdtV2Safe ==
  ASSUME OpenInv, ProcessDdtV2 \/ ProcessFirstDdt
  PROVE  OpenInv'
<1>1. Current("ddt") /\ phase = "entries" /\ pending # <<>>
  BY DEF ProcessDdtV2, ProcessFirstDdt, Current
<1>2. CASE ProcessDdtV2
  <2>1. PICK o \in Outcomes(Part("ddt")) : Settle(process_ddt_v2_user(o, "good"))
    BY <1>2 DEF ProcessDdtV2
  <2>2. image.version = 2 /\ (Sound => o = "good")
    BY <1>1, <1>2, AtEntries, OutcomesTell DEF ProcessDdtV2
  <2> QED BY <1>1, <2>1, <2>2, UserTableSafe
<1>3. CASE ProcessFirstDdt
  <2>1. PICK o : Settle(process_ddt_v2_user(o, "first"))
    BY <1>3 DEF ProcessFirstDdt
  <2>2. Head(pending).leads = "first"
    BY <1>3 DEF ProcessFirstDdt
  <2>3. /\ ~Sound /\ IndexHarm = "altered" /\ image.resumed /\ image.version = 2
    BY <1>1, <2>2, AtEntries
  <2> QED BY <1>1, <2>1, <2>3, UserTableSafe
<1> QED BY <1>2, <1>3

LEMMA CdTableSafe ==
  ASSUME OpenInv, ProcessCdTable
  PROVE  OpenInv'
<1>1. /\ phase = "entries" /\ pending # <<>> /\ Head(pending).type = "cd"
  BY DEF ProcessCdTable, Current
<1>2. PICK o \in Outcomes(Part("cd")) :
          Settle(IF image.version = 1 THEN process_ddt_v1_corrected(o) ELSE process_ddt_v2_cd(o))
  BY DEF ProcessCdTable
<1>3. PICK r : r = IF image.version = 1 THEN process_ddt_v1_corrected(o) ELSE process_ddt_v2_cd(o)
  OBVIOUS
<1>4. Sound => o = "good"
  BY <1>1, AtEntries, OutcomesTell
<1>5. CASE image.version = 1
  <2>1. r.ctx = CorrectedTableV1(o) /\ r.error = LoadError(o, FALSE)
    BY <1>3, <1>5 DEF process_ddt_v1_corrected
  <2>2. PICK c : c = CorrectedTableV1(o)
    OBVIOUS
  <2>3. /\ c \in Context /\ c.table = ctx.table /\ c.found
        /\ c.loaded = ctx.loaded /\ c.at = ctx.at
    <3>1. PICK b \in BOOLEAN : b <=> o \in {"good", "wrong"}
      OBVIOUS
    <3>2. c = [ctx EXCEPT !.found = TRUE, !.cd = b]
      <4>1. b = (o \in {"good", "wrong"})
        BY <3>1
      <4> QED BY <2>2, <4>1 DEF CorrectedTableV1
    <3> QED BY <1>1, <3>2, AtEntries DEF Context
  <2>4. TableFine(c)
    BY <1>1, <1>5, <2>3, AtEntries DEF TableFine
  <2>5. StepOK(r.ctx)
    BY <1>1, <1>5, <2>1, <2>2, <2>3, <2>4 DEF StepOK
  <2>6. Sound => r.error = "OK"
    BY <1>4, <2>1 DEF LoadError
  <2> QED BY <1>1, <1>2, <1>3, <2>5, <2>6, SettleSafe
<1>6. CASE image.version # 1
  <2>1. r.ctx = CdTableV2(o) /\ r.error = LoadError(o, TRUE)
    BY <1>3, <1>6 DEF process_ddt_v2_cd
  <2>2. PICK c : c = CdTableV2(o)
    OBVIOUS
  <2>3. /\ c \in Context /\ c.table = ctx.table /\ c.found = ctx.found
        /\ c.loaded = ctx.loaded /\ c.at = ctx.at
    BY <1>1, <2>2, AtEntries DEF CdTableV2, Context
  <2>4. TableFine(c)
    BY <1>1, <2>3, AtEntries DEF TableFine
  <2>5. StepOK(r.ctx)
    BY <1>1, <2>1, <2>2, <2>3, <2>4 DEF StepOK
  <2>6. Sound => r.error = "OK"
    BY <1>4, <2>1 DEF LoadError
  <2> QED BY <1>1, <1>2, <1>3, <2>5, <2>6, SettleSafe
<1> QED BY <1>5, <1>6

(***************************************************************************)
(* The beginning and the end of aaruf_open, and aaruf_close.               *)
(***************************************************************************)
LEMMA HeaderSafe ==
  ASSUME OpenInv, RefuseHeader \/ OutOfMemory \/ RefuseIndex
  PROVE  OpenInv'
<1>1. phase = "header" /\ ImageOK
  BY DEF RefuseHeader, OutOfMemory, RefuseIndex, OpenInv
<1>2. CASE RefuseHeader
  <2>1. Refuse(HeaderError) /\ HeaderError # "OK"
    BY <1>2 DEF RefuseHeader
  <2>2. Sound => resuming /\ image.version = 1
    <3>1. HAVE Sound
    <3>2. HeaderHarm = "none" /\ image.needs = "nothing"
      BY <3>1, SoundHasNoHarm DEF HeaderHarm
    <3>3. Identified
      BY <3>2 DEF Identified
    <3> QED BY <2>1, <3>2, <3>3 DEF HeaderError
  <2> QED BY <1>1, <2>1, <2>2, RefuseSafe
<1>3. CASE OutOfMemory
  <2>1. Refuse("NOT_ENOUGH_MEMORY") /\ ~Sound
    BY <1>3 DEF OutOfMemory, Sound
  <2> QED BY <1>1, <2>1, RefuseSafe
<1>4. CASE RefuseIndex
  <2>1. Refuse("CANNOT_READ_INDEX") /\ ~IndexReadable
    BY <1>4 DEF RefuseIndex
  <2>2. ~Sound
    <3>1. SUFFICES ASSUME Sound PROVE FALSE
      OBVIOUS
    <3>2. HeaderHarm = "none" /\ IndexHarm = "none"
      BY <3>1, SoundHasNoHarm DEF HeaderHarm, IndexHarm
    <3>3. process_index = {WholeIndex}
      BY <1>1, <3>2
         DEF process_index, process_index_v1, process_index_v2, process_index_v3, EntriesRead, ImageOK
    <3>4. WholeIndex \in process_index
      BY <3>3
    <3> QED BY <2>1, <3>2, <3>4 DEF IndexReadable
  <2> QED BY <1>1, <2>1, <2>2, RefuseSafe
<1> QED BY <1>2, <1>3, <1>4

LEMMA NoTableSafe ==
  ASSUME OpenInv, RefuseNoTable
  PROVE  OpenInv'
<1>1. phase = "entries" /\ pending = <<>> /\ ~ctx.found /\ Refuse("CANNOT_READ_INDEX")
  BY DEF RefuseNoTable, NoTableNorFlux
<1>2. ~HasTable(pending)
  BY <1>1 DEF HasTable
<1>3. ~Sound
  BY <1>1, <1>2 DEF OpenInv, PendingOK
<1> QED BY <1>1, <1>3, RefuseSafe

LEMMA FinishSafe ==
  ASSUME OpenInv, FinishOpen
  PROVE  OpenInv'
<1>1. /\ phase = "entries" /\ phase' = "open" /\ image' = image /\ resuming' = resuming
      /\ pending' = pending /\ got' = got
      /\ ctx' = [ctx EXCEPT !.noUserDdt = ~ctx.found, !.rewinded = resuming, !.isWriting = resuming]
  BY DEF FinishOpen
<1>2. got' = NoLookup /\ ImageOK /\ ctx \in Context /\ TableFine(ctx) /\ CacheOK /\ resuming \in BOOLEAN
  BY <1>1 DEF OpenInv, TableOK
<1>3. LookupsTrueOrTold'
  BY <1>2 DEF LookupsTrueOrTold
<1>4. PICK b \in BOOLEAN : b = ~ctx.found
  BY <1>2 DEF Context
<1>5. PICK c : c = [ctx EXCEPT !.noUserDdt = b, !.rewinded = resuming, !.isWriting = resuming]
  OBVIOUS
<1>6. ctx' = c
  BY <1>1, <1>4, <1>5
<1>7. /\ c \in Context /\ c.table = ctx.table /\ c.found = ctx.found
      /\ c.loaded = ctx.loaded /\ c.at = ctx.at /\ c.noUserDdt = b
  BY <1>2, <1>5 DEF Context
<1>8. TableFine(c)
  BY <1>2, <1>7 DEF TableFine
<1>9. TableOK' /\ CacheOK' /\ ctx' \in Context
  BY <1>1, <1>2, <1>6, <1>7, <1>8, ImageStays DEF TableOK, TableFine, CacheOK
<1>10. ctx.noUserDdt' <=> ~ctx.found'
  BY <1>4, <1>6, <1>7
<1> QED BY <1>1, <1>2, <1>3, <1>9, <1>10, ImageStays DEF OpenInv

LEMMA OpenFileSafe ==
  ASSUME OpenInv, NEW resume \in BOOLEAN, OpenFile(resume)
  PROVE  OpenInv'
<1>1. /\ phase \in {"closed", "refused"} /\ resuming' = resume /\ phase' = "header"
      /\ image' = image /\ pending' = pending /\ ctx' = ctx /\ got' = got
  BY DEF OpenFile
<1>2. got' = NoLookup /\ ImageOK /\ ctx = NoContext /\ ctx \in Context /\ TableOK /\ CacheOK
  BY <1>1 DEF OpenInv
<1>3. LookupsTrueOrTold'
  BY <1>2 DEF LookupsTrueOrTold
<1>4. TableOK' /\ CacheOK' /\ ctx' \in Context
  BY <1>1, <1>2, ImageStays DEF TableOK, TableFine, CacheOK
<1> QED BY <1>1, <1>2, <1>3, <1>4, ImageStays DEF OpenInv

LEMMA CloseSafe ==
  ASSUME OpenInv, CloseImage
  PROVE  OpenInv'
<1>1. /\ phase' = "closed" /\ image' = image /\ resuming' = resuming /\ pending' = pending
      /\ ctx' = NoContext /\ got' = NoLookup
  BY DEF CloseImage
<1>2. ImageOK /\ resuming \in BOOLEAN
  BY DEF OpenInv
<1>3. LookupsTrueOrTold'
  BY <1>1 DEF LookupsTrueOrTold
<1>4. TableOK' /\ CacheOK' /\ ctx' \in Context
  BY <1>1, <1>2, NoContextOK, ImageStays DEF TableOK, TableFine, CacheOK
<1> QED BY <1>1, <1>2, <1>3, <1>4, ImageStays DEF OpenInv

(***************************************************************************)
(* The invariant.                                                          *)
(***************************************************************************)
LEMMA DamagedOK ==
  ASSUME NEW im \in OldImages \cup NewImages, image \in Damaged(im)
  PROVE  ImageOK
<1>1. PICK parts \in SUBSET Parts : image \in {[im EXCEPT !.harm = h] : h \in [parts -> Harms]}
  BY DEF Damaged
<1>2. PICK h \in [parts -> Harms] : image = [im EXCEPT !.harm = h]
  BY <1>1
<1>3. /\ im.version \in 1..2 /\ im.index \in 1..3 /\ im.levels \in 1..2
      /\ im.version = 1 => im.levels = 1
      /\ im.levels = 2 => ~im.resumed
      /\ im.version = 1 => ~im.resumed
      /\ im.packed \in {"none", "lzma", "zstd"} /\ im.flux \in BOOLEAN
      /\ im.made \subseteq Position
  <2>1. CASE im \in OldImages
    <3>1. /\ im.version = 1 /\ im.index = 1 /\ im.levels = 1
          /\ im.packed \in {"none", "lzma", "zstd"} /\ im.made = Position
      BY <2>1 DEF OldImages
    <3>2. ~im.resumed /\ im.flux \in BOOLEAN
      BY <2>1 DEF OldImages
    <3> QED BY <3>1, <3>2
  <2>2. CASE im \in NewImages
    BY <2>2 DEF NewImages
  <2> QED BY <2>1, <2>2
<1>4. /\ image.version = im.version /\ image.index = im.index /\ image.levels = im.levels
      /\ image.resumed = im.resumed /\ image.packed = im.packed /\ image.flux = im.flux
      /\ image.made = im.made /\ image.harm = h
  <2>1. CASE im \in OldImages
    BY <1>2, <2>1 DEF OldImages
  <2>2. CASE im \in NewImages
    BY <1>2, <2>2 DEF NewImages
  <2> QED BY <2>1, <2>2
<1>5. \A part \in DOMAIN image.harm : image.harm[part] \in Harms
  BY <1>2, <1>4
<1> QED BY <1>3, <1>4, <1>5 DEF ImageOK

LEMMA InitOK ==
  ASSUME Init
  PROVE  OpenInv
<1>1. ImageOK
  BY DamagedOK DEF Init
<1>2. /\ phase = "closed" /\ resuming = FALSE /\ ctx = NoContext /\ got = NoLookup
  BY DEF Init
<1>3. LookupsTrueOrTold
  BY <1>2 DEF LookupsTrueOrTold
<1>4. TableOK /\ CacheOK /\ ctx \in Context
  BY <1>1, <1>2, NoContextOK DEF TableOK, CacheOK
<1> QED BY <1>1, <1>2, <1>3, <1>4 DEF OpenInv

LEMMA StutterOK ==
  ASSUME OpenInv, UNCHANGED vars
  PROVE  OpenInv'
<1>1. /\ image' = image /\ phase' = phase /\ resuming' = resuming
      /\ pending' = pending /\ ctx' = ctx /\ got' = got
  BY DEF vars
<1>2. LookupsTrueOrTold'
  BY <1>1 DEF OpenInv, LookupsTrueOrTold, EntryOf, NeverMade, aaruf_verify_image, verify_index,
              verify_index_v1, verify_index_v2, verify_index_v3, IndexHarm, HarmOf, Part
<1>3. TableOK' /\ CacheOK'
  BY <1>1, ImageStays DEF OpenInv, TableOK, TableFine, CacheOK
<1>4. PendingOK' <=> PendingOK
  BY <1>1, ImageStays DEF PendingOK, IndexOK, OneTable, Astray, HasTable
<1> QED BY <1>1, <1>2, <1>3, <1>4, ImageStays DEF OpenInv

LEMMA NextOK ==
  ASSUME OpenInv, [Next]_vars
  PROVE  OpenInv'
<1>1. CASE \E resume \in BOOLEAN : OpenFile(resume)
  BY <1>1, OpenFileSafe
<1>2. CASE RefuseHeader \/ OutOfMemory \/ RefuseIndex
  BY <1>2, HeaderSafe
<1>3. CASE ReadIndex
  BY <1>3, ReadIndexSafe
<1>4. CASE SkipEntry
  BY <1>4, SkipSafe
<1>5. CASE ProcessDataBlock
  BY <1>5, DataBlockSafe
<1>6. CASE ProcessTracks
  BY <1>6, TracksSafe
<1>7. CASE SeeFlux
  BY <1>7, FluxSafe
<1>8. CASE ProcessDdtV1
  BY <1>8, DdtV1Safe
<1>9. CASE ProcessDdtV2 \/ ProcessFirstDdt
  BY <1>9, DdtV2Safe
<1>10. CASE ProcessCdTable
  BY <1>10, CdTableSafe
<1>11. CASE RefuseNoTable
  BY <1>11, NoTableSafe
<1>12. CASE FinishOpen
  BY <1>12, FinishSafe
<1>13. CASE \E i \in Slot :
               LookupNothing(i) \/ LookupOneLevel(i) \/ LookupCached(i) \/ LookupLoading(i)
  BY <1>13, LookupSafe
<1>14. CASE CloseImage
  BY <1>14, CloseSafe
<1>15. CASE UNCHANGED vars
  BY <1>15, StutterOK
<1> QED BY <1>1, <1>2, <1>3, <1>4, <1>5, <1>6, <1>7, <1>8, <1>9, <1>10, <1>11, <1>12, <1>13,
           <1>14, <1>15 DEF Next, OpenStep

LEMMA OpenInvariant == Spec => []OpenInv
<1>1. Init => OpenInv
  BY InitOK
<1>2. OpenInv /\ [Next]_vars => OpenInv'
  BY NextOK
<1> QED BY <1>1, <1>2, PTL DEF Spec

(* A lookup in an opened image of any version, whatever was looked up      *)
(* before and however many structures of it are harmed, is the entry of    *)
(* its sector, an error, or one aaruf_verify_image tells of; the tables    *)
(* that were never made excepted.                                          *)
THEOREM LookupsAreTrueOrTold == Spec => []LookupsTrueOrTold
<1>1. OpenInv => LookupsTrueOrTold
  BY DEF OpenInv
<1> QED BY <1>1, OpenInvariant, PTL

(* aaruf_open refuses an image only for harm, memory, a feature it needs   *)
(* or resume_mode with version 1; and of an image of version 2 that it     *)
(* opens, the table is in memory unless noUserDdt says it is not.          *)
THEOREM OpensAllItCan == Spec => []OpensWhatItCan
<1>1. OpenInv => OpensWhatItCan
  <2>1. HAVE OpenInv
  <2>2. phase = "refused" => ~Sound \/ (resuming /\ image.version = 1)
    BY <2>1 DEF OpenInv
  <2>3. phase = "open" /\ image.version = 2 => (ctx.noUserDdt <=> ctx.table = "none")
    BY <2>1 DEF OpenInv, TableOK, TableFine
  <2> QED BY <2>2, <2>3 DEF OpensWhatItCan
<1> QED BY <1>1, OpenInvariant, PTL
=============================================================================
