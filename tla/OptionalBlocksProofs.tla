------------------------- MODULE OptionalBlocksProofs -------------------------
(***************************************************************************)
(* Proofs about the blocks of an image that are not its sectors, for every *)
(* set of values, of captures and of groups of slots, every number of      *)
(* edits, sessions and failures, and with the commands of ImageTools in    *)
(* between.                                                                *)
(***************************************************************************)
EXTENDS ImageTools, FiniteSetTheorems, WellFoundedInduction, TLAPS

(***************************************************************************)
(* Induction, on a set of natural numbers.                                 *)
(***************************************************************************)

(* By the sets of what is not greater, ordered by inclusion. *)
LEMMA LeastElement ==
    ASSUME NEW T, T \subseteq Nat, T # {}
    PROVE  \E x \in T : \A y \in T : x <= y
<1> DEFINE P == {0..x : x \in T}
           R == StrictSubsetOrdering(Nat)
           F == FiniteSubsetsOf(Nat)
<1>1. P \subseteq F
  <2>1. \A x \in T : 0..x \in SUBSET Nat /\ IsFiniteSet(0..x)
    BY FS_Interval
  <2>2. QED
    BY <2>1 DEF FiniteSubsetsOf
<1>2. P # {}
  OBVIOUS
<1>3. IsWellFoundedOn(R, F)
  BY FS_StrictSubsetOrderingWellFounded
<1>4. PICK q \in P : \A r \in P : <<r, q>> \notin R
  <2> HIDE DEF P, R, F
  <2>1. QED
    BY <1>1, <1>2, <1>3, WFMin
<1>5. PICK x \in T : q = 0..x
  BY <1>4
<1>6. ASSUME NEW y \in T, y < x
      PROVE  FALSE
  <2>1. 0..y \in P /\ 0..y \in SUBSET Nat /\ 0..x \in SUBSET Nat
    OBVIOUS
  <2>2. 0..y \subseteq 0..x /\ x \in 0..x /\ x \notin 0..y
    BY <1>6
  <2>3. <<0..y, 0..x>> \in R
    BY <2>1, <2>2 DEF StrictSubsetOrdering
  <2>4. QED
    BY <1>4, <1>5, <2>1, <2>3
<1>7. QED
  BY <1>6

LEMMA InductionOnNat ==
    ASSUME NEW S, 0 \in S, \A n \in Nat : n \in S => n + 1 \in S
    PROVE  Nat \subseteq S
<1>1. SUFFICES ASSUME Nat \ S # {}
               PROVE  FALSE
  OBVIOUS
<1>2. PICK x \in Nat \ S : \A y \in Nat \ S : x <= y
  BY <1>1, LeastElement
<1>3. x - 1 \in Nat /\ x - 1 \notin Nat \ S
  BY <1>2
<1>4. QED
  BY <1>2, <1>3

(* The same up to a bound. *)
LEMMA InductionUpTo ==
    ASSUME NEW m \in Nat, NEW S, 0 \in S, \A n \in 0..(m - 1) : n \in S => n + 1 \in S
    PROVE  0..m \subseteq S
<1> DEFINE T == S \cup {n \in Nat : n > m}
<1>1. 0 \in T /\ \A n \in Nat : n \in T => n + 1 \in T
  OBVIOUS
<1>2. Nat \subseteq T
  BY <1>1, InductionOnNat
<1>3. QED
  BY <1>2

(***************************************************************************)
(* OfKinds.                                                                *)
(***************************************************************************)

(* g is the selection of each prefix of ix, up to n entries. *)
SelectedTo(ix, kinds, g, n) ==
    g = [m \in 0..n |-> IF m = 0 THEN <<>>
                        ELSE IF ix[m].kind \in kinds THEN Append(g[m - 1], ix[m])
                        ELSE g[m - 1]]

LEMMA SelectedExists ==
    ASSUME NEW ix, Len(ix) \in Nat, NEW kinds
    PROVE  \E g : SelectedTo(ix, kinds, g, Len(ix))
<1> DEFINE S == {n \in 0..Len(ix) : \E g : SelectedTo(ix, kinds, g, n)}
<1>1. 0 \in S
  <2>1. SelectedTo(ix, kinds, [m \in 0..0 |-> <<>>], 0)
    BY DEF SelectedTo
  <2>2. QED
    BY <2>1
<1>2. ASSUME NEW n \in 0..(Len(ix) - 1), n \in S
      PROVE  n + 1 \in S
  <2>1. PICK g : SelectedTo(ix, kinds, g, n)
    BY <1>2
  <2> DEFINE h == [m \in 0..(n + 1) |->
                      IF m <= n THEN g[m]
                      ELSE IF ix[m].kind \in kinds THEN Append(g[m - 1], ix[m])
                      ELSE g[m - 1]]
  <2>2. SelectedTo(ix, kinds, h, n + 1)
    <3>1. \A m \in 0..n : g[m] = IF m = 0 THEN <<>>
                                 ELSE IF ix[m].kind \in kinds THEN Append(g[m - 1], ix[m])
                                 ELSE g[m - 1]
      BY <2>1 DEF SelectedTo
    <3>2. \A m \in 0..(n + 1) :
              h[m] = IF m = 0 THEN <<>>
                     ELSE IF ix[m].kind \in kinds THEN Append(h[m - 1], ix[m])
                     ELSE h[m - 1]
      BY <3>1
    <3>3. QED
      BY <3>2 DEF SelectedTo
  <2>3. QED
    BY <2>2
<1>3. 0..Len(ix) \subseteq S
  <2> HIDE DEF S
  <2>1. QED
    BY <1>1, <1>2, InductionUpTo
<1>4. QED
  BY <1>3

(* f tells where in ix each entry of the selection r comes from: in the    *)
(* order of ix, and all that are of one of the kinds.                      *)
Selects(ix, kinds, r, f, n) ==
    /\ f \in [1..Len(r) -> 1..n]
    /\ \A j \in 1..Len(r) : r[j] = ix[f[j]] /\ ix[f[j]].kind \in kinds
    /\ \A i, j \in 1..Len(r) : i < j => f[i] < f[j]
    /\ \A i \in 1..n : ix[i].kind \in kinds => \E j \in 1..Len(r) : f[j] = i

LEMMA SelectedSelects ==
    ASSUME NEW T, NEW ix \in Seq(T), NEW kinds, NEW g, SelectedTo(ix, kinds, g, Len(ix))
    PROVE  g[Len(ix)] \in Seq(T) /\ \E f : Selects(ix, kinds, g[Len(ix)], f, Len(ix))
<1> DEFINE S == {n \in 0..Len(ix) :
                    g[n] \in Seq(T) /\ \E f : Selects(ix, kinds, g[n], f, n)}
<1>1. \A m \in 0..Len(ix) : g[m] = IF m = 0 THEN <<>>
                                   ELSE IF ix[m].kind \in kinds THEN Append(g[m - 1], ix[m])
                                   ELSE g[m - 1]
  BY DEF SelectedTo
<1>2. 0 \in S
  <2>0. 0 \in 0..Len(ix)
    OBVIOUS
  <2>1. g[0] = <<>>
    <3>1. g[0] = IF 0 = 0 THEN <<>>
                 ELSE IF ix[0].kind \in kinds THEN Append(g[0 - 1], ix[0])
                 ELSE g[0 - 1]
      BY <1>1, <2>0, ZenonT(20)
    <3>2. QED
      BY <3>1
  <2>2. <<>> \in Seq(T) /\ Len(<<>>) = 0
    OBVIOUS
  <2>3. Selects(ix, kinds, <<>>, [j \in 1..0 |-> j], 0)
    BY <2>2 DEF Selects
  <2>4. g[0] \in Seq(T) /\ Selects(ix, kinds, g[0], [j \in 1..0 |-> j], 0)
    BY <2>1, <2>2, <2>3
  <2>5. \E f : Selects(ix, kinds, g[0], f, 0)
    BY <2>4
  <2>6. 0 \in 0..Len(ix)
    OBVIOUS
  <2>7. QED
    BY <2>4, <2>5, <2>6
<1>3. ASSUME NEW n \in 0..(Len(ix) - 1), n \in S
      PROVE  n + 1 \in S
  <2> DEFINE r == g[n]
  <2>1. PICK f : Selects(ix, kinds, r, f, n)
    BY <1>3
  <2>2. r \in Seq(T) /\ ix[n + 1] \in T
    BY <1>3
  <2>3. CASE ix[n + 1].kind \in kinds
    <3> DEFINE h == [j \in 1..(Len(r) + 1) |-> IF j <= Len(r) THEN f[j] ELSE n + 1]
    <3>1. g[n + 1] = Append(r, ix[n + 1])
      <4>1. n + 1 \in 0..Len(ix) /\ n + 1 # 0 /\ (n + 1) - 1 = n
        BY <1>3
      <4>2. QED
        BY <1>1, <2>3, <4>1
    <3>2. Append(r, ix[n + 1]) \in Seq(T) /\ Len(Append(r, ix[n + 1])) = Len(r) + 1
      BY <2>2
    <3>3. /\ \A j \in 1..Len(r) : Append(r, ix[n + 1])[j] = r[j]
          /\ Append(r, ix[n + 1])[Len(r) + 1] = ix[n + 1]
      BY <2>2
    <3>4. Selects(ix, kinds, Append(r, ix[n + 1]), h, n + 1)
      <4> HIDE DEF r
      <4>1. Len(r) \in Nat
        BY <2>2
      <4>2. h \in [1..(Len(r) + 1) -> 1..(n + 1)]
        BY <2>1, <4>1 DEF Selects
      <4>3. \A j \in 1..(Len(r) + 1) :
               Append(r, ix[n + 1])[j] = ix[h[j]] /\ ix[h[j]].kind \in kinds
        BY <2>1, <2>3, <3>3, <4>1 DEF Selects
      <4>4. \A i, j \in 1..(Len(r) + 1) : i < j => h[i] < h[j]
        BY <2>1, <4>1 DEF Selects
      <4>5. ASSUME NEW i \in 1..(n + 1), ix[i].kind \in kinds
            PROVE  \E j \in 1..(Len(r) + 1) : h[j] = i
        <5>1. CASE i = n + 1
          BY <5>1, <4>1
        <5>2. CASE i \in 1..n
          BY <5>2, <4>1, <4>5, <2>1 DEF Selects
        <5>3. QED
          BY <5>1, <5>2
      <4>6. QED
        BY <3>2, <4>2, <4>3, <4>4, <4>5 DEF Selects
    <3>5. n + 1 \in 0..Len(ix)
      BY <1>3
    <3>6. QED
      BY <3>1, <3>2, <3>4, <3>5
  <2>4. CASE ix[n + 1].kind \notin kinds
    <3>1. g[n + 1] = r
      BY <1>1, <2>4
    <3>2. Selects(ix, kinds, r, f, n + 1)
      BY <2>1, <2>2, <2>4 DEF Selects
    <3>3. QED
      BY <2>2, <3>1, <3>2
  <2>5. QED
    BY <2>3, <2>4
<1>4. 0..Len(ix) \subseteq S
  <2> HIDE DEF S
  <2>1. QED
    BY <1>2, <1>3, InductionUpTo
<1>5. QED
  BY <1>4

LEMMA OfKindsSelects ==
    ASSUME NEW T, NEW ix \in Seq(T), NEW kinds
    PROVE  /\ OfKinds(ix, kinds) \in Seq(T)
           /\ \E f : Selects(ix, kinds, OfKinds(ix, kinds), f, Len(ix))
<1> DEFINE g == CHOOSE g : SelectedTo(ix, kinds, g, Len(ix))
<1>1. OfKinds(ix, kinds) = g[Len(ix)]
  BY Zenon DEF OfKinds, SelectedTo
<1>2. SelectedTo(ix, kinds, g, Len(ix))
  BY SelectedExists
<1>3. QED
  BY <1>1, <1>2, SelectedSelects

(***************************************************************************)
(* Kinds, flags and slots.                                                 *)
(***************************************************************************)
PlainKinds == Kinds \ {"flux", "metadata"}

LEMMA OrderIs ==
    /\ Len(Order) = 21 /\ DOMAIN Order = 1..21
    /\ Order[1] = "tracks" /\ Order[2] = "flux" /\ Order[3] = "subchannel"
    /\ Order[4] = "dvd_id" /\ Order[5] = "dvd_ied" /\ Order[6] = "dvd_cpr_mai"
    /\ Order[7] = "dvd_edc" /\ Order[8] = "bd_edc" /\ Order[9] = "title_key"
    /\ Order[10] = "media_tag_a" /\ Order[11] = "media_tag_b"
    /\ Order[12] = "untyped_tag" /\ Order[13] = "minidisc_tag"
    /\ Order[14] = "tape_file" /\ Order[15] = "tape_partition"
    /\ Order[16] = "geometry" /\ Order[17] = "metadata" /\ Order[18] = "dumphw"
    /\ Order[19] = "cicm" /\ Order[20] = "json" /\ Order[21] = "dpm"
BY DEF Order

(* The writers by name. *)
Names ==
    {"tracks", "flux", "subchannel", "dvd_id", "dvd_ied", "dvd_cpr_mai", "dvd_edc",
     "bd_edc", "title_key", "media_tag_a", "media_tag_b", "untyped_tag",
     "minidisc_tag", "tape_file", "tape_partition", "geometry", "metadata",
     "dumphw", "cicm", "json", "dpm"}

LEMMA WritersAre == Writers = Names
<1>1. Writers \subseteq Names
  BY OrderIs DEF Writers, Names
<1>2. \A w \in Names : \E i \in 1..21 : Order[i] = w
  <2>1. \A i \in 1..21 : \E j \in 1..21 : Order[j] = Order[i]
    OBVIOUS
  <2>2. QED
    BY OrderIs, <2>1 DEF Names
<1>3. Names \subseteq Writers
  BY <1>2, OrderIs DEF Writers
<1>4. QED
  BY <1>1, <1>3

LEMMA KindIs ==
    \A w \in Writers : KindOf(w) = IF w \in {"untyped_tag", "minidisc_tag"}
                                   THEN "no_data_type" ELSE w
BY WritersAre DEF Names, KindOf, Tags, TypedTags,
   aaruf_get_datatype_for_media_tag_type

LEMMA KindsAre ==
    Kinds = (Names \ {"untyped_tag", "minidisc_tag"}) \cup {"no_data_type"}
<1>1. Kinds = {KindOf(w) : w \in Names}
  BY WritersAre DEF Kinds
<1>2. \A w \in Names : KindOf(w) = IF w \in {"untyped_tag", "minidisc_tag"}
                                   THEN "no_data_type" ELSE w
  BY WritersAre, KindIs
<1>3. "minidisc_tag" \in Names
  BY DEF Names
<1>4. ASSUME NEW k \in (Names \ {"untyped_tag", "minidisc_tag"}) \cup {"no_data_type"}
      PROVE  k \in Kinds
  <2>1. CASE k = "no_data_type"
    BY <1>1, <1>2, <1>3, <2>1
  <2>2. CASE k # "no_data_type"
    BY <1>1, <1>2, <1>4, <2>2
  <2>3. QED
    BY <2>1, <2>2
<1>5. QED
  BY <1>1, <1>2, <1>4

(* Of no kind are both a block that a writer writes and another block. *)
LEMMA OtherKinds ==
    /\ Kinds \cap {"ddt", "ddt_prefix", "flux_payload", "index", "torn"} = {}
    /\ "flux" \in Kinds /\ "metadata" \in Kinds /\ "geometry" \in Kinds /\ "dpm" \in Kinds
    /\ TypedTags \subseteq Kinds
BY KindsAre DEF Names, TypedTags

LEMMA FlagsAre ==
    /\ Flags = {"tracks", "flux", "subchannel", "dvd_long", "bd_edc", "title_key",
                "media_tags", "tape_file", "tape_partition", "geometry", "metadata",
                "dumphw", "cicm", "json", "dpm"}
<1>1. Flags = {FlagOf(w) : w \in Names}
  BY WritersAre DEF Flags
<1>2. \A w \in Names :
        FlagOf(w) = IF w \in {"dvd_id", "dvd_ied", "dvd_cpr_mai", "dvd_edc"} THEN "dvd_long"
                    ELSE IF w \in {"media_tag_a", "media_tag_b", "untyped_tag", "minidisc_tag"}
                    THEN "media_tags" ELSE w
  BY DEF Names, FlagOf, DvdKinds, Tags, TypedTags
<1>3. QED
  BY <1>1, <1>2 DEF Names

(* A writer other than those of flux and metadata writes one slot. *)
LEMMA SlotOfIsSlot ==
    \A w \in Writers \ {"flux", "metadata"} : SlotOf(w) \in Slots
BY WritersAre DEF Names, SlotOf, Slots, DvdSlots, Tags, TypedTags

(***************************************************************************)
(* What is in the file.                                                    *)
(***************************************************************************)
Held == Values \cup {None}
Entry == [kind : BlockKinds \ {"index", "torn"}, at : Nat]
Capture == [key : Keys, value : Values]
FluxEntry == [key : Keys, at : Nat]

PlainBlock == [kind : PlainKinds, value : Values, count : Nat]
MetadataBlock == [kind : {"metadata"}, value : [Fields -> Held], count : Nat]
TableBlock == [kind : TableKinds, value : {None, "alpha20"}, count : Nat]
FluxBlock == [kind : {"flux"}, value : Seq(FluxEntry), count : Nat]
PayloadBlock == [kind : {"flux_payload"}, value : Capture, count : Nat]
IndexBlock == [kind : {"index"}, value : Seq(Entry), count : Nat]

Cell ==
    PlainBlock \cup MetadataBlock \cup TableBlock \cup FluxBlock \cup PayloadBlock
        \cup IndexBlock \cup {Torn}

LEMMA CellKinds ==
    \A b \in Cell :
        /\ b.kind \in BlockKinds
        /\ b.kind \in PlainKinds => b \in PlainBlock
        /\ b.kind = "metadata" => b \in MetadataBlock
        /\ b.kind = "flux" => b \in FluxBlock
        /\ b.kind = "flux_payload" => b \in PayloadBlock
        /\ b.kind = "index" => b \in IndexBlock
        /\ b.kind \in TableKinds => b \in TableBlock
<1>1. \A b \in PlainBlock : b.kind \in PlainKinds
  BY DEF PlainBlock
<1>2. \A b \in MetadataBlock : b.kind = "metadata"
  BY DEF MetadataBlock
<1>3. \A b \in TableBlock : b.kind \in TableKinds
  BY DEF TableBlock
<1>4. \A b \in FluxBlock : b.kind = "flux"
  BY DEF FluxBlock
<1>5. \A b \in PayloadBlock : b.kind = "flux_payload"
  BY DEF PayloadBlock
<1>6. \A b \in IndexBlock : b.kind = "index"
  BY DEF IndexBlock
<1>7. Torn.kind = "torn"
  BY DEF Torn
<1>8. QED
  BY <1>1, <1>2, <1>3, <1>4, <1>5, <1>6, <1>7, OtherKinds
     DEF Cell, PlainKinds, TableKinds, BlockKinds

(***************************************************************************)
(* What a writer writes.                                                   *)
(***************************************************************************)
LEMMA WriterIs ==
    \A k \in Writers :
        Writer(k) = IF k = "metadata" THEN write_metadata_block
                    ELSE IF k = "flux" THEN Block(k, flux.captures # <<>>, None)
                    ELSE IF k \in DvdKinds THEN DvdBlock(k)
                    ELSE IF k \in {"tape_file", "tape_partition"} THEN TapeBlock(k)
                    ELSE IF k = "dpm" THEN write_dpm_block
                    ELSE Plain(k)
<1>1. SUFFICES ASSUME NEW k \in Names
               PROVE  Writer(k) = IF k = "metadata" THEN write_metadata_block
                    ELSE IF k = "flux" THEN Block(k, flux.captures # <<>>, None)
                    ELSE IF k \in DvdKinds THEN DvdBlock(k)
                    ELSE IF k \in {"tape_file", "tape_partition"} THEN TapeBlock(k)
                    ELSE IF k = "dpm" THEN write_dpm_block
                    ELSE Plain(k)
  BY WritersAre
<1>2. QED
  BY <1>1 DEF Names, Writer, DvdKinds, Tags, TypedTags, write_tracks_block,
     write_sector_subchannel, write_dvd_sector_id, write_dvd_sector_ied,
     write_dvd_sector_cpr_mai, write_dvd_sector_edc, write_bd_sector_edc_block,
     write_dvd_title_key_decrypted_block, write_media_tags, write_tape_file_block,
     write_tape_partition_block, write_geometry_block, write_dumphw_block,
     write_cicm_block, write_aaru_json_block

LEMMA WriterBlock ==
    ASSUME mem \in [Slots -> Held], NEW k \in Writers, k # "flux", Ready(k),
           k = "dpm" => mem["dpm"] # None
    PROVE  /\ Writer(k).block \in PlainBlock \cup MetadataBlock
           /\ Writer(k).block.kind = KindOf(k)
<1>1. KindOf(k) \in Kinds
  BY DEF Kinds
<1>2. CASE k = "metadata"
  <2>1. Writer(k).block =
            [kind |-> KindOf(k), value |-> [f \in Fields |-> mem[f]], count |-> 1]
    BY <1>2, WriterIs DEF write_metadata_block, Block
  <2>2. KindOf(k) = "metadata"
    BY <1>2, KindIs
  <2>3. Fields \subseteq Slots
    BY DEF Slots
  <2>4. [f \in Fields |-> mem[f]] \in [Fields -> Held]
    BY <2>3
  <2>5. QED
    BY <2>1, <2>2, <2>4 DEF MetadataBlock
<1>3. CASE k # "metadata"
  <2>1. SlotOf(k) \in Slots
    BY <1>3, SlotOfIsSlot
  <2>2. KindOf(k) \in PlainKinds
    BY <1>1, <1>3, KindIs DEF PlainKinds
  <2>3. Writer(k).ready
    BY DEF Ready
  <2>4. \E n \in Nat : Writer(k).block = [kind |-> KindOf(k), value |-> mem[SlotOf(k)], count |-> n]
    <3>1. CASE k \in DvdKinds
      BY <1>3, <3>1, WriterIs DEF DvdBlock, Block
    <3>2. CASE k \in {"tape_file", "tape_partition"}
      <4>1. k \notin DvdKinds
        BY <3>2 DEF DvdKinds
      <4>2. Writer(k) = TapeBlock(k)
        BY <1>3, <3>2, <4>1, WriterIs
      <4>3. TapeBlock(k).block =
                [kind |-> KindOf(k), value |-> mem[SlotOf(k)], count |-> 0]
        BY DEF TapeBlock, Plain, Block
      <4>4. QED
        BY <4>2, <4>3
    <3>3. CASE k = "dpm"
      <4>1. k \notin DvdKinds /\ SlotOf(k) = "dpm"
        BY <3>3 DEF DvdKinds, SlotOf
      <4>2. QED
        BY <1>3, <3>3, <4>1, WriterIs DEF write_dpm_block, Block
    <3>4. CASE k \notin DvdKinds \cup {"tape_file", "tape_partition", "dpm"}
      BY <1>3, <3>4, WriterIs DEF Plain, Block
    <3>5. QED
      BY <3>1, <3>2, <3>3, <3>4
  <2>5. mem[SlotOf(k)] # None
    <3>1. CASE k \in DvdKinds
      <4>1. SlotOf(k) \in DvdSlots
        BY <3>1 DEF DvdKinds, SlotOf, DvdSlots
      <4>2. QED
        BY <1>3, <2>3, <3>1, <4>1, WriterIs DEF DvdBlock, Block
    <3>2. CASE k \in {"tape_file", "tape_partition"}
      <4>1. k \notin DvdKinds
        BY <3>2 DEF DvdKinds
      <4>2. QED
        BY <1>3, <2>3, <3>2, <4>1, WriterIs DEF TapeBlock, Plain, Block
    <3>3. CASE k = "dpm"
      BY <3>3 DEF SlotOf, DvdKinds
    <3>4. CASE k \notin DvdKinds \cup {"tape_file", "tape_partition", "dpm"}
      <4>1. Writer(k) = Plain(k)
        BY <1>3, <3>4, WriterIs
      <4>2. Plain(k).ready = (mem[SlotOf(k)] # None)
        BY Zenon DEF Plain, Block
      <4>3. QED
        BY <2>3, <4>1, <4>2
    <3>5. QED
      BY <3>1, <3>2, <3>3, <3>4
  <2>6. mem[SlotOf(k)] \in Values
    BY <2>1, <2>5 DEF Held
  <2>7. QED
    BY <2>2, <2>4, <2>6 DEF PlainBlock
<1>4. QED
  BY <1>2, <1>3

(***************************************************************************)
(* The next writer.                                                        *)
(***************************************************************************)
LEMMA NextWriterIs ==
    ASSUME stage \in 0..Len(Order), NEW i \in NextWriter
    PROVE  /\ i \in DOMAIN Order /\ i > stage /\ phase = "finalising"
           /\ Order[i] \in Writers /\ Ready(Order[i])
           /\ \A j \in (stage + 1)..Len(Order) : Ready(Order[j]) => i <= j
<1> DEFINE due == {j \in (stage + 1)..Len(Order) : Ready(Order[j])}
<1>1. phase = "finalising" /\ due # {} /\ i = Min(due)
  BY DEF NextWriter
<1>2. due \subseteq Nat
  BY OrderIs
<1>3. \E x \in due : \A y \in due : x <= y
  BY <1>1, <1>2, LeastElement
<1>4. i \in due /\ \A y \in due : i <= y
  BY <1>1, <1>3 DEF Min
<1>5. QED
  BY <1>1, <1>4, OrderIs DEF Writers

(***************************************************************************)
(* What an edit does.                                                      *)
(***************************************************************************)
Edited ==
    /\ phase = "writing"
    /\ mem' \in [Slots -> Held] /\ identifier' \in BOOLEAN
    /\ dirty \subseteq dirty' /\ dirty' \subseteq Flags
    /\ edited \subseteq edited'
    /\ "dpm" \in dirty' => "dpm" \in dirty \cup edited'
    /\ \A s \in Slots \ edited' : mem'[s] = mem[s]
    /\ UNCHANGED <<active, media, flux, stored, phase, stage, fresh, sessions>>

ContextOK ==
    mem \in [Slots -> Held] /\ identifier \in BOOLEAN /\ dirty \subseteq Flags

LEMMA SetEdits ==
    ASSUME ContextOK, NEW s \in SUBSET Slots, NEW v \in Held, NEW marks \in SUBSET Flags,
           "dpm" \in marks => "dpm" \in s, Set(s, v, marks)
    PROVE  Edited
BY DEF Set, MayEdit, Edited, ContextOK

LEMMA SetMetadataEdits ==
    ASSUME ContextOK, NEW f \in Fields, NEW v \in Held, NEW marks \in SUBSET Flags,
           "dpm" \notin marks, SetMetadata(f, v, marks)
    PROVE  Edited
<1>1. f \in Slots
  BY DEF Slots
<1>2. QED
  BY <1>1 DEF SetMetadata, MayEdit, Edited, ContextOK

LEMMA ClearMetadataEdits ==
    ASSUME ContextOK, NEW f \in Fields, ClearMetadata(f)
    PROVE  Edited
<1>1. f \in Slots
  BY DEF Slots
<1>2. mem' \in [Slots -> Held]
  BY <1>1 DEF ClearMetadata, ContextOK, Held
<1>3. identifier' \in BOOLEAN
  BY Zenon DEF ClearMetadata
<1>4. QED
  BY <1>1, <1>2, <1>3 DEF ClearMetadata, MayEdit, Edited, ContextOK

LEMMA NoMemoryEdits ==
    ASSUME ContextOK, NEW f \in Strings, SetMetadataNoMemory(f)
    PROVE  Edited
BY DEF SetMetadataNoMemory, MayEdit, Edited, ContextOK

LEMMA FieldsAre ==
    /\ {"creator", "comments", "media_title", "media_manufacturer", "media_model",
        "media_serial_number", "media_barcode", "media_part_number",
        "drive_manufacturer", "drive_model", "drive_serial_number",
        "drive_firmware_revision", "media_sequence"} = Fields
    /\ Fields \subseteq Slots
BY DEF Fields, Strings, Slots

LEMMA SomeSlots ==
    /\ {"tracks", "subchannel", "title_key", "tape_file", "tape_partition",
        "geometry", "dumphw", "cicm", "json", "dpm"} \subseteq Slots
    /\ DvdSlots \subseteq Slots /\ Tags \subseteq Slots
    /\ {"sector_id", "sector_ied", "sector_cpr_mai", "sector_edc"} = DvdSlots
BY DEF Slots, DvdSlots, Tags

LEMMA EditStepEdits ==
    ASSUME ContextOK, EditStep
    PROVE  Edited
<1>1. ASSUME NEW v \in Held, SetStep(v)
      PROVE  Edited
  <2>1. CASE \E t \in Tags \ {"untyped_tag"} : write_media_tag(t, v)
    BY <1>1, <2>1, SetEdits, SomeSlots, FlagsAre DEF write_media_tag
  <2>2. CASE write_long_dvd(v)
    BY <1>1, <2>2, SetEdits, SomeSlots DEF write_long_dvd
  <2>3. CASE set_tracks(v)
    <3>1. (IF v = None THEN {} ELSE {"tracks"}) \subseteq Flags
      BY FlagsAre
    <3>2. QED
      BY <1>1, <2>3, <3>1, SetEdits, SomeSlots DEF set_tracks
  <2>4. CASE set_geometry(v) \/ set_aaru_json_metadata(v) \/ set_dumphw(v)
    BY <1>1, <2>4, SetEdits, SomeSlots, FlagsAre
       DEF set_geometry, set_aaru_json_metadata, set_dumphw
  <2>5. CASE set_dpm(v) \/ set_tape_file(v) \/ set_tape_partition(v) \/ write_long_bd(v)
    BY <1>1, <2>5, SetEdits, SomeSlots, FlagsAre
       DEF set_dpm, set_tape_file, set_tape_partition, write_long_bd
  <2>6. QED
    BY <1>1, <2>1, <2>2, <2>3, <2>4, <2>5 DEF SetStep
<1>2. ASSUME NEW v \in Held, TagStep(v)
      PROVE  Edited
  <2>1. CASE write_tag_track(v) \/ write_tag_subchannel(v) \/ write_tag_dvd_cmi(v)
    BY <1>2, <2>1, SetEdits, SomeSlots, FlagsAre
       DEF write_tag_track, write_tag_subchannel, write_tag_dvd_cmi, write_tag
  <2>2. CASE write_tag_dvd_information(v) \/ write_tag_dvd_number(v)
             \/ write_tag_dvd_ied(v) \/ write_tag_dvd_edc(v)
    BY <1>2, <2>2, SetEdits, SomeSlots, FlagsAre
       DEF write_tag_dvd_information, write_tag_dvd_number, write_tag_dvd_ied,
           write_tag_dvd_edc, write_tag
  <2>3. CASE write_tag_title_key(v) \/ write_tag_apple(v) \/ write_tag_bd_edc(v)
    BY <1>2, <2>3, SetEdits, SomeSlots, FlagsAre
       DEF write_tag_title_key, write_tag_apple, write_tag_bd_edc, write_tag
  <2>4. QED
    BY <1>2, <2>1, <2>2, <2>3 DEF TagStep
<1>3. ASSUME NEW v \in Held, SetMetadataStep(v)
      PROVE  Edited
  <2>1. \E f \in Fields, marks \in SUBSET (Flags \ {"dpm"}) : SetMetadata(f, v, marks)
    BY <1>3, FieldsAre, FlagsAre
       DEF SetMetadataStep, set_media_sequence, set_creator, set_comments,
           set_media_title, set_media_manufacturer, set_media_model,
           set_media_serial_number, set_media_barcode, set_media_part_number,
           set_drive_manufacturer, set_drive_model, set_drive_serial_number,
           set_drive_firmware_revision
  <2>2. QED
    BY <1>3, <2>1, SetMetadataEdits
<1>4. ASSUME ClearStep
      PROVE  Edited
  <2>1. CASE clear_dpm
    <3>1. None \in Held
      BY DEF Held
    <3>2. QED
      BY <2>1, <3>1, SetEdits, SomeSlots, FlagsAre DEF clear_dpm
  <2>2. CASE set_dumphw(None) \/ set_tracks(None)
    <3>1. None \in Held
      BY DEF Held
    <3>2. QED
      BY <2>2, <3>1, SetEdits, SomeSlots, FlagsAre DEF set_dumphw, set_tracks
  <2>3. CASE \E f \in Fields : ClearMetadata(f)
    BY <2>3, ClearMetadataEdits
  <2>4. clear_dpm \/ set_dumphw(None) \/ set_tracks(None)
        \/ \E f \in Fields : ClearMetadata(f)
    BY <1>4, FieldsAre
       DEF ClearStep, clear_media_sequence, clear_creator, clear_comments,
           clear_media_title, clear_media_manufacturer, clear_media_model,
           clear_media_serial_number, clear_media_barcode, clear_media_part_number,
           clear_drive_manufacturer, clear_drive_model, clear_drive_serial_number,
           clear_drive_firmware_revision
  <2>5. QED
    BY <2>1, <2>2, <2>3, <2>4
<1>5. Values \subseteq Held
  BY DEF Held
<1>6. QED
  BY <1>1, <1>2, <1>3, <1>4, <1>5, NoMemoryEdits DEF EditStep

(***************************************************************************)
(* Loading.                                                                *)
(***************************************************************************)
(* What an image is loaded as: only a tape table marks its block. *)
ContextShape == [mem : [Slots -> Held], identifier : BOOLEAN,
                 dirty : SUBSET {"tape_file", "tape_partition"}]

(* The slot that a block other than that of the metadata goes to. *)
LoadSlot(k) == IF k \in TagKinds THEN aaruf_get_media_tag_type_for_datatype(k) ELSE SlotOf(k)

Put(c, b) == [c EXCEPT !.mem = [c.mem EXCEPT ![LoadSlot(b.kind)] = b.value]]

NotLoaded == {"ddt", "ddt_prefix", "flux", "flux_payload"}

LEMMA TagKindsAre == TagKinds = {"media_tag_a", "media_tag_b", "no_data_type"}
<1>1. \A t \in Tags : KindOf(t) = IF t \in {"untyped_tag", "minidisc_tag"}
                                  THEN "no_data_type" ELSE t
  BY KindIs, WritersAre DEF Names, Tags, TypedTags
<1>2. Tags = {"media_tag_a", "media_tag_b", "untyped_tag", "minidisc_tag"}
  BY DEF Tags, TypedTags
<1>3. QED
  BY <1>1, <1>2 DEF TagKinds

LEMMA LoadSlotIsSlot ==
    \A k \in PlainKinds : LoadSlot(k) \in Slots
BY KindsAre, TagKindsAre
   DEF PlainKinds, LoadSlot, Names, SlotOf, Slots, DvdSlots, Tags, TypedTags,
       aaruf_get_media_tag_type_for_datatype

LEMMA ProcessIs ==
    ASSUME NEW f, NEW c, NEW e, e.kind \in BlockKinds \ {"index", "torn"}
    PROVE  Process(f, c, e) =
               IF f[e.at].kind # e.kind \/ e.kind \in NotLoaded THEN c
               ELSE IF e.kind = "metadata" THEN process_metadata_block(c, f[e.at])
               ELSE IF e.kind \in {"tape_file", "tape_partition"}
               THEN IF f[e.at].count = 0 /\ f[e.at].value # None THEN c
                    ELSE [Put(c, f[e.at]) EXCEPT !.dirty = c.dirty \cup {e.kind}]
               ELSE Put(c, f[e.at])
<1> DEFINE b == f[e.at]
<1>1. CASE b.kind # e.kind
  BY <1>1 DEF Process
<1>2. CASE b.kind = e.kind /\ e.kind \in NotLoaded
  BY <1>2 DEF Process, NotLoaded
<1>3. CASE b.kind = e.kind /\ e.kind = "metadata"
  BY <1>3 DEF Process, NotLoaded
<1>4. CASE b.kind = e.kind /\ e.kind \in {"tape_file", "tape_partition"}
  <2>1. LoadSlot(b.kind) = SlotOf(b.kind)
    BY <1>4, TagKindsAre DEF LoadSlot
  <2>2. Process(f, c, e) = TapeTable(c, b, e.kind)
    BY <1>4 DEF Process, process_tape_files_block, process_tape_partitions_block
  <2>3. e.kind \notin NotLoaded /\ e.kind # "metadata"
    BY <1>4 DEF NotLoaded
  <2>4. QED
    BY <1>4, <2>1, <2>2, <2>3 DEF TapeTable, Take, Put
<1>5. CASE /\ b.kind = e.kind
           /\ e.kind \notin NotLoaded \cup {"metadata", "tape_file", "tape_partition"}
  <2>1. CASE e.kind \in {"tracks", "geometry", "dumphw", "cicm", "json", "dpm"}
    <3>1. LoadSlot(b.kind) = SlotOf(b.kind)
      BY <1>5, <2>1, TagKindsAre DEF LoadSlot
    <3>2. Process(f, c, e) = Take(c, b)
      BY <1>5, <2>1
         DEF Process, process_tracks_block, process_geometry_block,
             process_dumphw_block, process_cicm_block, process_aaru_metadata_json_block,
             process_dpm_block
    <3>3. QED
      BY <1>5, <3>1, <3>2 DEF Take, Put
  <2>2. CASE e.kind \notin {"tracks", "geometry", "dumphw", "cicm", "json", "dpm"}
    <3>1. Process(f, c, e) = process_data_block(c, b)
      BY <1>5, <2>2 DEF Process, NotLoaded
    <3>2. QED
      BY <1>5, <3>1 DEF process_data_block, Take, Put, LoadSlot
  <2>3. QED
    BY <2>1, <2>2
<1>6. QED
  BY <1>1, <1>2, <1>3, <1>4, <1>5

LEMMA PutTyped ==
    ASSUME NEW c \in ContextShape, NEW b, b.value \in Held
    PROVE  Put(c, b) \in ContextShape
BY DEF Put, ContextShape

LEMMA MetadataTyped ==
    ASSUME NEW c \in ContextShape, NEW b \in MetadataBlock
    PROVE  process_metadata_block(c, b) \in ContextShape
<1>1. b.value \in [Fields -> Held] /\ Strings \subseteq Fields /\ "media_sequence" \in Fields
  BY DEF MetadataBlock, Fields
<1>2. CopySequence(c, b) \in ContextShape
  BY <1>1 DEF CopySequence, ContextShape
<1>3. CopyStrings(CopySequence(c, b), b) \in ContextShape
  <2> DEFINE d == CopySequence(c, b)
             m == [s \in Slots |->
                      IF s \in Strings /\ b.value[s] # None THEN b.value[s] ELSE d.mem[s]]
  <2>1. m \in [Slots -> Held]
    BY <1>1, <1>2 DEF ContextShape
  <2>2. CopyStrings(d, b) = [d EXCEPT !.mem = m]
    BY DEF CopyStrings
  <2> HIDE DEF d, m
  <2>3. QED
    BY <1>2, <2>1, <2>2 DEF ContextShape, d
<1>4. QED
  BY <1>3 DEF process_metadata_block, ContextShape

(* An index whose entries lead to blocks of their kind. *)
Resolves(f, ix) ==
    /\ ix \in Seq(Entry)
    /\ \A i \in DOMAIN ix : ix[i].at \in DOMAIN f /\ f[ix[i].at].kind = ix[i].kind

LEMMA ProcessTyped ==
    ASSUME NEW f \in Seq(Cell), NEW ix, Resolves(f, ix), NEW i \in DOMAIN ix,
           NEW c \in ContextShape
    PROVE  Process(f, c, ix[i]) \in ContextShape
<1> DEFINE e == ix[i]
           b == f[e.at]
<1>1. e \in Entry /\ b \in Cell /\ b.kind = e.kind
  BY DEF Resolves
<1>2. e.kind \in BlockKinds \ {"index", "torn"}
  BY <1>1 DEF Entry
<1> HIDE DEF e, b
<1>3. CASE e.kind \in NotLoaded
  BY <1>2, <1>3, ProcessIs DEF e
<1>4. CASE e.kind = "metadata"
  <2>1. b \in MetadataBlock /\ e.kind \notin NotLoaded
    BY <1>1, <1>4, CellKinds DEF NotLoaded
  <2>2. Process(f, c, e) = process_metadata_block(c, b)
    BY <1>1, <1>2, <1>4, <2>1, ProcessIs DEF b
  <2>3. QED
    BY <2>1, <2>2, MetadataTyped DEF e
<1>5. CASE e.kind \notin NotLoaded \cup {"metadata"}
  <2>1. e.kind \in PlainKinds
    BY <1>2, <1>5 DEF BlockKinds, PlainKinds, NotLoaded
  <2>2. b.value \in Held
    BY <1>1, <2>1, CellKinds DEF PlainBlock, Held
  <2>3. Put(c, b) \in ContextShape
    BY <2>2, PutTyped
  <2>4. CASE e.kind \in {"tape_file", "tape_partition"}
    <3>1. e.kind \in {"tape_file", "tape_partition"}
      BY <2>4
    <3>2. [Put(c, b) EXCEPT !.dirty = c.dirty \cup {e.kind}] \in ContextShape
      BY <2>3, <3>1 DEF ContextShape
    <3>3. \/ Process(f, c, e) = c
          \/ Process(f, c, e) = [Put(c, b) EXCEPT !.dirty = c.dirty \cup {e.kind}]
      BY <1>1, <1>2, <1>5, <2>4, ProcessIs DEF b
    <3>4. QED
      BY <3>2, <3>3 DEF e
  <2>5. CASE e.kind \notin {"tape_file", "tape_partition"}
    <3>1. Process(f, c, e) = Put(c, b)
      BY <1>1, <1>2, <1>5, <2>5, ProcessIs DEF b
    <3>2. QED
      BY <2>3, <3>1 DEF e
  <2>6. QED
    BY <2>4, <2>5
<1>6. QED
  BY <1>3, <1>4, <1>5

LoadedTo(f, ix, g, n) ==
    g = [m \in 0..n |-> IF m = 0 THEN NoContext ELSE Process(f, g[m - 1], ix[m])]

LEMMA LoadedExists ==
    ASSUME NEW f, NEW ix, Len(ix) \in Nat
    PROVE  \E g : LoadedTo(f, ix, g, Len(ix))
<1> DEFINE S == {n \in 0..Len(ix) : \E g : LoadedTo(f, ix, g, n)}
<1>1. 0 \in S
  <2>1. LoadedTo(f, ix, [m \in 0..0 |-> NoContext], 0)
    BY DEF LoadedTo
  <2>2. QED
    BY <2>1
<1>2. ASSUME NEW n \in 0..(Len(ix) - 1), n \in S
      PROVE  n + 1 \in S
  <2>1. PICK g : LoadedTo(f, ix, g, n)
    BY <1>2
  <2> DEFINE h == [m \in 0..(n + 1) |->
                      IF m <= n THEN g[m] ELSE Process(f, g[m - 1], ix[m])]
  <2>2. LoadedTo(f, ix, h, n + 1)
    <3>1. \A m \in 0..n : g[m] = IF m = 0 THEN NoContext ELSE Process(f, g[m - 1], ix[m])
      BY <2>1 DEF LoadedTo
    <3>2. \A m \in 0..(n + 1) :
              h[m] = IF m = 0 THEN NoContext ELSE Process(f, h[m - 1], ix[m])
      BY <3>1
    <3>3. QED
      BY <3>2 DEF LoadedTo
  <2>3. QED
    BY <2>2
<1>3. 0..Len(ix) \subseteq S
  <2> HIDE DEF S
  <2>1. QED
    BY <1>1, <1>2, InductionUpTo
<1>4. QED
  BY <1>3

(* The contexts on the way, from no context to what is loaded. *)
LEMMA LoadingSteps ==
    ASSUME NEW f, NEW ix, Len(ix) \in Nat
    PROVE  \E g : /\ Loading(f, ix) = g[Len(ix)]
                  /\ g[0] = NoContext
                  /\ \A m \in 1..Len(ix) : g[m] = Process(f, g[m - 1], ix[m])
<1> DEFINE g == CHOOSE g : LoadedTo(f, ix, g, Len(ix))
<1>1. Loading(f, ix) = g[Len(ix)]
  BY Zenon DEF Loading, LoadedTo
<1>2. LoadedTo(f, ix, g, Len(ix))
  BY LoadedExists
<1>3. g[0] = NoContext /\ \A m \in 1..Len(ix) : g[m] = Process(f, g[m - 1], ix[m])
  <2> HIDE DEF g
  <2>1. \A m \in 0..Len(ix) :
            g[m] = IF m = 0 THEN NoContext ELSE Process(f, g[m - 1], ix[m])
    BY <1>2 DEF LoadedTo
  <2>2. QED
    BY <2>1
<1>4. QED
  BY <1>1, <1>3

LEMMA LoadingTyped ==
    ASSUME NEW f \in Seq(Cell), NEW ix, Resolves(f, ix)
    PROVE  Loading(f, ix) \in ContextShape
<1>1. ix \in Seq(Entry) /\ Len(ix) \in Nat /\ DOMAIN ix = 1..Len(ix)
  BY DEF Resolves
<1>2. PICK g : /\ Loading(f, ix) = g[Len(ix)]
               /\ g[0] = NoContext
               /\ \A m \in 1..Len(ix) : g[m] = Process(f, g[m - 1], ix[m])
  BY <1>1, LoadingSteps
<1> DEFINE S == {n \in 0..Len(ix) : g[n] \in ContextShape}
<1>3. 0 \in S
  <2>1. NoContext \in ContextShape
    BY DEF NoContext, ContextShape, NoMem, Held
  <2>2. QED
    BY <1>1, <1>2, <2>1
<1>4. ASSUME NEW n \in 0..(Len(ix) - 1), n \in S
      PROVE  n + 1 \in S
  <2>1. n + 1 \in DOMAIN ix /\ n + 1 \in 0..Len(ix) /\ (n + 1) - 1 = n
    BY <1>1
  <2>2. g[n + 1] = Process(f, g[n], ix[n + 1])
    BY <1>1, <1>2, <2>1
  <2>3. QED
    BY <1>4, <2>1, <2>2, ProcessTyped
<1>5. 0..Len(ix) \subseteq S
  <2> HIDE DEF S
  <2>1. QED
    BY <1>1, <1>3, <1>4, InductionUpTo
<1>6. QED
  BY <1>1, <1>2, <1>5

(***************************************************************************)
(* The map of the flux captures.                                           *)
(***************************************************************************)
MappedTo(entries, g, n) ==
    g = [m \in 0..n |-> IF m = 0 THEN NoMap ELSE flux_map_add(g[m - 1], entries[m].key, m)]

LEMMA MappedExists ==
    ASSUME NEW entries, Len(entries) \in Nat
    PROVE  \E g : MappedTo(entries, g, Len(entries))
<1> DEFINE S == {n \in 0..Len(entries) : \E g : MappedTo(entries, g, n)}
<1>1. 0 \in S
  <2>1. MappedTo(entries, [m \in 0..0 |-> NoMap], 0)
    BY DEF MappedTo
  <2>2. QED
    BY <2>1
<1>2. ASSUME NEW n \in 0..(Len(entries) - 1), n \in S
      PROVE  n + 1 \in S
  <2>1. PICK g : MappedTo(entries, g, n)
    BY <1>2
  <2> DEFINE h == [m \in 0..(n + 1) |->
                      IF m <= n THEN g[m] ELSE flux_map_add(g[m - 1], entries[m].key, m)]
  <2>2. MappedTo(entries, h, n + 1)
    <3>1. \A m \in 0..n : g[m] = IF m = 0 THEN NoMap
                                 ELSE flux_map_add(g[m - 1], entries[m].key, m)
      BY <2>1 DEF MappedTo
    <3>2. \A m \in 0..(n + 1) :
              h[m] = IF m = 0 THEN NoMap ELSE flux_map_add(h[m - 1], entries[m].key, m)
      BY <3>1
    <3>3. QED
      BY <3>2 DEF MappedTo
  <2>3. QED
    BY <2>2
<1>3. 0..Len(entries) \subseteq S
  <2> HIDE DEF S
  <2>1. QED
    BY <1>1, <1>2, InductionUpTo
<1>4. QED
  BY <1>3

(* map has the last of the first n entries of each key. *)
MapsLast(map, entries, n) ==
    /\ map \in [Keys -> 0..n]
    /\ \A k \in Keys :
          /\ map[k] # 0 => entries[map[k]].key = k
          /\ \A j \in (map[k] + 1)..n : entries[j].key # k

LEMMA RebuiltMapsLast ==
    ASSUME NEW entries \in Seq(FluxEntry)
    PROVE  MapsLast(flux_map_rebuild_from_entries(entries), entries, Len(entries))
<1> DEFINE g == CHOOSE g : MappedTo(entries, g, Len(entries))
           S == {n \in 0..Len(entries) : MapsLast(g[n], entries, n)}
<1>1. flux_map_rebuild_from_entries(entries) = g[Len(entries)]
  BY Zenon DEF flux_map_rebuild_from_entries, MappedTo
<1>2. MappedTo(entries, g, Len(entries))
  BY MappedExists
<1> HIDE DEF g
<1>3. /\ g[0] = NoMap
      /\ \A m \in 1..Len(entries) : g[m] = [g[m - 1] EXCEPT ![entries[m].key] = m]
  <2>1. \A m \in 0..Len(entries) :
            g[m] = IF m = 0 THEN NoMap ELSE flux_map_add(g[m - 1], entries[m].key, m)
    BY <1>2 DEF MappedTo
  <2>2. g[0] = NoMap
    BY <2>1
  <2>3. \A m \in 1..Len(entries) : m \in 0..Len(entries) /\ m # 0
    OBVIOUS
  <2>4. \A m \in 1..Len(entries) : g[m] = flux_map_add(g[m - 1], entries[m].key, m)
    BY <2>1, <2>3
  <2>5. QED
    BY <2>2, <2>4 DEF flux_map_add
<1>4. 0 \in S
  BY <1>3 DEF MapsLast, NoMap
<1>5. ASSUME NEW n \in 0..(Len(entries) - 1), n \in S
      PROVE  n + 1 \in S
  <2> DEFINE key == entries[n + 1].key
  <2>1. MapsLast(g[n], entries, n)
    BY <1>5
  <2>2. n + 1 \in 1..Len(entries) /\ (n + 1) - 1 = n /\ entries[n + 1] \in FluxEntry
    BY <1>5
  <2>3. g[n + 1] = [g[n] EXCEPT ![key] = n + 1]
    BY <1>3, <2>2
  <2>4. key \in Keys
    BY <2>2 DEF FluxEntry
  <2> HIDE DEF key
  <2>5. g[n + 1] \in [Keys -> 0..(n + 1)]
    BY <2>1, <2>3, <2>4 DEF MapsLast
  <2>6. ASSUME NEW k \in Keys
        PROVE  /\ g[n + 1][k] # 0 => entries[g[n + 1][k]].key = k
               /\ \A j \in (g[n + 1][k] + 1)..(n + 1) : entries[j].key # k
    <3>1. CASE k = key
      <4>1. g[n + 1][k] = n + 1
        BY <2>1, <2>3, <3>1 DEF MapsLast
      <4>2. QED
        BY <3>1, <4>1 DEF key
    <3>2. CASE k # key
      <4>1. g[n + 1][k] = g[n][k] /\ g[n][k] \in 0..n
        BY <2>1, <2>3, <3>2 DEF MapsLast
      <4>2. \A j \in (g[n][k] + 1)..n : entries[j].key # k
        BY <2>1 DEF MapsLast
      <4>3. entries[n + 1].key # k
        BY <3>2 DEF key
      <4>4. \A j \in (g[n][k] + 1)..(n + 1) : j = n + 1 \/ j \in (g[n][k] + 1)..n
        BY <4>1
      <4>5. QED
        BY <2>1, <4>1, <4>2, <4>3, <4>4 DEF MapsLast
    <3>3. QED
      BY <3>1, <3>2
  <2>7. QED
    BY <2>2, <2>5, <2>6 DEF MapsLast
<1>6. 0..Len(entries) \subseteq S
  <2> HIDE DEF S
  <2>1. QED
    BY <1>4, <1>5, InductionUpTo
<1>7. QED
  BY <1>1, <1>6

(***************************************************************************)
(* Indexes.                                                                *)
(***************************************************************************)

(* No two entries of a kind, but for the flux blocks. *)
Distinct(ix) ==
    \A i, j \in DOMAIN ix :
        ix[i].kind = ix[j].kind /\ ix[i].kind \in Kinds \ {"flux"} => i = j

IndexOK(f, ix) == Resolves(f, ix) /\ Distinct(ix)

(* g is f with more behind it. *)
Longer(f, g) ==
    /\ f \in Seq(Cell) /\ g \in Seq(Cell)
    /\ Len(f) <= Len(g)
    /\ \A i \in 1..Len(f) : g[i] = f[i]

(* A block is appended. *)
LEMMA OneLonger ==
    ASSUME NEW f \in Seq(Cell), NEW b \in Cell
    PROVE  /\ Longer(f, Append(f, b))
           /\ Len(Append(f, b)) = Len(f) + 1
           /\ Append(f, b)[Len(f) + 1] = b
           /\ Len(f) + 1 \in DOMAIN Append(f, b)
BY DEF Longer

LEMMA LongerDomain ==
    ASSUME NEW f, NEW g, Longer(f, g)
    PROVE  /\ f \in Seq(Cell) /\ g \in Seq(Cell)
           /\ \A i \in DOMAIN f : i \in DOMAIN g /\ g[i] = f[i]
BY DEF Longer

(* The file only grows, so that what an index led to it leads to still. *)
LEMMA IndexKept ==
    ASSUME NEW f, NEW g, Longer(f, g), NEW ix, IndexOK(f, ix)
    PROVE  IndexOK(g, ix)
BY LongerDomain DEF IndexOK, Resolves

LEMMA OfKindsOK ==
    ASSUME NEW f, NEW ix, IndexOK(f, ix), NEW kinds
    PROVE  /\ IndexOK(f, OfKinds(ix, kinds))
           /\ \A i \in DOMAIN OfKinds(ix, kinds) : OfKinds(ix, kinds)[i].kind \in kinds
<1> DEFINE r == OfKinds(ix, kinds)
<1>1. ix \in Seq(Entry)
  BY DEF IndexOK, Resolves
<1>2. r \in Seq(Entry)
  BY <1>1, OfKindsSelects
<1>3. PICK h : Selects(ix, kinds, r, h, Len(ix))
  BY <1>1, OfKindsSelects
<1> HIDE DEF r
<1>4. /\ Len(r) \in Nat /\ DOMAIN r = 1..Len(r) /\ DOMAIN ix = 1..Len(ix)
      /\ \A j \in 1..Len(r) : h[j] \in 1..Len(ix) /\ r[j] = ix[h[j]] /\ r[j].kind \in kinds
      /\ \A i, j \in 1..Len(r) : i < j => h[i] < h[j]
  BY <1>1, <1>2, <1>3 DEF Selects
<1>5. Resolves(f, r)
  BY <1>2, <1>4 DEF IndexOK, Resolves
<1>6. Distinct(r)
  <2>1. ASSUME NEW i \in DOMAIN r, NEW j \in DOMAIN r, r[i].kind = r[j].kind,
               r[i].kind \in Kinds \ {"flux"}
        PROVE  i = j
    <3>1. h[i] = h[j]
      BY <1>4, <2>1 DEF IndexOK, Distinct
    <3>2. h[i] \in Nat /\ h[j] \in Nat /\ i \in Nat /\ j \in Nat
      BY <1>4
    <3>3. QED
      BY <1>4, <2>1, <3>1, <3>2
  <2>2. QED
    BY <2>1 DEF Distinct
<1>7. QED
  BY <1>4, <1>5, <1>6 DEF IndexOK, r

LEMMA AppendOK ==
    ASSUME NEW f, NEW ix, IndexOK(f, ix), NEW k \in BlockKinds \ {"index", "torn"},
           NEW at \in DOMAIN f, f \in Seq(Cell), f[at].kind = k,
           k \in Kinds \ {"flux"} => \A i \in DOMAIN ix : ix[i].kind # k
    PROVE  IndexOK(f, Append(ix, [kind |-> k, at |-> at]))
<1> DEFINE e == [kind |-> k, at |-> at]
           r == Append(ix, e)
<1>1. ix \in Seq(Entry) /\ e \in Entry
  BY DEF IndexOK, Resolves, Entry
<1>2. /\ r \in Seq(Entry) /\ Len(r) = Len(ix) + 1 /\ DOMAIN r = 1..(Len(ix) + 1)
      /\ DOMAIN ix = 1..Len(ix)
      /\ \A i \in 1..Len(ix) : r[i] = ix[i]
      /\ r[Len(ix) + 1] = e
  BY <1>1
<1>3. e.kind = k /\ e.at = at
  OBVIOUS
<1> HIDE DEF e, r
<1>4. \A i \in DOMAIN r : i \in DOMAIN ix \/ i = Len(ix) + 1
  BY <1>1, <1>2
<1>5. Resolves(f, r)
  BY <1>2, <1>3, <1>4 DEF IndexOK, Resolves
<1>6. Distinct(r)
  BY <1>2, <1>3, <1>4 DEF IndexOK, Distinct
<1>7. QED
  BY <1>5, <1>6 DEF IndexOK, r, e

(* The entries of a kind give way to that of a new block. *)
LEMMA ReplaceOK ==
    ASSUME NEW f, NEW g, Longer(f, g), NEW ix, IndexOK(f, ix),
           NEW k \in BlockKinds \ {"index", "torn"}, NEW at \in DOMAIN g, g[at].kind = k
    PROVE  IndexOK(g, Append(OfKinds(ix, BlockKinds \ {k}), [kind |-> k, at |-> at]))
<1>1. IndexOK(g, ix) /\ g \in Seq(Cell)
  BY IndexKept, LongerDomain
<1>2. /\ IndexOK(g, OfKinds(ix, BlockKinds \ {k}))
      /\ \A i \in DOMAIN OfKinds(ix, BlockKinds \ {k}) :
            OfKinds(ix, BlockKinds \ {k})[i].kind \in BlockKinds \ {k}
  BY <1>1, OfKindsOK
<1> DEFINE r == OfKinds(ix, BlockKinds \ {k})
<1> HIDE DEF r
<1>3. \A i \in DOMAIN r : r[i].kind # k
  BY <1>2 DEF r
<1>4. QED
  BY <1>1, <1>2, <1>3, AppendOK DEF r

(* Entries of flux payloads and flux blocks, which may be many. *)
LEMMA ConcatOK ==
    ASSUME NEW f \in Seq(Cell), NEW ix, IndexOK(f, ix), NEW es \in Seq(Entry),
           \A i \in DOMAIN es : /\ es[i].at \in DOMAIN f /\ f[es[i].at].kind = es[i].kind
                                /\ es[i].kind \in {"flux", "flux_payload"}
    PROVE  IndexOK(f, ix \o es)
<1>1. ix \in Seq(Entry)
  BY DEF IndexOK, Resolves
<1> DEFINE r == ix \o es
<1>2. /\ r \in Seq(Entry) /\ DOMAIN r = 1..(Len(ix) + Len(es))
      /\ Len(ix) \in Nat /\ Len(es) \in Nat
      /\ DOMAIN ix = 1..Len(ix) /\ DOMAIN es = 1..Len(es)
      /\ \A i \in 1..Len(ix) : r[i] = ix[i]
      /\ \A i \in 1..(Len(ix) + Len(es)) : i > Len(ix) => r[i] = es[i - Len(ix)]
  BY <1>1
<1> HIDE DEF r
<1>3. \A i \in DOMAIN r : \/ i \in DOMAIN ix /\ r[i] = ix[i]
                          \/ i - Len(ix) \in DOMAIN es /\ r[i] = es[i - Len(ix)]
  BY <1>2
<1>4. Resolves(f, r)
  BY <1>2, <1>3 DEF IndexOK, Resolves
<1>5. \A i \in DOMAIN r : r[i].kind \in Kinds \ {"flux"} => i \in DOMAIN ix /\ r[i] = ix[i]
  BY <1>3, OtherKinds
<1>6. Distinct(r)
  BY <1>5 DEF IndexOK, Distinct
<1>7. QED
  BY <1>4, <1>6 DEF IndexOK, r

(***************************************************************************)
(* Flux captures.                                                          *)
(***************************************************************************)

(* An entry that has a payload has that of its key. *)
EntryRight(f, e) ==
    \/ e.at = 0
    \/ /\ e.at \in DOMAIN f
       /\ f[e.at].kind = "flux_payload"
       /\ f[e.at].value.key = e.key

EntriesRight(f, es) ==
    es \in Seq(FluxEntry) /\ \A i \in DOMAIN es : EntryRight(f, es[i])

PayloadsRight(f) ==
    \A a \in DOMAIN f : f[a].kind = "flux" => EntriesRight(f, f[a].value)

FluxShape == [captures : Seq(Capture), entries : Seq(FluxEntry), map : [Keys -> Nat],
              latest : [Keys -> Held]]

(* While captures are queued the entries are theirs and have no payloads,  *)
(* whatever the map has kept of earlier entries; otherwise the map leads   *)
(* to entries of the right key, or to none.                                *)
FluxOK(f, fx) ==
    /\ fx \in FluxShape
    /\ EntriesRight(f, fx.entries)
    /\ fx.captures # <<>> =>
          /\ Len(fx.entries) = Len(fx.captures)
          /\ \A i \in DOMAIN fx.entries : fx.entries[i].at = 0
    /\ fx.captures = <<>> =>
          \A k \in Keys : fx.map[k] \in DOMAIN fx.entries => fx.entries[fx.map[k]].key = k

LEMMA EntriesKept ==
    ASSUME NEW f, NEW g, Longer(f, g), NEW es, EntriesRight(f, es)
    PROVE  EntriesRight(g, es)
BY LongerDomain DEF EntriesRight, EntryRight

LEMMA FluxKept ==
    ASSUME NEW f, NEW g, Longer(f, g), NEW fx, FluxOK(f, fx)
    PROVE  FluxOK(g, fx)
BY EntriesKept DEF FluxOK

LEMMA PayloadsKept ==
    ASSUME NEW f, NEW g, Longer(f, g), PayloadsRight(f),
           \A a \in DOMAIN g : a > Len(f) /\ g[a].kind = "flux" => EntriesRight(g, g[a].value)
    PROVE  PayloadsRight(g)
<1>1. f \in Seq(Cell) /\ g \in Seq(Cell) /\ \A i \in DOMAIN f : i \in DOMAIN g /\ g[i] = f[i]
  BY LongerDomain
<1>2. \A a \in DOMAIN g : a > Len(f) \/ a \in DOMAIN f
  BY <1>1
<1>3. \A a \in DOMAIN f : g[a].kind = "flux" => EntriesRight(g, g[a].value)
  BY <1>1, EntriesKept DEF PayloadsRight
<1>4. QED
  BY <1>2, <1>3 DEF PayloadsRight

LEMMA NoFluxOK ==
    ASSUME NEW f
    PROVE  FluxOK(f, NoFlux)
<1>1. <<>> \in Seq(Capture) /\ <<>> \in Seq(FluxEntry) /\ DOMAIN <<>> = {}
  OBVIOUS
<1>2. NoFlux \in FluxShape
  BY <1>1 DEF NoFlux, FluxShape, Held
<1>3. QED
  BY <1>1, <1>2 DEF NoFlux, FluxOK, EntriesRight

(* Entries and map taken from a flux block. *)
LEMMA RebuiltOK ==
    ASSUME NEW f, NEW es, EntriesRight(f, es), NEW fx \in FluxShape, NEW gx,
           gx = [fx EXCEPT !.captures = <<>>, !.entries = es,
                           !.map = flux_map_rebuild_from_entries(es)]
    PROVE  FluxOK(f, gx)
<1> DEFINE map == flux_map_rebuild_from_entries(es)
<1>1. es \in Seq(FluxEntry) /\ DOMAIN es = 1..Len(es) /\ Len(es) \in Nat
  BY DEF EntriesRight
<1>2. MapsLast(map, es, Len(es))
  BY <1>1, RebuiltMapsLast
<1> HIDE DEF map
<1>3. map \in [Keys -> Nat]
  BY <1>1, <1>2 DEF MapsLast
<1>4. \A k \in Keys : map[k] \in DOMAIN es => es[map[k]].key = k
  BY <1>1, <1>2 DEF MapsLast
<1>5. <<>> \in Seq(Capture)
  OBVIOUS
<1>6. gx \in FluxShape /\ gx.captures = <<>> /\ gx.entries = es /\ gx.map = map
  BY <1>1, <1>3, <1>5 DEF FluxShape, map
<1>7. QED
  BY <1>4, <1>6 DEF FluxOK

(* The first flux block of an index. *)
LEMMA FirstFluxBlock ==
    ASSUME NEW f \in Seq(Cell), NEW ix, IndexOK(f, ix), FluxBlocks(ix) # <<>>
    PROVE  /\ FluxBlocks(ix)[1].at \in DOMAIN f
           /\ f[FluxBlocks(ix)[1].at].kind = "flux"
<1> DEFINE r == FluxBlocks(ix)
<1>1. IndexOK(f, r) /\ \A i \in DOMAIN r : r[i].kind \in {"flux"}
  BY OfKindsOK DEF FluxBlocks
<1> HIDE DEF r
<1>2. r \in Seq(Entry) /\ r # <<>>
  BY <1>1 DEF IndexOK, Resolves, r
<1>3. 1 \in DOMAIN r
  BY <1>2
<1>4. QED
  BY <1>1, <1>3 DEF IndexOK, Resolves, r

LEMMA EnsureOK ==
    ASSUME file \in Seq(Cell), PayloadsRight(file), NEW fx, FluxOK(file, fx),
           NEW ix, IndexOK(file, ix)
    PROVE  FluxOK(file, ensure_flux_entries_loaded(fx, ix))
<1>1. CASE fx.entries # <<>> \/ FluxBlocks(ix) = <<>>
  BY <1>1 DEF ensure_flux_entries_loaded
<1>2. CASE fx.entries = <<>> /\ FluxBlocks(ix) # <<>>
  <2> DEFINE at == FluxBlocks(ix)[1].at
  <2>1. at \in DOMAIN file /\ file[at].kind = "flux"
    BY <1>2, FirstFluxBlock
  <2>2. ensure_flux_entries_loaded(fx, ix) = process_flux_data_block(fx, at)
    BY <1>2 DEF ensure_flux_entries_loaded
  <2> HIDE DEF at
  <2>3. EntriesRight(file, file[at].value)
    BY <2>1 DEF PayloadsRight
  <2>4. fx \in FluxShape
    BY DEF FluxOK
  <2>5. FluxOK(file, process_flux_data_block(fx, at))
    BY <2>3, <2>4, RebuiltOK DEF process_flux_data_block
  <2>6. QED
    BY <2>2, <2>5
<1>3. QED
  BY <1>1, <1>2

(* The place that is found is that of an entry of the key, or, while       *)
(* captures are queued, of one without a payload.                          *)
LEMMA FoundOK ==
    ASSUME NEW f, NEW fx, FluxOK(f, fx), NEW k \in Keys, NEW i,
           i = find_flux_entry_by_key(fx, k), i # 0
    PROVE  /\ i \in DOMAIN fx.entries
           /\ fx.entries[i].key = k \/ fx.entries[i].at = 0
<1>1. fx.entries \in Seq(FluxEntry) /\ DOMAIN fx.entries \subseteq Nat
  BY DEF FluxOK, EntriesRight
<1>2. CASE fx.map[k] \in DOMAIN fx.entries
  BY <1>2 DEF FluxOK, find_flux_entry_by_key
<1>3. CASE fx.map[k] \notin DOMAIN fx.entries
  <2> DEFINE same == {j \in DOMAIN fx.entries : fx.entries[j].key = k}
  <2>1. same # {} /\ i = Min(same)
    BY <1>3 DEF find_flux_entry_by_key
  <2>2. same \subseteq Nat
    BY <1>1
  <2> HIDE DEF same
  <2>3. \E x \in same : \A y \in same : x <= y
    BY <2>1, <2>2, LeastElement
  <2>4. i \in same
    BY <2>1, <2>3 DEF Min
  <2>5. QED
    BY <2>4 DEF same
<1>4. QED
  BY <1>2, <1>3

LEMMA ReadOfItsKey ==
    ASSUME file \in Seq(Cell), PayloadsRight(file), NEW fx, FluxOK(file, fx),
           NEW ix, IndexOK(file, ix), NEW k \in Keys
    PROVE  read_flux_capture(fx, ix, k).key \in {k, None}
<1> DEFINE loaded == ensure_flux_entries_loaded(fx, ix)
           i == find_flux_entry_by_key(loaded, k)
<1>1. FluxOK(file, loaded)
  BY EnsureOK
<1>2. read_flux_capture(fx, ix, k) =
          IF i = 0 THEN Error ELSE read_flux_payload(loaded.entries[i].at)
  BY DEF read_flux_capture
<1> HIDE DEF loaded
<1>3. CASE i = 0
  BY <1>2, <1>3 DEF Error
<1>4. CASE i # 0
  <2>1. /\ i \in DOMAIN loaded.entries
        /\ loaded.entries[i].key = k \/ loaded.entries[i].at = 0
    BY <1>1, <1>4, FoundOK
  <2>2. EntryRight(file, loaded.entries[i])
    BY <1>1, <2>1 DEF FluxOK, EntriesRight
  <2>3. QED
    BY <1>2, <1>4, <2>1, <2>2 DEF EntryRight, read_flux_payload, Error
<1>5. QED
  BY <1>3, <1>4

(***************************************************************************)
(* The invariant.                                                          *)
(***************************************************************************)
FileOK ==
    /\ file \in Seq(Cell)
    /\ PayloadsRight(file)
    /\ root \in 0..Len(file)
    /\ root # 0 => file[root].kind = "index"
    /\ IndexOK(file, DiskIndex)

MemoryOK == ContextOK /\ IndexOK(file, index) /\ FluxOK(file, flux)

ProgressOK ==
    /\ phase \in {"writing", "finalising", "closed", "ended"}
    /\ stage \in 0..Len(Order)

Command == [slot : Tags \cup {None}, value : Held, todo : Seq(PlainBlock \cup TableBlock),
            entries : Seq(Entry), at : Nat]

(* The blocks that are still to be appended by a command. *)
TodoOK ==
    /\ tool \in Command
    /\ \A j \in DOMAIN tool.todo :
          tool.todo[j].kind \in Kinds =>
              /\ Len(tool.todo) = 1
              /\ \A i \in DOMAIN tool.entries : tool.entries[i].kind # tool.todo[j].kind

ToolOK ==
    \/ Idle
    \/ /\ phase = "ended"
       /\ TodoOK
       /\ IndexOK(file, tool.entries)
       /\ tool.at \in 0..Len(file)
       /\ tool.at # 0 => /\ file[tool.at].kind = "index"
                         /\ file[tool.at].value = tool.entries
                         /\ tool.todo = <<>>

BlocksInv == FileOK /\ MemoryOK /\ ProgressOK /\ ToolOK

(* What a step of the library leaves: the file only grows. *)
StepOK == FileOK' /\ MemoryOK' /\ ProgressOK' /\ Longer(file, file')

LEMMA EmptyIndexOK ==
    ASSUME NEW f
    PROVE  IndexOK(f, <<>>)
BY DEF IndexOK, Resolves, Distinct

(* More blocks, of which the flux blocks are right. *)
LEMMA FileGrows ==
    ASSUME FileOK, Longer(file, file'), root' = root,
           \A a \in DOMAIN file' : a > Len(file) /\ file'[a].kind = "flux"
                                      => EntriesRight(file', file'[a].value)
    PROVE  FileOK' /\ DiskIndex' = DiskIndex
<1>1. file \in Seq(Cell) /\ file' \in Seq(Cell)
      /\ \A i \in DOMAIN file : i \in DOMAIN file' /\ file'[i] = file[i]
  BY LongerDomain
<1>2. PayloadsRight(file)'
  BY PayloadsKept DEF FileOK
<1>3. root \in 0..Len(file) /\ Len(file) <= Len(file') /\ Len(file) \in Nat
      /\ Len(file') \in Nat /\ DOMAIN file = 1..Len(file)
  BY <1>1 DEF FileOK, Longer
<1>4. DiskIndex' = DiskIndex
  BY <1>1, <1>3 DEF DiskIndex
<1>5. IndexOK(file', DiskIndex)
  BY IndexKept DEF FileOK
<1>6. root # 0 => file'[root].kind = "index"
  BY <1>1, <1>3 DEF FileOK
<1>7. QED
  BY <1>1, <1>2, <1>3, <1>4, <1>5, <1>6 DEF FileOK

(* One more block that is not a flux block. *)
LEMMA FileGrowsByOne ==
    ASSUME FileOK, NEW b \in Cell, b.kind # "flux", file' = Append(file, b), root' = root
    PROVE  FileOK' /\ DiskIndex' = DiskIndex /\ Longer(file, file')
<1>1. file \in Seq(Cell) /\ Longer(file, file')
  BY OneLonger DEF FileOK
<1>2. file'[Len(file) + 1] = b /\ Len(file') = Len(file) + 1
  BY <1>1, OneLonger
<1>3. \A a \in DOMAIN file' : a > Len(file) => a = Len(file) + 1
  BY <1>1, <1>2 DEF Longer
<1>4. QED
  BY <1>1, <1>2, <1>3, FileGrows

LEMMA MemoryKept ==
    ASSUME MemoryOK, Longer(file, file'), UNCHANGED <<context, index>>
    PROVE  MemoryOK'
<1>1. IndexOK(file', index) /\ FluxOK(file', flux)
  BY IndexKept, FluxKept DEF MemoryOK
<1>2. ContextOK'
  BY DEF MemoryOK, ContextOK, context
<1>3. QED
  BY <1>1, <1>2 DEF MemoryOK, context

LEMMA NotLonger == ASSUME NEW f \in Seq(Cell) PROVE Longer(f, f)
BY DEF Longer

LEMMA FileIsSeq == BlocksInv => file \in Seq(Cell)
BY DEF BlocksInv, FileOK

LEMMA TornCell == Torn \in Cell /\ Torn.kind = "torn"
BY DEF Torn, Cell

(***************************************************************************)
(* Initially.                                                              *)
(***************************************************************************)
LEMMA InitBlocks == ToolInit => BlocksInv
<1> SUFFICES ASSUME ToolInit
             PROVE  BlocksInv
  OBVIOUS
<1>1. NoMem \in [Slots -> Held]
  BY DEF NoMem, Held
<1>2. CASE Init
  <2>1. Ddt \in TableBlock /\ Ddt.kind = "ddt"
    BY DEF Ddt, TableBlock, TableKinds
  <2>2. /\ file \in Seq(Cell) /\ Len(file) = 1 /\ DOMAIN file = {1} /\ file[1] = Ddt
        /\ root = 0
    BY <1>2, <2>1 DEF Init, Cell
  <2>3. FileOK
    BY <2>1, <2>2, EmptyIndexOK DEF FileOK, PayloadsRight, DiskIndex
  <2>4. IndexOK(file, index)
    <3> DEFINE e == [kind |-> "ddt", at |-> 1]
    <3>1. index = <<e>> /\ e \in Entry /\ e.kind = "ddt" /\ e.at = 1
      BY <1>2 DEF Init, Entry, BlockKinds
    <3> HIDE DEF e
    <3>2. index \in Seq(Entry) /\ DOMAIN index = {1} /\ index[1] = e
      BY <3>1
    <3>3. QED
      BY <2>1, <2>2, <3>1, <3>2 DEF IndexOK, Resolves, Distinct
  <2>5. MemoryOK
    BY <1>1, <1>2, <2>4, NoFluxOK DEF Init, MemoryOK, ContextOK
  <2>6. ProgressOK /\ ToolOK
    BY <1>2, OrderIs DEF Init, ToolInit, ProgressOK, ToolOK, Idle
  <2>7. QED
    BY <2>3, <2>5, <2>6 DEF BlocksInv
<1>3. CASE OldInit
  <2> DEFINE v == CHOOSE v \in Values : TRUE
             e1 == [kind |-> "ddt", at |-> 1]
             e2 == [kind |-> "ddt_prefix", at |-> 2]
             e3 == [kind |-> "geometry", at |-> 3]
             geometry == [kind |-> "geometry", value |-> v, count |-> 1]
             ix == <<e1, e2, e3>>
             root4 == [kind |-> "index", count |-> 3, value |-> ix]
  <2>1. v \in Values
    BY ValuesAssumption
  <2>2. /\ OldTable("ddt") \in TableBlock /\ OldTable("ddt").kind = "ddt"
        /\ OldTable("ddt_prefix") \in TableBlock /\ OldTable("ddt_prefix").kind = "ddt_prefix"
    BY DEF OldTable, TableBlock, TableKinds
  <2>3. "geometry" \in PlainKinds
    BY KindsAre DEF PlainKinds, Names
  <2>4. geometry \in PlainBlock /\ geometry.kind = "geometry"
    BY <2>1, <2>3 DEF PlainBlock
  <2>5. /\ e1 \in Entry /\ e1.kind = "ddt" /\ e1.at = 1
        /\ e2 \in Entry /\ e2.kind = "ddt_prefix" /\ e2.at = 2
        /\ e3 \in Entry /\ e3.kind = "geometry" /\ e3.at = 3
    BY OtherKinds DEF Entry, BlockKinds
  <2>6. file = <<OldTable("ddt"), OldTable("ddt_prefix"), geometry, root4>>
    BY <1>3 DEF OldInit, OldImage
  <2> HIDE DEF v, e1, e2, e3, geometry
  <2>7. ix \in Seq(Entry) /\ DOMAIN ix = 1..3 /\ ix[1] = e1 /\ ix[2] = e2 /\ ix[3] = e3
    BY <2>5
  <2> HIDE DEF ix
  <2>8. root4 \in IndexBlock /\ root4.kind = "index" /\ root4.value = ix
    BY <2>7 DEF IndexBlock
  <2> HIDE DEF root4
  <2>9. /\ file \in Seq(Cell) /\ Len(file) = 4 /\ DOMAIN file = 1..4
        /\ file[1] = OldTable("ddt") /\ file[2] = OldTable("ddt_prefix")
        /\ file[3] = geometry /\ file[4] = root4
    BY <2>2, <2>4, <2>6, <2>8 DEF Cell
  <2>10. root = 4
    <3>1. root = Len(file)
      BY <1>3 DEF OldInit
    <3>2. QED
      BY <2>9, <3>1
  <2>11. DiskIndex = ix
    BY <2>8, <2>9, <2>10 DEF DiskIndex
  <2>12. \A i \in DOMAIN ix : ix[i].at \in 1..4 /\ file[ix[i].at].kind = ix[i].kind
    BY <2>2, <2>4, <2>5, <2>7, <2>9
  <2>13. Resolves(file, ix)
    BY <2>7, <2>9, <2>12 DEF Resolves
  <2>14. Distinct(ix)
    BY <2>5, <2>7 DEF Distinct
  <2>15. PayloadsRight(file)
    BY <2>2, <2>4, <2>8, <2>9 DEF PayloadsRight
  <2>16. FileOK
    BY <2>8, <2>9, <2>10, <2>11, <2>13, <2>14, <2>15 DEF FileOK, IndexOK
  <2>17. MemoryOK
    BY <1>1, <1>3, EmptyIndexOK, NoFluxOK DEF OldInit, MemoryOK, ContextOK
  <2>18. ProgressOK /\ ToolOK
    BY <1>3, OrderIs DEF OldInit, ToolInit, ProgressOK, ToolOK, Idle
  <2>19. QED
    BY <2>16, <2>17, <2>18 DEF BlocksInv
<1>4. QED
  BY <1>2, <1>3 DEF ToolInit

(***************************************************************************)
(* The steps of the library.                                               *)
(***************************************************************************)
LEMMA IdleKept ==
    ASSUME Idle, UNCHANGED tool
    PROVE  ToolOK'
BY DEF Idle, ToolOK, NoTool

LEMMA EditBlocks ==
    ASSUME BlocksInv, Edited
    PROVE  StepOK
<1>1. /\ file' = file /\ root' = root /\ index' = index /\ flux' = flux
      /\ phase' = phase /\ stage' = stage
  BY DEF Edited, stored
<1>2. DiskIndex' = DiskIndex
  BY <1>1 DEF DiskIndex
<1>3. ContextOK'
  BY DEF Edited, ContextOK
<1>4. QED
  BY <1>1, <1>2, <1>3, NotLonger DEF BlocksInv, FileOK, MemoryOK, ProgressOK, StepOK

LEMMA FlagsInOrder ==
    /\ FlagOf(Order[3]) = "subchannel"
    /\ \A i \in 4..7 : FlagOf(Order[i]) = "dvd_long"
    /\ FlagOf(Order[8]) = "bd_edc" /\ FlagOf(Order[9]) = "title_key"
    /\ \A i \in 10..13 : FlagOf(Order[i]) = "media_tags"
    /\ FlagOf(Order[14]) = "tape_file" /\ FlagOf(Order[15]) = "tape_partition"
    /\ FlagOf(Order[16]) = "geometry" /\ FlagOf(Order[17]) = "metadata"
    /\ FlagOf(Order[18]) = "dumphw" /\ FlagOf(Order[19]) = "cicm"
<1>1. \A i \in 4..7 : Order[i] \in DvdKinds
  BY OrderIs DEF DvdKinds
<1>2. \A i \in 10..13 : Order[i] \in Tags /\ Order[i] \notin DvdKinds
  BY OrderIs DEF DvdKinds, Tags, TypedTags
<1>3. QED
  BY <1>1, <1>2, OrderIs DEF FlagOf, DvdKinds, Tags, TypedTags

(* The stage a writer without memory leaves. *)
LEMMA NoMemoryStage ==
    ASSUME NEW i \in DOMAIN Order, WriterNoMemory(i)
    PROVE  stage' \in DOMAIN Order /\ stage' >= i
<1> DEFINE last(j) == /\ j >= i
                      /\ FlagOf(Order[j]) = FlagOf(Order[i])
                      /\ j = Len(Order) \/ FlagOf(Order[j + 1]) # FlagOf(Order[i])
<1>1. Order[i] \notin {"tracks", "flux", "geometry", "cicm", "json", "dpm"}
  BY DEF WriterNoMemory
<1>2. i \in {3, 8, 9, 14, 15, 17, 18} \cup 4..7 \cup 10..13
  BY <1>1, OrderIs
<1>3. ASSUME i \in {3, 8, 9, 14, 15, 17, 18}
      PROVE  \E j \in DOMAIN Order : last(j)
  <2>1. FlagOf(Order[i + 1]) # FlagOf(Order[i])
    BY <1>3, FlagsInOrder
  <2>2. last(i)
    BY <2>1, OrderIs
  <2>3. QED
    BY <2>2, OrderIs
<1>4. ASSUME i \in 4..7
      PROVE  \E j \in DOMAIN Order : last(j)
  <2>1. last(7)
    BY <1>4, FlagsInOrder
  <2>2. QED
    BY <2>1, OrderIs
<1>5. ASSUME i \in 10..13
      PROVE  \E j \in DOMAIN Order : last(j)
  <2>1. last(13)
    BY <1>5, FlagsInOrder
  <2>2. QED
    BY <2>1, OrderIs
<1>6. \E j \in DOMAIN Order : last(j)
  BY <1>2, <1>3, <1>4, <1>5, OrderIs
<1>7. stage' = CHOOSE j \in DOMAIN Order : last(j)
  BY DEF WriterNoMemory
<1>8. QED
  BY <1>6, <1>7

LEMMA WriterBlocks ==
    ASSUME BlocksInv, WriterStep
    PROVE  StepOK
<1>1. PICK i \in NextWriter : \/ WriteBlock(i) \/ remove_dpm_index_entries(i)
                              \/ WriteBlockFails(i) \/ WriterNoMemory(i)
  BY DEF WriterStep
<1>2. i \in DOMAIN Order /\ Order[i] \in Writers /\ Ready(Order[i])
  BY NextWriterIs DEF BlocksInv, ProgressOK
<1>3. /\ phase' = phase /\ root' = root /\ flux' = flux
      /\ mem' = mem /\ identifier' = identifier /\ dirty' = dirty
  BY <1>1 DEF WriteBlock, remove_dpm_index_entries, WriteBlockFails, WriterNoMemory,
     InFinalise, context
<1>4. ContextOK'
  BY <1>3 DEF BlocksInv, MemoryOK, ContextOK
<1>5. ProgressOK'
  <2>1. stage' \in DOMAIN Order
    BY <1>1, <1>2, NoMemoryStage DEF WriteBlock, remove_dpm_index_entries, WriteBlockFails
  <2>2. QED
    BY <1>3, <2>1, OrderIs DEF BlocksInv, ProgressOK
<1>6. CASE WriteBlock(i)
  <2> DEFINE k == KindOf(Order[i])
             b == Writer(Order[i]).block
  <2>1. /\ b \in PlainBlock \cup MetadataBlock /\ b.kind = k
        /\ Order[i] # "flux"
    BY <1>2, <1>6, WriterBlock DEF WriteBlock, BlocksInv, MemoryOK, ContextOK
  <2>2. k \in Kinds /\ k # "flux"
    BY <1>2, <2>1, KindIs DEF Kinds
  <2>3. /\ file' = Append(file, b)
        /\ index' = Append(OfKinds(index, BlockKinds \ {k}),
                           [kind |-> k, at |-> Len(file) + 1])
    BY <1>6 DEF WriteBlock, WithoutKind
  <2> HIDE DEF b, k
  <2>4. b \in Cell
    BY <2>1 DEF Cell
  <2>5. FileOK' /\ Longer(file, file')
    BY <1>3, <2>1, <2>2, <2>3, <2>4, FileGrowsByOne DEF BlocksInv
  <2>6. Len(file) + 1 \in DOMAIN file' /\ file'[Len(file) + 1] = b
    BY <2>3, <2>4, OneLonger DEF BlocksInv, FileOK
  <2>7. k \in BlockKinds \ {"index", "torn"}
    BY <2>2, OtherKinds DEF BlockKinds
  <2>8. IndexOK(file', index')
    BY <2>1, <2>3, <2>5, <2>6, <2>7, ReplaceOK DEF BlocksInv, MemoryOK
  <2>9. FluxOK(file', flux')
    BY <1>3, <2>5, FluxKept DEF BlocksInv, MemoryOK
  <2>10. QED
    BY <1>4, <1>5, <2>5, <2>8, <2>9 DEF MemoryOK, StepOK
<1>7. CASE remove_dpm_index_entries(i)
  <2>1. file' = file /\ index' = OfKinds(index, BlockKinds \ {"dpm"})
    BY <1>7 DEF remove_dpm_index_entries, WithoutKind
  <2>2. DiskIndex' = DiskIndex
    BY <1>3, <2>1 DEF DiskIndex
  <2>3. IndexOK(file, index')
    BY <2>1, OfKindsOK DEF BlocksInv, MemoryOK
  <2>4. QED
    BY <1>3, <1>4, <1>5, <2>1, <2>2, <2>3, NotLonger DEF BlocksInv, FileOK, MemoryOK, StepOK
<1>8. CASE WriteBlockFails(i)
  <2>1. file' = Append(file, Torn) /\ index' = index
    BY <1>8 DEF WriteBlockFails
  <2>2. FileOK' /\ Longer(file, file')
    BY <1>3, <2>1, TornCell, FileGrowsByOne DEF BlocksInv
  <2>3. MemoryOK'
    BY <1>3, <2>1, <2>2, MemoryKept DEF BlocksInv, context
  <2>4. QED
    BY <1>5, <2>2, <2>3 DEF StepOK
<1>9. CASE WriterNoMemory(i)
  <2>1. file' = file /\ index' = index
    BY <1>9 DEF WriterNoMemory
  <2>2. DiskIndex' = DiskIndex
    BY <1>3, <2>1 DEF DiskIndex
  <2>3. QED
    BY <1>3, <1>4, <1>5, <2>1, <2>2, NotLonger DEF BlocksInv, FileOK, MemoryOK, StepOK
<1>10. QED
  BY <1>1, <1>6, <1>7, <1>8, <1>9

LEMMA IndexBlocks ==
    ASSUME BlocksInv, write_index_block \/ write_index_block_fails
    PROVE  StepOK
<1>1. UNCHANGED <<context, index>> /\ stage' = stage /\ phase' \in {"closed", "writing"}
  BY DEF write_index_block, write_index_block_fails
<1>2. ProgressOK'
  BY <1>1 DEF BlocksInv, ProgressOK
<1>3. CASE write_index_block /\ dirtyIndex
  <2> DEFINE b == [kind |-> "index", value |-> index, count |-> Len(index)]
  <2>1. index \in Seq(Entry) /\ Len(index) \in Nat
    BY DEF BlocksInv, MemoryOK, IndexOK, Resolves
  <2>2. b \in Cell /\ b.kind = "index" /\ b.value = index
    BY <2>1 DEF Cell, IndexBlock
  <2>3. file' = Append(file, b) /\ root' = Len(file')
    BY <1>3 DEF write_index_block
  <2> HIDE DEF b
  <2>4. file \in Seq(Cell) /\ Len(file) \in Nat
    BY DEF BlocksInv, FileOK
  <2>5. Longer(file, file') /\ Len(file') = Len(file) + 1 /\ file'[Len(file) + 1] = b
        /\ file' \in Seq(Cell)
    BY <2>2, <2>3, <2>4, OneLonger DEF Longer
  <2>6. DiskIndex' = index
    BY <2>2, <2>3, <2>4, <2>5 DEF DiskIndex
  <2>7. IndexOK(file', index)
    BY <2>5, IndexKept DEF BlocksInv, MemoryOK
  <2>8. \A a \in DOMAIN file' : a > Len(file) => a = Len(file) + 1
    BY <2>4, <2>5
  <2>9. PayloadsRight(file')
    BY <2>2, <2>5, <2>8, PayloadsKept DEF BlocksInv, FileOK
  <2>10. FileOK'
    BY <2>2, <2>3, <2>4, <2>5, <2>6, <2>7, <2>9 DEF FileOK
  <2>11. MemoryOK'
    BY <1>1, <2>5, MemoryKept DEF BlocksInv
  <2>12. QED
    BY <1>2, <2>5, <2>10, <2>11 DEF StepOK
<1>4. CASE write_index_block /\ ~dirtyIndex
  <2>1. file' = file /\ root' = root
    BY <1>4 DEF write_index_block
  <2>2. DiskIndex' = DiskIndex
    BY <2>1 DEF DiskIndex
  <2>3. QED
    BY <1>1, <1>2, <2>1, <2>2, NotLonger
       DEF BlocksInv, FileOK, MemoryOK, ContextOK, context, StepOK
<1>5. CASE write_index_block_fails
  <2>1. file' = Append(file, Torn) /\ root' = root
    BY <1>5 DEF write_index_block_fails
  <2>2. FileOK' /\ Longer(file, file')
    BY <2>1, TornCell, FileGrowsByOne DEF BlocksInv
  <2>3. MemoryOK'
    BY <1>1, <2>2, MemoryKept DEF BlocksInv
  <2>4. QED
    BY <1>2, <2>2, <2>3 DEF StepOK
<1>6. QED
  BY <1>3, <1>4, <1>5

LEMMA SessionBlocks ==
    ASSUME BlocksInv, BeginClose \/ Crash \/ Resume
    PROVE  StepOK
<1>1. file' = file /\ root' = root
  BY DEF BeginClose, Crash, Resume, stored
<1>2. FileOK'
  <2>1. DiskIndex' = DiskIndex
    BY <1>1 DEF DiskIndex
  <2>2. QED
    BY <1>1, <2>1 DEF BlocksInv, FileOK
<1>3. ProgressOK'
  BY OrderIs DEF BeginClose, Crash, Resume, BlocksInv, ProgressOK
<1>4. MemoryOK'
  <2>1. CASE BeginClose \/ Crash
    BY <2>1, <1>1 DEF BeginClose, Crash, BlocksInv, MemoryOK, ContextOK, context, stored
  <2>2. CASE Resume
    <3>1. Resolves(file, DiskIndex) /\ file \in Seq(Cell)
      BY DEF BlocksInv, FileOK, IndexOK
    <3>2. Loaded \in ContextShape
      BY <3>1, LoadingTyped DEF Loaded
    <3>3. mem' = Loaded.mem /\ identifier' = Loaded.identifier /\ dirty' = Loaded.dirty
          /\ flux' = NoFlux /\ index' = DiskIndex
      BY <2>2 DEF Resume
    <3>4. mem' \in [Slots -> Held] /\ dirty' \subseteq Flags
      BY <3>2, <3>3, FlagsAre DEF ContextShape
    <3>5. identifier' \in BOOLEAN
      <4>1. Loaded.identifier \in BOOLEAN
        BY <3>2 DEF ContextShape
      <4>2. QED
        BY Zenon, <3>3, <4>1
    <3>6. ContextOK'
      BY <3>4, <3>5 DEF ContextOK
    <3>7. QED
      BY <1>1, <3>3, <3>6, NoFluxOK DEF MemoryOK, BlocksInv, FileOK
  <2>3. QED
    BY <2>1, <2>2
<1>5. QED
  BY <1>1, <1>2, <1>3, <1>4, NotLonger, FileIsSeq DEF StepOK

(***************************************************************************)
(* The steps of the flux captures.                                         *)
(***************************************************************************)

(* The file behind m payloads of the queue and a last block. *)
WithPayloads(f, caps, m, b) ==
    Append(f \o [i \in 1..m |-> write_flux_capture_payload(caps[i])], b)

LEMMA FluxFile ==
    ASSUME NEW f \in Seq(Cell), NEW caps \in Seq(Capture), NEW m \in 0..Len(caps),
           NEW b \in Cell
    PROVE  /\ Longer(f, WithPayloads(f, caps, m, b))
           /\ Len(WithPayloads(f, caps, m, b)) = Len(f) + m + 1
           /\ \A i \in 1..m : WithPayloads(f, caps, m, b)[Len(f) + i] =
                                 write_flux_capture_payload(caps[i])
           /\ WithPayloads(f, caps, m, b)[Len(f) + m + 1] = b
<1> DEFINE p == [i \in 1..m |-> write_flux_capture_payload(caps[i])]
           h == f \o p
           g == WithPayloads(f, caps, m, b)
<1>1. \A i \in 1..m : write_flux_capture_payload(caps[i]) \in Cell
  BY DEF write_flux_capture_payload, PayloadBlock, Cell
<1>2. p \in Seq(Cell) /\ Len(p) = m /\ \A i \in 1..m : p[i] = write_flux_capture_payload(caps[i])
  BY <1>1
<1>3. g = Append(h, b)
  BY DEF WithPayloads
<1> HIDE DEF p
<1>4. /\ h \in Seq(Cell) /\ Len(h) = Len(f) + m
      /\ \A i \in 1..Len(f) : h[i] = f[i]
      /\ \A i \in 1..m : h[Len(f) + i] = p[i]
  BY <1>2
<1> HIDE DEF h, g
<1>5. /\ g \in Seq(Cell) /\ Len(g) = Len(h) + 1 /\ g[Len(h) + 1] = b
      /\ \A i \in 1..Len(h) : g[i] = h[i]
  BY <1>3, <1>4
<1>6. Len(h) = Len(f) + m /\ Len(f) \in Nat /\ m \in Nat
  BY <1>4
<1>7. \A i \in 1..m : Len(f) + i \in 1..Len(h)
  BY <1>6
<1>8. \A i \in 1..m : g[Len(f) + i] = write_flux_capture_payload(caps[i])
  BY <1>2, <1>4, <1>5, <1>7
<1>9. \A i \in 1..Len(f) : i \in 1..Len(h)
  BY <1>6
<1>10. \A i \in 1..Len(f) : g[i] = f[i]
  BY <1>4, <1>5, <1>9
<1>11. QED
  BY <1>5, <1>6, <1>8, <1>10 DEF Longer, g

LEMMA PayloadIs ==
    \A c : write_flux_capture_payload(c).kind = "flux_payload"
           /\ write_flux_capture_payload(c).value = c
BY DEF write_flux_capture_payload

(* What a step of the flux captures that writes nothing leaves alone. *)
LEMMA FluxMemory ==
    ASSUME BlocksInv, UNCHANGED <<mem, identifier, stored, phase, stage>>,
           dirty' \subseteq Flags, FluxOK(file, flux')
    PROVE  StepOK
<1>1. DiskIndex' = DiskIndex
  BY DEF stored, DiskIndex
<1>2. ContextOK'
  BY DEF BlocksInv, MemoryOK, ContextOK
<1>3. QED
  BY <1>1, <1>2, NotLonger DEF stored, BlocksInv, FileOK, MemoryOK, ProgressOK, StepOK

LEMMA QueuedOK ==
    ASSUME BlocksInv
    PROVE  /\ flux.captures \in Seq(Capture) /\ flux.entries \in Seq(FluxEntry)
           /\ flux.map \in [Keys -> Nat] /\ flux.latest \in [Keys -> Held]
           /\ Len(flux.captures) \in Nat /\ dirty \subseteq Flags
           /\ flux \in FluxShape
BY DEF BlocksInv, MemoryOK, FluxOK, FluxShape, ContextOK

(* The entries of the queue. *)
LEMMA QueuedEntries ==
    ASSUME BlocksInv
    PROVE  /\ SubSeq(flux.entries, 1, Len(flux.captures)) \in Seq(FluxEntry)
           /\ Len(SubSeq(flux.entries, 1, Len(flux.captures))) = Len(flux.captures)
           /\ \A i \in 1..Len(flux.captures) :
                 SubSeq(flux.entries, 1, Len(flux.captures))[i].at = 0
<1> DEFINE q == Len(flux.captures)
           es == flux.entries
<1>1. es \in Seq(FluxEntry) /\ q \in Nat
  BY QueuedOK
<1>2. q = 0 \/ (Len(es) = q /\ \A i \in DOMAIN es : es[i].at = 0)
  <2>1. flux.captures = <<>> => q = 0
    OBVIOUS
  <2>2. QED
    BY <2>1 DEF BlocksInv, MemoryOK, FluxOK
<1> HIDE DEF q, es
<1>3. CASE q = 0
  BY <1>1, <1>3 DEF q, es
<1>4. CASE Len(es) = q /\ \A i \in DOMAIN es : es[i].at = 0
  <2>1. /\ SubSeq(es, 1, q) \in Seq(FluxEntry) /\ Len(SubSeq(es, 1, q)) = q
        /\ \A i \in 1..q : SubSeq(es, 1, q)[i] = es[i]
    BY <1>1, <1>4
  <2>2. \A i \in 1..q : i \in DOMAIN es
    BY <1>1, <1>4
  <2>3. QED
    BY <1>4, <2>1, <2>2 DEF q, es
<1>5. QED
  BY <1>2, <1>3, <1>4

LEMMA CaptureBlocks ==
    ASSUME BlocksInv, NEW k \in Keys, NEW v \in Values, write_flux_capture(k, v)
    PROVE  StepOK
<1> DEFINE q == Len(flux.captures)
           old == SubSeq(flux.entries, 1, q)
           c == [key |-> k, value |-> v]
           e == [key |-> k, at |-> 0]
<1>1. old \in Seq(FluxEntry) /\ Len(old) = q /\ \A i \in 1..q : old[i].at = 0
  BY QueuedEntries
<1>2. q \in Nat /\ c \in Capture /\ e \in FluxEntry /\ e.at = 0
  BY QueuedOK DEF Capture, FluxEntry
<1>3. flux' = [captures |-> Append(flux.captures, c), entries |-> Append(old, e),
               map |-> flux_map_add(flux.map, k, q + 1),
               latest |-> [flux.latest EXCEPT ![k] = v]]
  BY DEF write_flux_capture
<1>4. UNCHANGED <<mem, identifier, stored, phase, stage>> /\ dirty' = dirty \cup {"flux"}
  BY DEF write_flux_capture, FluxEdit
<1>5. flux_map_add(flux.map, k, q + 1) \in [Keys -> Nat]
  BY <1>2, QueuedOK DEF flux_map_add
<1>6. [flux.latest EXCEPT ![k] = v] \in [Keys -> Held]
  BY QueuedOK DEF Held
<1> HIDE DEF old, c, e
<1>7. /\ Append(flux.captures, c) \in Seq(Capture)
      /\ Len(Append(flux.captures, c)) = q + 1
  BY <1>2, QueuedOK
<1>8. /\ Append(old, e) \in Seq(FluxEntry) /\ Len(Append(old, e)) = q + 1
      /\ \A i \in 1..(q + 1) : Append(old, e)[i].at = 0
  <2>1. /\ Append(old, e) \in Seq(FluxEntry) /\ Len(Append(old, e)) = q + 1
        /\ \A i \in 1..q : Append(old, e)[i] = old[i]
        /\ Append(old, e)[q + 1] = e
    BY <1>1, <1>2
  <2>2. \A i \in 1..(q + 1) : i \in 1..q \/ i = q + 1
    BY <1>2
  <2>3. QED
    BY <1>1, <1>2, <2>1, <2>2
<1>9. DOMAIN Append(old, e) = 1..(q + 1)
  BY <1>8
<1>10. flux'.captures # <<>>
  BY <1>2, <1>3, <1>7
<1>11. flux' \in FluxShape
  BY <1>3, <1>5, <1>6, <1>7, <1>8 DEF FluxShape
<1>12. EntriesRight(file, flux'.entries)
  BY <1>3, <1>8, <1>9 DEF EntriesRight, EntryRight
<1>13. FluxOK(file, flux')
  BY <1>3, <1>7, <1>8, <1>9, <1>10, <1>11, <1>12 DEF FluxOK
<1>14. dirty' \subseteq Flags
  BY <1>4, QueuedOK, FlagsAre
<1>15. QED
  BY <1>4, <1>13, <1>14, FluxMemory

LEMMA CaptureNoMemoryBlocks ==
    ASSUME BlocksInv, NEW k \in Keys, write_flux_capture_no_memory(k)
    PROVE  StepOK
<1> DEFINE q == Len(flux.captures)
           old == SubSeq(flux.entries, 1, q)
<1>1. old \in Seq(FluxEntry) /\ Len(old) = q /\ \A i \in 1..q : old[i].at = 0
  BY QueuedEntries
<1>2. flux' = [flux EXCEPT !.entries = old]
  BY DEF write_flux_capture_no_memory
<1>3. UNCHANGED <<mem, identifier, stored, phase, stage>> /\ dirty' = dirty \cup {"flux"}
  BY DEF write_flux_capture_no_memory, FluxEdit
<1> HIDE DEF old
<1>4. /\ flux' \in FluxShape /\ flux'.entries = old /\ flux'.captures = flux.captures
      /\ flux'.map = flux.map
  BY <1>1, <1>2, QueuedOK DEF FluxShape
<1>5. DOMAIN old = 1..q /\ q \in Nat /\ (flux.captures = <<>> => q = 0)
  BY <1>1, QueuedOK
<1>6. EntriesRight(file, old)
  BY <1>1, <1>5 DEF EntriesRight, EntryRight
<1>7. FluxOK(file, flux')
  BY <1>1, <1>4, <1>5, <1>6 DEF FluxOK
<1>8. QED
  BY <1>3, <1>7, QueuedOK, FlagsAre, FluxMemory

LEMMA FluxBlocksWritten ==
    ASSUME BlocksInv, write_flux_blocks
    PROVE  StepOK
<1> DEFINE n == Len(flux.captures)
           caps == flux.captures
           es == [i \in 1..n |-> [key |-> caps[i].key, at |-> Len(file) + i]]
           b == [kind |-> "flux", value |-> es, count |-> n]
           new == [i \in 1..n + 1 |-> [kind |-> IF i <= n THEN "flux_payload" ELSE "flux",
                                       at   |-> Len(file) + i]]
<1>1. /\ file' = WithPayloads(file, caps, n, b)
      /\ index' = index \o new
      /\ flux' = [flux EXCEPT !.captures = <<>>, !.entries = es,
                              !.map = flux_map_rebuild_from_entries(es)]
  BY DEF write_flux_blocks, WithPayloads
<1>2. /\ UNCHANGED <<mem, identifier, dirty, phase, root>>
      /\ stage' = FluxStage /\ FluxStage \in NextWriter
  BY DEF write_flux_blocks
<1>3. file \in Seq(Cell) /\ Len(file) \in Nat /\ n \in Nat /\ caps \in Seq(Capture)
      /\ n \in 0..Len(caps)
  BY QueuedOK DEF BlocksInv, FileOK
<1>4. \A i \in 1..n : caps[i] \in Capture /\ caps[i].key \in Keys
  <2> HIDE DEF caps
  <2>1. \A i \in 1..n : caps[i] \in Capture
    BY <1>3
  <2>2. QED
    BY <2>1 DEF Capture
<1> HIDE DEF n, caps
<1>5. /\ es \in Seq(FluxEntry) /\ DOMAIN es = 1..n
      /\ \A i \in 1..n : es[i].key = caps[i].key /\ es[i].at = Len(file) + i
  <2>1. \A i \in 1..n : [key |-> caps[i].key, at |-> Len(file) + i] \in FluxEntry
    BY <1>3, <1>4 DEF FluxEntry
  <2>2. QED
    BY <1>3, <2>1
<1>6. /\ new \in Seq(Entry) /\ DOMAIN new = 1..(n + 1)
      /\ \A i \in 1..(n + 1) : /\ new[i].kind = IF i <= n THEN "flux_payload" ELSE "flux"
                               /\ new[i].at = Len(file) + i
  <2>1. \A i \in 1..(n + 1) :
           [kind |-> IF i <= n THEN "flux_payload" ELSE "flux", at |-> Len(file) + i] \in Entry
    BY <1>3, OtherKinds DEF Entry, BlockKinds
  <2>2. new \in [1..(n + 1) -> Entry]
    BY <2>1
  <2>3. \A i \in 1..(n + 1) : /\ new[i].kind = IF i <= n THEN "flux_payload" ELSE "flux"
                              /\ new[i].at = Len(file) + i
    OBVIOUS
  <2> HIDE DEF new
  <2>4. QED
    BY <1>3, <2>2, <2>3
<1> HIDE DEF es, new
<1>7. b \in Cell /\ b.kind = "flux" /\ b.value = es
  BY <1>3, <1>5 DEF Cell, FluxBlock
<1> HIDE DEF b
<1>8. /\ Longer(file, file')
      /\ Len(file') = Len(file) + n + 1
      /\ \A i \in 1..n : file'[Len(file) + i] = write_flux_capture_payload(caps[i])
      /\ file'[Len(file) + n + 1] = b
  BY <1>1, <1>3, <1>7, FluxFile
<1>9. file' \in Seq(Cell) /\ DOMAIN file' = 1..(Len(file) + n + 1)
  BY <1>8, LongerDomain
<1>10. \A i \in 1..n : /\ Len(file) + i \in DOMAIN file'
                       /\ file'[Len(file) + i].kind = "flux_payload"
                       /\ file'[Len(file) + i].value = caps[i]
  BY <1>3, <1>8, <1>9, PayloadIs
<1>11. EntriesRight(file', es)
  BY <1>5, <1>10 DEF EntriesRight, EntryRight
<1>12. \A a \in DOMAIN file' : a > Len(file) =>
           a = Len(file) + n + 1 \/ (a - Len(file) \in 1..n /\ a = Len(file) + (a - Len(file)))
  BY <1>3, <1>9
<1>13. \A a \in DOMAIN file' : a > Len(file) /\ file'[a].kind = "flux"
                                  => EntriesRight(file', file'[a].value)
  BY <1>7, <1>8, <1>10, <1>11, <1>12
<1>14. FileOK'
  BY <1>2, <1>8, <1>13, FileGrows DEF BlocksInv
<1>15. IndexOK(file', index')
  <2>1. IndexOK(file', index)
    BY <1>8, IndexKept DEF BlocksInv, MemoryOK
  <2>2. Len(file) + n + 1 \in DOMAIN file' /\ Len(file) + (n + 1) = Len(file) + n + 1
    BY <1>3, <1>9
  <2>3. \A i \in 1..(n + 1) : (i <= n /\ i \in 1..n) \/ (~(i <= n) /\ i = n + 1)
    BY <1>3
  <2>4. \A i \in DOMAIN new : /\ new[i].at \in DOMAIN file'
                              /\ file'[new[i].at].kind = new[i].kind
                              /\ new[i].kind \in {"flux", "flux_payload"}
    BY <1>6, <1>7, <1>8, <1>10, <2>2, <2>3
  <2>5. QED
    BY <1>1, <1>6, <1>9, <2>1, <2>4, ConcatOK
<1>16. FluxOK(file', flux')
  BY <1>1, <1>11, QueuedOK, RebuiltOK
<1>17. MemoryOK'
  BY <1>2, <1>15, <1>16 DEF BlocksInv, MemoryOK, ContextOK
<1>18. ProgressOK'
  <2>1. stage' \in DOMAIN Order
    BY <1>2, NextWriterIs DEF BlocksInv, ProgressOK
  <2>2. QED
    BY <1>2, <2>1, OrderIs DEF BlocksInv, ProgressOK
<1>19. QED
  BY <1>8, <1>14, <1>17, <1>18 DEF StepOK

LEMMA FluxBlocksFail ==
    ASSUME BlocksInv, NEW m \in 0..MaxEdits, write_flux_blocks_fails(m)
    PROVE  StepOK
<1> DEFINE caps == flux.captures
           new == [i \in 1..m |-> [kind |-> "flux_payload", at |-> Len(file) + i]]
<1>1. /\ file' = WithPayloads(file, caps, m, Torn)
      /\ index' = index \o new
  BY DEF write_flux_blocks_fails, WithPayloads
<1>2. /\ UNCHANGED <<context, root>> /\ phase' = "writing"
      /\ stage' = FluxStage /\ FluxStage \in NextWriter /\ m <= Len(caps)
  BY DEF write_flux_blocks_fails
<1>3. file \in Seq(Cell) /\ Len(file) \in Nat /\ m \in Nat /\ caps \in Seq(Capture)
      /\ m \in 0..Len(caps)
  BY <1>2, QueuedOK, EffortAssumption DEF BlocksInv, FileOK
<1> HIDE DEF caps
<1>4. /\ new \in Seq(Entry) /\ DOMAIN new = 1..m
      /\ \A i \in 1..m : new[i].kind = "flux_payload" /\ new[i].at = Len(file) + i
  <2>1. \A i \in 1..m : [kind |-> "flux_payload", at |-> Len(file) + i] \in Entry
    BY <1>3 DEF Entry, BlockKinds
  <2>2. new \in [1..m -> Entry]
    BY <2>1
  <2>3. \A i \in 1..m : new[i].kind = "flux_payload" /\ new[i].at = Len(file) + i
    OBVIOUS
  <2> HIDE DEF new
  <2>4. QED
    BY <1>3, <2>2, <2>3
<1> HIDE DEF new
<1>5. /\ Longer(file, file')
      /\ Len(file') = Len(file) + m + 1
      /\ \A i \in 1..m : file'[Len(file) + i] = write_flux_capture_payload(caps[i])
      /\ file'[Len(file) + m + 1] = Torn
  <2>1. Torn \in Cell
    BY TornCell
  <2>2. QED
    BY <1>1, <1>3, <2>1, FluxFile
<1>6. file' \in Seq(Cell) /\ DOMAIN file' = 1..(Len(file) + m + 1)
  BY <1>5, LongerDomain
<1>7. \A i \in 1..m : /\ Len(file) + i \in DOMAIN file'
                      /\ file'[Len(file) + i].kind = "flux_payload"
  BY <1>3, <1>5, <1>6, PayloadIs
<1>8. \A a \in DOMAIN file' : a > Len(file) =>
          a = Len(file) + m + 1 \/ (a - Len(file) \in 1..m /\ a = Len(file) + (a - Len(file)))
  BY <1>3, <1>6
<1>9. \A a \in DOMAIN file' : a > Len(file) => file'[a].kind # "flux"
  BY <1>5, <1>7, <1>8, TornCell
<1>10. FileOK'
  BY <1>2, <1>5, <1>9, FileGrows DEF BlocksInv
<1>11. IndexOK(file', index')
  <2>1. IndexOK(file', index)
    BY <1>5, IndexKept DEF BlocksInv, MemoryOK
  <2>2. \A i \in DOMAIN new : /\ new[i].at \in DOMAIN file'
                              /\ file'[new[i].at].kind = new[i].kind
                              /\ new[i].kind \in {"flux", "flux_payload"}
    BY <1>4, <1>7
  <2>3. QED
    BY <1>1, <1>4, <1>6, <2>1, <2>2, ConcatOK
<1>12. MemoryOK'
  <2>1. FluxOK(file', flux)
    BY <1>5, FluxKept DEF BlocksInv, MemoryOK
  <2>2. QED
    BY <1>2, <1>11, <2>1 DEF context, BlocksInv, MemoryOK, ContextOK
<1>13. ProgressOK'
  <2>1. stage' \in DOMAIN Order
    BY <1>2, NextWriterIs DEF BlocksInv, ProgressOK
  <2>2. QED
    BY <1>2, <2>1, OrderIs DEF BlocksInv, ProgressOK
<1>14. QED
  BY <1>5, <1>10, <1>12, <1>13 DEF StepOK

LEMMA FluxStepBlocks ==
    ASSUME BlocksInv, FluxStep
    PROVE  StepOK
<1>1. CASE clear_flux_captures
  BY <1>1, NoFluxOK, QueuedOK, FluxMemory DEF clear_flux_captures, FluxEdit
<1>2. CASE get_flux_captures
  <2>1. FluxOK(file, flux')
    BY <1>2, EnsureOK DEF get_flux_captures, BlocksInv, FileOK, MemoryOK
  <2>2. QED
    BY <1>2, <2>1, QueuedOK, FluxMemory DEF get_flux_captures
<1>3. QED
  BY <1>1, <1>2, CaptureBlocks, CaptureNoMemoryBlocks, FluxBlocksWritten,
     FluxBlocksFail DEF FluxStep

(***************************************************************************)
(* The steps of the commands.                                              *)
(***************************************************************************)
LEMMA MemoryUntouched ==
    ASSUME BlocksInv, UNCHANGED <<context, index, stage>>, phase' \in {phase, "ended"},
           FileOK', Longer(file, file')
    PROVE  MemoryOK' /\ ProgressOK'
<1>1. MemoryOK'
  BY MemoryKept DEF BlocksInv
<1>2. QED
  BY <1>1 DEF BlocksInv, ProgressOK

LEMMA CommandStarts ==
    ASSUME BlocksInv, NEW t, ToolStarts(t),
           t \in Command, IndexOK(file, t.entries), t.at = 0,
           \A j \in DOMAIN t.todo :
              t.todo[j].kind \in Kinds =>
                  /\ Len(t.todo) = 1
                  /\ \A i \in DOMAIN t.entries : t.entries[i].kind # t.todo[j].kind
    PROVE  BlocksInv' /\ Longer(file, file')
<1>1. tool' = t /\ phase' = "ended" /\ UNCHANGED <<file, root, context, index, stage>>
  BY DEF ToolStarts, ToolRuns
<1>2. DiskIndex' = DiskIndex
  BY <1>1 DEF DiskIndex
<1>3. FileOK' /\ Longer(file, file')
  BY <1>1, <1>2, NotLonger DEF BlocksInv, FileOK
<1>4. MemoryOK' /\ ProgressOK'
  BY <1>1, <1>3, MemoryUntouched
<1>5. TodoOK'
  BY <1>1 DEF TodoOK
<1>6. Len(file) \in Nat
  BY DEF BlocksInv, FileOK
<1>7. ToolOK'
  BY <1>1, <1>5, <1>6 DEF ToolOK
<1>8. QED
  BY <1>3, <1>4, <1>7 DEF BlocksInv

LEMMA InjectBlocks ==
    ASSUME BlocksInv, NEW t \in InjectedTags, NEW v \in InjectedValues, inject_media_tag(t, v)
    PROVE  BlocksInv' /\ Longer(file, file')
<1> DEFINE k == get_datatype_for_media_tag_type(t)
           b == [kind |-> k, value |-> v, count |-> 1]
           new == [slot |-> t, value |-> v, at |-> 0, entries |-> EntriesWithout(k),
                   todo |-> <<b>>]
<1>1. k # "none" /\ ToolStarts(new)
  BY DEF inject_media_tag
<1>2. k \in TypedTags
  BY <1>1 DEF get_datatype_for_media_tag_type
<1>3. k \in PlainKinds
  BY <1>2, OtherKinds DEF PlainKinds, TypedTags
<1> HIDE DEF k
<1>4. b \in PlainBlock /\ b.kind = k
  BY <1>3, InjectedAssumption DEF PlainBlock
<1> HIDE DEF b
<1>5. <<b>> \in Seq(PlainBlock \cup TableBlock) /\ DOMAIN <<b>> = {1} /\ <<b>>[1] = b
      /\ Len(<<b>>) = 1
  BY <1>4
<1>6. /\ IndexOK(file, EntriesWithout(k))
      /\ \A i \in DOMAIN EntriesWithout(k) : EntriesWithout(k)[i].kind \in BlockKinds \ {k}
  BY OfKindsOK DEF EntriesWithout, BlocksInv, FileOK
<1>7. new.todo = <<b>> /\ new.entries = EntriesWithout(k) /\ new.at = 0
  OBVIOUS
<1>8. new \in Command
  <2>1. EntriesWithout(k) \in Seq(Entry)
    BY <1>6 DEF IndexOK, Resolves
  <2>2. t \in Tags /\ v \in Held
    BY InjectedAssumption DEF Held
  <2>3. QED
    BY <1>5, <2>1, <2>2 DEF Command
<1> HIDE DEF new
<1>9. QED
  BY <1>1, <1>4, <1>5, <1>6, <1>7, <1>8, CommandStarts

LEMMA UpgradeBlocks ==
    ASSUME BlocksInv, upgrade_ddt_to_alpha21
    PROVE  BlocksInv' /\ Longer(file, file')
<1> DEFINE todo == [i \in DOMAIN Tables |-> NewTable(file[Tables[i].at])]
           entries == OfKinds(DiskIndex, BlockKinds \ TableKinds)
           new == [slot |-> None, value |-> None, at |-> 0, entries |-> entries, todo |-> todo]
<1>1. ToolStarts(new)
  BY DEF upgrade_ddt_to_alpha21
<1>2. IndexOK(file, entries)
  BY OfKindsOK DEF BlocksInv, FileOK
<1>3. IndexOK(file, Tables) /\ \A i \in DOMAIN Tables : Tables[i].kind \in TableKinds
  BY OfKindsOK DEF Tables, BlocksInv, FileOK
<1>4. /\ Tables \in Seq(Entry) /\ file \in Seq(Cell)
      /\ \A i \in DOMAIN Tables : /\ Tables[i].at \in DOMAIN file
                                  /\ file[Tables[i].at].kind \in TableKinds
  BY <1>3 DEF IndexOK, Resolves, BlocksInv, FileOK
<1>5. \A i \in DOMAIN Tables : file[Tables[i].at] \in TableBlock
  BY <1>4, CellKinds
<1>6. \A b \in TableBlock : NewTable(b) \in TableBlock /\ NewTable(b).kind \in TableKinds
  BY DEF NewTable, TableBlock
<1>7. todo \in [1..Len(Tables) -> TableBlock]
  BY <1>4, <1>5, <1>6
<1>8. todo \in Seq(PlainBlock \cup TableBlock) /\ \A j \in DOMAIN todo : todo[j].kind \in TableKinds
  <2>1. Len(Tables) \in Nat
    BY <1>4
  <2>2. \A b \in TableBlock : b.kind \in TableKinds
    BY DEF TableBlock
  <2> HIDE DEF todo
  <2>3. \A j \in DOMAIN todo : todo[j] \in TableBlock
    BY <1>7
  <2>4. QED
    BY <1>7, <2>1, <2>2, <2>3
<1>9. \A j \in DOMAIN todo : todo[j].kind \notin Kinds
  BY <1>8, OtherKinds DEF TableKinds
<1> HIDE DEF todo, entries
<1>10. new.todo = todo /\ new.entries = entries /\ new.at = 0
  OBVIOUS
<1>11. new \in Command
  <2>1. entries \in Seq(Entry)
    BY <1>2 DEF IndexOK, Resolves
  <2>2. QED
    BY <1>8, <2>1 DEF Command, Held
<1> HIDE DEF new
<1>12. QED
  BY <1>1, <1>2, <1>8, <1>9, <1>10, <1>11, CommandStarts

LEMMA AppendBlocks ==
    ASSUME BlocksInv, ~Idle, AppendBlock
    PROVE  BlocksInv' /\ Longer(file, file')
<1> DEFINE b == Head(tool.todo)
           e == [kind |-> b.kind, at |-> Len(file) + 1]
<1>1. /\ phase = "ended" /\ TodoOK /\ IndexOK(file, tool.entries)
      /\ tool.at \in 0..Len(file)
      /\ tool.at = 0
  BY DEF BlocksInv, ToolOK, AppendBlock
<1>2. /\ tool \in Command /\ tool.todo \in Seq(PlainBlock \cup TableBlock)
      /\ tool.entries \in Seq(Entry) /\ tool.todo # <<>>
      /\ file' = Append(file, b)
      /\ UNCHANGED <<root, phase, context, index, stage>>
  BY <1>1 DEF AppendBlock, ToolRuns, TodoOK, Command
<1>3. /\ b \in PlainBlock \cup TableBlock /\ b = tool.todo[1] /\ 1 \in DOMAIN tool.todo
      /\ Tail(tool.todo) \in Seq(PlainBlock \cup TableBlock)
  BY <1>2
<1>4. b \in Cell /\ b.kind \in PlainKinds \cup TableKinds
  BY <1>3 DEF Cell, PlainBlock, TableBlock
<1>5. b.kind # "flux" /\ b.kind \in BlockKinds \ {"index", "torn"}
  BY <1>4, OtherKinds DEF PlainKinds, TableKinds, BlockKinds
<1>6. FileOK' /\ Longer(file, file')
  BY <1>2, <1>4, <1>5, FileGrowsByOne DEF BlocksInv
<1>7. MemoryOK' /\ ProgressOK'
  BY <1>2, <1>6, MemoryUntouched
<1>8. /\ Len(file) + 1 \in DOMAIN file' /\ file'[Len(file) + 1] = b
      /\ Len(file') = Len(file) + 1
      /\ Len(file) \in Nat /\ file \in Seq(Cell) /\ file' \in Seq(Cell)
      /\ \A i \in 1..Len(file) : file'[i] = file[i]
  BY <1>2, <1>4, OneLonger, <1>6 DEF BlocksInv, FileOK, Longer
<1>9. /\ tool' \in Command /\ tool'.todo = Tail(tool.todo)
      /\ tool'.entries = Append(tool.entries, e) /\ tool'.at = tool.at
  <2>1. e \in Entry
    BY <1>5, <1>8 DEF Entry
  <2>2. tool' = [tool EXCEPT !.todo = Tail(tool.todo), !.entries = Append(tool.entries, e)]
    BY DEF AppendBlock
  <2> HIDE DEF e
  <2>3. Append(tool.entries, e) \in Seq(Entry)
    BY <1>2, <2>1
  <2>4. QED
    BY <1>2, <1>3, <2>2, <2>3 DEF Command
<1>10. b.kind \in Kinds => /\ Len(tool.todo) = 1
                           /\ \A i \in DOMAIN tool.entries : tool.entries[i].kind # b.kind
  BY <1>1, <1>3 DEF TodoOK
<1> HIDE DEF b
<1>11. IndexOK(file', tool'.entries)
  <2>1. IndexOK(file', tool.entries)
    BY <1>1, <1>6, IndexKept
  <2>2. QED
    BY <1>5, <1>8, <1>9, <1>10, <2>1, AppendOK
<1>12. TodoOK'
  <2>1. ASSUME NEW j \in DOMAIN tool'.todo, tool'.todo[j].kind \in Kinds
        PROVE  FALSE
    <3>1. /\ j \in Nat /\ j + 1 \in DOMAIN tool.todo /\ tool'.todo[j] = tool.todo[j + 1]
          /\ Len(tool.todo) # 1
      BY <1>2, <1>9
    <3>2. QED
      BY <1>1, <2>1, <3>1 DEF TodoOK
  <2>2. QED
    BY <1>9, <2>1 DEF TodoOK
<1>13. ToolOK'
  BY <1>1, <1>2, <1>8, <1>9, <1>11, <1>12 DEF ToolOK
<1>14. QED
  BY <1>6, <1>7, <1>13 DEF BlocksInv

LEMMA AppendIndexBlocks ==
    ASSUME BlocksInv, ~Idle, AppendIndex
    PROVE  BlocksInv' /\ Longer(file, file')
<1> DEFINE b == [kind |-> "index", value |-> tool.entries, count |-> Len(tool.entries)]
<1>1. phase = "ended" /\ TodoOK /\ IndexOK(file, tool.entries)
  BY DEF BlocksInv, ToolOK
<1>2. /\ tool \in Command /\ tool.entries \in Seq(Entry) /\ tool.todo = <<>>
      /\ file' = Append(file, b)
      /\ tool' = [tool EXCEPT !.at = Len(file) + 1]
      /\ UNCHANGED <<root, phase, context, index, stage>>
  BY <1>1 DEF AppendIndex, ToolRuns, TodoOK, Command
<1>3. b \in Cell /\ b.kind = "index" /\ b.value = tool.entries
  BY <1>2 DEF Cell, IndexBlock
<1> HIDE DEF b
<1>4. FileOK' /\ Longer(file, file')
  BY <1>2, <1>3, FileGrowsByOne DEF BlocksInv
<1>5. MemoryOK' /\ ProgressOK'
  BY <1>2, <1>4, MemoryUntouched
<1>6. /\ file'[Len(file) + 1] = b /\ Len(file') = Len(file) + 1
      /\ Len(file) \in Nat
  BY <1>2, <1>3, OneLonger DEF BlocksInv, FileOK
<1>7. /\ tool' \in Command /\ tool'.todo = tool.todo /\ tool'.entries = tool.entries
      /\ tool'.at = Len(file) + 1
  BY <1>2, <1>6 DEF Command
<1>8. IndexOK(file', tool.entries)
  BY <1>1, <1>4, IndexKept
<1>9. TodoOK'
  BY <1>1, <1>7 DEF TodoOK
<1>10. ToolOK'
  BY <1>1, <1>2, <1>3, <1>6, <1>7, <1>8, <1>9 DEF ToolOK
<1>11. QED
  BY <1>4, <1>5, <1>10 DEF BlocksInv

LEMMA HeaderBlocks ==
    ASSUME BlocksInv, ~Idle, RewriteHeader
    PROVE  BlocksInv' /\ Longer(file, file')
<1>1. /\ IndexOK(file, tool.entries) /\ tool.at \in 0..Len(file) /\ tool.at # 0
      /\ file[tool.at].kind = "index" /\ file[tool.at].value = tool.entries
  BY DEF BlocksInv, ToolOK, RewriteHeader
<1>2. /\ root' = tool.at /\ tool' = NoTool
      /\ UNCHANGED <<file, phase, context, index, stage>>
  BY DEF RewriteHeader, ToolRuns
<1>3. DiskIndex' = tool.entries
  BY <1>1, <1>2 DEF DiskIndex
<1>4. FileOK' /\ Longer(file, file')
  BY <1>1, <1>2, <1>3, NotLonger DEF BlocksInv, FileOK
<1>5. MemoryOK' /\ ProgressOK'
  BY <1>2, <1>4, MemoryUntouched
<1>6. ToolOK'
  BY <1>2 DEF ToolOK, Idle, NoTool
<1>7. QED
  BY <1>4, <1>5, <1>6 DEF BlocksInv

LEMMA FailedCommandBlocks ==
    ASSUME BlocksInv, NEW appended \in {<<>>, <<Torn>>}, ToolFails(appended)
    PROVE  BlocksInv' /\ Longer(file, file')
<1>1. /\ file' = file \o appended /\ tool' = NoTool
      /\ UNCHANGED <<root, phase, context, index, stage>>
  BY DEF ToolFails, ToolRuns
<1>2. file \in Seq(Cell)
  BY DEF BlocksInv, FileOK
<1>3. FileOK' /\ Longer(file, file')
  <2>1. CASE appended = <<>>
    <3>1. file' = file
      BY <1>1, <1>2, <2>1
    <3>2. DiskIndex' = DiskIndex
      BY <1>1, <3>1 DEF DiskIndex
    <3>3. QED
      BY <1>1, <1>2, <3>1, <3>2, NotLonger DEF BlocksInv, FileOK
  <2>2. CASE appended = <<Torn>>
    <3>1. Torn \in Cell /\ Torn.kind # "flux"
      BY TornCell
    <3>2. file' = Append(file, Torn)
      BY <1>1, <1>2, <2>2, <3>1
    <3>3. QED
      BY <1>1, <3>1, <3>2, FileGrowsByOne DEF BlocksInv
  <2>3. QED
    BY <2>1, <2>2
<1>4. MemoryOK' /\ ProgressOK'
  BY <1>1, <1>3, MemoryUntouched
<1>5. ToolOK'
  BY <1>1 DEF ToolOK, Idle, NoTool
<1>6. QED
  BY <1>3, <1>4, <1>5 DEF BlocksInv

LEMMA ToolStepBlocks ==
    ASSUME BlocksInv, ToolStep
    PROVE  BlocksInv' /\ Longer(file, file')
<1>1. CASE inject_block \/ upgrade_table
  BY <1>1, AppendBlocks DEF inject_block, upgrade_table
<1>2. CASE inject_index \/ upgrade_index
  BY <1>2, AppendIndexBlocks DEF inject_index, upgrade_index
<1>3. CASE inject_header \/ upgrade_header
  BY <1>3, HeaderBlocks DEF inject_header, upgrade_header
<1>4. QED
  BY <1>1, <1>2, <1>3, InjectBlocks, UpgradeBlocks, FailedCommandBlocks DEF ToolStep

(***************************************************************************)
(* The theorems.                                                           *)
(***************************************************************************)
LEMMA LibraryStep ==
    ASSUME BlocksInv, Next
    PROVE  StepOK
<1>1. CASE EditStep
  <2>1. Edited
    BY <1>1, EditStepEdits DEF BlocksInv, MemoryOK
  <2>2. QED
    BY <2>1, EditBlocks
<1>2. CASE WriterStep
  BY <1>2, WriterBlocks
<1>3. CASE write_index_block \/ write_index_block_fails
  BY <1>3, IndexBlocks
<1>4. CASE BeginClose \/ Crash \/ Resume
  BY <1>4, SessionBlocks
<1>5. CASE FluxStep
  BY <1>5, FluxStepBlocks
<1>6. QED
  BY <1>1, <1>2, <1>3, <1>4, <1>5 DEF Next, OptionalNext

LEMMA NextBlocks ==
    ASSUME BlocksInv, [ToolNext]_toolVars
    PROVE  BlocksInv' /\ Longer(file, file')
<1>1. CASE Idle /\ Next /\ UNCHANGED tool
  <2>1. StepOK
    BY <1>1, LibraryStep
  <2>2. QED
    BY <1>1, <2>1, IdleKept DEF BlocksInv, StepOK
<1>2. CASE ToolStep
  BY <1>2, ToolStepBlocks
<1>3. CASE UNCHANGED toolVars
  <2>1. DiskIndex' = DiskIndex
    BY <1>3 DEF toolVars, vars, stored, DiskIndex
  <2>2. FileOK' /\ MemoryOK' /\ ProgressOK'
    BY <1>3, <2>1
       DEF toolVars, vars, stored, context, BlocksInv, FileOK, MemoryOK, ProgressOK, ContextOK
  <2>3. ToolOK'
    BY <1>3 DEF toolVars, vars, stored, BlocksInv, ToolOK, TodoOK, Idle
  <2>4. Longer(file, file')
    BY <1>3, NotLonger, FileIsSeq DEF toolVars, vars, stored
  <2>5. QED
    BY <2>2, <2>3, <2>4 DEF BlocksInv
<1>4. QED
  BY <1>1, <1>2, <1>3 DEF ToolNext

(* The inductive invariant: the file is made of whole blocks and torn      *)
(* ones, both indexes lead to blocks of their kinds, one of each, every    *)
(* flux block leads to payloads of its keys, and so do the entries in      *)
(* memory that have payloads, and the index that a command prepares is     *)
(* right before the header is made to lead to it.                          *)
THEOREM BlocksInvariant == ToolSpec => []BlocksInv
<1>1. ToolInit => BlocksInv
  BY InitBlocks
<1>2. BlocksInv /\ [ToolNext]_toolVars => BlocksInv'
  BY NextBlocks
<1>3. QED
  BY <1>1, <1>2, PTL DEF ToolSpec

(* Every value of the context, every flag, every entry of the index and    *)
(* every block of the file is of its type.                                 *)
THEOREM BlocksTyped == ToolSpec => []TypeOK
<1>1. BlocksInv => TypeOK
  <2> SUFFICES ASSUME BlocksInv
               PROVE  TypeOK
    OBVIOUS
  <2>1. mem \in [Slots -> Values \cup {None}] /\ identifier \in BOOLEAN /\ dirty \subseteq Flags
    BY DEF BlocksInv, MemoryOK, ContextOK, Held
  <2>2. \A i \in DOMAIN index : index[i].kind \in BlockKinds /\ index[i].at \in DOMAIN file
    <3>1. index \in Seq(Entry) /\ \A i \in DOMAIN index : index[i].at \in DOMAIN file
      BY DEF BlocksInv, MemoryOK, IndexOK, Resolves
    <3>2. \A i \in DOMAIN index : index[i] \in Entry
      BY <3>1
    <3>3. QED
      BY <3>1, <3>2 DEF Entry
  <2>3. \A i \in DOMAIN file : file[i].kind \in BlockKinds
    <3>1. file \in Seq(Cell)
      BY DEF BlocksInv, FileOK
    <3>2. QED
      BY <3>1, CellKinds
  <2>4. QED
    BY <2>1, <2>2, <2>3 DEF TypeOK, BlocksInv, FileOK, ProgressOK
<1>2. QED
  BY <1>1, BlocksInvariant, PTL

(* Whatever failed before, and whatever command died half way, every entry *)
(* of the index in memory and of the index on disk leads to a whole block  *)
(* of its own kind.                                                        *)
THEOREM EntriesLeadToBlocks == ToolSpec => []IndexResolves
<1>1. BlocksInv => IndexResolves
  BY DEF BlocksInv, FileOK, MemoryOK, IndexOK, Resolves, IndexResolves
<1>2. QED
  BY <1>1, BlocksInvariant, PTL

(* After any number of sessions, retries and failures the index has one    *)
(* entry at most of each kind, but for flux blocks.                        *)
THEOREM OneBlockPerKind == ToolSpec => []OneEntryPerKind
<1>1. BlocksInv => OneEntryPerKind
  <2> SUFFICES ASSUME BlocksInv, NEW k \in Kinds \ {"flux"}
               PROVE  Cardinality({i \in DOMAIN index : index[i].kind = k}) <= 1
    BY DEF OneEntryPerKind
  <2> DEFINE S == {i \in DOMAIN index : index[i].kind = k}
  <2>1. \A i, j \in S : i = j
    BY DEF BlocksInv, MemoryOK, IndexOK, Distinct
  <2>2. CASE S = {}
    BY <2>2, FS_EmptySet
  <2>3. CASE S # {}
    <3>1. PICK i \in S : TRUE
      BY <2>3
    <3>2. S = {i}
      BY <2>1, <3>1
    <3>3. Cardinality({i}) = 1
      BY FS_Singleton
    <3>4. QED
      BY <3>2, <3>3
  <2>4. QED
    BY <2>2, <2>3
<1>2. QED
  BY <1>1, BlocksInvariant, PTL

(* Reading a capture, from the session or from the image, never gives that *)
(* of another key: entries of a queue have no payloads yet, and those that *)
(* have one are found by a map that was rebuilt from them.                 *)
THEOREM CapturesOfTheirKeys == ToolSpec => []FluxOfItsKey
<1>1. BlocksInv => FluxOfItsKey
  BY ReadOfItsKey, NoFluxOK DEF BlocksInv, FileOK, MemoryOK, FluxOfItsKey
<1>2. QED
  BY <1>1, BlocksInvariant, PTL

(***************************************************************************)
(* What the index on disk has, the next one has as well.                   *)
(***************************************************************************)
Has(ix, k) == \E i \in DOMAIN ix : ix[i].kind = k

SessionOK ==
    phase \in {"writing", "finalising"} =>
        /\ \A k \in Kinds : Has(DiskIndex, k) => Has(index, k) \/ (k = "dpm" /\ "dpm" \in edited)
        /\ fresh => DiskIndex = <<>>
        /\ ~fresh /\ "dpm" \in dirty => "dpm" \in edited

CommandOK ==
    ~Idle => \A k \in Kinds : Has(DiskIndex, k) =>
                 Has(tool.entries, k) \/ \E j \in DOMAIN tool.todo : tool.todo[j].kind = k

KeptInv == SessionOK /\ CommandOK

(* The entries of the kinds that are asked for are all there. *)
LEMMA OfKindsHas ==
    ASSUME NEW f, NEW ix, IndexOK(f, ix), NEW kinds, NEW k \in kinds, Has(ix, k)
    PROVE  Has(OfKinds(ix, kinds), k)
<1> DEFINE r == OfKinds(ix, kinds)
<1>1. ix \in Seq(Entry) /\ r \in Seq(Entry)
  BY OfKindsSelects DEF IndexOK, Resolves
<1>2. PICK h : Selects(ix, kinds, r, h, Len(ix))
  BY <1>1, OfKindsSelects
<1>3. PICK i \in DOMAIN ix : ix[i].kind = k
  BY DEF Has
<1> HIDE DEF r
<1>4. i \in 1..Len(ix) /\ DOMAIN r = 1..Len(r)
  BY <1>1
<1>5. PICK j \in 1..Len(r) : h[j] = i
  BY <1>2, <1>3, <1>4 DEF Selects
<1>6. r[j].kind = k
  BY <1>2, <1>3, <1>5 DEF Selects
<1>7. QED
  BY <1>4, <1>6 DEF Has, r

LEMMA AppendHas ==
    ASSUME NEW ix \in Seq(Entry), NEW e \in Entry
    PROVE  \A k : Has(Append(ix, e), k) <=> Has(ix, k) \/ e.kind = k
<1> DEFINE r == Append(ix, e)
<1>1. /\ DOMAIN r = 1..(Len(ix) + 1) /\ DOMAIN ix = 1..Len(ix) /\ Len(ix) \in Nat
      /\ \A i \in 1..Len(ix) : r[i] = ix[i]
      /\ r[Len(ix) + 1] = e
  OBVIOUS
<1> HIDE DEF r
<1>2. \A i \in DOMAIN r : i \in DOMAIN ix \/ i = Len(ix) + 1
  BY <1>1
<1>3. QED
  BY <1>1, <1>2 DEF Has, r

LEMMA ConcatHas ==
    ASSUME NEW ix \in Seq(Entry), NEW es \in Seq(Entry), NEW k, Has(ix, k)
    PROVE  Has(ix \o es, k)
<1>1. PICK i \in DOMAIN ix : ix[i].kind = k
  BY DEF Has
<1>2. i \in DOMAIN (ix \o es) /\ (ix \o es)[i] = ix[i]
  OBVIOUS
<1>3. QED
  BY <1>1, <1>2 DEF Has

(* A step that leaves the header alone leaves the index on disk alone. *)
LEMMA DiskIndexKept ==
    ASSUME BlocksInv, Longer(file, file'), root' = root
    PROVE  DiskIndex' = DiskIndex
<1>1. file \in Seq(Cell) /\ \A i \in DOMAIN file : file'[i] = file[i]
  BY LongerDomain
<1>2. root = 0 \/ root \in DOMAIN file
  BY <1>1 DEF BlocksInv, FileOK
<1>3. QED
  BY <1>1, <1>2 DEF DiskIndex

LEMMA EntriesOfMemory == BlocksInv => IndexOK(file, index) /\ index \in Seq(Entry)
BY DEF BlocksInv, MemoryOK, IndexOK, Resolves

(* The entry of the kind of a block that is written. *)
LEMMA ReplacedHas ==
    ASSUME BlocksInv, NEW k \in BlockKinds \ {"index", "torn"}, NEW at \in Nat, NEW l \in Kinds,
           Has(index, l)
    PROVE  Has(Append(WithoutKind(k), [kind |-> k, at |-> at]), l)
<1>1. [kind |-> k, at |-> at] \in Entry /\ [kind |-> k, at |-> at].kind = k
  BY DEF Entry
<1>2. WithoutKind(k) \in Seq(Entry)
  BY EntriesOfMemory, OfKindsSelects DEF WithoutKind
<1>3. l # k => Has(WithoutKind(k), l)
  BY EntriesOfMemory, OfKindsHas DEF WithoutKind, BlockKinds
<1>4. QED
  BY <1>1, <1>2, <1>3, AppendHas

LEMMA WriterKept ==
    ASSUME BlocksInv, KeptInv, WriterStep, Longer(file, file')
    PROVE  SessionOK'
<1>1. PICK i \in NextWriter : \/ WriteBlock(i) \/ remove_dpm_index_entries(i)
                              \/ WriteBlockFails(i) \/ WriterNoMemory(i)
  BY DEF WriterStep
<1>2. /\ i \in DOMAIN Order /\ Order[i] \in Writers /\ Ready(Order[i])
      /\ phase = "finalising"
  BY NextWriterIs DEF BlocksInv, ProgressOK
<1>3. UNCHANGED <<phase, root, dirty, fresh, edited>>
  BY <1>1 DEF WriteBlock, remove_dpm_index_entries, WriteBlockFails, WriterNoMemory,
     InFinalise, context
<1>4. DiskIndex' = DiskIndex
  BY <1>3, DiskIndexKept
<1>5. CASE WriteBlock(i)
  <2>1. /\ KindOf(Order[i]) \in BlockKinds \ {"index", "torn"}
        /\ index' = Append(WithoutKind(KindOf(Order[i])),
                           [kind |-> KindOf(Order[i]), at |-> Len(file) + 1])
    BY <1>2, <1>5, OtherKinds DEF WriteBlock, Kinds, BlockKinds
  <2>2. Len(file) + 1 \in Nat
    BY FileIsSeq
  <2>3. \A l \in Kinds : Has(index, l) => Has(index', l)
    BY <2>1, <2>2, ReplacedHas
  <2>4. QED
    BY <1>2, <1>3, <1>4, <2>3 DEF KeptInv, SessionOK
<1>6. CASE remove_dpm_index_entries(i)
  <2>1. index' = WithoutKind("dpm") /\ Order[i] = "dpm"
    BY <1>6 DEF remove_dpm_index_entries
  <2>2. "dpm" \in dirty
    BY <1>2, <2>1 DEF Ready, FlagOf, DvdKinds, Tags, TypedTags
  <2>3. \A l \in Kinds \ {"dpm"} : Has(index, l) => Has(index', l)
    BY <2>1, EntriesOfMemory, OfKindsHas DEF WithoutKind, BlockKinds
  <2>4. \A l \in Kinds : ~Has(<<>>, l)
    BY DEF Has
  <2>5. QED
    BY <1>2, <1>3, <1>4, <2>2, <2>3, <2>4 DEF KeptInv, SessionOK
<1>7. CASE WriteBlockFails(i) \/ WriterNoMemory(i)
  <2>1. index' = index
    BY <1>7 DEF WriteBlockFails, WriterNoMemory
  <2>2. QED
    BY <1>2, <1>3, <1>4, <2>1 DEF KeptInv, SessionOK
<1>8. QED
  BY <1>1, <1>5, <1>6, <1>7

LEMMA FluxWrites ==
    ASSUME BlocksInv, write_flux_blocks \/ \E m \in 0..MaxEdits : write_flux_blocks_fails(m),
           StepOK
    PROVE  /\ \A l \in Kinds : Has(index, l) => Has(index', l)
           /\ phase \in {"writing", "finalising"}
           /\ UNCHANGED <<root, dirty, fresh, edited>>
<1>1. \E new \in Seq(Entry) : index' = index \o new
  <2>1. Len(flux.captures) \in Nat /\ Len(file) \in Nat
    BY QueuedOK, FileIsSeq
  <2>2. CASE write_flux_blocks
    <3> DEFINE n == Len(flux.captures)
               new == [i \in 1..n + 1 |->
                         [kind |-> IF i <= n THEN "flux_payload" ELSE "flux",
                          at   |-> Len(file) + i]]
    <3>1. index' = index \o new
      BY <2>2 DEF write_flux_blocks
    <3> HIDE DEF n
    <3>2. n \in Nat
      BY <2>1 DEF n
    <3>3. \A i \in 1..(n + 1) :
             [kind |-> IF i <= n THEN "flux_payload" ELSE "flux", at |-> Len(file) + i] \in Entry
      BY <2>1, <3>2, OtherKinds DEF Entry, BlockKinds
    <3>4. new \in [1..(n + 1) -> Entry]
      BY <3>3
    <3> HIDE DEF new
    <3>5. new \in Seq(Entry)
      BY <3>2, <3>4
    <3>6. QED
      BY <3>1, <3>5
  <2>3. ASSUME NEW m \in 0..MaxEdits, write_flux_blocks_fails(m)
        PROVE  \E new \in Seq(Entry) : index' = index \o new
    <3> DEFINE new == [i \in 1..m |-> [kind |-> "flux_payload", at |-> Len(file) + i]]
    <3>1. index' = index \o new
      BY <2>3 DEF write_flux_blocks_fails
    <3>2. m \in Nat
      BY EffortAssumption
    <3>3. \A i \in 1..m : [kind |-> "flux_payload", at |-> Len(file) + i] \in Entry
      BY <2>1, <3>2 DEF Entry, BlockKinds
    <3>4. new \in [1..m -> Entry]
      BY <3>3
    <3> HIDE DEF new
    <3>5. new \in Seq(Entry)
      BY <3>2, <3>4
    <3>6. QED
      BY <3>1, <3>5
  <2>4. QED
    BY <2>2, <2>3
<1>2. FluxStage \in NextWriter /\ UNCHANGED <<root, dirty, fresh, edited>>
  BY DEF write_flux_blocks, write_flux_blocks_fails, context
<1>3. phase = "finalising"
  BY <1>2, NextWriterIs DEF BlocksInv, ProgressOK
<1>4. QED
  BY <1>1, <1>2, <1>3, ConcatHas, EntriesOfMemory

LEMMA FluxStepKept ==
    ASSUME BlocksInv, KeptInv, FluxStep, StepOK
    PROVE  SessionOK'
<1>1. CASE write_flux_blocks \/ \E m \in 0..MaxEdits : write_flux_blocks_fails(m)
  <2>1. /\ \A l \in Kinds : Has(index, l) => Has(index', l)
        /\ phase \in {"writing", "finalising"}
        /\ UNCHANGED <<root, dirty, fresh, edited>>
    BY <1>1, FluxWrites
  <2>2. DiskIndex' = DiskIndex
    BY <2>1, DiskIndexKept DEF StepOK
  <2>3. QED
    BY <2>1, <2>2 DEF KeptInv, SessionOK
<1>2. CASE clear_flux_captures \/ get_flux_captures
           \/ (\E k \in Keys, v \in Values : write_flux_capture(k, v))
           \/ (\E k \in Keys : write_flux_capture_no_memory(k))
  <2>1. UNCHANGED <<stored, phase, fresh, edited>> /\ dirty' \subseteq dirty \cup {"flux"}
    BY <1>2 DEF clear_flux_captures, get_flux_captures, write_flux_capture,
       write_flux_capture_no_memory, FluxEdit
  <2>2. DiskIndex' = DiskIndex
    BY <2>1, DiskIndexKept DEF StepOK, stored
  <2>3. QED
    BY <2>1, <2>2 DEF KeptInv, SessionOK, stored
<1>3. QED
  BY <1>1, <1>2 DEF FluxStep

LEMMA ResumedKept ==
    ASSUME BlocksInv, Resume
    PROVE  SessionOK'
<1>1. Resolves(file, DiskIndex) /\ file \in Seq(Cell)
  BY DEF BlocksInv, FileOK, IndexOK
<1>2. Loaded \in ContextShape
  BY <1>1, LoadingTyped DEF Loaded
<1>3. "dpm" \notin dirty' /\ index' = DiskIndex /\ fresh' = FALSE
  BY <1>2 DEF Resume, ContextShape
<1>4. DiskIndex' = DiskIndex
  BY DEF Resume, DiskIndex
<1>5. QED
  BY <1>3, <1>4 DEF SessionOK

LEMMA NextKept ==
    ASSUME BlocksInv, KeptInv, Next, StepOK
    PROVE  SessionOK'
<1>1. CASE EditStep
  <2>1. Edited
    BY <1>1, EditStepEdits DEF BlocksInv, MemoryOK
  <2>2. DiskIndex' = DiskIndex
    BY <2>1, DiskIndexKept DEF Edited, stored, StepOK
  <2>3. QED
    BY <2>1, <2>2 DEF Edited, stored, KeptInv, SessionOK
<1>2. CASE WriterStep
  BY <1>2, WriterKept DEF StepOK
<1>3. CASE write_index_block \/ Crash
  BY <1>3 DEF write_index_block, Crash, SessionOK
<1>4. CASE write_index_block_fails
  <2>1. DiskIndex' = DiskIndex
    BY <1>4, DiskIndexKept DEF write_index_block_fails, StepOK
  <2>2. QED
    BY <1>4, <2>1 DEF write_index_block_fails, WritersDone, context, KeptInv, SessionOK
<1>5. CASE BeginClose
  <2>1. DiskIndex' = DiskIndex
    BY <1>5, DiskIndexKept DEF BeginClose, stored, StepOK
  <2>2. QED
    BY <1>5, <2>1 DEF BeginClose, stored, context, KeptInv, SessionOK
<1>6. CASE Resume
  BY <1>6, ResumedKept
<1>7. CASE FluxStep
  BY <1>7, FluxStepKept
<1>8. QED
  BY <1>1, <1>2, <1>3, <1>4, <1>5, <1>6, <1>7 DEF Next, OptionalNext

LEMMA CommandKept ==
    ASSUME BlocksInv, KeptInv, ToolStep, Longer(file, file')
    PROVE  KeptInv'
<1>1. \A t : ToolStarts(t) => tool' = t /\ phase' = "ended" /\ DiskIndex' = DiskIndex
  BY DEF ToolStarts, DiskIndex
<1>2. IndexOK(file, DiskIndex)
  BY DEF BlocksInv, FileOK
<1>3. ASSUME NEW t \in InjectedTags, NEW v \in InjectedValues, inject_media_tag(t, v)
      PROVE  KeptInv'
  <2> DEFINE k == get_datatype_for_media_tag_type(t)
             b == [kind |-> k, value |-> v, count |-> 1]
             new == [slot |-> t, value |-> v, at |-> 0, entries |-> EntriesWithout(k),
                     todo |-> <<b>>]
  <2>1. ToolStarts(new)
    BY <1>3 DEF inject_media_tag
  <2>2. new.entries = EntriesWithout(k) /\ new.todo = <<b>> /\ b.kind = k
    OBVIOUS
  <2> HIDE DEF b
  <2>3. 1 \in DOMAIN <<b>> /\ <<b>>[1] = b
    OBVIOUS
  <2> HIDE DEF new, k
  <2>4. \A l \in Kinds \ {k} : Has(DiskIndex, l) => Has(EntriesWithout(k), l)
    BY <1>2, OfKindsHas DEF EntriesWithout, BlockKinds
  <2>5. tool' = new /\ phase' = "ended" /\ DiskIndex' = DiskIndex
    BY <1>1, <2>1
  <2>6. \A l \in Kinds : Has(DiskIndex, l) => Has(new.entries, l) \/ \E j \in DOMAIN new.todo : new.todo[j].kind = l
    BY <2>2, <2>3, <2>4
  <2>7. QED
    BY <2>5, <2>6 DEF KeptInv, SessionOK, CommandOK
<1>4. ASSUME upgrade_ddt_to_alpha21
      PROVE  KeptInv'
  <2> DEFINE entries == OfKinds(DiskIndex, BlockKinds \ TableKinds)
             new == [slot |-> None, value |-> None, at |-> 0, entries |-> entries,
                     todo |-> [i \in DOMAIN Tables |-> NewTable(file[Tables[i].at])]]
  <2>1. ToolStarts(new) /\ new.entries = entries
    BY <1>4 DEF upgrade_ddt_to_alpha21
  <2> HIDE DEF new, entries
  <2>2. \A l \in Kinds : l \in BlockKinds \ TableKinds
    BY OtherKinds DEF TableKinds, BlockKinds
  <2>3. \A l \in Kinds : Has(DiskIndex, l) => Has(entries, l)
    BY <1>2, <2>2, OfKindsHas DEF entries
  <2>4. QED
    BY <1>1, <2>1, <2>3 DEF KeptInv, SessionOK, CommandOK
<1>5. ASSUME ~Idle, AppendBlock
      PROVE  KeptInv'
  <2> DEFINE b == Head(tool.todo)
             e == [kind |-> b.kind, at |-> Len(file) + 1]
  <2>1. phase = "ended" /\ TodoOK
    BY <1>5 DEF BlocksInv, ToolOK
  <2>2. /\ tool \in Command /\ tool.todo \in Seq(PlainBlock \cup TableBlock)
        /\ tool.entries \in Seq(Entry) /\ tool.todo # <<>>
        /\ root' = root /\ phase' = phase
    BY <1>5, <2>1 DEF AppendBlock, ToolRuns, TodoOK, Command
  <2>3. /\ tool'.todo = Tail(tool.todo) /\ tool'.entries = Append(tool.entries, e)
    BY <1>5, <2>2 DEF AppendBlock, Command
  <2>4. b \in PlainBlock \cup TableBlock /\ b = tool.todo[1]
    BY <2>2
  <2>5. e \in Entry /\ e.kind = b.kind
    <3>1. b.kind \in PlainKinds \cup TableKinds /\ Len(file) \in Nat
      BY <2>4, FileIsSeq DEF PlainBlock, TableBlock
    <3>2. QED
      BY <3>1, OtherKinds DEF PlainKinds, TableKinds, BlockKinds, Entry
  <2> HIDE DEF b, e
  <2>6. DiskIndex' = DiskIndex
    BY <2>2, DiskIndexKept
  <2>7. \A j \in DOMAIN tool.todo :
            j = 1 \/ (j - 1 \in DOMAIN tool'.todo /\ tool'.todo[j - 1] = tool.todo[j])
    BY <2>2, <2>3
  <2>8. \A l : Has(tool'.entries, l) <=> Has(tool.entries, l) \/ b.kind = l
    BY <2>2, <2>3, <2>5, AppendHas
  <2>9. QED
    BY <1>5, <2>1, <2>2, <2>4, <2>6, <2>7, <2>8 DEF KeptInv, SessionOK, CommandOK
<1>6. ASSUME ~Idle, AppendIndex
      PROVE  KeptInv'
  <2>1. phase = "ended" /\ tool \in Command
    BY <1>6 DEF BlocksInv, ToolOK, TodoOK
  <2>2. /\ root' = root /\ phase' = phase
        /\ tool'.todo = tool.todo /\ tool'.entries = tool.entries
    BY <1>6, <2>1 DEF AppendIndex, ToolRuns, Command
  <2>3. DiskIndex' = DiskIndex
    BY <2>2, DiskIndexKept
  <2>4. QED
    BY <1>6, <2>1, <2>2, <2>3 DEF KeptInv, SessionOK, CommandOK
<1>7. ASSUME ~Idle, RewriteHeader \/ \E appended : ToolFails(appended)
      PROVE  KeptInv'
  BY <1>7 DEF RewriteHeader, ToolFails, ToolRuns, KeptInv, SessionOK, CommandOK, Idle,
     BlocksInv, ToolOK
<1>8. QED
  BY <1>3, <1>4, <1>5, <1>6, <1>7
     DEF ToolStep, inject_block, upgrade_table, inject_index, upgrade_index,
         inject_header, upgrade_header, ToolFails

LEMMA KeptNext ==
    ASSUME BlocksInv, KeptInv, [ToolNext]_toolVars
    PROVE  KeptInv'
<1>1. CASE Idle /\ Next /\ UNCHANGED tool
  <2>1. StepOK
    BY <1>1, LibraryStep
  <2>2. QED
    BY <1>1, <2>1, NextKept DEF KeptInv, CommandOK, Idle
<1>2. CASE ToolStep
  BY <1>2, NextBlocks, CommandKept DEF ToolNext
<1>3. CASE UNCHANGED toolVars
  BY <1>3 DEF toolVars, vars, stored, context, KeptInv, SessionOK, CommandOK, Idle, DiskIndex
<1>4. QED
  BY <1>1, <1>2, <1>3 DEF ToolNext

(* Its inductive invariant: while a context is open, each kind of block    *)
(* that the index on disk has is in the one in memory too, but an edited   *)
(* DPM; while a command runs, it is in the new index or still to append.   *)
THEOREM KeptInvariant == ToolSpec => []KeptInv
<1>1. ToolInit => KeptInv
  <2>1. \A k : ~Has(<<>>, k)
    BY DEF Has
  <2>2. QED
    BY <2>1 DEF ToolInit, Init, OldInit, KeptInv, SessionOK, CommandOK, Idle, DiskIndex, NoTool
<1>2. BlocksInv /\ KeptInv /\ [ToolNext]_toolVars => KeptInv'
  BY KeptNext
<1>3. QED
  BY <1>1, <1>2, BlocksInvariant, PTL DEF ToolSpec

(* A block that the image has is still there after any later close, with   *)
(* writes that fail, with no memory, after a crash in between, after a     *)
(* retry and after a command; but for the DPM, which only goes in a        *)
(* session that edited it.                                                 *)
THEOREM NothingIsForgotten == ToolSpec => NothingForgotten
<1>1. BlocksInv /\ KeptInv /\ [ToolNext]_toolVars
         => [\A k \in Found : k \in Found' \/ (k = "dpm" /\ "dpm" \in edited)]_vars
  <2> SUFFICES ASSUME BlocksInv, KeptInv, [ToolNext]_toolVars, NEW k \in Found
               PROVE  k \in Found' \/ (k = "dpm" /\ "dpm" \in edited)
    OBVIOUS
  <2>1. k \in Kinds /\ Has(DiskIndex, k)
    BY DEF Found, Has
  <2>2. Longer(file, file')
    BY NextBlocks
  <2>3. CASE root' = root
    <3>1. DiskIndex' = DiskIndex
      BY <2>2, <2>3, DiskIndexKept
    <3>2. QED
      BY <2>1, <3>1 DEF Found, Has
  <2>4. CASE Idle /\ write_index_block /\ dirtyIndex
    <3> DEFINE b == [kind |-> "index", value |-> index, count |-> Len(index)]
    <3>1. file' = Append(file, b) /\ root' = Len(file') /\ b.value = index
      BY <2>4 DEF write_index_block
    <3> HIDE DEF b
    <3>2. file'[Len(file')] = b /\ Len(file') # 0
      BY <3>1, FileIsSeq
    <3>3. DiskIndex' = index
      BY <3>1, <3>2 DEF DiskIndex
    <3>4. Has(index, k) \/ (k = "dpm" /\ "dpm" \in edited)
      BY <2>1, <2>4 DEF write_index_block, WritersDone, KeptInv, SessionOK
    <3>5. QED
      BY <2>1, <3>3, <3>4 DEF Found, Has
  <2>5. CASE ~Idle /\ RewriteHeader
    <3>1. /\ tool.at # 0 /\ file[tool.at].value = tool.entries /\ tool.todo = <<>>
          /\ root' = tool.at /\ file' = file
      BY <2>5 DEF RewriteHeader, BlocksInv, ToolOK
    <3>2. DiskIndex' = tool.entries
      BY <3>1 DEF DiskIndex
    <3>3. Has(tool.entries, k)
      BY <2>1, <2>5, <3>1 DEF KeptInv, CommandOK
    <3>4. QED
      BY <2>1, <3>2, <3>3 DEF Found, Has
  <2>6. root' = root \/ (Idle /\ write_index_block /\ dirtyIndex) \/ (~Idle /\ RewriteHeader)
    <3>1. CASE Idle /\ Next /\ UNCHANGED tool
      <4>1. CASE EditStep
        BY <4>1, EditStepEdits DEF BlocksInv, MemoryOK, Edited, stored
      <4>2. CASE WriterStep
        BY <4>2 DEF WriterStep, WriteBlock, remove_dpm_index_entries, WriteBlockFails,
           WriterNoMemory, InFinalise
      <4>3. CASE FluxStep
        BY <4>3 DEF FluxStep, clear_flux_captures, get_flux_captures, write_flux_capture,
           write_flux_capture_no_memory, write_flux_blocks, write_flux_blocks_fails,
           FluxEdit, stored
      <4>4. CASE BeginClose \/ Crash \/ Resume \/ write_index_block_fails
        BY <4>4 DEF BeginClose, Crash, Resume, write_index_block_fails, stored
      <4>5. CASE write_index_block
        BY <3>1, <4>5 DEF write_index_block
      <4>6. QED
        BY <3>1, <4>1, <4>2, <4>3, <4>4, <4>5 DEF Next, OptionalNext
    <3>2. CASE ToolStep
      BY <3>2 DEF ToolStep, inject_media_tag, upgrade_ddt_to_alpha21, ToolStarts,
         inject_block, upgrade_table, AppendBlock, inject_index, upgrade_index, AppendIndex,
         inject_header, upgrade_header, ToolFails
    <3>3. CASE UNCHANGED toolVars
      BY <3>3 DEF toolVars, vars, stored
    <3>4. QED
      BY <3>1, <3>2, <3>3 DEF ToolNext
  <2>7. QED
    BY <2>3, <2>4, <2>5, <2>6
<1>2. QED
  BY <1>1, BlocksInvariant, KeptInvariant, PTL DEF ToolSpec, NothingForgotten

(***************************************************************************)
(* The captures of a new image.                                            *)
(***************************************************************************)
NoFluxBlock(ix) == \A i \in DOMAIN ix : ix[i].kind # "flux"

(* The flux block of the index, and no other, is at a. *)
OneFluxBlock(ix, a) ==
    \E i \in DOMAIN ix :
        /\ ix[i].kind = "flux" /\ ix[i].at = a
        /\ \A j \in DOMAIN ix : ix[j].kind = "flux" => j = i

(* The last capture of each key is queued. *)
Queued(fx) ==
    \A k \in Keys : fx.latest[k] # None =>
        \E j \in DOMAIN fx.captures :
            /\ fx.captures[j].key = k /\ fx.captures[j].value = fx.latest[k]
            /\ \A l \in DOMAIN fx.captures : l > j => fx.captures[l].key # k

(* The last capture of each key is that of the flux block at a. *)
OnDisk(f, a, latest) ==
    \A k \in Keys : latest[k] # None =>
        \E j \in DOMAIN f[a].value :
            /\ f[a].value[j].key = k
            /\ \A l \in DOMAIN f[a].value : l > j => f[a].value[l].key # k
            /\ f[a].value[j].at \in DOMAIN f \ {0}
            /\ f[f[a].value[j].at].kind = "flux_payload"
            /\ f[f[a].value[j].at].value.value = latest[k]

(* Until another flux block is written: captures are queued or on disk,    *)
(* the queue is empty once its writer has run, and the index on disk is    *)
(* that in memory once the image is closed.                                *)
DurableInv ==
    fresh /\ phase # "ended" =>
        /\ "flux" \in dirty /\ dirtyIndex
        /\ phase = "finalising" /\ stage >= 2 => flux.captures = <<>>
        /\ phase = "closed" => flux.captures = <<>> /\ DiskIndex = index
        /\ NoFluxBlock(index) => Queued(flux)
        /\ \A a : OneFluxBlock(index, a) /\ flux.captures = <<>> => OnDisk(file, a, flux.latest)

LEMMA FluxOfKinds ==
    ASSUME NEW ix \in Seq(Entry), NEW kinds, "flux" \in kinds
    PROVE  /\ NoFluxBlock(OfKinds(ix, kinds)) => NoFluxBlock(ix)
           /\ \A a : OneFluxBlock(OfKinds(ix, kinds), a) => OneFluxBlock(ix, a)
<1> DEFINE r == OfKinds(ix, kinds)
<1>1. r \in Seq(Entry)
  BY OfKindsSelects
<1>2. PICK h : Selects(ix, kinds, r, h, Len(ix))
  BY OfKindsSelects
<1> HIDE DEF r
<1>3. DOMAIN r = 1..Len(r) /\ DOMAIN ix = 1..Len(ix)
  BY <1>1
<1>4. \A j \in DOMAIN r : h[j] \in DOMAIN ix /\ r[j] = ix[h[j]]
  BY <1>2, <1>3 DEF Selects
<1>5. \A i \in DOMAIN ix : ix[i].kind = "flux" => \E j \in DOMAIN r : h[j] = i
  BY <1>2, <1>3 DEF Selects
<1>6. NoFluxBlock(r) => NoFluxBlock(ix)
  BY <1>4, <1>5 DEF NoFluxBlock
<1>7. ASSUME NEW a, OneFluxBlock(r, a)
      PROVE  OneFluxBlock(ix, a)
  <2>1. PICK j \in DOMAIN r : /\ r[j].kind = "flux" /\ r[j].at = a
                              /\ \A l \in DOMAIN r : r[l].kind = "flux" => l = j
    BY <1>7 DEF OneFluxBlock
  <2>2. \A i \in DOMAIN ix : ix[i].kind = "flux" => i = h[j]
    BY <1>4, <1>5, <2>1
  <2>3. QED
    BY <1>4, <2>1, <2>2 DEF OneFluxBlock
<1>8. QED
  BY <1>6, <1>7 DEF r

(* Entries that are no flux blocks are put behind. *)
LEMMA FluxOfConcat ==
    ASSUME NEW ix \in Seq(Entry), NEW es \in Seq(Entry),
           \A i \in DOMAIN es : es[i].kind # "flux"
    PROVE  /\ NoFluxBlock(ix \o es) => NoFluxBlock(ix)
           /\ \A a : OneFluxBlock(ix \o es, a) => OneFluxBlock(ix, a)
<1> DEFINE r == ix \o es
<1>1. /\ DOMAIN r = 1..(Len(ix) + Len(es)) /\ Len(ix) \in Nat /\ Len(es) \in Nat
      /\ DOMAIN ix = 1..Len(ix) /\ DOMAIN es = 1..Len(es)
      /\ \A i \in 1..Len(ix) : r[i] = ix[i]
      /\ \A i \in 1..(Len(ix) + Len(es)) : i > Len(ix) => r[i] = es[i - Len(ix)]
  OBVIOUS
<1> HIDE DEF r
<1>2. \A i \in DOMAIN ix : i \in DOMAIN r /\ r[i] = ix[i]
  BY <1>1
<1>3. \A i \in DOMAIN r : i \in DOMAIN ix \/ (i - Len(ix) \in DOMAIN es /\ r[i] = es[i - Len(ix)])
  BY <1>1
<1>4. \A i \in DOMAIN r : r[i].kind = "flux" => i \in DOMAIN ix
  BY <1>3
<1>5. NoFluxBlock(r) => NoFluxBlock(ix)
  BY <1>2 DEF NoFluxBlock
<1>6. \A a : OneFluxBlock(r, a) => OneFluxBlock(ix, a)
  BY <1>2, <1>4 DEF OneFluxBlock
<1>7. QED
  BY <1>5, <1>6 DEF r

LEMMA FluxOfAppend ==
    ASSUME NEW ix \in Seq(Entry), NEW e \in Entry, e.kind # "flux"
    PROVE  /\ NoFluxBlock(Append(ix, e)) => NoFluxBlock(ix)
           /\ \A a : OneFluxBlock(Append(ix, e), a) => OneFluxBlock(ix, a)
<1> DEFINE r == Append(ix, e)
<1>1. /\ DOMAIN r = 1..(Len(ix) + 1) /\ Len(ix) \in Nat /\ DOMAIN ix = 1..Len(ix)
      /\ \A i \in 1..Len(ix) : r[i] = ix[i]
      /\ r[Len(ix) + 1] = e
  OBVIOUS
<1> HIDE DEF r
<1>2. \A i \in DOMAIN ix : i \in DOMAIN r /\ r[i] = ix[i]
  BY <1>1
<1>3. \A i \in DOMAIN r : r[i].kind = "flux" => i \in DOMAIN ix
  <2>1. \A i \in DOMAIN r : i \in DOMAIN ix \/ i = Len(ix) + 1
    BY <1>1
  <2>2. QED
    BY <1>1, <2>1
<1>4. NoFluxBlock(r) => NoFluxBlock(ix)
  BY <1>2 DEF NoFluxBlock
<1>5. \A a : OneFluxBlock(r, a) => OneFluxBlock(ix, a)
  BY <1>2, <1>3 DEF OneFluxBlock
<1>6. QED
  BY <1>4, <1>5 DEF r

LEMMA OnDiskKept ==
    ASSUME NEW f, NEW g, Longer(f, g), NEW a \in DOMAIN f, NEW latest, OnDisk(f, a, latest)
    PROVE  OnDisk(g, a, latest)
BY LongerDomain DEF OnDisk

LEMMA FluxEntryInFile ==
    ASSUME BlocksInv, NEW a, OneFluxBlock(index, a)
    PROVE  a \in DOMAIN file /\ file[a].kind = "flux"
BY DEF BlocksInv, MemoryOK, IndexOK, Resolves, OneFluxBlock

(* A step after which there is no other flux block, and which leaves the   *)
(* queue alone.                                                            *)
LEMMA DurableKept ==
    ASSUME BlocksInv, DurableInv, Longer(file, file'), UNCHANGED <<flux, fresh>>,
           phase' # "ended", phase # "ended",
           "flux" \in dirty => "flux" \in dirty', dirtyIndex => dirtyIndex',
           NoFluxBlock(index') => NoFluxBlock(index),
           \A a : OneFluxBlock(index', a) => OneFluxBlock(index, a),
           fresh => /\ phase' = "finalising" /\ stage' >= 2 => flux.captures = <<>>
                    /\ phase' = "closed" => flux.captures = <<>> /\ DiskIndex' = index'
    PROVE  DurableInv'
<1>1. SUFFICES ASSUME fresh
               PROVE  DurableInv'
  BY DEF DurableInv
<1>2. ASSUME NEW a, OneFluxBlock(index', a), flux.captures = <<>>
      PROVE  OnDisk(file', a, flux.latest)
  <2>1. OneFluxBlock(index, a)
    BY <1>2
  <2>2. OnDisk(file, a, flux.latest) /\ a \in DOMAIN file
    BY <1>1, <1>2, <2>1, FluxEntryInFile DEF DurableInv
  <2>3. QED
    BY <2>2, OnDiskKept
<1>3. QED
  BY <1>1, <1>2 DEF DurableInv

LEMMA FluxReady ==
    ASSUME ~Ready("flux"), "flux" \in dirty
    PROVE  flux.captures = <<>>
<1>1. Writer("flux") = Block("flux", flux.captures # <<>>, None)
  BY WriterIs, WritersAre DEF Names, DvdKinds
<1>2. Writer("flux").ready = (flux.captures # <<>>)
  <2>1. Block("flux", flux.captures # <<>>, None).ready = (flux.captures # <<>>)
    BY Zenon DEF Block
  <2>2. QED
    BY Zenon, <1>1, <2>1
<1>3. FlagOf("flux") = "flux"
  BY DEF FlagOf, DvdKinds, Tags, TypedTags
<1>4. QED
  BY <1>2, <1>3 DEF Ready

LEMMA WriterDurable ==
    ASSUME BlocksInv, DurableInv, WriterStep, Longer(file, file')
    PROVE  DurableInv'
<1>1. PICK i \in NextWriter : \/ WriteBlock(i) \/ remove_dpm_index_entries(i)
                              \/ WriteBlockFails(i) \/ WriterNoMemory(i)
  BY DEF WriterStep
<1>2. /\ i \in DOMAIN Order /\ i > stage /\ phase = "finalising" /\ Order[i] \in Writers
      /\ \A j \in (stage + 1)..Len(Order) : Ready(Order[j]) => i <= j
  BY NextWriterIs DEF BlocksInv, ProgressOK
<1>3. UNCHANGED <<phase, flux, fresh, dirty>>
  BY <1>1 DEF WriteBlock, remove_dpm_index_entries, WriteBlockFails, WriterNoMemory,
     InFinalise, context
<1>4. dirtyIndex => dirtyIndex'
  BY <1>1 DEF WriteBlock, remove_dpm_index_entries, WriteBlockFails, WriterNoMemory
<1>5. Order[i] # "flux"
  BY <1>1 DEF WriteBlock, remove_dpm_index_entries, WriteBlockFails, WriterNoMemory
<1>6. i \in Nat /\ i # 2 /\ stage \in Nat /\ 2 \in DOMAIN Order /\ Order[2] = "flux"
      /\ Len(Order) = 21
  BY <1>2, <1>5, OrderIs DEF BlocksInv, ProgressOK
<1>7. ASSUME fresh, stage' >= 2
      PROVE  flux.captures = <<>>
  <2>1. CASE stage >= 2
    BY <1>2, <1>7, <2>1 DEF DurableInv
  <2>2. CASE i > 2 /\ stage < 2
    <3>1. ~Ready(Order[2])
      BY <1>2, <1>6, <2>2
    <3>2. QED
      BY <1>2, <1>6, <1>7, <3>1, FluxReady DEF DurableInv
  <2>3. CASE i = 1
    <3>1. stage' = i
      BY <1>1, <2>3, OrderIs DEF WriteBlock, remove_dpm_index_entries, WriteBlockFails,
         WriterNoMemory
    <3>2. QED
      BY <1>7, <2>3, <3>1
  <2>4. QED
    BY <1>2, <1>6, <2>1, <2>2, <2>3
<1>8. /\ NoFluxBlock(index') => NoFluxBlock(index)
      /\ \A a : OneFluxBlock(index', a) => OneFluxBlock(index, a)
  <2>1. CASE WriteBlock(i)
    <3> DEFINE k == KindOf(Order[i])
               e == [kind |-> k, at |-> Len(file) + 1]
    <3>1. k \in Kinds /\ k # "flux"
      BY <1>2, <1>5, KindIs DEF Kinds
    <3>2. index' = Append(OfKinds(index, BlockKinds \ {k}), e)
      BY <2>1 DEF WriteBlock, WithoutKind
    <3> HIDE DEF k
    <3>3. e \in Entry /\ e.kind # "flux"
      BY <3>1, OtherKinds, FileIsSeq DEF Entry, BlockKinds
    <3> HIDE DEF e
    <3>4. index \in Seq(Entry) /\ OfKinds(index, BlockKinds \ {k}) \in Seq(Entry)
          /\ "flux" \in BlockKinds \ {k}
      BY <3>1, EntriesOfMemory, OfKindsSelects, OtherKinds DEF BlockKinds
    <3>5. QED
      BY <3>2, <3>3, <3>4, FluxOfKinds, FluxOfAppend
  <2>2. CASE remove_dpm_index_entries(i)
    <3>1. "flux" \in BlockKinds \ {"dpm"} /\ index \in Seq(Entry)
      BY OtherKinds, EntriesOfMemory DEF BlockKinds
    <3>2. QED
      BY <2>2, <3>1, FluxOfKinds DEF remove_dpm_index_entries, WithoutKind
  <2>3. CASE WriteBlockFails(i) \/ WriterNoMemory(i)
    BY <2>3 DEF WriteBlockFails, WriterNoMemory
  <2>4. QED
    BY <1>1, <2>1, <2>2, <2>3
<1>9. QED
  BY <1>2, <1>3, <1>4, <1>7, <1>8, DurableKept

LEMMA IndexDurable ==
    ASSUME BlocksInv, DurableInv, Longer(file, file'),
           write_index_block \/ write_index_block_fails
    PROVE  DurableInv'
<1>1. /\ phase = "finalising" /\ NextWriter = {} /\ UNCHANGED <<flux, fresh, dirty, index, dirtyIndex>>
      /\ phase' \in {"closed", "writing"}
  BY DEF write_index_block, write_index_block_fails, WritersDone, context
<1>2. ASSUME fresh
      PROVE  flux.captures = <<>>
  <2>1. CASE stage >= 2
    BY <1>1, <1>2, <2>1 DEF DurableInv
  <2>2. CASE stage < 2
    <3> DEFINE due == {i \in (stage + 1)..Len(Order) : Ready(Order[i])}
    <3>9. due = {}
      <4>1. NextWriter = IF due # {} THEN {Min(due)} ELSE {}
        BY <1>1 DEF NextWriter
      <4>2. QED
        BY <1>1, <4>1
    <3>1. ~Ready(Order[2])
      BY <2>2, <3>9, OrderIs DEF BlocksInv, ProgressOK
    <3>2. QED
      BY <1>1, <1>2, <3>1, OrderIs, FluxReady DEF DurableInv
  <2>3. QED
    BY <2>1, <2>2 DEF BlocksInv, ProgressOK
<1>3. ASSUME fresh, phase' = "closed"
      PROVE  DiskIndex' = index'
  <2> DEFINE b == [kind |-> "index", value |-> index, count |-> Len(index)]
  <2>1. file' = Append(file, b) /\ root' = Len(file') /\ b.value = index
    BY <1>1, <1>3 DEF write_index_block, write_index_block_fails, DurableInv
  <2> HIDE DEF b
  <2>2. file'[Len(file')] = b /\ Len(file') # 0
    BY <2>1, FileIsSeq
  <2>3. QED
    BY <1>1, <2>1, <2>2 DEF DiskIndex
<1>4. QED
  BY <1>1, <1>2, <1>3, DurableKept

LEMMA EditDurable ==
    ASSUME BlocksInv, DurableInv, EditStep, Longer(file, file')
    PROVE  DurableInv'
<1>1. Edited
  BY EditStepEdits DEF BlocksInv, MemoryOK
<1>2. QED
  BY <1>1, DurableKept DEF Edited, stored

LEMMA SessionDurable ==
    ASSUME BlocksInv, DurableInv, BeginClose \/ Crash \/ Resume, Longer(file, file')
    PROVE  DurableInv'
<1>1. CASE BeginClose
  BY <1>1, DurableKept DEF BeginClose, stored, context
<1>2. CASE Crash \/ Resume
  BY <1>2 DEF Crash, Resume, DurableInv
<1>3. QED
  BY <1>1, <1>2

LEMMA CaptureDurable ==
    ASSUME BlocksInv, DurableInv, NEW k \in Keys, NEW v \in Values, write_flux_capture(k, v)
    PROVE  DurableInv'
<1> DEFINE c == [key |-> k, value |-> v]
           q == Len(flux.captures)
<1>1. /\ phase = "writing" /\ UNCHANGED <<stored, phase, fresh>> /\ dirty \subseteq dirty'
      /\ flux'.captures = Append(flux.captures, c)
      /\ flux'.latest = [flux.latest EXCEPT ![k] = v]
  BY DEF write_flux_capture, FluxEdit
<1>2. flux.captures \in Seq(Capture) /\ flux.latest \in [Keys -> Held] /\ q \in Nat
      /\ c \in Capture /\ c.key = k /\ c.value = v
  BY QueuedOK DEF Capture
<1> HIDE DEF c
<1>3. /\ DOMAIN flux'.captures = 1..(q + 1) /\ DOMAIN flux.captures = 1..q
      /\ \A j \in 1..q : flux'.captures[j] = flux.captures[j]
      /\ flux'.captures[q + 1] = c
  BY <1>1, <1>2
<1>30. flux'.captures # <<>>
  BY <1>2, <1>3
<1> HIDE DEF q
<1>4. \A j \in 1..(q + 1) : j \in 1..q \/ j = q + 1
  BY <1>2
<1>5. Queued(flux) => Queued(flux')
  <2>1. ASSUME Queued(flux), NEW l \in Keys, flux'.latest[l] # None
        PROVE  \E j \in DOMAIN flux'.captures :
                  /\ flux'.captures[j].key = l /\ flux'.captures[j].value = flux'.latest[l]
                  /\ \A m \in DOMAIN flux'.captures : m > j => flux'.captures[m].key # l
    <3>1. CASE l = k
      <4>1. flux'.latest[l] = v
        BY <1>1, <1>2, <3>1
      <4>2. q + 1 \in DOMAIN flux'.captures
            /\ \A m \in DOMAIN flux'.captures : ~(m > q + 1)
        BY <1>2, <1>3
      <4>3. QED
        BY <1>2, <1>3, <3>1, <4>1, <4>2
    <3>2. CASE l # k
      <4>1. flux'.latest[l] = flux.latest[l]
        BY <1>1, <1>2, <3>2
      <4>2. PICK j \in DOMAIN flux.captures :
               /\ flux.captures[j].key = l /\ flux.captures[j].value = flux.latest[l]
               /\ \A m \in DOMAIN flux.captures : m > j => flux.captures[m].key # l
        BY <2>1, <4>1 DEF Queued
      <4>3. j \in 1..(q + 1) /\ flux'.captures[j] = flux.captures[j]
        BY <1>2, <1>3
      <4>4. \A m \in 1..(q + 1) : m > j => flux'.captures[m].key # l
        BY <1>2, <1>3, <1>4, <3>2, <4>2
      <4>5. QED
        BY <1>3, <4>1, <4>2, <4>3, <4>4
    <3>3. QED
      BY <3>1, <3>2
  <2>2. QED
    BY <2>1 DEF Queued
<1>6. QED
  BY <1>1, <1>30, <1>5 DEF DurableInv, stored

LEMMA NoEntriesNoCaptures ==
    ASSUME BlocksInv, flux.entries = <<>>
    PROVE  flux.captures = <<>>
<1>1. Len(flux.entries) = 0 /\ flux.captures \in Seq(Capture)
  BY QueuedOK
<1>2. flux.captures # <<>> => Len(flux.entries) = Len(flux.captures)
  BY DEF BlocksInv, MemoryOK, FluxOK
<1>3. QED
  BY <1>1, <1>2

(* The queue and what was captured stay as they are. *)
LEMMA QueueDurable ==
    ASSUME BlocksInv, DurableInv, phase = "writing", UNCHANGED <<stored, phase, fresh>>,
           dirty \subseteq dirty', flux'.captures = flux.captures, flux'.latest = flux.latest
    PROVE  DurableInv'
BY DEF DurableInv, Queued, stored

LEMMA ClearDurable ==
    ASSUME BlocksInv, DurableInv, clear_flux_captures
    PROVE  DurableInv'
<1>1. /\ phase = "writing" /\ UNCHANGED <<stored, phase, fresh, dirty>> /\ flux' = NoFlux
  BY DEF clear_flux_captures, FluxEdit
<1>2. \A k \in Keys : flux'.latest[k] = None
  BY <1>1 DEF NoFlux
<1>3. QED
  BY <1>1, <1>2 DEF DurableInv, Queued, OnDisk, stored

LEMMA GetDurable ==
    ASSUME BlocksInv, DurableInv, get_flux_captures
    PROVE  DurableInv'
<1>1. /\ phase = "writing" /\ UNCHANGED <<stored, phase, fresh, dirty>>
      /\ flux' = ensure_flux_entries_loaded(flux, index) /\ flux' # flux
  BY DEF get_flux_captures
<1>2. /\ flux.entries = <<>>
      /\ flux' = process_flux_data_block(flux, FluxBlocks(index)[1].at)
  BY <1>1 DEF ensure_flux_entries_loaded
<1>3. flux'.captures = <<>> /\ flux'.latest = flux.latest
  BY <1>2, QueuedOK DEF process_flux_data_block, FluxShape
<1>4. QED
  BY <1>1, <1>2, <1>3, NoEntriesNoCaptures, QueueDurable

LEMMA CaptureNoMemoryDurable ==
    ASSUME BlocksInv, DurableInv, NEW k \in Keys, write_flux_capture_no_memory(k)
    PROVE  DurableInv'
<1>1. /\ phase = "writing" /\ UNCHANGED <<stored, phase, fresh>> /\ dirty \subseteq dirty'
      /\ flux' = [flux EXCEPT !.entries = SubSeq(flux.entries, 1, Len(flux.captures))]
  BY DEF write_flux_capture_no_memory, FluxEdit
<1>2. flux'.captures = flux.captures /\ flux'.latest = flux.latest
  BY <1>1, QueuedOK DEF FluxShape
<1>3. QED
  BY <1>1, <1>2, QueueDurable

LEMMA FluxFailDurable ==
    ASSUME BlocksInv, DurableInv, NEW m \in 0..MaxEdits, write_flux_blocks_fails(m),
           Longer(file, file')
    PROVE  DurableInv'
<1> DEFINE new == [i \in 1..m |-> [kind |-> "flux_payload", at |-> Len(file) + i]]
<1>1. /\ UNCHANGED <<flux, fresh, dirty, dirtyIndex>> /\ phase' = "writing"
      /\ index' = index \o new /\ FluxStage \in NextWriter
  BY DEF write_flux_blocks_fails, context
<1>2. phase = "finalising"
  BY <1>1, NextWriterIs DEF BlocksInv, ProgressOK
<1>3. m \in Nat /\ Len(file) \in Nat
  BY EffortAssumption, FileIsSeq
<1>4. new \in [1..m -> Entry] /\ \A i \in 1..m : new[i].kind = "flux_payload"
  <2>1. \A i \in 1..m : [kind |-> "flux_payload", at |-> Len(file) + i] \in Entry
    BY <1>3 DEF Entry, BlockKinds
  <2>2. QED
    BY <2>1
<1> HIDE DEF new
<1>5. new \in Seq(Entry) /\ DOMAIN new = 1..m
  BY <1>3, <1>4
<1>6. /\ NoFluxBlock(index') => NoFluxBlock(index)
      /\ \A a : OneFluxBlock(index', a) => OneFluxBlock(index, a)
  BY <1>1, <1>4, <1>5, EntriesOfMemory, FluxOfConcat
<1>7. QED
  BY <1>1, <1>2, <1>6, DurableKept

(* The block that is written has the last capture of each key that was     *)
(* queued.                                                                 *)
LEMMA FluxWrittenDurable ==
    ASSUME BlocksInv, DurableInv, write_flux_blocks, Longer(file, file')
    PROVE  DurableInv'
<1> DEFINE n == Len(flux.captures)
           caps == flux.captures
           es == [i \in 1..n |-> [key |-> caps[i].key, at |-> Len(file) + i]]
           b == [kind |-> "flux", value |-> es, count |-> n]
           new == [i \in 1..n + 1 |-> [kind |-> IF i <= n THEN "flux_payload" ELSE "flux",
                                       at   |-> Len(file) + i]]
           top == Len(file) + n + 1
<1>1. SUFFICES ASSUME fresh
               PROVE  DurableInv'
  BY DEF write_flux_blocks, DurableInv
<1>2. /\ file' = WithPayloads(file, caps, n, b)
      /\ index' = index \o new
  BY DEF write_flux_blocks, WithPayloads
<1>3. /\ flux' = [flux EXCEPT !.captures = <<>>, !.entries = es,
                              !.map = flux_map_rebuild_from_entries(es)]
      /\ UNCHANGED <<dirty, dirtyIndex, phase, fresh>> /\ FluxStage \in NextWriter
  BY DEF write_flux_blocks
<1>4. phase = "finalising"
  BY <1>3, NextWriterIs DEF BlocksInv, ProgressOK
<1>5. flux'.captures = <<>> /\ flux'.latest = flux.latest
  BY <1>3, QueuedOK DEF FluxShape
<1>6. /\ file \in Seq(Cell) /\ Len(file) \in Nat /\ n \in Nat /\ caps \in Seq(Capture)
      /\ n \in 0..Len(caps) /\ DOMAIN caps = 1..n
  BY QueuedOK, FileIsSeq
<1> HIDE DEF n, caps
<1>7. /\ DOMAIN es = 1..n /\ es \in Seq(FluxEntry)
      /\ \A i \in 1..n : es[i].key = caps[i].key /\ es[i].at = Len(file) + i
  <2>1. \A i \in 1..n : caps[i] \in Capture
    BY <1>6
  <2>2. \A i \in 1..n : [key |-> caps[i].key, at |-> Len(file) + i] \in FluxEntry
    BY <1>6, <2>1 DEF Capture, FluxEntry
  <2>3. es \in [1..n -> FluxEntry]
    BY <2>2
  <2>4. \A i \in 1..n : es[i].key = caps[i].key /\ es[i].at = Len(file) + i
    OBVIOUS
  <2> HIDE DEF es
  <2>5. QED
    BY <1>6, <2>3, <2>4
<1> HIDE DEF es
<1>8. b \in Cell /\ b.kind = "flux" /\ b.value = es
  BY <1>6, <1>7 DEF Cell, FluxBlock
<1> HIDE DEF b
<1>9. /\ new \in Seq(Entry) /\ DOMAIN new = 1..(n + 1)
      /\ new[n + 1].kind = "flux" /\ new[n + 1].at = top
  <2>1. \A i \in 1..(n + 1) :
           [kind |-> IF i <= n THEN "flux_payload" ELSE "flux", at |-> Len(file) + i] \in Entry
    BY <1>6, OtherKinds DEF Entry, BlockKinds
  <2>2. new \in [1..(n + 1) -> Entry]
    BY <2>1
  <2>3. new[n + 1].kind = "flux" /\ new[n + 1].at = Len(file) + (n + 1)
    BY <1>6
  <2> HIDE DEF new
  <2>4. QED
    BY <1>6, <2>2, <2>3
<1> HIDE DEF new
<1>10. /\ Len(file') = Len(file) + n + 1
       /\ \A i \in 1..n : file'[Len(file) + i] = write_flux_capture_payload(caps[i])
       /\ file'[top] = b
  <2>1. file \in Seq(Cell) /\ caps \in Seq(Capture) /\ n \in 0..Len(caps) /\ b \in Cell
    BY <1>6, <1>8
  <2>2. /\ Len(WithPayloads(file, caps, n, b)) = Len(file) + n + 1
        /\ \A i \in 1..n : WithPayloads(file, caps, n, b)[Len(file) + i] =
                              write_flux_capture_payload(caps[i])
        /\ WithPayloads(file, caps, n, b)[Len(file) + n + 1] = b
    BY <2>1, FluxFile
  <2>3. QED
    BY <1>2, <2>2
<1>11. DOMAIN file' = 1..(Len(file) + n + 1)
  BY <1>10, LongerDomain
<1>12. /\ DOMAIN index = 1..Len(index) /\ Len(index) \in Nat
       /\ Len(index) + n + 1 \in DOMAIN index' /\ index'[Len(index) + n + 1] = new[n + 1]
       /\ \A i \in DOMAIN index : i \in DOMAIN index' /\ index'[i] = index[i]
  <2>1. index \in Seq(Entry)
    BY EntriesOfMemory
  <2>2. QED
    BY <1>2, <1>6, <1>9, <2>1
<1>13. ~NoFluxBlock(index')
  BY <1>9, <1>12 DEF NoFluxBlock
<1>14. ASSUME NEW a, OneFluxBlock(index', a)
       PROVE  OnDisk(file', a, flux'.latest)
  <2>1. a = top /\ NoFluxBlock(index)
    <3>1. PICK i \in DOMAIN index' :
              /\ index'[i].at = a
              /\ \A j \in DOMAIN index' : index'[j].kind = "flux" => j = i
      BY <1>14 DEF OneFluxBlock
    <3>2. i = Len(index) + n + 1
      BY <1>9, <1>12, <3>1
    <3>3. \A j \in DOMAIN index : j # i
      BY <1>6, <1>12, <3>2
    <3>4. QED
      BY <1>9, <1>12, <3>1, <3>2, <3>3 DEF NoFluxBlock
  <2>2. Queued(flux)
    BY <1>1, <1>4, <2>1 DEF DurableInv
  <2>3. file'[a].value = es
    BY <1>8, <1>10, <2>1
  <2>4. ASSUME NEW k \in Keys, flux.latest[k] # None
        PROVE  \E j \in DOMAIN es :
                  /\ es[j].key = k
                  /\ \A l \in DOMAIN es : l > j => es[l].key # k
                  /\ es[j].at \in DOMAIN file' \ {0}
                  /\ file'[es[j].at].kind = "flux_payload"
                  /\ file'[es[j].at].value.value = flux.latest[k]
    <3>1. PICK j \in DOMAIN caps :
              /\ caps[j].key = k /\ caps[j].value = flux.latest[k]
              /\ \A l \in DOMAIN caps : l > j => caps[l].key # k
      BY <2>2, <2>4 DEF Queued, caps
    <3>2. j \in 1..n /\ Len(file) + j \in DOMAIN file' \ {0}
      BY <1>6, <1>11
    <3>3. file'[es[j].at] = write_flux_capture_payload(caps[j])
      BY <1>7, <1>10, <3>2
    <3>4. \A l \in 1..n : l > j => es[l].key # k
      BY <1>6, <1>7, <3>1
    <3>5. QED
      BY <1>7, <3>1, <3>2, <3>3, <3>4, PayloadIs
  <2>5. QED
    BY <1>5, <2>3, <2>4 DEF OnDisk
<1>15. QED
  BY <1>1, <1>3, <1>4, <1>5, <1>13, <1>14 DEF DurableInv

LEMMA DurableNext ==
    ASSUME BlocksInv, DurableInv, [ToolNext]_toolVars
    PROVE  DurableInv'
<1>1. CASE Idle /\ Next /\ UNCHANGED tool
  <2>1. Longer(file, file')
    BY <1>1, LibraryStep DEF StepOK
  <2>2. QED
    BY <1>1, <2>1, EditDurable, WriterDurable, IndexDurable, SessionDurable,
       CaptureDurable, ClearDurable, GetDurable, FluxWrittenDurable, FluxFailDurable,
       CaptureNoMemoryDurable
       DEF Next, OptionalNext, FluxStep
<1>2. CASE ToolStep
  <2>1. phase' = "ended"
    <3>1. ~Idle => phase = "ended"
      BY DEF BlocksInv, ToolOK
    <3>2. QED
      BY <1>2, <3>1 DEF ToolStep, inject_media_tag, upgrade_ddt_to_alpha21, ToolStarts,
         inject_block, upgrade_table, AppendBlock, inject_index, upgrade_index, AppendIndex,
         inject_header, upgrade_header, RewriteHeader, ToolFails, ToolRuns
  <2>2. QED
    BY <2>1 DEF DurableInv
<1>3. CASE UNCHANGED toolVars
  BY <1>3 DEF toolVars, vars, stored, context, DurableInv, DiskIndex, Queued
<1>4. QED
  BY <1>1, <1>2, <1>3 DEF ToolNext

(* Its inductive invariant: in a session of aaruf_create every capture is  *)
(* queued, in an entry, or in the flux block that the index leads to.      *)
THEOREM DurableInvariant == ToolSpec => []DurableInv
<1>1. ToolInit => DurableInv
  <2>1. \A k \in Keys : NoFlux.latest[k] = None
    BY DEF NoFlux
  <2>2. CASE Init
    <3>1. "flux" \in Flags
      BY FlagsAre
    <3>2. QED
      BY <2>1, <2>2, <3>1 DEF Init, DurableInv, Queued, OnDisk
  <2>3. QED
    BY <2>2 DEF ToolInit, OldInit, DurableInv
<1>2. BlocksInv /\ DurableInv /\ [ToolNext]_toolVars => DurableInv'
  BY DurableNext
<1>3. QED
  BY <1>1, <1>2, BlocksInvariant, PTL DEF ToolSpec

(* The flux blocks of an index, when they are one at most. *)
LEMMA OneOfFluxBlocks ==
    ASSUME NEW ix \in Seq(Entry), Len(FluxBlocks(ix)) <= 1
    PROVE  \/ NoFluxBlock(ix)
           \/ FluxBlocks(ix) # <<>> /\ OneFluxBlock(ix, FluxBlocks(ix)[1].at)
<1> DEFINE r == FluxBlocks(ix)
<1>1. r \in Seq(Entry)
  BY OfKindsSelects DEF FluxBlocks
<1>2. PICK h : Selects(ix, {"flux"}, r, h, Len(ix))
  BY OfKindsSelects DEF FluxBlocks
<1> HIDE DEF r
<1>3. DOMAIN r = 1..Len(r) /\ Len(r) \in Nat /\ DOMAIN ix = 1..Len(ix)
  BY <1>1
<1>4. \A j \in DOMAIN r : h[j] \in DOMAIN ix /\ r[j] = ix[h[j]] /\ r[j].kind = "flux"
  BY <1>2, <1>3 DEF Selects
<1>5. \A i \in DOMAIN ix : ix[i].kind = "flux" => \E j \in DOMAIN r : h[j] = i
  BY <1>2, <1>3 DEF Selects
<1>6. CASE r = <<>>
  <2>1. DOMAIN r = {}
    BY <1>6
  <2>2. QED
    BY <1>5, <2>1 DEF NoFluxBlock
<1>7. CASE r # <<>>
  <2>1. DOMAIN r = {1}
    BY <1>1, <1>3, <1>7 DEF r
  <2>2. OneFluxBlock(ix, r[1].at)
    BY <1>4, <1>5, <2>1 DEF OneFluxBlock
  <2>3. QED
    BY <1>7, <2>2 DEF r
<1>8. QED
  BY <1>6, <1>7

(* What is on disk is read. *)
LEMMA OnDiskRead ==
    ASSUME BlocksInv, NEW ix, FluxBlocks(ix) # <<>>, NEW a, a = FluxBlocks(ix)[1].at,
           a \in DOMAIN file, file[a].kind = "flux", NEW latest, OnDisk(file, a, latest),
           NEW k \in Keys, latest[k] # None
    PROVE  read_flux_capture(NoFlux, ix, k).value = latest[k]
<1> DEFINE es == file[a].value
           fx == process_flux_data_block(NoFlux, a)
           n == Len(es)
<1>1. es \in Seq(FluxEntry) /\ DOMAIN es = 1..n /\ n \in Nat
  BY DEF BlocksInv, FileOK, PayloadsRight, EntriesRight
<1>2. PICK j \in DOMAIN es :
          /\ es[j].key = k
          /\ \A l \in DOMAIN es : l > j => es[l].key # k
          /\ es[j].at \in DOMAIN file \ {0}
          /\ file[es[j].at].kind = "flux_payload"
          /\ file[es[j].at].value.value = latest[k]
  BY DEF OnDisk
<1>3. ensure_flux_entries_loaded(NoFlux, ix) = fx
  BY DEF ensure_flux_entries_loaded, NoFlux
<1>4. fx.entries = es /\ fx.map = flux_map_rebuild_from_entries(es)
  BY DEF process_flux_data_block, NoFlux
<1>5. MapsLast(fx.map, es, n)
  BY <1>1, <1>4, RebuiltMapsLast
<1> HIDE DEF es, fx, n
<1>6. fx.map[k] \in 0..n
  BY <1>5 DEF MapsLast
<1>7. j \in 1..n /\ ~(j \in (fx.map[k] + 1)..n)
  BY <1>1, <1>2, <1>5 DEF MapsLast
<1>8. fx.map[k] >= j /\ fx.map[k] # 0 /\ fx.map[k] \in DOMAIN es
  BY <1>1, <1>6, <1>7
<1>9. es[fx.map[k]].key = k
  BY <1>5, <1>8 DEF MapsLast
<1>10. ~(fx.map[k] > j)
  BY <1>2, <1>8, <1>9
<1>11. fx.map[k] = j
  BY <1>6, <1>7, <1>8, <1>10
<1>12. find_flux_entry_by_key(fx, k) = j
  BY <1>1, <1>4, <1>11 DEF find_flux_entry_by_key
<1>13. j # 0
  BY <1>7
<1>14. read_flux_capture(NoFlux, ix, k) = read_flux_payload(es[j].at)
  BY <1>3, <1>4, <1>12, <1>13 DEF read_flux_capture
<1>15. QED
  BY <1>2, <1>14 DEF read_flux_payload

(* The image of a session of aaruf_create has, once aaruf_close succeeds,  *)
(* the last capture of every key, also when earlier calls of aaruf_close   *)
(* failed half way, unless a flux block was written by one of those.       *)
THEOREM CapturesAreDurable == ToolSpec => []FluxDurable
<1>1. BlocksInv /\ DurableInv => FluxDurable
  <2> SUFFICES ASSUME BlocksInv, DurableInv, phase = "closed", fresh,
                      Len(FluxBlocks(index)) <= 1, NEW k \in Keys, flux.latest[k] # None
               PROVE  read_flux_capture(NoFlux, DiskIndex, k).value = flux.latest[k]
    BY DEF FluxDurable
  <2>1. flux.captures = <<>> /\ DiskIndex = index
    BY DEF DurableInv
  <2>2. ~NoFluxBlock(index)
    <3>1. DOMAIN flux.captures = {}
      BY <2>1
    <3>2. ~Queued(flux)
      BY <3>1 DEF Queued
    <3>3. QED
      BY <3>2 DEF DurableInv
  <2> DEFINE a == FluxBlocks(index)[1].at
  <2>3. FluxBlocks(index) # <<>> /\ OneFluxBlock(index, a)
    BY <2>2, EntriesOfMemory, OneOfFluxBlocks
  <2>4. OnDisk(file, a, flux.latest) /\ a \in DOMAIN file /\ file[a].kind = "flux"
    BY <2>1, <2>3, FluxEntryInFile DEF DurableInv
  <2>5. QED
    BY <2>1, <2>3, <2>4, OnDiskRead
<1>2. QED
  BY <1>1, BlocksInvariant, DurableInvariant, PTL

(***************************************************************************)
(* What a slot is loaded with.                                             *)
(***************************************************************************)
TapeKinds == {"tape_file", "tape_partition"}

(* A block of kind k gives slot s its value: those of tapes give nothing.  *)
Into(k, s) ==
    /\ k \notin NotLoaded \cup TapeKinds
    /\ IF k = "metadata" THEN s \in Fields ELSE s = LoadSlot(k)

ValueIn(b, s) == IF b.kind = "metadata" THEN b.value[s] ELSE b.value

(* The tables of tapes count no entries, those of sectors are one. *)
CountOK(b) ==
    /\ b.kind \in TapeKinds => b.count = 0
    /\ b.kind = "ddt" => b.count = 1

Counted(f) == \A a \in DOMAIN f : CountOK(f[a])

(* The last of the first n entries that goes into slot s gives it v. *)
Comes(f, ix, n, s, v) ==
    \/ v = None /\ \A j \in 1..n : ~Into(ix[j].kind, s)
    \/ \E j \in 1..n : /\ Into(ix[j].kind, s)
                       /\ v = ValueIn(f[ix[j].at], s)
                       /\ \A l \in (j + 1)..n : ~Into(ix[l].kind, s)

(* The fields of the metadata are loaded from its block alone. *)
LEMMA FieldsFromMetadata ==
    ASSUME NEW k \in BlockKinds \ {"index", "torn"}, NEW s \in Fields, Into(k, s)
    PROVE  k = "metadata"
<1>1. SUFFICES ASSUME k # "metadata"
               PROVE  FALSE
  OBVIOUS
<1>2. s = LoadSlot(k) /\ k \notin NotLoaded
  BY <1>1 DEF Into
<1>3. k \in PlainKinds
  BY <1>1, <1>2 DEF BlockKinds, NotLoaded, PlainKinds
<1>4. k \in Names \cup {"no_data_type"}
  BY <1>3, KindsAre DEF PlainKinds
<1>5. LoadSlot(k) \notin Fields
  BY <1>1, <1>4, TagKindsAre
     DEF LoadSlot, Names, SlotOf, Fields, Strings, TypedTags,
         aaruf_get_media_tag_type_for_datatype
<1>6. QED
  BY <1>2, <1>5

(* One loader. *)
LEMMA MetadataInto ==
    ASSUME NEW c \in ContextShape, NEW b \in MetadataBlock, NEW s \in Slots
    PROVE  process_metadata_block(c, b).mem[s] =
               IF s \in Fields /\ b.value[s] # None THEN b.value[s] ELSE c.mem[s]
<1> DEFINE d == CopySequence(c, b)
<1>1. b.value \in [Fields -> Held] /\ Strings \subseteq Fields /\ "media_sequence" \in Fields
      /\ Fields = Strings \cup {"media_sequence"} /\ "media_sequence" \notin Strings
  BY DEF MetadataBlock, Fields, Strings
<1>2. d \in ContextShape
  BY <1>1 DEF CopySequence, ContextShape
<1>3. d.mem[s] = IF s = "media_sequence" /\ b.value["media_sequence"] # None
                 THEN b.value["media_sequence"] ELSE c.mem[s]
  BY <1>1 DEF CopySequence, ContextShape
<1> HIDE DEF d
<1>4. CopyStrings(d, b).mem[s] = IF s \in Strings /\ b.value[s] # None THEN b.value[s] ELSE d.mem[s]
  BY <1>2 DEF CopyStrings, ContextShape
<1>5. CopyStrings(d, b) \in ContextShape
  <2> DEFINE m == [x \in Slots |->
                      IF x \in Strings /\ b.value[x] # None THEN b.value[x] ELSE d.mem[x]]
  <2>1. m \in [Slots -> Held]
    BY <1>1, <1>2 DEF ContextShape
  <2>2. CopyStrings(d, b) = [d EXCEPT !.mem = m]
    BY DEF CopyStrings
  <2> HIDE DEF m
  <2>3. QED
    BY <1>2, <2>1, <2>2 DEF ContextShape
<1>6. process_metadata_block(c, b).mem = CopyStrings(d, b).mem
  BY <1>5 DEF process_metadata_block, ContextShape, d
<1>7. QED
  BY <1>1, <1>3, <1>4, <1>6

LEMMA MetadataIdentified ==
    ASSUME NEW c \in ContextShape, NEW b \in MetadataBlock
    PROVE  process_metadata_block(c, b).identifier
<1> DEFINE d == CopyStrings(CopySequence(c, b), b)
<1>1. d = [CopySequence(c, b) EXCEPT !.mem = d.mem]
  BY DEF CopyStrings, CopySequence, ContextShape
<1>2. "identifier" \in DOMAIN d
  BY <1>1 DEF CopySequence, ContextShape, CopyStrings
<1>3. process_metadata_block(c, b) = [d EXCEPT !.identifier = TRUE]
  BY DEF process_metadata_block
<1> HIDE DEF d
<1>4. QED
  BY <1>2, <1>3

LEMMA PutInto ==
    ASSUME NEW c \in ContextShape, NEW b, NEW s \in Slots, LoadSlot(b.kind) \in Slots
    PROVE  /\ Put(c, b).mem[s] = IF s = LoadSlot(b.kind) THEN b.value ELSE c.mem[s]
           /\ Put(c, b).identifier = c.identifier
<1>1. c.mem \in [Slots -> Held]
  BY DEF ContextShape
<1>2. Put(c, b).mem = [c.mem EXCEPT ![LoadSlot(b.kind)] = b.value]
      /\ Put(c, b).identifier = c.identifier
  BY DEF Put, ContextShape
<1>3. QED
  BY <1>1, <1>2

LEMMA ProcessInto ==
    ASSUME NEW f \in Seq(Cell), Counted(f), NEW ix, Resolves(f, ix), NEW i \in DOMAIN ix,
           NEW c \in ContextShape, NEW s \in Slots
    PROVE  /\ Process(f, c, ix[i]).mem[s] =
                  IF Into(ix[i].kind, s)
                     /\ ~(ix[i].kind = "metadata" /\ ValueIn(f[ix[i].at], s) = None)
                  THEN ValueIn(f[ix[i].at], s) ELSE c.mem[s]
           /\ ix[i].kind = "metadata" => Process(f, c, ix[i]).identifier
           /\ c.identifier => Process(f, c, ix[i]).identifier
<1> DEFINE e == ix[i]
           b == f[e.at]
<1>1. e \in Entry /\ b \in Cell /\ b.kind = e.kind /\ e.at \in DOMAIN f
  BY DEF Resolves
<1>2. e.kind \in BlockKinds \ {"index", "torn"}
  BY <1>1 DEF Entry
<1>3. CASE e.kind \in NotLoaded
  <2>1. Process(f, c, e) = c /\ ~Into(e.kind, s) /\ e.kind # "metadata"
    BY <1>2, <1>3, ProcessIs DEF Into, NotLoaded
  <2>2. QED
    BY <2>1
<1>4. CASE e.kind = "metadata"
  <2>1. b \in MetadataBlock /\ e.kind \notin NotLoaded
    BY <1>1, <1>4, CellKinds DEF NotLoaded
  <2>2. Process(f, c, e) = process_metadata_block(c, b)
    BY <1>1, <1>2, <1>4, <2>1, ProcessIs
  <2>3. (Into(e.kind, s) <=> s \in Fields) /\ ValueIn(b, s) = b.value[s]
    BY <1>1, <1>4, <2>1 DEF Into, TapeKinds, ValueIn
  <2> HIDE DEF e, b
  <2>4. Process(f, c, e).mem[s] =
            IF s \in Fields /\ b.value[s] # None THEN b.value[s] ELSE c.mem[s]
    <3>1. process_metadata_block(c, b).mem[s] =
              IF s \in Fields /\ b.value[s] # None THEN b.value[s] ELSE c.mem[s]
      BY <2>1, MetadataInto
    <3>2. QED
      BY <2>2, <3>1
  <2>5. Process(f, c, e).identifier
    BY <2>1, <2>2, MetadataIdentified
  <2>6. QED
    BY <1>4, <2>3, <2>4, <2>5 DEF e, b
<1>5. CASE e.kind \in TapeKinds
  <2>1. e.kind \notin NotLoaded /\ e.kind # "metadata"
    BY <1>5 DEF TapeKinds, NotLoaded
  <2>2. e.kind \in PlainKinds
    BY <1>2, <2>1 DEF BlockKinds, PlainKinds, NotLoaded
  <2>3. b \in PlainBlock /\ b.count = 0
    BY <1>1, <1>5, <2>2, CellKinds DEF Counted, CountOK
  <2>4. b.value # None
    BY <2>3, ValuesAssumption DEF PlainBlock
  <2>5. Process(f, c, e) = c
    BY <1>1, <1>2, <1>5, <2>1, <2>3, <2>4, ProcessIs DEF TapeKinds
  <2>6. ~Into(e.kind, s)
    BY <1>5 DEF Into
  <2>7. QED
    BY <2>1, <2>5, <2>6
<1>6. CASE e.kind \notin NotLoaded \cup TapeKinds \cup {"metadata"}
  <2>1. e.kind \in PlainKinds
    BY <1>2, <1>6 DEF BlockKinds, PlainKinds, NotLoaded
  <2>2. LoadSlot(b.kind) \in Slots
    BY <1>1, <2>1, LoadSlotIsSlot
  <2>3. Process(f, c, e) = Put(c, b)
    BY <1>1, <1>2, <1>6, ProcessIs DEF TapeKinds
  <2>4. (Into(e.kind, s) <=> s = LoadSlot(b.kind)) /\ ValueIn(b, s) = b.value
    BY <1>1, <1>6 DEF Into, ValueIn
  <2> HIDE DEF e, b
  <2>5. /\ Process(f, c, e).mem[s] = IF s = LoadSlot(b.kind) THEN b.value ELSE c.mem[s]
        /\ Process(f, c, e).identifier = c.identifier
    BY <2>2, <2>3, PutInto
  <2>6. QED
    BY <1>6, <2>4, <2>5 DEF e, b
<1>7. QED
  BY <1>3, <1>4, <1>5, <1>6

LEMMA EntryKind ==
    ASSUME NEW ix \in Seq(Entry), NEW i \in DOMAIN ix
    PROVE  ix[i] \in Entry /\ ix[i].kind \in BlockKinds \ {"index", "torn"}
<1>1. ix[i] \in Entry
  OBVIOUS
<1>2. QED
  BY <1>1 DEF Entry

(* What an index gives is what comes from its last entry into the slot. *)
LEMMA LoadingComes ==
    ASSUME NEW f \in Seq(Cell), Counted(f), NEW ix, IndexOK(f, ix), NEW s \in Slots
    PROVE  Comes(f, ix, Len(ix), s, Loading(f, ix).mem[s])
<1>1. /\ ix \in Seq(Entry) /\ Len(ix) \in Nat /\ DOMAIN ix = 1..Len(ix)
      /\ Resolves(f, ix) /\ Distinct(ix)
  BY DEF IndexOK, Resolves
<1>2. PICK g : /\ Loading(f, ix) = g[Len(ix)]
               /\ g[0] = NoContext
               /\ \A m \in 1..Len(ix) : g[m] = Process(f, g[m - 1], ix[m])
  BY <1>1, LoadingSteps
<1> DEFINE S == {n \in 0..Len(ix) : g[n] \in ContextShape /\ Comes(f, ix, n, s, g[n].mem[s])}
<1>3. 0 \in S
  <2>1. NoContext \in ContextShape /\ NoContext.mem[s] = None
    BY DEF NoContext, ContextShape, NoMem, Held
  <2>2. Comes(f, ix, 0, s, None)
    BY DEF Comes
  <2>3. QED
    BY <1>1, <1>2, <2>1, <2>2
<1>4. ASSUME NEW n \in 0..(Len(ix) - 1), n \in S
      PROVE  n + 1 \in S
  <2>1. n + 1 \in DOMAIN ix /\ n + 1 \in 0..Len(ix) /\ (n + 1) - 1 = n
    BY <1>1
  <2>2. g[n + 1] = Process(f, g[n], ix[n + 1])
    BY <1>1, <1>2, <2>1
  <2>3. g[n] \in ContextShape /\ Comes(f, ix, n, s, g[n].mem[s])
    BY <1>4
  <2>4. g[n + 1] \in ContextShape
    BY <1>1, <2>1, <2>2, <2>3, ProcessTyped
  <2> DEFINE e == ix[n + 1]
             v == ValueIn(f[e.at], s)
  <2>5. g[n + 1].mem[s] = IF Into(e.kind, s) /\ ~(e.kind = "metadata" /\ v = None)
                          THEN v ELSE g[n].mem[s]
    BY <1>1, <2>1, <2>2, <2>3, ProcessInto
  <2>6. e.kind \in BlockKinds \ {"index", "torn"}
    BY <1>1, <2>1, EntryKind
  <2>7. \A j \in 1..(n + 1) : j = n + 1 \/ j \in 1..n
    OBVIOUS
  <2> HIDE DEF v
  <2>8. CASE ~Into(e.kind, s)
    <3>1. g[n + 1].mem[s] = g[n].mem[s]
      BY <2>5, <2>8
    <3>2. \A l \in 1..(n + 1) : l \in 1..n \/ ~Into(ix[l].kind, s)
      BY <2>7, <2>8
    <3>3. Comes(f, ix, n + 1, s, g[n].mem[s])
      <4>1. CASE g[n].mem[s] = None /\ \A j \in 1..n : ~Into(ix[j].kind, s)
        BY <3>2, <4>1 DEF Comes
      <4>2. CASE \E j \in 1..n : /\ Into(ix[j].kind, s)
                                 /\ g[n].mem[s] = ValueIn(f[ix[j].at], s)
                                 /\ \A l \in (j + 1)..n : ~Into(ix[l].kind, s)
        <5>1. PICK j \in 1..n : /\ Into(ix[j].kind, s)
                                /\ g[n].mem[s] = ValueIn(f[ix[j].at], s)
                                /\ \A l \in (j + 1)..n : ~Into(ix[l].kind, s)
          BY <4>2
        <5>2. j \in 1..(n + 1) /\ \A l \in (j + 1)..(n + 1) : ~Into(ix[l].kind, s)
          BY <5>1, <2>8
        <5>3. QED
          BY <5>1, <5>2 DEF Comes
      <4>3. QED
        BY <2>3, <4>1, <4>2 DEF Comes
    <3>4. QED
      BY <2>1, <2>4, <3>1, <3>3
  <2>9. CASE Into(e.kind, s)
    <3>1. g[n + 1].mem[s] = v
      <4>1. CASE ~(e.kind = "metadata" /\ v = None)
        BY <2>5, <2>9, <4>1
      <4>2. CASE e.kind = "metadata" /\ v = None
        <5>1. g[n + 1].mem[s] = g[n].mem[s]
          BY <2>5, <4>2
        <5>2. s \in Fields
          BY <2>9, <4>2 DEF Into
        <5>3. ASSUME NEW j \in 1..n, Into(ix[j].kind, s)
              PROVE  FALSE
          <6>1. j \in DOMAIN ix
            BY <1>1, <2>1
          <6>2. ix[j].kind \in BlockKinds \ {"index", "torn"}
            BY <1>1, <6>1, EntryKind
          <6>3. ix[j].kind = "metadata"
            BY <5>2, <5>3, <6>2, FieldsFromMetadata
          <6>4. j = n + 1
            BY <1>1, <2>1, <4>2, <6>1, <6>3, OtherKinds DEF Distinct
          <6>5. QED
            BY <6>4
        <5>4. g[n].mem[s] = None
          BY <2>3, <5>3 DEF Comes
        <5>5. QED
          BY <4>2, <5>1, <5>4
      <4>3. QED
        BY <4>1, <4>2
    <3>2. n + 1 \in 1..(n + 1) /\ \A l \in ((n + 1) + 1)..(n + 1) : ~Into(ix[l].kind, s)
      OBVIOUS
    <3>3. Comes(f, ix, n + 1, s, v)
      BY <2>9, <3>2 DEF Comes, v
    <3>4. QED
      BY <2>1, <2>4, <3>1, <3>3
  <2>10. QED
    BY <2>8, <2>9
<1>5. 0..Len(ix) \subseteq S
  <2> HIDE DEF S
  <2>1. QED
    BY <1>1, <1>3, <1>4, InductionUpTo
<1>6. Len(ix) \in S
  BY <1>1, <1>5
<1>7. QED
  BY <1>2, <1>6

(* Nothing else comes. *)
LEMMA ComesOnce ==
    ASSUME NEW f, NEW ix, NEW n \in Nat, NEW s, NEW v, NEW w,
           Comes(f, ix, n, s, v), Comes(f, ix, n, s, w)
    PROVE  v = w
<1>1. CASE \A j \in 1..n : ~Into(ix[j].kind, s)
  BY <1>1 DEF Comes
<1>2. CASE ~\A j \in 1..n : ~Into(ix[j].kind, s)
  <2>1. PICK i \in 1..n : /\ Into(ix[i].kind, s) /\ v = ValueIn(f[ix[i].at], s)
                          /\ \A l \in (i + 1)..n : ~Into(ix[l].kind, s)
    BY <1>2 DEF Comes
  <2>2. PICK j \in 1..n : /\ Into(ix[j].kind, s) /\ w = ValueIn(f[ix[j].at], s)
                          /\ \A l \in (j + 1)..n : ~Into(ix[l].kind, s)
    BY <1>2 DEF Comes
  <2>3. i = j
    <3>1. ~(i < j) /\ ~(j < i)
      BY <2>1, <2>2
    <3>2. QED
      BY <3>1
  <2>4. QED
    BY <2>1, <2>2, <2>3
<1>3. QED
  BY <1>1, <1>2

(* The file only grows. *)
LEMMA ComesKept ==
    ASSUME NEW f, NEW g, Longer(f, g), NEW ix, Resolves(f, ix), NEW s, NEW v,
           Comes(f, ix, Len(ix), s, v)
    PROVE  Comes(g, ix, Len(ix), s, v)
<1>1. \A j \in 1..Len(ix) : g[ix[j].at] = f[ix[j].at]
  <2>1. ix \in Seq(Entry) /\ \A j \in 1..Len(ix) : ix[j].at \in DOMAIN f
    BY DEF Resolves
  <2>2. QED
    BY <2>1, LongerDomain
<1>2. QED
  BY <1>1 DEF Comes

(* Entries of kinds that do not go into the slot are taken out. *)
LEMMA ComesWithout ==
    ASSUME NEW f, NEW ix, Resolves(f, ix), NEW kinds, NEW s, NEW v,
           Comes(f, ix, Len(ix), s, v),
           \A k \in BlockKinds \ kinds : ~Into(k, s)
    PROVE  Comes(f, OfKinds(ix, kinds), Len(OfKinds(ix, kinds)), s, v)
<1> DEFINE r == OfKinds(ix, kinds)
<1>1. ix \in Seq(Entry) /\ r \in Seq(Entry)
  BY OfKindsSelects DEF Resolves
<1>2. PICK h : Selects(ix, kinds, r, h, Len(ix))
  BY <1>1, OfKindsSelects
<1> HIDE DEF r
<1>3. /\ Len(r) \in Nat /\ Len(ix) \in Nat /\ DOMAIN ix = 1..Len(ix)
      /\ \A j \in 1..Len(r) : h[j] \in 1..Len(ix) /\ r[j] = ix[h[j]]
      /\ \A i, j \in 1..Len(r) : i < j => h[i] < h[j]
      /\ \A i \in 1..Len(ix) : ix[i].kind \in kinds => \E j \in 1..Len(r) : h[j] = i
  BY <1>1, <1>2 DEF Selects
<1>4. \A i \in 1..Len(ix) : Into(ix[i].kind, s) => \E j \in 1..Len(r) : h[j] = i
  <2>1. \A i \in 1..Len(ix) : ix[i].kind \in BlockKinds
    BY <1>1, <1>3, EntryKind
  <2>2. QED
    BY <1>3, <2>1
<1>5. CASE v = None /\ \A j \in 1..Len(ix) : ~Into(ix[j].kind, s)
  BY <1>3, <1>5 DEF Comes, r
<1>6. CASE \E i \in 1..Len(ix) : /\ Into(ix[i].kind, s) /\ v = ValueIn(f[ix[i].at], s)
                                 /\ \A l \in (i + 1)..Len(ix) : ~Into(ix[l].kind, s)
  <2>1. PICK i \in 1..Len(ix) : /\ Into(ix[i].kind, s) /\ v = ValueIn(f[ix[i].at], s)
                                /\ \A l \in (i + 1)..Len(ix) : ~Into(ix[l].kind, s)
    BY <1>6
  <2>2. PICK j \in 1..Len(r) : h[j] = i
    BY <1>4, <2>1
  <2>3. ASSUME NEW l \in (j + 1)..Len(r)
        PROVE  ~Into(r[l].kind, s)
    <3>1. l \in 1..Len(r) /\ j < l
      BY <1>3, <2>3
    <3>2. h[j] < h[l] /\ h[l] \in 1..Len(ix) /\ r[l] = ix[h[l]]
      BY <1>3, <3>1
    <3>3. h[l] \in (i + 1)..Len(ix)
      BY <1>3, <2>1, <2>2, <3>2
    <3>4. QED
      BY <2>1, <3>2, <3>3
  <2>4. r[j] = ix[i]
    BY <1>3, <2>2
  <2>5. QED
    BY <2>1, <2>3, <2>4 DEF Comes, r
<1>7. QED
  BY <1>5, <1>6 DEF Comes

(* One more entry. *)
LEMMA ComesAppended ==
    ASSUME NEW f, NEW ix \in Seq(Entry), NEW s, NEW v, Comes(f, ix, Len(ix), s, v),
           NEW e \in Entry
    PROVE  Comes(f, Append(ix, e), Len(Append(ix, e)), s,
                 IF Into(e.kind, s) THEN ValueIn(f[e.at], s) ELSE v)
<1> DEFINE r == Append(ix, e)
           n == Len(ix)
<1>1. /\ n \in Nat /\ Len(r) = n + 1 /\ r[n + 1] = e
      /\ \A j \in 1..n : r[j] = ix[j]
      /\ \A j \in 1..(n + 1) : j \in 1..n \/ j = n + 1
  OBVIOUS
<1> HIDE DEF r, n
<1>2. CASE Into(e.kind, s)
  <2>1. n + 1 \in 1..(n + 1) /\ \A l \in ((n + 1) + 1)..(n + 1) : ~Into(r[l].kind, s)
    BY <1>1
  <2>2. Comes(f, r, n + 1, s, ValueIn(f[e.at], s))
    BY <1>1, <1>2, <2>1 DEF Comes
  <2>3. QED
    BY <1>1, <1>2, <2>2 DEF r
<1>3. CASE ~Into(e.kind, s)
  <2>1. Comes(f, r, n + 1, s, v)
    <3>1. CASE v = None /\ \A j \in 1..n : ~Into(ix[j].kind, s)
      BY <1>1, <1>3, <3>1 DEF Comes
    <3>2. CASE \E j \in 1..n : /\ Into(ix[j].kind, s) /\ v = ValueIn(f[ix[j].at], s)
                               /\ \A l \in (j + 1)..n : ~Into(ix[l].kind, s)
      <4>1. PICK j \in 1..n : /\ Into(ix[j].kind, s) /\ v = ValueIn(f[ix[j].at], s)
                              /\ \A l \in (j + 1)..n : ~Into(ix[l].kind, s)
        BY <3>2
      <4>2. j \in 1..(n + 1) /\ r[j] = ix[j]
        BY <1>1, <4>1
      <4>3. ASSUME NEW l \in (j + 1)..(n + 1)
            PROVE  ~Into(r[l].kind, s)
        <5>1. l = n + 1 \/ (l \in (j + 1)..n /\ l \in 1..n)
          BY <1>1, <4>1, <4>3
        <5>2. QED
          BY <1>1, <1>3, <4>1, <5>1
      <4>4. QED
        BY <4>1, <4>2, <4>3 DEF Comes
    <3>3. QED
      BY <3>1, <3>2 DEF Comes, n
  <2>2. QED
    BY <1>1, <1>3, <2>1 DEF r
<1>4. QED
  BY <1>2, <1>3

(* More entries that are not loaded. *)
LEMMA ComesConcat ==
    ASSUME NEW f, NEW ix \in Seq(Entry), NEW s, NEW v, Comes(f, ix, Len(ix), s, v),
           NEW es \in Seq(Entry), \A i \in DOMAIN es : ~Into(es[i].kind, s)
    PROVE  Comes(f, ix \o es, Len(ix \o es), s, v)
<1> DEFINE r == ix \o es
           n == Len(ix)
           p == Len(r)
<1>1. /\ n \in Nat /\ p \in Nat /\ n <= p
      /\ \A j \in 1..n : r[j] = ix[j]
      /\ \A j \in 1..p : j > n => j - n \in DOMAIN es /\ r[j] = es[j - n]
  OBVIOUS
<1> HIDE DEF r, n, p
<1>2. \A j \in 1..p : j > n => ~Into(r[j].kind, s)
  BY <1>1
<1>3. CASE v = None /\ \A j \in 1..n : ~Into(ix[j].kind, s)
  <2>1. \A j \in 1..p : ~Into(r[j].kind, s)
    <3>1. \A j \in 1..p : j > n \/ j \in 1..n
      BY <1>1
    <3>2. QED
      BY <1>1, <1>2, <1>3, <3>1
  <2>2. QED
    BY <1>3, <2>1 DEF Comes, r, p
<1>4. CASE \E j \in 1..n : /\ Into(ix[j].kind, s) /\ v = ValueIn(f[ix[j].at], s)
                           /\ \A l \in (j + 1)..n : ~Into(ix[l].kind, s)
  <2>1. PICK j \in 1..n : /\ Into(ix[j].kind, s) /\ v = ValueIn(f[ix[j].at], s)
                          /\ \A l \in (j + 1)..n : ~Into(ix[l].kind, s)
    BY <1>4
  <2>2. j \in 1..p /\ r[j] = ix[j]
    BY <1>1, <2>1
  <2>3. ASSUME NEW l \in (j + 1)..p
        PROVE  ~Into(r[l].kind, s)
    <3>1. l \in 1..p /\ (l > n \/ (l \in (j + 1)..n /\ l \in 1..n))
      BY <1>1, <2>1, <2>3
    <3>2. QED
      BY <1>1, <1>2, <2>1, <3>1
  <2>4. QED
    BY <2>1, <2>2, <2>3 DEF Comes, r, p
<1>5. QED
  BY <1>3, <1>4 DEF Comes, n

LEMMA CountedKept ==
    ASSUME NEW f, NEW g, Longer(f, g), Counted(g)
    PROVE  Counted(f)
BY LongerDomain DEF Counted

(* What an index gives stays what it is when the file grows. *)
LEMMA LoadingKept ==
    ASSUME NEW f, NEW g, Longer(f, g), Counted(g), NEW ix, IndexOK(f, ix), NEW s \in Slots
    PROVE  Loading(g, ix).mem[s] = Loading(f, ix).mem[s]
<1>1. f \in Seq(Cell) /\ g \in Seq(Cell) /\ Counted(f) /\ IndexOK(g, ix)
  BY LongerDomain, CountedKept, IndexKept
<1>2. Resolves(f, ix) /\ Len(ix) \in Nat
  BY DEF IndexOK, Resolves
<1>3. Comes(f, ix, Len(ix), s, Loading(f, ix).mem[s])
  BY <1>1, LoadingComes
<1>4. Comes(g, ix, Len(ix), s, Loading(f, ix).mem[s])
  BY <1>2, <1>3, ComesKept
<1>5. Comes(g, ix, Len(ix), s, Loading(g, ix).mem[s])
  BY <1>1, LoadingComes
<1>6. QED
  BY <1>2, <1>4, <1>5, ComesOnce

(* Without the entries of kinds that do not go into a slot. *)
LEMMA LoadingWithout ==
    ASSUME NEW f \in Seq(Cell), Counted(f), NEW ix, IndexOK(f, ix), NEW s \in Slots,
           NEW kinds, \A k \in BlockKinds \ kinds : ~Into(k, s)
    PROVE  Loading(f, OfKinds(ix, kinds)).mem[s] = Loading(f, ix).mem[s]
<1> DEFINE r == OfKinds(ix, kinds)
<1>1. IndexOK(f, r) /\ Resolves(f, ix)
  BY OfKindsOK DEF IndexOK
<1>2. Len(r) \in Nat
  BY <1>1 DEF IndexOK, Resolves
<1>3. Comes(f, ix, Len(ix), s, Loading(f, ix).mem[s])
  BY LoadingComes
<1>4. Comes(f, r, Len(r), s, Loading(f, ix).mem[s])
  BY <1>1, <1>3, ComesWithout
<1> HIDE DEF r
<1>5. Comes(f, r, Len(r), s, Loading(f, r).mem[s])
  BY <1>1, LoadingComes
<1>6. Loading(f, r).mem[s] = Loading(f, ix).mem[s]
  BY <1>2, <1>4, <1>5, ComesOnce
<1>7. QED
  BY <1>6 DEF r

(* Without the entries of all kinds that do. *)
LEMMA LoadingNone ==
    ASSUME NEW f \in Seq(Cell), Counted(f), NEW ix, IndexOK(f, ix), NEW s \in Slots,
           NEW kinds, \A k \in kinds : ~Into(k, s)
    PROVE  Loading(f, OfKinds(ix, kinds)).mem[s] = None
<1> DEFINE r == OfKinds(ix, kinds)
<1>1. IndexOK(f, r) /\ \A i \in DOMAIN r : r[i].kind \in kinds
  BY OfKindsOK
<1> HIDE DEF r
<1>2. Len(r) \in Nat /\ DOMAIN r = 1..Len(r)
  BY <1>1 DEF IndexOK, Resolves
<1>3. Comes(f, r, Len(r), s, None)
  BY <1>1, <1>2 DEF Comes
<1>4. Comes(f, r, Len(r), s, Loading(f, r).mem[s])
  BY <1>1, LoadingComes
<1>5. Loading(f, r).mem[s] = None
  BY <1>2, <1>3, <1>4, ComesOnce
<1>6. QED
  BY <1>5 DEF r

(* With one more entry. *)
LEMMA LoadingAppended ==
    ASSUME NEW f \in Seq(Cell), Counted(f), NEW ix, IndexOK(f, ix), NEW s \in Slots,
           NEW e \in Entry, IndexOK(f, Append(ix, e))
    PROVE  Loading(f, Append(ix, e)).mem[s] =
               IF Into(e.kind, s) THEN ValueIn(f[e.at], s) ELSE Loading(f, ix).mem[s]
<1> DEFINE r == Append(ix, e)
           v == Loading(f, ix).mem[s]
           w == IF Into(e.kind, s) THEN ValueIn(f[e.at], s) ELSE v
<1>1. ix \in Seq(Entry) /\ IndexOK(f, r)
  BY DEF IndexOK, Resolves
<1>2. Len(r) \in Nat
  BY <1>1 DEF IndexOK, Resolves
<1>3. Comes(f, ix, Len(ix), s, v)
  BY LoadingComes
<1> HIDE DEF v
<1>4. Comes(f, r, Len(r), s, w)
  BY <1>1, <1>3, ComesAppended
<1> HIDE DEF r, w
<1>5. Comes(f, r, Len(r), s, Loading(f, r).mem[s])
  BY <1>1, LoadingComes
<1>6. Loading(f, r).mem[s] = w
  BY <1>2, <1>4, <1>5, ComesOnce
<1>7. QED
  BY <1>6 DEF r, w, v

(* With entries of flux. *)
LEMMA LoadingConcat ==
    ASSUME NEW f \in Seq(Cell), Counted(f), NEW ix, IndexOK(f, ix), NEW s \in Slots,
           NEW es \in Seq(Entry), IndexOK(f, ix \o es),
           \A i \in DOMAIN es : es[i].kind \in {"flux", "flux_payload"}
    PROVE  Loading(f, ix \o es).mem[s] = Loading(f, ix).mem[s]
<1> DEFINE r == ix \o es
<1>1. ix \in Seq(Entry) /\ IndexOK(f, r)
  BY DEF IndexOK, Resolves
<1>2. Len(r) \in Nat
  BY <1>1 DEF IndexOK, Resolves
<1>3. Comes(f, ix, Len(ix), s, Loading(f, ix).mem[s])
  BY LoadingComes
<1>4. \A i \in DOMAIN es : ~Into(es[i].kind, s)
  BY DEF Into, NotLoaded
<1>5. Comes(f, r, Len(r), s, Loading(f, ix).mem[s])
  BY <1>1, <1>3, <1>4, ComesConcat
<1> HIDE DEF r
<1>6. Comes(f, r, Len(r), s, Loading(f, r).mem[s])
  BY <1>1, LoadingComes
<1>7. Loading(f, r).mem[s] = Loading(f, ix).mem[s]
  BY <1>2, <1>5, <1>6, ComesOnce
<1>8. QED
  BY <1>7 DEF r

(* The entries of a kind give way to that of a new block. *)
LEMMA LoadingReplaced ==
    ASSUME NEW f, NEW g, Longer(f, g), Counted(g), NEW ix, IndexOK(f, ix),
           NEW k \in BlockKinds \ {"index", "torn"}, NEW at \in DOMAIN g, g[at].kind = k,
           NEW s \in Slots
    PROVE  Loading(g, Append(OfKinds(ix, BlockKinds \ {k}), [kind |-> k, at |-> at])).mem[s] =
               IF Into(k, s) THEN ValueIn(g[at], s) ELSE Loading(f, ix).mem[s]
<1> DEFINE r == OfKinds(ix, BlockKinds \ {k})
           e == [kind |-> k, at |-> at]
<1>1. IndexOK(g, ix) /\ g \in Seq(Cell) /\ IndexOK(g, r) /\ IndexOK(g, Append(r, e))
  BY IndexKept, LongerDomain, OfKindsOK, ReplaceOK
<1>2. e \in Entry /\ e.kind = k /\ e.at = at
  BY <1>1 DEF Entry
<1>3. CASE Into(k, s)
  <2> HIDE DEF r, e
  <2>1. Loading(g, Append(r, e)).mem[s] = ValueIn(g[at], s)
    BY <1>1, <1>2, <1>3, LoadingAppended
  <2>2. QED
    BY <1>3, <2>1 DEF r, e
<1>4. CASE ~Into(k, s)
  <2>1. \A l \in BlockKinds \ (BlockKinds \ {k}) : ~Into(l, s)
    BY <1>4
  <2>2. Loading(g, r).mem[s] = Loading(g, ix).mem[s]
    BY <1>1, <2>1, LoadingWithout
  <2>3. Loading(g, ix).mem[s] = Loading(f, ix).mem[s]
    BY LoadingKept
  <2> HIDE DEF r, e
  <2>4. Loading(g, Append(r, e)).mem[s] = Loading(g, r).mem[s]
    BY <1>1, <1>2, <1>4, LoadingAppended
  <2>5. QED
    BY <1>4, <2>2, <2>3, <2>4 DEF r, e
<1>5. QED
  BY <1>3, <1>4

(***************************************************************************)
(* Getters.                                                                *)
(***************************************************************************)

(* The header of the metadata says that there is some. *)
Coherent(c) == \A s \in Fields : c.mem[s] # None => c.identifier

LEMMA LoadingCoherent ==
    ASSUME NEW f \in Seq(Cell), Counted(f), NEW ix, IndexOK(f, ix)
    PROVE  Coherent(Loading(f, ix))
<1>1. /\ ix \in Seq(Entry) /\ Len(ix) \in Nat /\ DOMAIN ix = 1..Len(ix)
      /\ Resolves(f, ix)
  BY DEF IndexOK, Resolves
<1>2. PICK g : /\ Loading(f, ix) = g[Len(ix)]
               /\ g[0] = NoContext
               /\ \A m \in 1..Len(ix) : g[m] = Process(f, g[m - 1], ix[m])
  BY <1>1, LoadingSteps
<1> DEFINE S == {n \in 0..Len(ix) : g[n] \in ContextShape /\ Coherent(g[n])}
<1>3. 0 \in S
  <2>1. NoContext \in ContextShape
    BY DEF NoContext, ContextShape, NoMem, Held
  <2>2. Coherent(NoContext)
    BY FieldsAre DEF NoContext, NoMem, Coherent
  <2>3. QED
    BY <1>1, <1>2, <2>1, <2>2
<1>4. ASSUME NEW n \in 0..(Len(ix) - 1), n \in S
      PROVE  n + 1 \in S
  <2>1. n + 1 \in DOMAIN ix /\ n + 1 \in 0..Len(ix) /\ (n + 1) - 1 = n
    BY <1>1
  <2>2. g[n + 1] = Process(f, g[n], ix[n + 1])
    BY <1>1, <1>2, <2>1
  <2>3. g[n] \in ContextShape /\ Coherent(g[n])
    BY <1>4
  <2>4. g[n + 1] \in ContextShape
    BY <1>1, <2>1, <2>2, <2>3, ProcessTyped
  <2>5. ASSUME NEW s \in Fields, g[n + 1].mem[s] # None
        PROVE  g[n + 1].identifier
    <3> DEFINE e == ix[n + 1]
    <3>1. s \in Slots
      BY FieldsAre
    <3>2. e.kind \in BlockKinds \ {"index", "torn"}
      BY <1>1, <2>1, EntryKind
    <3>3. /\ Process(f, g[n], e).mem[s] =
                 IF Into(e.kind, s)
                    /\ ~(e.kind = "metadata" /\ ValueIn(f[e.at], s) = None)
                 THEN ValueIn(f[e.at], s) ELSE g[n].mem[s]
          /\ e.kind = "metadata" => Process(f, g[n], e).identifier
          /\ g[n].identifier => Process(f, g[n], e).identifier
      BY <1>1, <2>1, <2>3, <3>1, ProcessInto
    <3>4. CASE Into(e.kind, s)
      <4>1. e.kind = "metadata"
        BY <3>2, <3>4, FieldsFromMetadata
      <4>2. QED
        BY <2>2, <3>3, <4>1
    <3>5. CASE ~Into(e.kind, s)
      <4>1. g[n].mem[s] # None
        BY <2>2, <2>5, <3>3, <3>5
      <4>2. g[n].identifier
        BY <2>3, <4>1 DEF Coherent
      <4>3. QED
        BY <2>2, <3>3, <4>2
    <3>6. QED
      BY <3>4, <3>5
  <2>6. QED
    BY <2>1, <2>4, <2>5 DEF Coherent
<1>5. 0..Len(ix) \subseteq S
  <2> HIDE DEF S
  <2>1. QED
    BY <1>1, <1>3, <1>4, InductionUpTo
<1>6. QED
  BY <1>1, <1>2, <1>5

(* A getter answers the value of its slot. *)
LEMMA GetIs ==
    ASSUME NEW c, Coherent(c), NEW s \in Slots
    PROVE  Get(c, s) = c.mem[s]
<1>1. CASE s \in Fields
  <2>1. Get(c, s) = GetMetadata(c, s)
    BY <1>1, FieldsAre
       DEF Get, Tags, TypedTags, DvdSlots, get_media_sequence, get_creator, get_comments,
           get_media_title, get_media_manufacturer, get_media_model,
           get_media_serial_number, get_media_barcode, get_media_part_number,
           get_drive_manufacturer, get_drive_model, get_drive_serial_number,
           get_drive_firmware_revision
  <2>2. GetMetadata(c, s) = c.mem[s]
    BY <1>1 DEF GetMetadata, Coherent
  <2>3. QED
    BY <2>1, <2>2
<1>2. CASE s \in Tags
  <2>1. s \in {"media_tag_a", "media_tag_b", "minidisc_tag", "untyped_tag"}
    BY <1>2 DEF Tags, TypedTags
  <2>2. Get(c, s) = read_media_tag(c, s)
    BY <1>2, <2>1 DEF Get, DvdSlots
  <2>3. QED
    BY <2>2 DEF read_media_tag
<1>3. CASE s \in DvdSlots
  <2>1. s \in {"sector_id", "sector_ied", "sector_cpr_mai", "sector_edc"} /\ s \notin Tags
    BY <1>3 DEF DvdSlots, Tags, TypedTags
  <2>2. Get(c, s) = read_tag_dvd(c, s)
    BY <1>3, <2>1 DEF Get
  <2>3. QED
    BY <2>2 DEF read_tag_dvd
<1>4. CASE s \in {"tracks", "subchannel", "title_key", "tape_file", "tape_partition",
                  "geometry", "dumphw", "cicm", "json", "dpm"}
  <2>1. s \notin Tags \cup DvdSlots
    BY <1>4 DEF Tags, TypedTags, DvdSlots
  <2>2. CASE s \in {"tracks", "subchannel", "title_key", "tape_file", "tape_partition"}
    BY <2>1, <2>2 DEF Get, read_tag_track, get_tracks, read_tag_apple, read_tag_subchannel,
       read_tag_title_key, get_tape_file, get_tape_partition
  <2>3. CASE s \in {"geometry", "dumphw", "cicm", "json", "dpm"}
    BY <2>1, <2>3 DEF Get, get_geometry, get_dumphw, get_cicm_metadata,
       get_aaru_json_metadata, get_dpm
  <2>4. QED
    BY <1>4, <2>2, <2>3
<1>5. QED
  BY <1>1, <1>2, <1>3, <1>4 DEF Slots

(***************************************************************************)
(* What a writer writes is what it has in memory.                          *)
(***************************************************************************)
LoadedSlots == Slots \ {"untyped_tag"}

LEMMA WriterInto ==
    ASSUME mem \in [Slots -> Held], NEW k \in Writers, k # "flux", NEW s \in LoadedSlots,
           Into(KindOf(k), s), Writer(k).block.kind = KindOf(k)
    PROVE  ValueIn(Writer(k).block, s) = mem[s]
<1>1. CASE k = "metadata"
  <2>1. KindOf(k) = "metadata" /\ s \in Fields
    BY <1>1, KindIs DEF Into
  <2>2. Writer(k).block =
            [kind |-> KindOf(k), value |-> [f \in Fields |-> mem[f]], count |-> 1]
    BY <1>1, WriterIs DEF write_metadata_block, Block
  <2>3. QED
    BY <2>1, <2>2 DEF ValueIn
<1>2. CASE k # "metadata"
  <2>1. KindOf(k) # "metadata" /\ s = LoadSlot(KindOf(k)) /\ KindOf(k) \notin TapeKinds
    BY <1>2, KindIs DEF Into
  <2>2. s = SlotOf(k) /\ k \notin TapeKinds
    <3>1. k \notin {"untyped_tag", "minidisc_tag"}
      <4>1. LoadSlot("no_data_type") = "untyped_tag"
        BY TagKindsAre
           DEF LoadSlot, aaruf_get_media_tag_type_for_datatype, TypedTags
      <4>2. QED
        BY <2>1, <4>1, KindIs DEF LoadedSlots
    <3>2. KindOf(k) = k
      BY <3>1, KindIs
    <3>3. LoadSlot(k) = SlotOf(k)
      BY <3>1, TagKindsAre, WritersAre
         DEF LoadSlot, aaruf_get_media_tag_type_for_datatype, TypedTags, SlotOf, Names
    <3>4. QED
      BY <2>1, <3>2, <3>3
  <2>3. Writer(k).block.value = mem[SlotOf(k)]
    <3>1. CASE k \in DvdKinds
      BY <1>2, <3>1, WriterIs DEF DvdBlock, Block
    <3>2. CASE k = "dpm"
      <4>1. k \notin DvdKinds /\ SlotOf(k) = "dpm"
        BY <3>2 DEF DvdKinds, SlotOf
      <4>2. QED
        BY <1>2, <3>2, <4>1, WriterIs DEF write_dpm_block, Block
    <3>3. CASE k \notin DvdKinds \cup {"dpm"}
      BY <1>2, <2>2, <3>3, WriterIs DEF Plain, Block, TapeKinds
    <3>4. QED
      BY <3>1, <3>2, <3>3
  <2>4. QED
    BY <2>1, <2>2, <2>3 DEF ValueIn
<1>3. QED
  BY <1>1, <1>2

LEMMA TapeCount ==
    ASSUME NEW k \in TapeKinds
    PROVE  Writer(k).block.count = 0
<1>1. k \in Writers /\ k \notin DvdKinds /\ k # "metadata" /\ k # "flux"
  BY WritersAre DEF Names, TapeKinds, DvdKinds
<1>2. Writer(k) = TapeBlock(k)
  BY <1>1, WriterIs DEF TapeKinds
<1>3. QED
  BY <1>2 DEF TapeBlock, Plain, Block

(* A writer has something to write as long as the context is the same. *)
LEMMA ReadyKept ==
    ASSUME NEW k \in Writers, k # "flux", UNCHANGED <<mem, identifier, dirty>>
    PROVE  Ready(k)' <=> Ready(k)
<1>1. Writer(k)' = Writer(k)
  <2>1. \A w : Plain(w)' = Plain(w) /\ DvdBlock(w)' = DvdBlock(w)
    BY DEF Plain, DvdBlock, Block
  <2>2. write_metadata_block' = write_metadata_block
    BY Zenon DEF write_metadata_block, Block
  <2>3. write_dpm_block' = write_dpm_block
    BY DEF write_dpm_block, Block
  <2>4. QED
    BY WritersAre, <2>1, <2>2, <2>3
       DEF Names, Writer, Tags, TypedTags, write_tracks_block,
     write_sector_subchannel, write_dvd_sector_id, write_dvd_sector_ied,
     write_dvd_sector_cpr_mai, write_dvd_sector_edc, write_bd_sector_edc_block,
     write_dvd_title_key_decrypted_block, write_media_tags, write_tape_file_block,
     write_tape_partition_block, write_geometry_block, write_dumphw_block,
     write_cicm_block, write_aaru_json_block, TapeBlock
<1>2. QED
  BY <1>1 DEF Ready

(***************************************************************************)
(* What was written is what is loaded.                                     *)
(***************************************************************************)

(* Slot s is loaded from the index in memory as it is in memory. *)
Matches(s) == Loading(file, index).mem[s] = mem[s]

(* The slots of the block that the i-th writer has to write. *)
WrittenBack(i) ==
    Ready(Order[i]) =>
        \A s \in LoadedSlots : Into(KindOf(Order[i]), s) => Matches(s)

(* Both indexes load the same. *)
SameOnDisk ==
    \A s \in Slots : Loading(file, DiskIndex).mem[s] = Loading(file, index).mem[s]

CountsOK ==
    /\ Counted(file)
    /\ ~Idle => \A j \in DOMAIN tool.todo : CountOK(tool.todo[j])

Marked == Coherent(Context) /\ ("dpm" \in edited => "dpm" \in dirty)

DiskMatches == phase = "closed" \/ ~dirtyIndex => SameOnDisk

MemoryMatches ==
    /\ \A s \in LoadedSlots \ edited : Matches(s)
    /\ phase = "finalising" => \A i \in 1..stage : WrittenBack(i)
    /\ phase = "closed" => \A i \in DOMAIN Order : WrittenBack(i)

ReopenInv ==
    CountsOK /\ (phase # "ended" => Marked /\ DiskMatches /\ (~faulted => MemoryMatches))

(* Nothing goes into a slot: nothing is loaded. *)
LEMMA LoadingNothing ==
    ASSUME NEW f \in Seq(Cell), Counted(f), NEW ix, IndexOK(f, ix), NEW s \in Slots,
           \A i \in DOMAIN ix : ~Into(ix[i].kind, s)
    PROVE  Loading(f, ix).mem[s] = None
<1>1. Len(ix) \in Nat /\ DOMAIN ix = 1..Len(ix)
  BY DEF IndexOK, Resolves
<1>2. Comes(f, ix, Len(ix), s, None)
  BY <1>1 DEF Comes
<1>3. Comes(f, ix, Len(ix), s, Loading(f, ix).mem[s])
  BY LoadingComes
<1>4. QED
  BY <1>1, <1>2, <1>3, ComesOnce

LEMMA FluxNotInto == \A s : ~Into("flux", s) /\ ~Into("ddt", s)
BY DEF Into, NotLoaded

(* Blocks are appended. *)
LEMMA CountedLonger ==
    ASSUME NEW f, NEW g, Longer(f, g), Counted(f),
           \A a \in DOMAIN g : a > Len(f) => CountOK(g[a])
    PROVE  Counted(g)
<1>1. \A a \in DOMAIN g : a > Len(f) \/ (a \in DOMAIN f /\ g[a] = f[a])
  BY LongerDomain DEF Longer
<1>2. QED
  BY <1>1 DEF Counted

LEMMA CountedAppended ==
    ASSUME NEW f \in Seq(Cell), Counted(f), NEW b \in Cell,
           CountOK(b)
    PROVE  Counted(Append(f, b))
<1> DEFINE g == Append(f, b)
<1>1. Longer(f, g) /\ Len(g) = Len(f) + 1 /\ g[Len(f) + 1] = b /\ Len(f) \in Nat
  BY OneLonger
<1> HIDE DEF g
<1>2. \A a \in DOMAIN g : a > Len(f) => a = Len(f) + 1
  BY <1>1 DEF Longer
<1>3. Counted(g)
  BY <1>1, <1>2, CountedLonger
<1>4. QED
  BY <1>3 DEF g

LEMMA CountedWithPayloads ==
    ASSUME NEW f \in Seq(Cell), Counted(f), NEW caps \in Seq(Capture),
           NEW m \in 0..Len(caps), NEW b \in Cell, CountOK(b)
    PROVE  Counted(WithPayloads(f, caps, m, b))
<1> DEFINE g == WithPayloads(f, caps, m, b)
<1>1. /\ Longer(f, g) /\ Len(g) = Len(f) + m + 1
      /\ \A i \in 1..m : g[Len(f) + i] = write_flux_capture_payload(caps[i])
      /\ g[Len(f) + m + 1] = b
  BY FluxFile
<1> HIDE DEF g
<1>2. Len(f) \in Nat /\ m \in Nat /\ DOMAIN g = 1..(Len(f) + m + 1)
  BY <1>1 DEF Longer
<1>3. \A a \in DOMAIN g : a > Len(f) =>
          a = Len(f) + m + 1 \/ (a - Len(f) \in 1..m /\ a = Len(f) + (a - Len(f)))
  <2>1. \A l \in Nat, n \in Nat : \A a \in 1..(l + n + 1) : a > l =>
            a = l + n + 1 \/ (a - l \in 1..n /\ a = l + (a - l))
    OBVIOUS
  <2>2. QED
    BY <1>2, <2>1
<1>4. ASSUME NEW c
      PROVE  CountOK(write_flux_capture_payload(c))
  <2>1. write_flux_capture_payload(c).kind = "flux_payload"
    BY PayloadIs
  <2>2. QED
    BY <2>1 DEF CountOK, TapeKinds
<1>5. \A a \in DOMAIN g : a > Len(f) => CountOK(g[a])
  BY <1>1, <1>3, <1>4
<1>6. Counted(g)
  BY <1>1, <1>5, CountedLonger
<1>7. QED
  BY <1>6 DEF g

(***************************************************************************)
(* Initially.                                                              *)
(***************************************************************************)
LEMMA InitReopen == ToolInit => ReopenInv
<1> SUFFICES ASSUME ToolInit
             PROVE  ReopenInv
  OBVIOUS
<1>1. BlocksInv
  BY InitBlocks
<1>2. CASE Init
  <2>1. file = <<Ddt>> /\ Ddt.kind = "ddt" /\ tool = NoTool
    BY <1>2 DEF Init, ToolInit, Ddt
  <2>2. DOMAIN file = {1} /\ file[1] = Ddt
    BY <2>1
  <2>3. Counted(file)
    BY <2>2 DEF Counted, CountOK, TapeKinds, Ddt
  <2>4. CountsOK
    BY <2>1, <2>3 DEF CountsOK, Idle
  <2>5. /\ phase = "writing" /\ dirtyIndex = TRUE /\ mem = NoMem
        /\ index = <<[kind |-> "ddt", at |-> 1]>> /\ edited = {}
    BY <1>2 DEF Init
  <2>6. Marked
    BY <2>5, FieldsAre DEF Marked, Coherent, Context, NoMem
  <2>7. DiskMatches
    BY <2>5 DEF DiskMatches
  <2>8. DOMAIN index = {1} /\ index[1].kind = "ddt"
    BY <2>5
  <2>9. ASSUME NEW s \in LoadedSlots
        PROVE  Matches(s)
    <3>1. s \in Slots /\ \A i \in DOMAIN index : ~Into(index[i].kind, s)
      BY <2>8, FluxNotInto DEF LoadedSlots
    <3>2. Loading(file, index).mem[s] = None
      BY <1>1, <2>3, <3>1, LoadingNothing, FileIsSeq DEF BlocksInv, MemoryOK
    <3>3. QED
      BY <2>5, <3>1, <3>2 DEF Matches, NoMem
  <2>10. MemoryMatches
    BY <2>5, <2>9 DEF MemoryMatches
  <2>11. QED
    BY <2>4, <2>6, <2>7, <2>10 DEF ReopenInv
<1>3. CASE OldInit
  <2>1. phase = "ended" /\ tool = NoTool /\ file = OldImage
    BY <1>3 DEF OldInit, ToolInit
  <2> DEFINE v == CHOOSE v \in Values : TRUE
             ix == << [kind |-> "ddt", at |-> 1], [kind |-> "ddt_prefix", at |-> 2],
                      [kind |-> "geometry", at |-> 3] >>
  <2>2. file = <<OldTable("ddt"), OldTable("ddt_prefix"),
                 [kind |-> "geometry", value |-> v, count |-> 1],
                 [kind |-> "index", count |-> 3, value |-> ix]>>
    BY <2>1 DEF OldImage
  <2> HIDE DEF v, ix
  <2>3. /\ DOMAIN file = 1..4 /\ file[1].kind = "ddt" /\ file[1].count = 1 /\ file[2].kind = "ddt_prefix"
        /\ file[3].kind = "geometry" /\ file[4].kind = "index"
    BY <2>2 DEF OldTable
  <2>4. Counted(file)
    BY <2>3 DEF Counted, CountOK, TapeKinds
  <2>5. QED
    BY <2>1, <2>4 DEF ReopenInv, CountsOK, Idle
<1>4. QED
  BY <1>2, <1>3 DEF ToolInit

(***************************************************************************)
(* Edits.                                                                  *)
(***************************************************************************)
EditMarked == Marked' /\ (~faulted' => ~faulted)

LEMMA SetMarks ==
    ASSUME ContextOK, Marked, NEW s \in SUBSET Slots, s \cap Fields = {}, NEW v, NEW marks,
           "dpm" \in s => "dpm" \in marks, Set(s, v, marks)
    PROVE  EditMarked
<1>1. /\ mem' = [x \in Slots |-> IF x \in s THEN v ELSE mem[x]]
      /\ dirty' = dirty \cup marks /\ identifier' = identifier /\ edited' = edited \cup s
      /\ faulted' = faulted
  BY DEF Set, MayEdit, NoFault
<1>2. \A f \in Fields : mem'[f] = mem[f]
  BY <1>1, FieldsAre
<1>3. Coherent(Context)'
  <2>1. \A f \in Fields : mem[f] # None => identifier
    BY DEF Marked, Coherent, Context
  <2>2. \A f \in Fields : mem'[f] # None => identifier'
    BY <1>1, <1>2, <2>1
  <2>3. QED
    BY <2>2 DEF Coherent, Context
<1>4. "dpm" \in edited' => "dpm" \in dirty'
  BY <1>1 DEF Marked
<1>5. QED
  BY <1>1, <1>3, <1>4 DEF EditMarked, Marked

LEMMA FieldNotDpm == \A f \in Fields : f # "dpm"
BY DEF Fields, Strings

LEMMA SetMetadataMarks ==
    ASSUME ContextOK, Marked, NEW f \in Fields, NEW v, NEW marks, SetMetadata(f, v, marks)
    PROVE  EditMarked
<1>1. /\ identifier' = TRUE /\ dirty' = dirty \cup marks /\ edited' = edited \cup {f}
      /\ faulted' = faulted
  BY DEF SetMetadata, MayEdit, NoFault
<1>2. Coherent(Context)'
  BY <1>1 DEF Coherent, Context
<1>3. "dpm" \in edited' => "dpm" \in dirty'
  BY <1>1, FieldNotDpm DEF Marked
<1>4. QED
  BY <1>1, <1>2, <1>3 DEF EditMarked, Marked

LEMMA ClearMetadataMarks ==
    ASSUME ContextOK, Marked, NEW f \in Fields, ClearMetadata(f)
    PROVE  EditMarked
<1>1. /\ dirty' = dirty /\ edited' = edited \cup {f} /\ faulted' = faulted
  BY DEF ClearMetadata, MayEdit, NoFault
<1>2. identifier' <=> \E g \in Fields : mem'[g] # None
  BY Zenon DEF ClearMetadata
<1>3. Coherent(Context)'
  BY <1>2 DEF Coherent, Context
<1>4. "dpm" \in edited' => "dpm" \in dirty'
  BY <1>1, FieldNotDpm DEF Marked
<1>5. QED
  BY <1>1, <1>3, <1>4 DEF EditMarked, Marked

LEMMA NoMemoryMarks ==
    ASSUME Marked, NEW f, SetMetadataNoMemory(f)
    PROVE  EditMarked
<1>1. /\ identifier' = TRUE /\ dirty' = dirty /\ edited' = edited /\ faulted' = TRUE
  BY DEF SetMetadataNoMemory, MayEdit, Fault
<1>2. Coherent(Context)'
  BY <1>1 DEF Coherent, Context
<1>3. QED
  BY <1>1, <1>2 DEF EditMarked, Marked

(* No slot but those of the metadata is a field of it. *)
LEMMA OtherSlots ==
    /\ \A s \in {"tracks", "subchannel", "title_key", "tape_file", "tape_partition",
                 "geometry", "dumphw", "cicm", "json", "dpm"} : {s} \cap Fields = {}
    /\ \A s \in {"sector_id", "sector_ied", "sector_cpr_mai", "sector_edc"} :
          {s} \cap Fields = {} /\ s # "dpm"
    /\ \A s \in Tags : {s} \cap Fields = {} /\ s # "dpm"
    /\ DvdSlots \cap Fields = {} /\ "dpm" \notin DvdSlots
BY DEF Fields, Strings, Tags, TypedTags, DvdSlots

LEMMA EditStepMarks ==
    ASSUME ContextOK, Marked, EditStep
    PROVE  EditMarked
<1>1. ASSUME NEW v, SetStep(v)
      PROVE  EditMarked
  <2>1. CASE \E t \in Tags \ {"untyped_tag"} : write_media_tag(t, v)
    BY <1>1, <2>1, SetMarks, SomeSlots, OtherSlots DEF write_media_tag
  <2>2. CASE write_long_dvd(v)
    BY <1>1, <2>2, SetMarks, SomeSlots, OtherSlots DEF write_long_dvd
  <2>3. CASE set_tracks(v)
    BY <1>1, <2>3, SetMarks, SomeSlots, OtherSlots DEF set_tracks
  <2>4. CASE set_geometry(v) \/ set_aaru_json_metadata(v) \/ set_dumphw(v)
    BY <1>1, <2>4, SetMarks, SomeSlots, OtherSlots
       DEF set_geometry, set_aaru_json_metadata, set_dumphw
  <2>5. CASE set_dpm(v) \/ set_tape_file(v) \/ set_tape_partition(v) \/ write_long_bd(v)
    BY <1>1, <2>5, SetMarks, SomeSlots, OtherSlots
       DEF set_dpm, set_tape_file, set_tape_partition, write_long_bd
  <2>6. QED
    BY <1>1, <2>1, <2>2, <2>3, <2>4, <2>5 DEF SetStep
<1>2. ASSUME NEW v, TagStep(v)
      PROVE  EditMarked
  <2>1. CASE write_tag_track(v) \/ write_tag_subchannel(v) \/ write_tag_dvd_cmi(v)
    BY <1>2, <2>1, SetMarks, SomeSlots, OtherSlots
       DEF write_tag_track, write_tag_subchannel, write_tag_dvd_cmi, write_tag
  <2>2. CASE write_tag_dvd_information(v) \/ write_tag_dvd_number(v)
             \/ write_tag_dvd_ied(v) \/ write_tag_dvd_edc(v)
    BY <1>2, <2>2, SetMarks, SomeSlots, OtherSlots
       DEF write_tag_dvd_information, write_tag_dvd_number, write_tag_dvd_ied,
           write_tag_dvd_edc, write_tag
  <2>3. CASE write_tag_title_key(v) \/ write_tag_apple(v) \/ write_tag_bd_edc(v)
    BY <1>2, <2>3, SetMarks, SomeSlots, OtherSlots
       DEF write_tag_title_key, write_tag_apple, write_tag_bd_edc, write_tag
  <2>4. QED
    BY <1>2, <2>1, <2>2, <2>3 DEF TagStep
<1>3. ASSUME NEW v, SetMetadataStep(v)
      PROVE  EditMarked
  <2>1. \E f \in Fields : \E marks : SetMetadata(f, v, marks)
    BY <1>3, FieldsAre
       DEF SetMetadataStep, set_media_sequence, set_creator, set_comments,
           set_media_title, set_media_manufacturer, set_media_model,
           set_media_serial_number, set_media_barcode, set_media_part_number,
           set_drive_manufacturer, set_drive_model, set_drive_serial_number,
           set_drive_firmware_revision
  <2>2. QED
    BY <1>3, <2>1, SetMetadataMarks
<1>4. ASSUME ClearStep
      PROVE  EditMarked
  <2>1. CASE clear_dpm
    BY <2>1, SetMarks, SomeSlots, OtherSlots DEF clear_dpm
  <2>2. CASE set_dumphw(None) \/ set_tracks(None)
    BY <2>2, SetMarks, SomeSlots, OtherSlots DEF set_dumphw, set_tracks
  <2>3. CASE \E f \in Fields : ClearMetadata(f)
    BY <2>3, ClearMetadataMarks
  <2>4. clear_dpm \/ set_dumphw(None) \/ set_tracks(None)
        \/ \E f \in Fields : ClearMetadata(f)
    BY <1>4, FieldsAre
       DEF ClearStep, clear_media_sequence, clear_creator, clear_comments,
           clear_media_title, clear_media_manufacturer, clear_media_model,
           clear_media_serial_number, clear_media_barcode, clear_media_part_number,
           clear_drive_manufacturer, clear_drive_model, clear_drive_serial_number,
           clear_drive_firmware_revision
  <2>5. QED
    BY <2>1, <2>2, <2>3, <2>4
<1>5. QED
  BY <1>1, <1>2, <1>3, <1>4, NoMemoryMarks DEF EditStep

LEMMA EditReopen ==
    ASSUME BlocksInv, ReopenInv, EditStep, UNCHANGED tool
    PROVE  ReopenInv'
<1>1. ContextOK
  BY DEF BlocksInv, MemoryOK
<1>2. Edited
  BY <1>1, EditStepEdits
<1>3. /\ phase = "writing" /\ phase' = "writing" /\ edited \subseteq edited'
      /\ \A s \in Slots \ edited' : mem'[s] = mem[s]
      /\ UNCHANGED <<file, index, dirtyIndex, root, tool>>
  BY <1>2 DEF Edited, stored
<1>4. EditMarked
  BY <1>1, <1>3, EditStepMarks DEF ReopenInv
<1>5. CountsOK'
  BY <1>3 DEF ReopenInv, CountsOK, Idle
<1>6. DiskMatches'
  <2>1. DiskIndex' = DiskIndex
    BY <1>3 DEF DiskIndex
  <2>2. QED
    BY <1>3, <2>1 DEF ReopenInv, DiskMatches, SameOnDisk
<1>7. ~faulted' => MemoryMatches'
  <2>1. SUFFICES ASSUME ~faulted', NEW s \in LoadedSlots \ edited'
                 PROVE  Matches(s)'
    BY <1>3 DEF MemoryMatches
  <2>2. s \in LoadedSlots \ edited /\ mem'[s] = mem[s]
    BY <1>3 DEF LoadedSlots
  <2>3. Matches(s)
    BY <1>3, <1>4, <2>1, <2>2 DEF ReopenInv, MemoryMatches, EditMarked
  <2>4. QED
    BY <1>3, <2>2, <2>3 DEF Matches
<1>8. QED
  BY <1>4, <1>5, <1>6, <1>7 DEF ReopenInv, EditMarked

(***************************************************************************)
(* The writers.                                                            *)
(***************************************************************************)
LEMMA TornCounts == CountOK(Torn)
BY DEF CountOK, Torn, TapeKinds

(* The i-th writer leaves every slot that was loaded as it is in memory    *)
(* so, and makes those of its own block so.                                *)
LEMMA StageReopen ==
    ASSUME BlocksInv, MemoryMatches, NEW i \in NextWriter, UNCHANGED <<mem, identifier, dirty>>,
           UNCHANGED <<phase, edited>>, stage' = i,
           \A s \in LoadedSlots : Matches(s) => Matches(s)',
           \A s \in LoadedSlots : Into(KindOf(Order[i]), s) => Matches(s)'
    PROVE  MemoryMatches'
<1>1. /\ i \in DOMAIN Order /\ i > stage /\ phase = "finalising" /\ stage \in Nat
      /\ \A j \in (stage + 1)..Len(Order) : Ready(Order[j]) => i <= j
  BY NextWriterIs, OrderIs DEF BlocksInv, ProgressOK
<1>2. ASSUME NEW j \in 1..i, Ready(Order[j])', NEW s \in LoadedSlots,
             Into(KindOf(Order[j]), s)
      PROVE  Matches(s)'
  <2>1. j \in DOMAIN Order /\ Order[j] \in Writers /\ (j \in 1..stage \/ j \in (stage + 1)..Len(Order))
    BY <1>1, OrderIs DEF Writers
  <2>2. Order[j] # "flux"
    BY <1>2, FluxNotInto DEF KindOf, Tags, TypedTags
  <2>3. Ready(Order[j])
    BY <1>2, <2>1, <2>2, ReadyKept
  <2>4. CASE j \in 1..stage
    BY <1>1, <1>2, <2>3, <2>4 DEF MemoryMatches, WrittenBack
  <2>5. CASE j \in (stage + 1)..Len(Order)
    <3>1. i = j
      BY <1>1, <1>2, <2>3, <2>5
    <3>2. QED
      BY <1>2, <3>1
  <2>6. QED
    BY <2>1, <2>4, <2>5
<1>3. \A s \in LoadedSlots \ edited' : Matches(s)'
  BY DEF MemoryMatches
<1>4. \A j \in 1..i : WrittenBack(j)'
  BY <1>2 DEF WrittenBack
<1>5. QED
  BY <1>1, <1>3, <1>4 DEF MemoryMatches

(* Both indexes still load the same when the file only grows. *)
LEMMA DiskKept ==
    ASSUME BlocksInv, SameOnDisk, Longer(file, file'), Counted(file'), root' = root,
           index' = index
    PROVE  SameOnDisk'
<1>1. DiskIndex' = DiskIndex
  BY DiskIndexKept
<1>2. IndexOK(file, DiskIndex) /\ IndexOK(file, index)
  BY DEF BlocksInv, FileOK, MemoryOK
<1>3. ASSUME NEW s \in Slots
      PROVE  Loading(file', DiskIndex').mem[s] = Loading(file', index').mem[s]
  <2>1. Loading(file', DiskIndex).mem[s] = Loading(file, DiskIndex).mem[s]
    BY <1>2, LoadingKept
  <2>2. Loading(file', index).mem[s] = Loading(file, index).mem[s]
    BY <1>2, LoadingKept
  <2>3. QED
    BY <1>1, <2>1, <2>2 DEF SameOnDisk
<1>4. QED
  BY <1>3 DEF SameOnDisk

LEMMA DpmAlone == \A k : Into(k, "dpm") => k \notin BlockKinds \ {"dpm"}
<1>1. SUFFICES ASSUME NEW k \in BlockKinds \ {"dpm"}, Into(k, "dpm")
               PROVE  FALSE
  OBVIOUS
<1>2. k # "metadata"
  BY <1>1, FieldNotDpm DEF Into
<1>3. LoadSlot(k) = "dpm" /\ k \notin NotLoaded
  BY <1>1, <1>2 DEF Into
<1>4. k \in (Names \ {"dpm"}) \cup {"no_data_type", "index", "torn"}
  BY <1>1, <1>3, KindsAre DEF BlockKinds, NotLoaded
<1>5. LoadSlot(k) # "dpm"
  BY <1>4, TagKindsAre
     DEF LoadSlot, Names, SlotOf, TypedTags, aaruf_get_media_tag_type_for_datatype
<1>6. QED
  BY <1>3, <1>5

LEMMA DpmInto == \A s : Into("dpm", s) => s = "dpm"
BY TagKindsAre DEF Into, LoadSlot, SlotOf

LEMMA WriteReopen ==
    ASSUME BlocksInv, ReopenInv, StepOK, NEW i \in NextWriter, WriteBlock(i)
    PROVE  Counted(file') /\ DiskMatches' /\ (~faulted' => MemoryMatches')
<1> DEFINE w == Order[i]
           k == KindOf(w)
           b == Writer(w).block
<1>1. /\ w \in Writers /\ Ready(w) /\ phase = "finalising"
  BY NextWriterIs DEF BlocksInv, ProgressOK
<1>2. /\ w # "flux" /\ (w = "dpm" => mem["dpm"] # None)
      /\ file' = Append(file, b)
      /\ index' = Append(OfKinds(index, BlockKinds \ {k}), [kind |-> k, at |-> Len(file) + 1])
      /\ dirtyIndex' = TRUE /\ faulted' = faulted /\ stage' = i
      /\ UNCHANGED <<mem, identifier, dirty, phase, edited>>
  BY DEF WriteBlock, NoFault, InFinalise, context, WithoutKind
<1>3. mem \in [Slots -> Held]
  BY DEF BlocksInv, MemoryOK, ContextOK
<1>4. b \in PlainBlock \cup MetadataBlock /\ b.kind = k
  BY <1>1, <1>2, <1>3, WriterBlock
<1>5. CountOK(b)
  <2>0. b.kind # "ddt"
    BY <1>1, <1>4, OtherKinds DEF Kinds
  <2>1. k \in TapeKinds => w \in TapeKinds
    BY DEF KindOf, TapeKinds, aaruf_get_datatype_for_media_tag_type, Tags, TypedTags
  <2>2. QED
    BY <1>4, <2>0, <2>1, TapeCount DEF CountOK
<1>6. \A s \in LoadedSlots : Into(k, s) => ValueIn(b, s) = mem[s]
  BY <1>1, <1>2, <1>3, <1>4, WriterInto
<1>7. k \in BlockKinds \ {"index", "torn"}
  BY <1>1, OtherKinds DEF Kinds, BlockKinds
<1> HIDE DEF b, k, w
<1>8. b \in Cell /\ file \in Seq(Cell) /\ Counted(file) /\ IndexOK(file, index)
  BY <1>4 DEF Cell, BlocksInv, FileOK, MemoryOK, ReopenInv, CountsOK
<1>9. Counted(file')
  BY <1>2, <1>5, <1>8, CountedAppended
<1>10. Longer(file, file') /\ Len(file) + 1 \in DOMAIN file' /\ file'[Len(file) + 1] = b
  BY <1>2, <1>8, OneLonger
<1>11. ASSUME NEW s \in LoadedSlots
       PROVE  Loading(file', index').mem[s] =
                  IF Into(k, s) THEN mem[s] ELSE Loading(file, index).mem[s]
  <2>1. s \in Slots
    BY DEF LoadedSlots
  <2>2. Loading(file', Append(OfKinds(index, BlockKinds \ {k}),
                              [kind |-> k, at |-> Len(file) + 1])).mem[s] =
            IF Into(k, s) THEN ValueIn(file'[Len(file) + 1], s) ELSE Loading(file, index).mem[s]
    BY <1>4, <1>7, <1>8, <1>9, <1>10, <2>1, LoadingReplaced
  <2>3. QED
    BY <1>2, <1>6, <1>10, <2>2
<1>12. \A s \in LoadedSlots : /\ Matches(s) => Matches(s)'
                              /\ Into(k, s) => Matches(s)'
  BY <1>2, <1>11 DEF Matches
<1>13. ~faulted' => MemoryMatches'
  <2>1. SUFFICES ASSUME ~faulted'
                 PROVE  MemoryMatches'
    OBVIOUS
  <2>2. MemoryMatches
    BY <1>1, <1>2, <2>1 DEF ReopenInv
  <2>3. QED
    BY <1>2, <1>12, <2>2, StageReopen DEF k, w
<1>14. DiskMatches'
  BY <1>1, <1>2 DEF DiskMatches
<1>15. QED
  BY <1>9, <1>13, <1>14

LEMMA RemoveReopen ==
    ASSUME BlocksInv, ReopenInv, NEW i \in NextWriter, remove_dpm_index_entries(i)
    PROVE  Counted(file') /\ DiskMatches' /\ (~faulted' => MemoryMatches')
<1>1. phase = "finalising"
  BY NextWriterIs DEF BlocksInv, ProgressOK
<1>2. /\ Order[i] = "dpm" /\ mem["dpm"] = None /\ file' = file
      /\ index' = OfKinds(index, BlockKinds \ {"dpm"})
      /\ dirtyIndex' <=> (dirtyIndex \/ index' # index)
      /\ faulted' = faulted /\ stage' = i
      /\ UNCHANGED <<mem, identifier, dirty, phase, edited, root>>
  <2>1. dirtyIndex' <=> (dirtyIndex \/ index' # index)
    BY Zenon DEF remove_dpm_index_entries
  <2>2. QED
    BY <2>1 DEF remove_dpm_index_entries, NoFault, InFinalise, context, WithoutKind
<1>3. file \in Seq(Cell) /\ Counted(file) /\ IndexOK(file, index)
  BY DEF BlocksInv, FileOK, MemoryOK, ReopenInv, CountsOK
<1>4. KindOf("dpm") = "dpm"
  BY DEF KindOf, Tags, TypedTags
<1>5. ASSUME NEW s \in LoadedSlots
      PROVE  Loading(file', index').mem[s] =
                 IF s = "dpm" THEN None ELSE Loading(file, index).mem[s]
  <2>1. s \in Slots
    BY DEF LoadedSlots
  <2>2. CASE s = "dpm"
    BY <1>2, <1>3, <2>1, <2>2, DpmAlone, LoadingNone
  <2>3. CASE s # "dpm"
    <3>1. \A k \in BlockKinds \ (BlockKinds \ {"dpm"}) : ~Into(k, s)
      BY <2>3, DpmInto
    <3>2. Loading(file, OfKinds(index, BlockKinds \ {"dpm"})).mem[s] =
              Loading(file, index).mem[s]
      BY <1>3, <2>1, <3>1, LoadingWithout
    <3>3. QED
      BY <1>2, <2>3, <3>2
  <2>4. QED
    BY <2>2, <2>3
<1>6. \A s \in LoadedSlots : /\ Matches(s) => Matches(s)'
                             /\ Into(KindOf(Order[i]), s) => Matches(s)'
  <2>1. ASSUME NEW s \in LoadedSlots, s # "dpm", Matches(s)
        PROVE  Matches(s)'
    BY <1>2, <1>5, <2>1 DEF Matches
  <2>2. "dpm" \in LoadedSlots => Matches("dpm")'
    BY <1>2, <1>5 DEF Matches
  <2>3. QED
    BY <1>2, <1>4, <2>1, <2>2, DpmInto
<1>7. ~faulted' => MemoryMatches'
  <2>1. SUFFICES ASSUME ~faulted'
                 PROVE  MemoryMatches'
    OBVIOUS
  <2>2. MemoryMatches
    BY <1>1, <1>2, <2>1 DEF ReopenInv
  <2>3. QED
    BY <1>2, <1>6, <2>2, StageReopen
<1>8. DiskMatches'
  <2>1. SUFFICES ASSUME ~dirtyIndex'
                 PROVE  SameOnDisk'
    BY <1>1, <1>2 DEF DiskMatches
  <2>2. ~dirtyIndex /\ index' = index
    BY <1>2, <2>1
  <2>3. SameOnDisk
    BY <1>1, <2>2 DEF ReopenInv, DiskMatches
  <2>4. DiskIndex' = DiskIndex
    BY <1>2 DEF DiskIndex
  <2>5. QED
    BY <1>2, <2>2, <2>3, <2>4 DEF SameOnDisk
<1>9. QED
  BY <1>2, <1>3, <1>7, <1>8

LEMMA WriterReopen ==
    ASSUME BlocksInv, ReopenInv, StepOK, Idle, WriterStep, UNCHANGED tool
    PROVE  ReopenInv'
<1>1. PICK i \in NextWriter : \/ WriteBlock(i) \/ remove_dpm_index_entries(i)
                              \/ WriteBlockFails(i) \/ WriterNoMemory(i)
  BY DEF WriterStep
<1>2. phase = "finalising"
  BY NextWriterIs DEF BlocksInv, ProgressOK
<1>3. UNCHANGED <<mem, identifier, dirty, edited, phase, root>>
  BY <1>1 DEF WriteBlock, remove_dpm_index_entries, WriteBlockFails, WriterNoMemory,
     InFinalise, context
<1>4. Marked'
  <2>1. Marked
    BY <1>2 DEF ReopenInv
  <2>2. QED
    BY <1>3, <2>1 DEF Marked, Coherent, Context
<1>5. file \in Seq(Cell) /\ Counted(file)
  BY FileIsSeq DEF ReopenInv, CountsOK
<1>6. CASE WriteBlockFails(i)
  <2>1. file' = Append(file, Torn) /\ index' = index /\ dirtyIndex' = dirtyIndex /\ faulted'
    BY <1>6 DEF WriteBlockFails, Fault
  <2>2. Counted(file')
    BY <1>5, <2>1, TornCell, TornCounts, CountedAppended
  <2>3. DiskMatches'
    BY <1>2, <1>3, <2>1, <2>2, DiskKept DEF ReopenInv, DiskMatches, StepOK
  <2>4. QED
    BY <1>4, <2>1, <2>2, <2>3 DEF ReopenInv, CountsOK, Idle
<1>7. CASE WriterNoMemory(i)
  <2>1. file' = file /\ index' = index /\ dirtyIndex' = dirtyIndex /\ faulted'
    BY <1>7 DEF WriterNoMemory, Fault
  <2>2. DiskMatches'
    BY <1>2, <1>3, <1>5, <2>1, DiskKept DEF ReopenInv, DiskMatches, StepOK
  <2>3. QED
    BY <1>4, <1>5, <2>1, <2>2 DEF ReopenInv, CountsOK, Idle
<1>8. CASE WriteBlock(i) \/ remove_dpm_index_entries(i)
  <2>1. Counted(file') /\ DiskMatches' /\ (~faulted' => MemoryMatches')
    BY <1>8, WriteReopen, RemoveReopen
  <2>2. QED
    BY <1>4, <2>1 DEF ReopenInv, CountsOK, Idle
<1>9. QED
  BY <1>1, <1>6, <1>7, <1>8

(***************************************************************************)
(* The index, and the beginning and end of a session.                      *)
(***************************************************************************)
LEMMA NothingDue ==
    ASSUME BlocksInv, phase = "finalising", NextWriter = {}
    PROVE  \A i \in DOMAIN Order : i \in 1..stage \/ ~Ready(Order[i])
<1> DEFINE due == {i \in (stage + 1)..Len(Order) : Ready(Order[i])}
<1>1. due = {}
  <2>1. due # {} => NextWriter = {Min(due)}
    BY DEF NextWriter
  <2> HIDE DEF due
  <2>2. QED
    BY <2>1
<1>2. stage \in Nat /\ \A i \in DOMAIN Order : i \in 1..stage \/ i \in (stage + 1)..Len(Order)
  BY OrderIs DEF BlocksInv, ProgressOK
<1>3. QED
  BY <1>1, <1>2

LEMMA IndexReopen ==
    ASSUME BlocksInv, ReopenInv, StepOK, Idle, write_index_block, UNCHANGED tool
    PROVE  ReopenInv'
<1>1. /\ phase = "finalising" /\ NextWriter = {} /\ phase' = "closed"
      /\ UNCHANGED <<mem, identifier, dirty, flux, index, dirtyIndex, stage, edited, faulted>>
  BY DEF write_index_block, WritersDone, context
<1>2. file \in Seq(Cell) /\ Counted(file) /\ IndexOK(file, index)
      /\ Longer(file, file')
  BY DEF BlocksInv, FileOK, MemoryOK, ReopenInv, CountsOK, StepOK
<1>3. Counted(file') /\ SameOnDisk'
  <2>1. CASE dirtyIndex
    <3> DEFINE b == [kind |-> "index", value |-> index, count |-> Len(index)]
    <3>1. file' = Append(file, b) /\ root' = Len(file')
      BY <2>1 DEF write_index_block
    <3>2. index \in Seq(Entry) /\ Len(index) \in Nat
      BY <1>2 DEF IndexOK, Resolves
    <3>3. b \in Cell /\ b.kind = "index" /\ b.value = index
      BY <3>2 DEF Cell, IndexBlock
    <3> HIDE DEF b
    <3>4. CountOK(b)
      BY <3>3 DEF CountOK, TapeKinds
    <3>5. Counted(file')
      BY <1>2, <3>1, <3>3, <3>4, CountedAppended
    <3>6. file'[Len(file) + 1] = b /\ Len(file') = Len(file) + 1 /\ Len(file) \in Nat
      BY <1>2, <3>1, <3>3, OneLonger
    <3>7. DiskIndex' = index'
      BY <1>1, <3>1, <3>3, <3>6 DEF DiskIndex
    <3>8. QED
      BY <3>5, <3>7 DEF SameOnDisk
  <2>2. CASE ~dirtyIndex
    <3>1. file' = file /\ root' = root
      BY <2>2 DEF write_index_block
    <3>2. SameOnDisk
      BY <1>1, <2>2 DEF ReopenInv, DiskMatches
    <3>3. QED
      BY <1>1, <1>2, <3>1, <3>2, DiskKept
  <2>3. QED
    BY <2>1, <2>2
<1>4. Marked'
  <2>1. Marked
    BY <1>1 DEF ReopenInv
  <2>2. QED
    BY <1>1, <2>1 DEF Marked, Coherent, Context
<1>5. ASSUME ~faulted'
      PROVE  MemoryMatches'
  <2>1. MemoryMatches
    BY <1>1, <1>5 DEF ReopenInv
  <2>2. \A s \in LoadedSlots : Matches(s) => Matches(s)'
    <3>1. \A s \in LoadedSlots : Loading(file', index).mem[s] = Loading(file, index).mem[s]
      BY <1>2, <1>3, LoadingKept DEF LoadedSlots
    <3>2. QED
      BY <1>1, <3>1 DEF Matches
  <2>3. ASSUME NEW i \in DOMAIN Order, Ready(Order[i])', NEW s \in LoadedSlots,
               Into(KindOf(Order[i]), s)
        PROVE  Matches(s)'
    <3>1. Order[i] \in Writers
      BY DEF Writers
    <3>2. Order[i] # "flux"
      BY <2>3, FluxNotInto DEF KindOf, Tags, TypedTags
    <3>3. Ready(Order[i])
      BY <1>1, <2>3, <3>1, <3>2, ReadyKept
    <3>4. i \in 1..stage
      BY <1>1, <3>3, NothingDue
    <3>5. Matches(s)
      BY <1>1, <2>1, <2>3, <3>3, <3>4 DEF MemoryMatches, WrittenBack
    <3>6. QED
      BY <2>2, <3>5
  <2>4. \A i \in DOMAIN Order : WrittenBack(i)'
    BY <2>3 DEF WrittenBack
  <2>5. \A s \in LoadedSlots \ edited' : Matches(s)'
    BY <1>1, <2>1, <2>2 DEF MemoryMatches
  <2>6. QED
    BY <1>1, <2>4, <2>5 DEF MemoryMatches
<1>6. QED
  BY <1>1, <1>3, <1>4, <1>5 DEF ReopenInv, CountsOK, Idle, DiskMatches

LEMMA IndexFailReopen ==
    ASSUME BlocksInv, ReopenInv, StepOK, Idle, write_index_block_fails, UNCHANGED tool
    PROVE  ReopenInv'
<1>1. /\ phase = "finalising" /\ phase' = "writing" /\ dirtyIndex /\ faulted'
      /\ file' = Append(file, Torn)
      /\ UNCHANGED <<mem, identifier, dirty, dirtyIndex, edited>>
  BY DEF write_index_block_fails, WritersDone, Fault, context
<1>2. Counted(file')
  BY <1>1, FileIsSeq, TornCell, TornCounts, CountedAppended DEF ReopenInv, CountsOK
<1>3. Marked'
  <2>1. Marked
    BY <1>1 DEF ReopenInv
  <2>2. QED
    BY <1>1, <2>1 DEF Marked, Coherent, Context
<1>4. QED
  BY <1>1, <1>2, <1>3 DEF ReopenInv, CountsOK, Idle, DiskMatches

LEMMA BeginReopen ==
    ASSUME BlocksInv, ReopenInv, Idle, BeginClose, UNCHANGED tool
    PROVE  ReopenInv'
<1>1. /\ phase = "writing" /\ phase' = "finalising" /\ stage' = 0
      /\ UNCHANGED <<mem, identifier, dirty, index, dirtyIndex, file, root, edited, faulted>>
  BY DEF BeginClose, context, stored
<1>2. DiskIndex' = DiskIndex
  BY <1>1 DEF DiskIndex
<1>3. Marked'
  <2>1. Marked
    BY <1>1 DEF ReopenInv
  <2>2. QED
    BY <1>1, <2>1 DEF Marked, Coherent, Context
<1>4. DiskMatches'
  BY <1>1, <1>2 DEF ReopenInv, DiskMatches, SameOnDisk
<1>5. ~faulted' => MemoryMatches'
  BY <1>1 DEF ReopenInv, MemoryMatches, Matches
<1>6. CountsOK'
  BY <1>1 DEF ReopenInv, CountsOK, Idle
<1>7. QED
  BY <1>3, <1>4, <1>5, <1>6 DEF ReopenInv

LEMMA ResumeReopen ==
    ASSUME BlocksInv, ReopenInv, Idle, Resume, UNCHANGED tool
    PROVE  ReopenInv'
<1>1. /\ mem' = Loaded.mem /\ identifier' = Loaded.identifier
      /\ index' = DiskIndex /\ phase' = "writing" /\ edited' = {}
      /\ UNCHANGED <<file, root>>
  BY DEF Resume
<1>2. DiskIndex' = DiskIndex
  BY <1>1 DEF DiskIndex
<1>3. file \in Seq(Cell) /\ Counted(file) /\ IndexOK(file, DiskIndex)
  BY DEF BlocksInv, FileOK, ReopenInv, CountsOK
<1>4. Coherent(Loaded)
  BY <1>3, LoadingCoherent DEF Loaded
<1>5. Marked'
  <2>1. \A s \in Fields : mem'[s] # None => identifier'
    BY <1>1, <1>4 DEF Coherent
  <2>2. Coherent(Context)'
    BY <2>1 DEF Coherent, Context
  <2>3. QED
    BY <1>1, <2>2 DEF Marked
<1>6. DiskMatches'
  BY <1>1, <1>2 DEF DiskMatches, SameOnDisk
<1>7. \A s : Matches(s)'
  BY <1>1 DEF Matches, Loaded
<1>8. MemoryMatches'
  BY <1>1, <1>7 DEF MemoryMatches
<1>9. CountsOK'
  BY <1>1, <1>3 DEF CountsOK, Idle
<1>10. QED
  BY <1>5, <1>6, <1>8, <1>9 DEF ReopenInv

LEMMA CrashReopen ==
    ASSUME ReopenInv, Idle, Crash, UNCHANGED tool
    PROVE  ReopenInv'
BY DEF Crash, stored, ReopenInv, CountsOK, Idle

(***************************************************************************)
(* The flux captures.                                                      *)
(***************************************************************************)
LEMMA QueueReopen ==
    ASSUME BlocksInv, ReopenInv, Idle, UNCHANGED tool,
           phase = "writing", UNCHANGED <<mem, identifier, stored, phase, edited>>,
           dirty \subseteq dirty', ~faulted' => ~faulted
    PROVE  ReopenInv'
<1>1. UNCHANGED <<file, root, index, dirtyIndex>>
  BY DEF stored
<1>2. DiskIndex' = DiskIndex
  BY <1>1 DEF DiskIndex
<1>3. Marked'
  <2>1. Marked
    BY DEF ReopenInv
  <2>2. QED
    BY <2>1 DEF Marked, Coherent, Context
<1>4. DiskMatches'
  BY <1>1, <1>2 DEF ReopenInv, DiskMatches, SameOnDisk
<1>5. ~faulted' => MemoryMatches'
  BY <1>1 DEF ReopenInv, MemoryMatches, Matches
<1>6. CountsOK'
  BY <1>1 DEF ReopenInv, CountsOK, Idle
<1>7. QED
  BY <1>3, <1>4, <1>5, <1>6 DEF ReopenInv

(* The entries of payloads and flux blocks are added. *)
LEMMA FluxAdds ==
    ASSUME BlocksInv, ReopenInv, phase = "finalising",
           UNCHANGED <<mem, identifier, dirty, edited, dirtyIndex, root>>,
           StepOK, Counted(file'), NEW new \in Seq(Entry), index' = index \o new,
           \A i \in DOMAIN new : new[i].kind \in {"flux", "flux_payload"}
    PROVE  /\ Marked'
           /\ ~dirtyIndex => SameOnDisk'
           /\ \A s \in LoadedSlots : Matches(s) => Matches(s)'
<1>1. Marked'
  <2>1. Marked
    BY DEF ReopenInv
  <2>2. QED
    BY <2>1 DEF Marked, Coherent, Context
<1>2. /\ file' \in Seq(Cell) /\ Longer(file, file')
      /\ IndexOK(file, index) /\ IndexOK(file, DiskIndex) /\ DiskIndex' = DiskIndex
      /\ IndexOK(file', index) /\ IndexOK(file', index')
  BY DiskIndexKept, IndexKept DEF BlocksInv, FileOK, MemoryOK, StepOK
<1>3. ASSUME NEW s \in Slots
      PROVE  Loading(file', index').mem[s] = Loading(file, index).mem[s]
  <2>1. Loading(file', index \o new).mem[s] = Loading(file', index).mem[s]
    BY <1>2, LoadingConcat
  <2>2. Loading(file', index).mem[s] = Loading(file, index).mem[s]
    BY <1>2, LoadingKept
  <2>3. QED
    BY <2>1, <2>2
<1>4. ASSUME ~dirtyIndex
      PROVE  SameOnDisk'
  <2>1. SameOnDisk
    BY <1>4 DEF ReopenInv, DiskMatches
  <2>2. ASSUME NEW s \in Slots
        PROVE  Loading(file', DiskIndex').mem[s] = Loading(file', index').mem[s]
    <3>1. Loading(file', DiskIndex).mem[s] = Loading(file, DiskIndex).mem[s]
      BY <1>2, LoadingKept
    <3>2. Loading(file, DiskIndex).mem[s] = Loading(file, index).mem[s]
      BY <2>1 DEF SameOnDisk
    <3>3. QED
      BY <1>2, <1>3, <3>1, <3>2
  <2>3. QED
    BY <2>2 DEF SameOnDisk
<1>5. \A s \in LoadedSlots : Matches(s) => Matches(s)'
  BY <1>3 DEF LoadedSlots, Matches
<1>6. QED
  BY <1>1, <1>4, <1>5

LEMMA FluxWrittenReopen ==
    ASSUME BlocksInv, ReopenInv, StepOK, Idle, write_flux_blocks, UNCHANGED tool
    PROVE  ReopenInv'
<1> DEFINE n == Len(flux.captures)
           caps == flux.captures
           es == [i \in 1..n |-> [key |-> caps[i].key, at |-> Len(file) + i]]
           b == [kind |-> "flux", value |-> es, count |-> n]
           new == [i \in 1..n + 1 |-> [kind |-> IF i <= n THEN "flux_payload" ELSE "flux",
                                       at   |-> Len(file) + i]]
<1>1. /\ file' = WithPayloads(file, caps, n, b) /\ index' = index \o new
  BY DEF write_flux_blocks, WithPayloads
<1>2. /\ UNCHANGED <<mem, identifier, dirty, dirtyIndex, phase, root, edited, faulted>>
      /\ stage' = FluxStage /\ FluxStage \in NextWriter
  BY DEF write_flux_blocks, NoFault
<1>3. phase = "finalising"
  BY <1>2, NextWriterIs DEF BlocksInv, ProgressOK
<1>4. file \in Seq(Cell) /\ Len(file) \in Nat /\ n \in Nat /\ caps \in Seq(Capture)
      /\ n \in 0..Len(caps) /\ Counted(file)
  BY QueuedOK DEF BlocksInv, FileOK, ReopenInv, CountsOK
<1>5. \A i \in 1..n : caps[i] \in Capture /\ caps[i].key \in Keys
  <2> HIDE DEF caps
  <2>1. \A i \in 1..n : caps[i] \in Capture
    BY <1>4
  <2>2. QED
    BY <2>1 DEF Capture
<1> HIDE DEF n, caps
<1>6. es \in Seq(FluxEntry)
  <2>1. \A i \in 1..n : [key |-> caps[i].key, at |-> Len(file) + i] \in FluxEntry
    BY <1>4, <1>5 DEF FluxEntry
  <2>2. QED
    BY <1>4, <2>1
<1>7. new \in Seq(Entry) /\ \A i \in DOMAIN new : new[i].kind \in {"flux", "flux_payload"}
  <2>1. \A i \in 1..(n + 1) :
           [kind |-> IF i <= n THEN "flux_payload" ELSE "flux", at |-> Len(file) + i] \in Entry
    BY <1>4, OtherKinds DEF Entry, BlockKinds
  <2>2. new \in [1..(n + 1) -> Entry] /\ DOMAIN new = 1..(n + 1)
    BY <2>1
  <2>3. \A i \in 1..(n + 1) : new[i].kind \in {"flux", "flux_payload"}
    OBVIOUS
  <2> HIDE DEF new
  <2>4. QED
    BY <1>4, <2>2, <2>3
<1> HIDE DEF es, new
<1>8. b \in Cell /\ b.kind = "flux"
  BY <1>4, <1>6 DEF Cell, FluxBlock
<1> HIDE DEF b
<1>9. Counted(file')
  <2>1. CountOK(b)
    BY <1>8 DEF CountOK, TapeKinds
  <2>2. QED
    BY <1>1, <1>4, <1>8, <2>1, CountedWithPayloads
<1>10. /\ Marked' /\ (~dirtyIndex => SameOnDisk')
       /\ \A s \in LoadedSlots : Matches(s) => Matches(s)'
  BY <1>1, <1>2, <1>3, <1>7, <1>9, FluxAdds
<1>11. \A s : ~Into(KindOf(Order[FluxStage]), s)
  <2>1. Order[FluxStage] = "flux"
    BY OrderIs DEF FluxStage
  <2>2. QED
    BY <2>1, FluxNotInto DEF KindOf, Tags, TypedTags
<1>12. ~faulted' => MemoryMatches'
  <2>1. SUFFICES ASSUME ~faulted'
                 PROVE  MemoryMatches'
    OBVIOUS
  <2>2. MemoryMatches
    BY <1>2, <1>3, <2>1 DEF ReopenInv
  <2>3. QED
    BY <1>2, <1>10, <1>11, <2>2, StageReopen
<1>13. DiskMatches'
  BY <1>2, <1>3, <1>10 DEF DiskMatches
<1>14. QED
  BY <1>9, <1>10, <1>12, <1>13 DEF ReopenInv, CountsOK, Idle

LEMMA FluxFailReopen ==
    ASSUME BlocksInv, ReopenInv, StepOK, Idle, NEW m \in 0..MaxEdits,
           write_flux_blocks_fails(m), UNCHANGED tool
    PROVE  ReopenInv'
<1> DEFINE caps == flux.captures
           new == [i \in 1..m |-> [kind |-> "flux_payload", at |-> Len(file) + i]]
<1>1. /\ file' = WithPayloads(file, caps, m, Torn) /\ index' = index \o new
  BY DEF write_flux_blocks_fails, WithPayloads
<1>2. /\ UNCHANGED <<mem, identifier, dirty, dirtyIndex, root, edited>> /\ phase' = "writing"
      /\ faulted' /\ FluxStage \in NextWriter /\ m <= Len(caps)
  BY DEF write_flux_blocks_fails, context, Fault
<1>3. phase = "finalising"
  BY <1>2, NextWriterIs DEF BlocksInv, ProgressOK
<1>4. file \in Seq(Cell) /\ Len(file) \in Nat /\ m \in Nat /\ caps \in Seq(Capture)
      /\ m \in 0..Len(caps) /\ Counted(file)
  BY <1>2, QueuedOK, EffortAssumption DEF BlocksInv, FileOK, ReopenInv, CountsOK
<1> HIDE DEF caps
<1>5. new \in Seq(Entry) /\ \A i \in DOMAIN new : new[i].kind \in {"flux", "flux_payload"}
  <2>1. \A i \in 1..m : [kind |-> "flux_payload", at |-> Len(file) + i] \in Entry
    BY <1>4 DEF Entry, BlockKinds
  <2>2. new \in [1..m -> Entry] /\ DOMAIN new = 1..m
    BY <2>1
  <2>3. \A i \in 1..m : new[i].kind = "flux_payload"
    OBVIOUS
  <2> HIDE DEF new
  <2>4. QED
    BY <1>4, <2>2, <2>3
<1> HIDE DEF new
<1>6. Counted(file')
  <2>1. Torn \in Cell /\ CountOK(Torn)
    BY TornCell, TornCounts
  <2>2. QED
    BY <1>1, <1>4, <2>1, CountedWithPayloads
<1>7. Marked' /\ (~dirtyIndex => SameOnDisk')
  BY <1>1, <1>2, <1>3, <1>5, <1>6, FluxAdds
<1>8. DiskMatches'
  BY <1>2, <1>7 DEF DiskMatches
<1>9. QED
  BY <1>2, <1>6, <1>7, <1>8 DEF ReopenInv, CountsOK, Idle

LEMMA FluxReopen ==
    ASSUME BlocksInv, ReopenInv, StepOK, Idle, FluxStep, UNCHANGED tool
    PROVE  ReopenInv'
<1>1. ASSUME NEW k \in Keys, NEW v \in Values, write_flux_capture(k, v)
      PROVE  ReopenInv'
  BY <1>1, QueueReopen DEF write_flux_capture, FluxEdit, NoFault
<1>2. ASSUME NEW k \in Keys, write_flux_capture_no_memory(k)
      PROVE  ReopenInv'
  BY <1>2, QueueReopen DEF write_flux_capture_no_memory, FluxEdit, Fault
<1>3. CASE clear_flux_captures
  BY <1>3, QueueReopen DEF clear_flux_captures, FluxEdit, NoFault
<1>4. CASE get_flux_captures
  BY <1>4, QueueReopen DEF get_flux_captures
<1>5. QED
  BY <1>1, <1>2, <1>3, <1>4, FluxWrittenReopen, FluxFailReopen DEF FluxStep

(***************************************************************************)
(* The commands.                                                           *)
(***************************************************************************)
LEMMA CommandReopen ==
    ASSUME BlocksInv, ReopenInv, ToolStep
    PROVE  ReopenInv'
<1>1. BlocksInv'
  BY ToolStepBlocks
<1>2. phase' = "ended"
  BY DEF ToolStep, inject_media_tag, upgrade_ddt_to_alpha21, inject_block, upgrade_table,
         inject_index, upgrade_index, inject_header, upgrade_header, ToolStarts,
         AppendBlock, AppendIndex, RewriteHeader, ToolFails, BlocksInv, ToolOK
<1>3. file \in Seq(Cell) /\ Counted(file)
  BY FileIsSeq DEF ReopenInv, CountsOK
<1>4. \A t : ToolStarts(t) => tool' = t /\ file' = file
  BY DEF ToolStarts
<1>5. ASSUME NEW t \in InjectedTags, NEW v \in InjectedValues, inject_media_tag(t, v)
      PROVE  CountsOK'
  <2> DEFINE k == get_datatype_for_media_tag_type(t)
             b == [kind |-> k, value |-> v, count |-> 1]
             new == [slot |-> t, value |-> v, at |-> 0, entries |-> EntriesWithout(k),
                     todo |-> <<b>>]
  <2>1. ToolStarts(new) /\ k \in TypedTags
    BY <1>5 DEF inject_media_tag, get_datatype_for_media_tag_type
  <2>2. CountOK(b) /\ new.todo = <<b>>
    BY <2>1 DEF TypedTags, TapeKinds, CountOK
  <2> HIDE DEF k, b
  <2>3. \A j \in DOMAIN <<b>> : <<b>>[j] = b
    OBVIOUS
  <2> HIDE DEF new
  <2>4. QED
    BY <1>3, <1>4, <2>1, <2>2, <2>3 DEF CountsOK
<1>6. ASSUME upgrade_ddt_to_alpha21
      PROVE  CountsOK'
  <2> DEFINE todo == [i \in DOMAIN Tables |-> NewTable(file[Tables[i].at])]
             entries == OfKinds(DiskIndex, BlockKinds \ TableKinds)
             new == [slot |-> None, value |-> None, at |-> 0, entries |-> entries, todo |-> todo]
  <2>1. ToolStarts(new) /\ new.todo = todo
    BY <1>6 DEF upgrade_ddt_to_alpha21
  <2>2. \A i \in DOMAIN Tables :
            file[Tables[i].at] \in TableBlock /\ CountOK(file[Tables[i].at])
    <3>1. IndexOK(file, Tables) /\ \A i \in DOMAIN Tables : Tables[i].kind \in TableKinds
      BY OfKindsOK DEF Tables, BlocksInv, FileOK
    <3>2. \A i \in DOMAIN Tables : /\ file[Tables[i].at] \in Cell
                                   /\ CountOK(file[Tables[i].at])
                                   /\ file[Tables[i].at].kind \in TableKinds
      BY <1>3, <3>1 DEF IndexOK, Resolves, Counted
    <3>3. QED
      BY <3>2, CellKinds
  <2>3. \A b \in TableBlock : CountOK(b) => CountOK(NewTable(b))
    BY DEF NewTable, TableBlock, TableKinds, TapeKinds, CountOK
  <2>4. \A j \in DOMAIN todo : CountOK(todo[j])
    BY <2>2, <2>3
  <2> HIDE DEF new, entries, todo
  <2>5. QED
    BY <1>3, <1>4, <2>1, <2>4 DEF CountsOK
<1>7. ASSUME ~Idle, AppendBlock
      PROVE  CountsOK'
  <2> DEFINE b == Head(tool.todo)
  <2>1. /\ tool \in Command /\ tool.todo \in Seq(PlainBlock \cup TableBlock)
        /\ tool.todo # <<>>
    BY <1>7 DEF AppendBlock, BlocksInv, ToolOK, TodoOK, Command
  <2>2. file' = Append(file, b) /\ tool'.todo = Tail(tool.todo)
    BY <1>7, <2>1 DEF AppendBlock, Command
  <2>3. b \in PlainBlock \cup TableBlock /\ b = tool.todo[1] /\ 1 \in DOMAIN tool.todo
    BY <2>1
  <2>4. b \in Cell /\ CountOK(b)
    BY <1>7, <2>3 DEF Cell, ReopenInv, CountsOK
  <2> HIDE DEF b
  <2>5. Counted(file')
    BY <1>3, <2>2, <2>4, CountedAppended
  <2>6. \A j \in DOMAIN tool'.todo : j + 1 \in DOMAIN tool.todo
                                     /\ tool'.todo[j] = tool.todo[j + 1]
    BY <2>1, <2>2
  <2>7. QED
    BY <1>7, <2>5, <2>6 DEF ReopenInv, CountsOK
<1>8. ASSUME ~Idle, AppendIndex
      PROVE  CountsOK'
  <2> DEFINE b == [kind |-> "index", value |-> tool.entries, count |-> Len(tool.entries)]
  <2>1. /\ tool \in Command /\ tool.entries \in Seq(Entry)
    BY <1>8 DEF BlocksInv, ToolOK, TodoOK, Command
  <2>2. file' = Append(file, b) /\ tool'.todo = tool.todo
    BY <1>8, <2>1 DEF AppendIndex, Command
  <2>3. b \in Cell /\ CountOK(b)
    BY <2>1 DEF Cell, IndexBlock, TapeKinds, CountOK
  <2> HIDE DEF b
  <2>4. Counted(file')
    BY <1>3, <2>2, <2>3, CountedAppended
  <2>5. QED
    BY <1>8, <2>2, <2>4 DEF ReopenInv, CountsOK
<1>9. ASSUME RewriteHeader
      PROVE  CountsOK'
  BY <1>3, <1>9 DEF RewriteHeader, CountsOK, Idle
<1>10. ASSUME NEW appended \in {<<>>, <<Torn>>}, ToolFails(appended)
       PROVE  CountsOK'
  <2>1. file' = file \o appended /\ tool' = NoTool
    BY <1>10 DEF ToolFails
  <2>2. file' = file \/ file' = Append(file, Torn)
    BY <1>3, <2>1, TornCell
  <2>3. Torn \in Cell /\ CountOK(Torn)
    BY TornCell, TornCounts
  <2>4. Counted(file')
    BY <1>3, <2>2, <2>3, CountedAppended
  <2>5. QED
    BY <2>1, <2>4 DEF CountsOK, Idle
<1>11. CountsOK'
  BY <1>5, <1>6, <1>7, <1>8, <1>9, <1>10
     DEF ToolStep, inject_block, upgrade_table, inject_index, upgrade_index,
         inject_header, upgrade_header
<1>12. QED
  BY <1>2, <1>11 DEF ReopenInv

LEMMA ReopenNext ==
    ASSUME BlocksInv, ReopenInv, [ToolNext]_toolVars
    PROVE  ReopenInv'
<1>1. CASE Idle /\ Next /\ UNCHANGED tool
  <2>1. StepOK
    BY <1>1, LibraryStep
  <2>2. QED
    BY <1>1, <2>1, EditReopen, WriterReopen, IndexReopen, IndexFailReopen, BeginReopen,
       ResumeReopen, CrashReopen, FluxReopen DEF Next, OptionalNext
<1>2. CASE ToolStep
  BY <1>2, CommandReopen
<1>3. CASE UNCHANGED toolVars
  <2>1. /\ UNCHANGED <<mem, identifier, dirty, flux, index, dirtyIndex, phase, stage, file,
                       root, edited, faulted, tool>>
    BY <1>3 DEF toolVars, vars, stored, context
  <2>2. DiskIndex' = DiskIndex
    BY <2>1 DEF DiskIndex
  <2>3. CountsOK' /\ (Marked => Marked') /\ (DiskMatches => DiskMatches')
    BY <2>1, <2>2 DEF ReopenInv, CountsOK, Idle, Marked, Coherent, Context, DiskMatches, SameOnDisk
  <2>4. ASSUME MemoryMatches
        PROVE  MemoryMatches'
    <3>1. \A s : Matches(s)' <=> Matches(s)
      BY <2>1 DEF Matches
    <3>2. ASSUME NEW i \in DOMAIN Order, WrittenBack(i)
          PROVE  WrittenBack(i)'
      <4>1. SUFFICES ASSUME Ready(Order[i])', NEW s \in LoadedSlots, Into(KindOf(Order[i]), s)
                     PROVE  Matches(s)'
        BY DEF WrittenBack
      <4>2. Order[i] \in Writers /\ Order[i] # "flux"
        BY <4>1, FluxNotInto DEF KindOf, Tags, TypedTags, Writers
      <4>3. Ready(Order[i])
        BY <2>1, <4>1, <4>2, ReadyKept
      <4>4. QED
        BY <3>1, <3>2, <4>1, <4>3 DEF WrittenBack
    <3>3. \A i \in 1..stage : i \in DOMAIN Order
      BY OrderIs DEF BlocksInv, ProgressOK
    <3>4. QED
      BY <2>1, <2>4, <3>1, <3>2, <3>3 DEF MemoryMatches
  <2>5. QED
    BY <2>1, <2>3, <2>4 DEF ReopenInv
<1>4. QED
  BY <1>1, <1>2, <1>3 DEF ToolNext

(* Its inductive invariant: in a session in which nothing failed, the      *)
(* index in memory loads, at any time, every slot that was not edited as   *)
(* it is in memory, and in aaruf_close also those of the blocks that the   *)
(* writers so far had to write; and an index that is not marked loads as   *)
(* the one on disk.                                                        *)
THEOREM ReopenInvariant == ToolSpec => []ReopenInv
<1>1. ToolInit => ReopenInv
  BY InitReopen
<1>2. BlocksInv /\ ReopenInv /\ [ToolNext]_toolVars => ReopenInv'
  BY ReopenNext
<1>3. QED
  BY <1>1, <1>2, BlocksInvariant, PTL DEF ToolSpec

(* A writer that is counted by Written writes the slot it is counted for.  *)
LEMMA WrittenInto ==
    ASSUME NEW k \in Writers \ {"tape_file", "tape_partition", "minidisc_tag"}, NEW s \in LoadedSlots,
           IF k = "metadata" THEN s \in Fields ELSE s = SlotOf(k)
    PROVE  Into(KindOf(k), s)
<1>1. CASE k = "metadata"
  BY <1>1, KindIs DEF Into, NotLoaded, TapeKinds
<1>2. CASE k # "metadata"
  <2>1. s = SlotOf(k) /\ k \in Names
    BY <1>2, WritersAre
  <2>2. k # "flux" /\ k # "untyped_tag"
    BY <2>1 DEF LoadedSlots, SlotOf, Slots, Fields, Strings, DvdSlots, Tags, TypedTags
  <2>3. KindOf(k) = k
    BY <2>2, KindIs
  <2>4. LoadSlot(k) = SlotOf(k)
    BY <2>1, <2>2, TagKindsAre
       DEF LoadSlot, aaruf_get_media_tag_type_for_datatype, TypedTags, SlotOf, Names
  <2>5. k \notin NotLoaded \cup TapeKinds
    BY <2>1, <2>2 DEF Names, NotLoaded, TapeKinds
  <2>6. QED
    BY <1>2, <2>1, <2>3, <2>4, <2>5 DEF Into
<1>3. QED
  BY <1>1, <1>2

(* What aaruf_open finds after aaruf_close is what the context held: for   *)
(* every slot this session did not edit, and for every edited one whose    *)
(* block was marked and has content.                                       *)
THEOREM ClosedImageIsReopened == ToolSpec => []ClosedIsReopened
<1>1. BlocksInv /\ ReopenInv => ClosedIsReopened
  <2> SUFFICES ASSUME BlocksInv, ReopenInv, phase = "closed", ~faulted,
                      NEW s \in LoadedSlots, s \notin edited \/ Written(s)
               PROVE  Get(Loaded, s) = Get(Context, s)
    BY DEF ClosedIsReopened, ClosedWell, LoadedSlots
  <2>1. file \in Seq(Cell) /\ Counted(file) /\ IndexOK(file, DiskIndex)
    BY DEF BlocksInv, FileOK, ReopenInv, CountsOK
  <2>2. Coherent(Loaded) /\ Coherent(Context) /\ s \in Slots
    BY <2>1, LoadingCoherent DEF Loaded, ReopenInv, Marked, LoadedSlots
  <2>3. Get(Loaded, s) = Loaded.mem[s] /\ Get(Context, s) = Context.mem[s]
    BY <2>2, GetIs
  <2>4. Context.mem[s] = mem[s]
    BY DEF Context
  <2>5. Loaded.mem[s] = Loading(file, index).mem[s]
    BY <2>2 DEF Loaded, ReopenInv, DiskMatches, SameOnDisk
  <2>6. ASSUME NEW k \in Writers, Ready(k), Into(KindOf(k), s)
        PROVE  Matches(s)
    <3>1. PICK i \in DOMAIN Order : Order[i] = k
      BY DEF Writers
    <3>2. QED
      BY <2>6, <3>1 DEF ReopenInv, MemoryMatches, WrittenBack
  <2>7. CASE s \notin edited
    <3>1. Matches(s)
      BY <2>7 DEF ReopenInv, MemoryMatches
    <3>2. QED
      BY <2>3, <2>4, <2>5, <3>1 DEF Matches
  <2>8. CASE s = "dpm" /\ s \in edited
    <3>1. "dpm" \in dirty
      BY <2>8 DEF ReopenInv, Marked
    <3>2. "dpm" \in Writers
      BY WritersAre DEF Names
    <3>3. Ready("dpm")
      <4>1. FlagOf("dpm") = "dpm"
        BY DEF FlagOf, DvdKinds, Tags, TypedTags
      <4>2. Writer("dpm") = write_dpm_block
        BY DEF Writer, Tags, TypedTags
      <4>3. Writer("dpm").ready
        BY <4>2 DEF write_dpm_block, Block
      <4>4. QED
        BY <3>1, <4>1, <4>3 DEF Ready
    <3>4. Into(KindOf("dpm"), s)
      BY <2>8, <3>2, WrittenInto DEF SlotOf
    <3>5. Matches(s)
      BY <2>6, <3>2, <3>3, <3>4
    <3>6. QED
      BY <2>3, <2>4, <2>5, <3>5 DEF Matches
  <2>9. CASE \E k \in Writers \ {"tape_file", "tape_partition", "minidisc_tag"} :
                /\ Ready(k)
                /\ IF k = "metadata" THEN s \in Fields ELSE s = SlotOf(k)
    <3>1. PICK k \in Writers \ {"tape_file", "tape_partition", "minidisc_tag"} :
                /\ Ready(k)
                /\ IF k = "metadata" THEN s \in Fields ELSE s = SlotOf(k)
      BY <2>9
    <3>2. Into(KindOf(k), s)
      BY <3>1, WrittenInto
    <3>3. Matches(s)
      BY <2>6, <3>1, <3>2
    <3>4. QED
      BY <2>3, <2>4, <2>5, <3>3 DEF Matches
  <2>10. QED
    BY <2>7, <2>8, <2>9 DEF Written
<1>2. QED
  BY <1>1, BlocksInvariant, ReopenInvariant, PTL

(***************************************************************************)
(* A command changes nothing else.                                         *)
(***************************************************************************)

(* The first flux block of the index is at a. *)
FirstFlux(ix, a) ==
    \E i \in DOMAIN ix :
        /\ ix[i].kind = "flux" /\ ix[i].at = a
        /\ \A j \in DOMAIN ix : j < i => ix[j].kind # "flux"

(* Both read their flux captures from the same block. *)
SameFlux(ix, jx) ==
    \/ NoFluxBlock(ix) /\ NoFluxBlock(jx)
    \/ \E a : FirstFlux(ix, a) /\ FirstFlux(jx, a)

(* The tag is to be written, or is what the new index gives. *)
Injected ==
    /\ tool.slot \in TypedTags
    /\ \A j \in DOMAIN tool.todo : /\ tool.todo[j].kind = tool.slot
                                   /\ tool.todo[j].value = tool.value
    /\ tool.todo = <<>> => Loading(file, tool.entries).mem[tool.slot] = tool.value

(* The tables that are to be written, and those that are, are of today. *)
Upgraded ==
    /\ \A j \in DOMAIN tool.todo :
          /\ tool.todo[j].kind \in TableKinds
          /\ tool.todo[j].kind = "ddt" => tool.todo[j] = Ddt
    /\ \A i \in DOMAIN tool.entries :
          tool.entries[i].kind = "ddt" => file[tool.entries[i].at] = Ddt

(* What the index of a command gives, but for the tag it injects. *)
CommandInv ==
    ~Idle =>
        /\ SameFlux(DiskIndex, tool.entries)
        /\ \A s \in Slots :
              Loading(file, tool.entries).mem[s] = Loading(file, DiskIndex).mem[s]
              \/ (Injects /\ s = tool.slot)
        /\ IF Injects THEN Injected ELSE Upgraded

(* The flux block that is read is the first of the index. *)
LEMMA FirstOfBlocks ==
    ASSUME NEW ix \in Seq(Entry)
    PROVE  \/ FluxBlocks(ix) = <<>> /\ NoFluxBlock(ix)
           \/ FluxBlocks(ix) # <<>> /\ FirstFlux(ix, FluxBlocks(ix)[1].at)
<1> DEFINE r == FluxBlocks(ix)
<1>1. r \in Seq(Entry)
  BY OfKindsSelects DEF FluxBlocks
<1>2. PICK h : Selects(ix, {"flux"}, r, h, Len(ix))
  BY OfKindsSelects DEF FluxBlocks
<1> HIDE DEF r
<1>3. DOMAIN r = 1..Len(r) /\ Len(r) \in Nat /\ DOMAIN ix = 1..Len(ix) /\ Len(ix) \in Nat
  BY <1>1
<1>4. /\ \A j \in DOMAIN r : h[j] \in DOMAIN ix /\ r[j] = ix[h[j]] /\ r[j].kind = "flux"
      /\ \A i, j \in DOMAIN r : i < j => h[i] < h[j]
      /\ \A i \in DOMAIN ix : ix[i].kind = "flux" => \E j \in DOMAIN r : h[j] = i
  BY <1>2, <1>3 DEF Selects
<1>5. CASE r = <<>>
  <2>1. DOMAIN r = {}
    BY <1>5
  <2>2. QED
    BY <1>4, <1>5, <2>1 DEF NoFluxBlock, r
<1>6. CASE r # <<>>
  <2>1. 1 \in DOMAIN r
    BY <1>1, <1>3, <1>6
  <2>2. ASSUME NEW i \in DOMAIN ix, i < h[1], ix[i].kind = "flux"
        PROVE  FALSE
    <3>1. PICK j \in DOMAIN r : h[j] = i
      BY <1>4, <2>2
    <3>2. j = 1 \/ 1 < j
      BY <1>3
    <3>3. i \in Nat /\ h[1] \in Nat
      BY <1>3, <1>4, <2>1
    <3>4. QED
      BY <1>4, <2>1, <2>2, <3>1, <3>2, <3>3
  <2>3. h[1] \in DOMAIN ix /\ ix[h[1]].kind = "flux" /\ ix[h[1]].at = r[1].at
    BY <1>4, <2>1
  <2>4. FirstFlux(ix, r[1].at)
    BY <2>2, <2>3 DEF FirstFlux
  <2>5. QED
    BY <1>6, <2>4 DEF r
<1>7. QED
  BY <1>5, <1>6

LEMMA FirstOnce ==
    ASSUME NEW ix \in Seq(Entry), NEW a, FirstFlux(ix, a)
    PROVE  ~NoFluxBlock(ix) /\ \A b : FirstFlux(ix, b) => b = a
<1>1. DOMAIN ix = 1..Len(ix) /\ Len(ix) \in Nat
  OBVIOUS
<1>2. PICK i \in DOMAIN ix : /\ ix[i].kind = "flux" /\ ix[i].at = a
                             /\ \A j \in DOMAIN ix : j < i => ix[j].kind # "flux"
  BY DEF FirstFlux
<1>3. ASSUME NEW b, FirstFlux(ix, b)
      PROVE  b = a
  <2>1. PICK l \in DOMAIN ix : /\ ix[l].kind = "flux" /\ ix[l].at = b
                               /\ \A j \in DOMAIN ix : j < l => ix[j].kind # "flux"
    BY <1>3 DEF FirstFlux
  <2>2. ~(i < l) /\ ~(l < i)
    BY <1>2, <2>1
  <2>3. i = l
    BY <1>1, <2>2
  <2>4. QED
    BY <1>2, <2>1, <2>3
<1>4. QED
  BY <1>2, <1>3 DEF NoFluxBlock

(* It stays the first without entries of other kinds, and before more.     *)
LEMMA FirstOfKinds ==
    ASSUME NEW ix \in Seq(Entry), NEW kinds, "flux" \in kinds
    PROVE  SameFlux(ix, OfKinds(ix, kinds))
<1> DEFINE r == OfKinds(ix, kinds)
<1>1. r \in Seq(Entry)
  BY OfKindsSelects
<1>2. PICK h : Selects(ix, kinds, r, h, Len(ix))
  BY OfKindsSelects
<1> HIDE DEF r
<1>3. DOMAIN r = 1..Len(r) /\ Len(r) \in Nat /\ DOMAIN ix = 1..Len(ix) /\ Len(ix) \in Nat
  BY <1>1
<1>4. /\ \A j \in DOMAIN r : h[j] \in DOMAIN ix /\ r[j] = ix[h[j]]
      /\ \A i, j \in DOMAIN r : i < j => h[i] < h[j]
      /\ \A i \in DOMAIN ix : ix[i].kind = "flux" => \E j \in DOMAIN r : h[j] = i
  BY <1>2, <1>3 DEF Selects
<1>5. FluxBlocks(ix) = <<>> \/ \E a : FirstFlux(ix, a)
  BY FirstOfBlocks
<1>6. CASE NoFluxBlock(ix)
  <2>1. NoFluxBlock(r)
    BY <1>4, <1>6 DEF NoFluxBlock
  <2>2. QED
    BY <1>6, <2>1 DEF SameFlux, r
<1>7. ASSUME NEW a, FirstFlux(ix, a)
      PROVE  SameFlux(ix, r)
  <2>1. PICK i \in DOMAIN ix : /\ ix[i].kind = "flux" /\ ix[i].at = a
                               /\ \A j \in DOMAIN ix : j < i => ix[j].kind # "flux"
    BY <1>7 DEF FirstFlux
  <2>2. PICK l \in DOMAIN r : h[l] = i
    BY <1>4, <2>1
  <2>3. ASSUME NEW j \in DOMAIN r, j < l
        PROVE  r[j].kind # "flux"
    <3>1. h[j] \in DOMAIN ix /\ h[j] < i /\ r[j] = ix[h[j]]
      BY <1>4, <2>2, <2>3
    <3>2. QED
      BY <2>1, <3>1
  <2>4. r[l] = ix[i]
    BY <1>4, <2>2
  <2>5. FirstFlux(r, a)
    BY <2>1, <2>3, <2>4 DEF FirstFlux
  <2>6. QED
    BY <1>7, <2>5 DEF SameFlux
<1>8. QED
  BY <1>6, <1>7, FirstOfBlocks DEF r

LEMMA FirstAppended ==
    ASSUME NEW ix, NEW jx \in Seq(Entry), SameFlux(ix, jx), NEW e \in Entry, e.kind # "flux"
    PROVE  SameFlux(ix, Append(jx, e))
<1> DEFINE r == Append(jx, e)
<1>1. /\ DOMAIN r = 1..(Len(jx) + 1) /\ Len(jx) \in Nat /\ DOMAIN jx = 1..Len(jx)
      /\ \A i \in 1..Len(jx) : r[i] = jx[i]
      /\ r[Len(jx) + 1] = e
  OBVIOUS
<1> HIDE DEF r
<1>2. \A i \in DOMAIN jx : i \in DOMAIN r /\ r[i] = jx[i]
  BY <1>1
<1>3. \A i \in DOMAIN r : i \in DOMAIN jx \/ r[i].kind # "flux"
  BY <1>1
<1>4. CASE NoFluxBlock(ix) /\ NoFluxBlock(jx)
  <2>1. NoFluxBlock(r)
    BY <1>2, <1>3, <1>4 DEF NoFluxBlock
  <2>2. QED
    BY <1>4, <2>1 DEF SameFlux, r
<1>5. ASSUME NEW a, FirstFlux(ix, a), FirstFlux(jx, a)
      PROVE  SameFlux(ix, r)
  <2>1. PICK i \in DOMAIN jx : /\ jx[i].kind = "flux" /\ jx[i].at = a
                               /\ \A j \in DOMAIN jx : j < i => jx[j].kind # "flux"
    BY <1>5 DEF FirstFlux
  <2>2. FirstFlux(r, a)
    BY <1>2, <1>3, <2>1 DEF FirstFlux
  <2>3. QED
    BY <1>5, <2>2 DEF SameFlux
<1>6. QED
  BY <1>4, <1>5 DEF SameFlux, r

LEMMA SameFluxItself ==
    ASSUME NEW ix \in Seq(Entry)
    PROVE  SameFlux(ix, ix)
BY FirstOfBlocks DEF SameFlux

(* A capture is read as before from the same block of a longer file. *)
LEMMA FluxAnswers ==
    ASSUME BlocksInv, Longer(file, file'), IndexOK(file', DiskIndex'),
           SameFlux(DiskIndex, DiskIndex'), NEW k \in Keys
    PROVE  read_flux_capture(NoFlux, DiskIndex, k)' = read_flux_capture(NoFlux, DiskIndex, k)
<1>1. DiskIndex \in Seq(Entry) /\ DiskIndex' \in Seq(Entry) /\ IndexOK(file, DiskIndex)
  BY DEF BlocksInv, FileOK, IndexOK, Resolves
<1>2. \A i \in DOMAIN file : i \in DOMAIN file' /\ file'[i] = file[i]
  BY LongerDomain
<1>3. CASE NoFluxBlock(DiskIndex) /\ NoFluxBlock(DiskIndex')
  <2>1. FluxBlocks(DiskIndex) = <<>> /\ FluxBlocks(DiskIndex') = <<>>
    BY <1>1, <1>3, FirstOfBlocks, FirstOnce
  <2>2. ensure_flux_entries_loaded(NoFlux, DiskIndex) = NoFlux
    BY <2>1 DEF ensure_flux_entries_loaded
  <2>3. ensure_flux_entries_loaded(NoFlux, DiskIndex)' = NoFlux
    BY <2>1 DEF ensure_flux_entries_loaded
  <2>4. find_flux_entry_by_key(NoFlux, k) = 0
    BY DEF find_flux_entry_by_key, NoFlux
  <2>5. read_flux_capture(NoFlux, DiskIndex, k) = Error
    BY <2>2, <2>4 DEF read_flux_capture
  <2>6. read_flux_capture(NoFlux, DiskIndex, k)' = Error
    BY <2>3, <2>4 DEF read_flux_capture
  <2>7. QED
    BY <2>5, <2>6
<1>4. ASSUME NEW a, FirstFlux(DiskIndex, a), FirstFlux(DiskIndex', a)
      PROVE  read_flux_capture(NoFlux, DiskIndex, k)' = read_flux_capture(NoFlux, DiskIndex, k)
  <2> DEFINE es == file[a].value
             fx == process_flux_data_block(NoFlux, a)
             i  == find_flux_entry_by_key(fx, k)
  <2>1. /\ FluxBlocks(DiskIndex) # <<>> /\ FluxBlocks(DiskIndex)[1].at = a
        /\ FluxBlocks(DiskIndex') # <<>> /\ FluxBlocks(DiskIndex')[1].at = a
    BY <1>1, <1>4, FirstOfBlocks, FirstOnce
  <2>2. a \in DOMAIN file /\ file[a].kind = "flux"
    BY <1>1, <1>4 DEF FirstFlux, IndexOK, Resolves
  <2>3. file'[a] = file[a]
    BY <1>2, <2>2
  <2>4. ensure_flux_entries_loaded(NoFlux, DiskIndex) = fx
    BY <2>1 DEF ensure_flux_entries_loaded, NoFlux
  <2>5. ensure_flux_entries_loaded(NoFlux, DiskIndex)' = fx
    <3>1. ensure_flux_entries_loaded(NoFlux, DiskIndex)' =
              [NoFlux EXCEPT !.captures = <<>>,
                             !.entries = file'[a].value,
                             !.map = flux_map_rebuild_from_entries(file'[a].value)]
      BY <2>1 DEF ensure_flux_entries_loaded, process_flux_data_block, NoFlux
    <3>2. QED
      BY <2>3, <3>1 DEF process_flux_data_block
  <2>6. EntriesRight(file, es)
    BY <2>2 DEF BlocksInv, FileOK, PayloadsRight
  <2>7. FluxOK(file, fx) /\ fx.entries = es
    <3>1. NoFlux \in FluxShape
      BY NoFluxOK DEF FluxOK
    <3>2. FluxOK(file, fx)
      BY <2>6, <3>1, RebuiltOK DEF process_flux_data_block
    <3>3. QED
      BY <3>2 DEF process_flux_data_block, NoFlux
  <2> HIDE DEF es, fx
  <2>8. /\ read_flux_capture(NoFlux, DiskIndex, k) =
               IF i = 0 THEN Error ELSE read_flux_payload(fx.entries[i].at)
        /\ read_flux_capture(NoFlux, DiskIndex, k)' =
               IF i = 0 THEN Error
               ELSE IF fx.entries[i].at = 0 \/ file'[fx.entries[i].at].kind # "flux_payload"
                    THEN Error ELSE file'[fx.entries[i].at].value
    BY <2>4, <2>5 DEF read_flux_capture, read_flux_payload
  <2>9. CASE i = 0
    BY <2>8, <2>9
  <2>10. CASE i # 0
    <3>1. i \in DOMAIN fx.entries
      BY <2>7, <2>10, FoundOK
    <3>2. EntryRight(file, fx.entries[i])
      BY <2>6, <2>7, <3>1 DEF EntriesRight
    <3>3. fx.entries[i].at = 0 \/ file'[fx.entries[i].at] = file[fx.entries[i].at]
      BY <1>2, <3>2 DEF EntryRight
    <3>4. QED
      BY <2>8, <2>10, <3>3 DEF read_flux_payload
  <2>11. QED
    BY <2>9, <2>10
<1>5. QED
  BY <1>3, <1>4 DEF SameFlux

(* What an image answers is what it is loaded with. *)
PlainAnswers ==
    [slots |-> [s \in Slots |-> Loading(file, DiskIndex).mem[s]],
     flux  |-> [k \in Keys |-> read_flux_capture(NoFlux, DiskIndex, k)]]

AnswersArePlain == Answers = PlainAnswers

LEMMA AnswersPlain == BlocksInv /\ CountsOK => AnswersArePlain
<1> SUFFICES ASSUME BlocksInv, CountsOK
             PROVE  Answers = PlainAnswers
  BY DEF AnswersArePlain
<1>1. Coherent(Loaded)
  BY LoadingCoherent DEF Loaded, CountsOK, BlocksInv, FileOK
<1>2. \A s \in Slots : Get(Loaded, s) = Loading(file, DiskIndex).mem[s]
  BY <1>1, GetIs DEF Loaded
<1>3. [s \in Slots |-> Get(Loaded, s)] = [s \in Slots |-> Loading(file, DiskIndex).mem[s]]
  BY <1>2
<1>4. QED
  BY <1>3 DEF Answers, PlainAnswers

LEMMA AnswersPlainNext == BlocksInv' /\ CountsOK' => AnswersArePlain'
BY AnswersPlain, PTL

(* Blocks are appended, and the index stays. *)
LEMMA AnswersKept ==
    ASSUME BlocksInv, CountsOK, BlocksInv', CountsOK', Longer(file, file'),
           DiskIndex' = DiskIndex
    PROVE  Answers' = Answers
<1>1. IndexOK(file, DiskIndex) /\ IndexOK(file', DiskIndex') /\ Counted(file')
      /\ DiskIndex \in Seq(Entry)
  BY DEF BlocksInv, FileOK, CountsOK, IndexOK, Resolves
<1>2. \A s \in Slots : Loading(file', DiskIndex').mem[s] = Loading(file, DiskIndex).mem[s]
  BY <1>1, LoadingKept
<1>3. SameFlux(DiskIndex, DiskIndex')
  BY <1>1, SameFluxItself
<1>4. \A k \in Keys : read_flux_capture(NoFlux, DiskIndex, k)'
                          = read_flux_capture(NoFlux, DiskIndex, k)
  BY <1>1, <1>3, FluxAnswers
<1>5. PlainAnswers' = PlainAnswers
  BY <1>2, <1>4 DEF PlainAnswers
<1>6. QED
  BY <1>5, AnswersPlain, AnswersPlainNext DEF AnswersArePlain

(***************************************************************************)
(* The steps of a command.                                                 *)
(***************************************************************************)

(* What both indexes give, in two files: all slots but one of a command.   *)
SameSlots(f, ix, g, jx, but) ==
    \A s \in Slots : Loading(g, jx).mem[s] = Loading(f, ix).mem[s] \/ s \in but

Target == IF Injects THEN {tool.slot} ELSE {}

LEMMA TagInto ==
    ASSUME NEW k \in TypedTags
    PROVE  \A s : Into(k, s) <=> s = k
<1>1. k \notin NotLoaded \cup TapeKinds /\ k # "metadata" /\ k \in TagKinds
  BY TagKindsAre DEF TypedTags, NotLoaded, TapeKinds
<1>2. LoadSlot(k) = k
  BY <1>1 DEF LoadSlot, aaruf_get_media_tag_type_for_datatype
<1>3. QED
  BY <1>1, <1>2 DEF Into

LEMMA CommandIs ==
    CommandInv <=>
        (~Idle =>
            /\ SameFlux(DiskIndex, tool.entries)
            /\ SameSlots(file, DiskIndex, file, tool.entries, Target)
            /\ Injects => Injected
            /\ ~Injects => Upgraded)
BY DEF CommandInv, SameSlots, Target

LEMMA CommandIsNext ==
    CommandInv' <=>
        (~Idle' =>
            /\ SameFlux(DiskIndex', tool'.entries)
            /\ SameSlots(file', DiskIndex', file', tool'.entries, Target')
            /\ Injects' => Injected'
            /\ ~Injects' => Upgraded')
BY DEF CommandInv, SameSlots, Target

LEMMA InjectStarts ==
    ASSUME BlocksInv, CountsOK, NEW t \in InjectedTags, NEW v \in InjectedValues,
           inject_media_tag(t, v)
    PROVE  CommandInv'
<1> DEFINE k == get_datatype_for_media_tag_type(t)
           b == [kind |-> k, value |-> v, count |-> 1]
           new == [slot |-> t, value |-> v, at |-> 0, entries |-> EntriesWithout(k),
                   todo |-> <<b>>]
<1>1. k = t /\ t \in TypedTags /\ ToolStarts(new)
  BY DEF inject_media_tag, get_datatype_for_media_tag_type
<1>2. tool' = new /\ file' = file /\ root' = root
  BY <1>1 DEF ToolStarts
<1>3. DiskIndex' = DiskIndex
  BY <1>2 DEF DiskIndex
<1>4. /\ tool'.slot = t /\ tool'.value = v /\ tool'.entries = EntriesWithout(k)
      /\ tool'.todo = <<b>>
  BY <1>2
<1>5. Injects' /\ Target' = {t}
  BY <1>4, InjectedAssumption DEF Injects, Target
<1>6. b.kind = t /\ b.value = v
  BY <1>1
<1> HIDE DEF k, b, new
<1>7. Injected'
  <2>1. \A j \in DOMAIN tool'.todo : tool'.todo[j] = b
    BY <1>4
  <2>2. tool'.todo # <<>>
    BY <1>4
  <2>3. QED
    BY <1>1, <1>4, <1>6, <2>1, <2>2 DEF Injected
<1>8. file \in Seq(Cell) /\ Counted(file) /\ IndexOK(file, DiskIndex) /\ DiskIndex \in Seq(Entry)
  BY DEF BlocksInv, FileOK, CountsOK, IndexOK, Resolves
<1>9. SameFlux(DiskIndex, EntriesWithout(k))
  <2>1. "flux" \in BlockKinds \ {k}
    BY <1>1, OtherKinds DEF BlockKinds, TypedTags
  <2>2. QED
    BY <1>8, <2>1, FirstOfKinds DEF EntriesWithout
<1>10. SameSlots(file, DiskIndex, file, EntriesWithout(k), {t})
  <2>1. ASSUME NEW s \in Slots, s # t
        PROVE  Loading(file, EntriesWithout(k)).mem[s] = Loading(file, DiskIndex).mem[s]
    <3>1. \A l \in BlockKinds \ (BlockKinds \ {k}) : ~Into(l, s)
      BY <1>1, <2>1, TagInto
    <3>2. QED
      BY <1>8, <3>1, LoadingWithout DEF EntriesWithout
  <2>2. QED
    BY <2>1 DEF SameSlots
<1>11. QED
  BY <1>2, <1>3, <1>4, <1>5, <1>7, <1>9, <1>10, CommandIsNext

LEMMA UpgradeStarts ==
    ASSUME BlocksInv, CountsOK, upgrade_ddt_to_alpha21
    PROVE  CommandInv'
<1> DEFINE todo == [i \in DOMAIN Tables |-> NewTable(file[Tables[i].at])]
           entries == OfKinds(DiskIndex, BlockKinds \ TableKinds)
           new == [slot |-> None, value |-> None, at |-> 0, entries |-> entries, todo |-> todo]
<1>1. ToolStarts(new)
  BY DEF upgrade_ddt_to_alpha21
<1>2. tool' = new /\ file' = file /\ root' = root
  BY <1>1 DEF ToolStarts
<1>3. DiskIndex' = DiskIndex
  BY <1>2 DEF DiskIndex
<1>4. tool'.slot = None /\ tool'.entries = entries /\ tool'.todo = todo
  BY <1>2
<1>5. ~Injects' /\ Target' = {}
  BY <1>4 DEF Injects, Target
<1>6. file \in Seq(Cell) /\ Counted(file) /\ IndexOK(file, DiskIndex) /\ DiskIndex \in Seq(Entry)
  BY DEF BlocksInv, FileOK, CountsOK, IndexOK, Resolves
<1>7. \A i \in DOMAIN Tables :
          file[Tables[i].at] \in TableBlock /\ CountOK(file[Tables[i].at])
  <2>1. IndexOK(file, Tables) /\ \A i \in DOMAIN Tables : Tables[i].kind \in TableKinds
    BY OfKindsOK DEF Tables, BlocksInv, FileOK
  <2>2. \A i \in DOMAIN Tables : /\ file[Tables[i].at] \in Cell
                                 /\ CountOK(file[Tables[i].at])
                                 /\ file[Tables[i].at].kind \in TableKinds
    BY <1>6, <2>1 DEF IndexOK, Resolves, Counted
  <2>3. QED
    BY <2>2, CellKinds
<1>8. \A c \in TableBlock : CountOK(c) =>
          NewTable(c).kind \in TableKinds /\ (NewTable(c).kind = "ddt" => NewTable(c) = Ddt)
  <2> SUFFICES ASSUME NEW c \in TableBlock, CountOK(c)
               PROVE  NewTable(c).kind \in TableKinds
                      /\ (NewTable(c).kind = "ddt" => NewTable(c) = Ddt)
    OBVIOUS
  <2>1. NewTable(c) = [kind |-> c.kind, value |-> None, count |-> c.count]
    BY DEF NewTable, TableBlock
  <2>2. c.kind \in TableKinds /\ (c.kind = "ddt" => c.count = 1)
    BY DEF TableBlock, CountOK
  <2>3. QED
    BY <2>1, <2>2 DEF Ddt
<1>9. \A j \in DOMAIN todo : /\ todo[j].kind \in TableKinds
                             /\ todo[j].kind = "ddt" => todo[j] = Ddt
  BY <1>7, <1>8
<1>10. \A i \in DOMAIN entries : entries[i].kind # "ddt"
  BY <1>6, OfKindsOK DEF TableKinds
<1>11. SameFlux(DiskIndex, entries)
  <2>1. "flux" \in BlockKinds \ TableKinds
    BY OtherKinds DEF BlockKinds, TableKinds
  <2>2. QED
    BY <1>6, <2>1, FirstOfKinds
<1>12. SameSlots(file, DiskIndex, file, entries, {})
  <2>1. ASSUME NEW s \in Slots
        PROVE  Loading(file, entries).mem[s] = Loading(file, DiskIndex).mem[s]
    <3>1. \A l \in BlockKinds \ (BlockKinds \ TableKinds) : ~Into(l, s)
      BY DEF TableKinds, Into, NotLoaded
    <3>2. QED
      BY <1>6, <3>1, LoadingWithout
  <2>2. QED
    BY <2>1 DEF SameSlots
<1> HIDE DEF todo, entries, new
<1>13. Upgraded'
  BY <1>4, <1>9, <1>10 DEF Upgraded
<1>14. QED
  BY <1>2, <1>3, <1>4, <1>5, <1>11, <1>12, <1>13, CommandIsNext

(* The file grows, and the indexes stay. *)
LEMMA SameSlotsKept ==
    ASSUME NEW f, NEW g, Longer(f, g), Counted(g), NEW ix, IndexOK(f, ix),
           NEW jx, IndexOK(f, jx), NEW but, SameSlots(f, ix, f, jx, but)
    PROVE  SameSlots(g, ix, g, jx, but)
<1>1. \A s \in Slots : /\ Loading(g, ix).mem[s] = Loading(f, ix).mem[s]
                       /\ Loading(g, jx).mem[s] = Loading(f, jx).mem[s]
  BY LoadingKept
<1>2. QED
  BY <1>1 DEF SameSlots

LEMMA BlockAppended ==
    ASSUME BlocksInv, CountsOK, CommandInv, BlocksInv', CountsOK', Longer(file, file'),
           ~Idle, AppendBlock
    PROVE  CommandInv'
<1> DEFINE b == Head(tool.todo)
           e == [kind |-> b.kind, at |-> Len(file) + 1]
<1>1. TodoOK /\ IndexOK(file, tool.entries)
  BY DEF BlocksInv, ToolOK
<1>2. /\ tool \in Command /\ tool.todo \in Seq(PlainBlock \cup TableBlock)
      /\ tool.entries \in Seq(Entry) /\ tool.todo # <<>>
      /\ file' = Append(file, b) /\ root' = root
  BY <1>1 DEF AppendBlock, TodoOK, Command
<1>3. b \in PlainBlock \cup TableBlock /\ b = tool.todo[1] /\ 1 \in DOMAIN tool.todo
  BY <1>2
<1>4. b \in Cell /\ b.kind \in PlainKinds \cup TableKinds
  BY <1>3 DEF Cell, PlainBlock, TableBlock
<1>5. b.kind # "flux" /\ b.kind \in BlockKinds \ {"index", "torn"}
  BY <1>4, OtherKinds DEF PlainKinds, TableKinds, BlockKinds
<1>6. file \in Seq(Cell) /\ Len(file) \in Nat
  BY DEF BlocksInv, FileOK
<1>7. Len(file) + 1 \in DOMAIN file' /\ file'[Len(file) + 1] = b
  BY <1>2, <1>4, <1>6, OneLonger
<1>8. e \in Entry /\ e.kind = b.kind /\ e.at = Len(file) + 1
  BY <1>5, <1>6 DEF Entry
<1>9. /\ tool'.slot = tool.slot /\ tool'.value = tool.value
      /\ tool'.todo = Tail(tool.todo)
      /\ tool'.entries = Append(tool.entries, e)
  BY <1>2 DEF AppendBlock, Command
<1>10. DiskIndex' = DiskIndex
  BY <1>2, <1>4, <1>5, FileGrowsByOne DEF BlocksInv
<1>11. (Injects' <=> Injects) /\ Target' = Target
  BY <1>9 DEF Injects, Target
<1>12. /\ SameFlux(DiskIndex, tool.entries)
       /\ SameSlots(file, DiskIndex, file, tool.entries, Target)
       /\ Injects => Injected
       /\ ~Injects => Upgraded
  BY CommandIs
<1>13. ~Idle'
  <2>1. tool'.entries # <<>>
    BY <1>2, <1>8, <1>9
  <2>2. QED
    BY <2>1 DEF Idle, NoTool
<1> HIDE DEF b, e
<1>14. SameFlux(DiskIndex', tool'.entries)
  BY <1>2, <1>5, <1>8, <1>9, <1>10, <1>12, FirstAppended
<1>15. /\ file' \in Seq(Cell) /\ Counted(file') /\ IndexOK(file', tool.entries)
       /\ IndexOK(file', Append(tool.entries, e)) /\ IndexOK(file, DiskIndex)
  <2>1. tool'.todo = Tail(tool.todo) /\ IndexOK(file', tool'.entries)
    BY <1>9, <1>13 DEF BlocksInv, ToolOK
  <2>2. QED
    BY <1>1, <1>9, <2>1, IndexKept DEF BlocksInv, FileOK, CountsOK
<1>16. SameSlots(file', DiskIndex, file', tool.entries, Target)
  BY <1>1, <1>12, <1>15, SameSlotsKept
<1>17. \A s \in Slots : Loading(file', Append(tool.entries, e)).mem[s] =
          IF Into(b.kind, s) THEN ValueIn(b, s) ELSE Loading(file', tool.entries).mem[s]
  BY <1>7, <1>8, <1>15, LoadingAppended
<1>18. \A j \in DOMAIN tool'.todo : j + 1 \in DOMAIN tool.todo
                                    /\ tool'.todo[j] = tool.todo[j + 1]
  BY <1>2, <1>9
<1>19. CASE Injects
  <2>1. /\ tool.slot \in TypedTags /\ b.kind = tool.slot /\ b.value = tool.value
        /\ Target = {tool.slot}
    BY <1>3, <1>12, <1>19 DEF Injected, Target
  <2>2. \A s : Into(b.kind, s) <=> s = tool.slot
    BY <2>1, TagInto
  <2>3. SameSlots(file', DiskIndex, file', tool'.entries, Target)
    BY <1>9, <1>16, <1>17, <2>1, <2>2 DEF SameSlots
  <2>4. Loading(file', tool'.entries).mem[tool.slot] = tool.value
    <3>1. tool.slot \in Slots /\ b.kind # "metadata"
      BY <2>1 DEF Slots, Tags, TypedTags
    <3>2. ValueIn(b, tool.slot) = tool.value
      BY <2>1, <3>1 DEF ValueIn
    <3>3. QED
      BY <1>9, <1>17, <2>2, <3>1, <3>2
  <2>5. Injected'
    BY <1>9, <1>12, <1>18, <1>19, <2>1, <2>4 DEF Injected
  <2>6. QED
    BY <1>10, <1>11, <1>14, <1>19, <2>3, <2>5, CommandIsNext
<1>20. CASE ~Injects
  <2>1. b.kind \in TableKinds /\ (b.kind = "ddt" => b = Ddt)
    BY <1>3, <1>12, <1>20 DEF Upgraded
  <2>2. \A s : ~Into(b.kind, s)
    BY <2>1 DEF TableKinds, Into, NotLoaded
  <2>3. SameSlots(file', DiskIndex, file', tool'.entries, Target)
    BY <1>9, <1>16, <1>17, <2>2 DEF SameSlots
  <2>4. ASSUME NEW i \in DOMAIN tool'.entries, tool'.entries[i].kind = "ddt"
        PROVE  file'[tool'.entries[i].at] = Ddt
    <3>1. \/ i \in DOMAIN tool.entries /\ tool'.entries[i] = tool.entries[i]
          \/ tool'.entries[i] = e
      BY <1>2, <1>8, <1>9
    <3>2. CASE tool'.entries[i] = e
      BY <1>7, <1>8, <2>1, <2>4, <3>2
    <3>3. CASE i \in DOMAIN tool.entries /\ tool'.entries[i] = tool.entries[i]
      <4>1. tool.entries[i].at \in DOMAIN file
        BY <1>1, <3>3 DEF IndexOK, Resolves
      <4>2. file'[tool.entries[i].at] = file[tool.entries[i].at]
        BY <4>1, LongerDomain
      <4>3. file[tool.entries[i].at] = Ddt
        BY <1>12, <1>20, <2>4, <3>3 DEF Upgraded
      <4>4. QED
        BY <3>3, <4>2, <4>3
    <3>4. QED
      BY <3>1, <3>2, <3>3
  <2>5. Upgraded'
    BY <1>12, <1>18, <1>20, <2>4 DEF Upgraded
  <2>6. QED
    BY <1>10, <1>11, <1>14, <1>20, <2>3, <2>5, CommandIsNext
<1>21. QED
  BY <1>19, <1>20

LEMMA IndexAppended ==
    ASSUME BlocksInv, CountsOK, CommandInv, BlocksInv', CountsOK', Longer(file, file'),
           ~Idle, AppendIndex
    PROVE  CommandInv'
<1> DEFINE b == [kind |-> "index", value |-> tool.entries, count |-> Len(tool.entries)]
<1>1. TodoOK /\ IndexOK(file, tool.entries) /\ IndexOK(file, DiskIndex)
  BY DEF BlocksInv, ToolOK, FileOK
<1>2. /\ tool \in Command /\ tool.entries \in Seq(Entry) /\ tool.todo = <<>>
      /\ file' = Append(file, b) /\ root' = root
  BY <1>1 DEF AppendIndex, TodoOK, Command
<1>3. b \in Cell /\ b.kind # "flux"
  BY <1>2 DEF Cell, IndexBlock
<1> HIDE DEF b
<1>4. DiskIndex' = DiskIndex
  BY <1>2, <1>3, FileGrowsByOne DEF BlocksInv
<1>5. /\ tool'.slot = tool.slot /\ tool'.value = tool.value /\ tool'.todo = tool.todo
      /\ tool'.entries = tool.entries
  BY <1>2 DEF AppendIndex, Command
<1>6. (Injects' <=> Injects) /\ Target' = Target
  BY <1>5 DEF Injects, Target
<1>7. /\ SameFlux(DiskIndex, tool.entries)
      /\ SameSlots(file, DiskIndex, file, tool.entries, Target)
      /\ Injects => Injected
      /\ ~Injects => Upgraded
  BY CommandIs
<1>8. Counted(file')
  BY DEF CountsOK
<1>9. SameSlots(file', DiskIndex, file', tool.entries, Target)
  BY <1>1, <1>7, <1>8, SameSlotsKept
<1>10. Injects => Injected'
  <2>1. ASSUME Injects
        PROVE  Loading(file', tool.entries).mem[tool.slot] = tool.value
    <3>1. tool.slot \in Slots /\ Loading(file, tool.entries).mem[tool.slot] = tool.value
      BY <1>2, <1>7, <2>1 DEF Injected, Slots, Tags
    <3>2. QED
      BY <1>1, <1>8, <3>1, LoadingKept
  <2>2. QED
    BY <1>5, <1>7, <2>1 DEF Injected
<1>11. ~Injects => Upgraded'
  <2>1. \A i \in DOMAIN tool.entries : file'[tool.entries[i].at] = file[tool.entries[i].at]
    BY <1>1, LongerDomain DEF IndexOK, Resolves
  <2>2. QED
    BY <1>5, <1>7, <2>1 DEF Upgraded
<1>12. QED
  BY <1>4, <1>5, <1>6, <1>7, <1>9, <1>10, <1>11, CommandIsNext

LEMMA CommandNext ==
    ASSUME BlocksInv, ReopenInv, CommandInv, [ToolNext]_toolVars
    PROVE  CommandInv'
<1>1. /\ BlocksInv' /\ Longer(file, file') /\ CountsOK /\ CountsOK'
  BY NextBlocks, ReopenNext DEF ReopenInv
<1>2. CASE Idle /\ UNCHANGED tool
  BY <1>2 DEF Idle, CommandInv
<1>3. CASE ToolStep
  <2>1. CASE inject_block \/ upgrade_table
    BY <1>1, <2>1, BlockAppended DEF inject_block, upgrade_table
  <2>2. CASE inject_index \/ upgrade_index
    BY <1>1, <2>2, IndexAppended DEF inject_index, upgrade_index
  <2>3. CASE RewriteHeader \/ \E appended \in {<<>>, <<Torn>>} : ToolFails(appended)
    BY <2>3 DEF RewriteHeader, ToolFails, CommandInv, Idle
  <2>4. QED
    BY <1>1, <1>3, <2>1, <2>2, <2>3, InjectStarts, UpgradeStarts
       DEF ToolStep, inject_header, upgrade_header
<1>4. CASE UNCHANGED toolVars
  <2>1. UNCHANGED <<file, root, tool>>
    BY <1>4 DEF toolVars, vars, stored
  <2>2. DiskIndex' = DiskIndex
    BY <2>1 DEF DiskIndex
  <2>3. (Idle' <=> Idle) /\ (Injects' <=> Injects) /\ Target' = Target
        /\ (Injected' <=> Injected) /\ (Upgraded' <=> Upgraded)
    BY <2>1 DEF Idle, Injects, Target, Injected, Upgraded
  <2>4. QED
    BY <2>1, <2>2, <2>3, CommandIs, CommandIsNext
<1>5. QED
  BY <1>2, <1>3, <1>4 DEF ToolNext

(* Its inductive invariant: the index that a command prepares gives, at    *)
(* any time, what the one on disk gives, for all slots but the tag that is *)
(* injected, and leads to the same flux block first; the tag is still to   *)
(* be written or given; and no table of an older library is left but those *)
(* that are still to be written.                                           *)
THEOREM CommandInvariant == ToolSpec => []CommandInv
<1>1. ToolInit => CommandInv
  BY DEF ToolInit, CommandInv, Idle
<1>2. BlocksInv /\ ReopenInv /\ CommandInv /\ [ToolNext]_toolVars => CommandInv'
  BY CommandNext
<1>3. QED
  BY <1>1, <1>2, BlocksInvariant, ReopenInvariant, PTL DEF ToolSpec

(* With the header the new index takes the place of the old one. *)
LEMMA HeaderAnswers ==
    ASSUME BlocksInv, CountsOK, CommandInv, BlocksInv', CountsOK', ~Idle, RewriteHeader
    PROVE  /\ Answers' = IF Injects THEN [Answers EXCEPT !.slots[tool.slot] = tool.value]
                                    ELSE Answers
           /\ ~Injects => TablesAreOurs'
<1>1. /\ IndexOK(file, tool.entries) /\ IndexOK(file, DiskIndex)
      /\ tool.at \in 0..Len(file) /\ tool.at # 0
      /\ file[tool.at].kind = "index" /\ file[tool.at].value = tool.entries
      /\ tool.todo = <<>>
  BY DEF BlocksInv, ToolOK, FileOK, RewriteHeader
<1>2. file' = file /\ DiskIndex' = tool.entries
  BY <1>1 DEF RewriteHeader, DiskIndex
<1>3. /\ SameFlux(DiskIndex, tool.entries)
      /\ SameSlots(file, DiskIndex, file, tool.entries, Target)
      /\ Injects => Injected
      /\ ~Injects => Upgraded
  BY CommandIs
<1>4. Longer(file, file')
  BY <1>2, NotLonger, FileIsSeq
<1>5. \A k \in Keys : read_flux_capture(NoFlux, DiskIndex, k)'
                          = read_flux_capture(NoFlux, DiskIndex, k)
  BY <1>1, <1>2, <1>3, <1>4, FluxAnswers
<1> DEFINE old == [s \in Slots |-> Loading(file, DiskIndex).mem[s]]
           new == [s \in Slots |-> Loading(file', DiskIndex').mem[s]]
           caps == [k \in Keys |-> read_flux_capture(NoFlux, DiskIndex, k)]
<1>6. Answers = [slots |-> old, flux |-> caps] /\ Answers' = [slots |-> new, flux |-> caps]
  <2>1. Answers = PlainAnswers /\ Answers' = PlainAnswers'
    BY AnswersPlain, AnswersPlainNext DEF AnswersArePlain
  <2>2. PlainAnswers' = [slots |-> new, flux |-> caps]
    BY <1>5 DEF PlainAnswers
  <2>3. QED
    BY <2>1, <2>2 DEF PlainAnswers
<1>7. \A s \in Slots : new[s] = old[s] \/ s \in Target
  BY <1>2, <1>3 DEF SameSlots
<1>8. CASE Injects
  <2>1. Target = {tool.slot} /\ tool.slot \in Slots
    BY <1>3, <1>8 DEF Target, Injected, Slots, Tags
  <2>2. new[tool.slot] = tool.value
    BY <1>1, <1>2, <1>3, <1>8, <2>1 DEF Injected
  <2>3. new \in [Slots -> {new[s] : s \in Slots}] /\ old \in [Slots -> {old[s] : s \in Slots}]
    OBVIOUS
  <2> HIDE DEF old, new, caps
  <2>4. new = [old EXCEPT ![tool.slot] = tool.value]
    BY <1>7, <2>1, <2>2, <2>3
  <2>5. QED
    BY <1>6, <1>8, <2>4
<1>9. CASE ~Injects
  <2>1. Target = {}
    BY <1>9 DEF Target
  <2>2. \A s \in Slots : new[s] = old[s]
    BY <1>7, <2>1
  <2>3. new = old
    BY <2>2
  <2>4. TablesAreOurs'
    BY <1>2, <1>3, <1>9 DEF Upgraded, TablesAreOurs
  <2> HIDE DEF old, new, caps
  <2>5. QED
    BY <1>6, <1>9, <2>3, <2>4
<1>10. QED
  BY <1>8, <1>9

(* Whatever sessions, failures and commands came before: a command leaves  *)
(* what the image answers as it was until it rewrites the header; that     *)
(* changes the injected tag alone; and an upgrade leaves no table of an    *)
(* older library.                                                          *)
THEOREM CommandsChangeTheirTagAlone == ToolSpec => ToolChangesItsTagAlone
<1> DEFINE A == tool # NoTool =>
                    IF root' = root THEN file' # file => Answers' = Answers
                    ELSE /\ Answers' = IF Injects
                                       THEN [Answers EXCEPT !.slots[tool.slot] = tool.value]
                                       ELSE Answers
                         /\ ~Injects => TablesAreOurs'
<1>1. BlocksInv /\ ReopenInv /\ CommandInv /\ [ToolNext]_toolVars => [A]_toolVars
  <2> SUFFICES ASSUME BlocksInv, ReopenInv, CommandInv, ToolNext, ~Idle
               PROVE  A
    BY DEF Idle
  <2>1. BlocksInv' /\ Longer(file, file') /\ CountsOK /\ CountsOK'
    BY NextBlocks, ReopenNext DEF ReopenInv
  <2>2. ToolStep
    BY DEF ToolNext
  <2>3. CASE RewriteHeader
    <3>1. file' = file
      BY <2>3 DEF RewriteHeader
    <3>2. QED
      BY <2>1, <2>3, <3>1, HeaderAnswers
  <2>4. CASE ~RewriteHeader
    <3>1. root' = root
      BY <2>2, <2>4
         DEF ToolStep, inject_media_tag, upgrade_ddt_to_alpha21, inject_block, upgrade_table,
             inject_index, upgrade_index, inject_header, upgrade_header, ToolStarts,
             AppendBlock, AppendIndex, ToolFails
    <3>2. DiskIndex' = DiskIndex
      <4>1. root # 0 => root \in DOMAIN file
        BY DEF BlocksInv, FileOK
      <4>2. root # 0 => file'[root] = file[root]
        BY <2>1, <4>1, LongerDomain
      <4>3. QED
        BY <3>1, <4>2 DEF DiskIndex
    <3>3. Answers' = Answers
      BY <2>1, <3>2, AnswersKept
    <3>4. QED
      BY <3>1, <3>3
  <2>5. QED
    BY <2>3, <2>4
<1>2. ToolSpec => [][A]_toolVars
  BY <1>1, BlocksInvariant, ReopenInvariant, CommandInvariant, PTL DEF ToolSpec
<1>3. QED
  BY <1>2 DEF ToolChangesItsTagAlone
=============================================================================
