--------------------------- MODULE ErasureCoding ---------------------------
(***************************************************************************)
(* Erasure coding (src/erasure.c and the codec of lib/reed_solomon.c) on   *)
(* the way to the file: parity of the data blocks is accumulated as they   *)
(* are written, K to a stripe; at close the other blocks get a stripe of   *)
(* their own, and the map of the stripes (ECMB), its duplicate and the     *)
(* footer end the file.  And on the way back: what can be rebuilt of a     *)
(* stripe when some of its blocks are damaged.                             *)
(*                                                                         *)
(* The file is the sequence of the structures written, in the order of     *)
(* writing, each with its place and size in allocation units.  The content *)
(* of a block is a value.  A parity block is linear in the shards, so its  *)
(* content is the set of <<position, value>> it was fed with; feeding one  *)
(* twice takes it out, as addition in GF(2^8) does.                        *)
(***************************************************************************)
EXTENDS Integers, SequencesExt

CONSTANTS
    K,              \* ec_K: data shards of a stripe
    M,              \* ec_M: parity shards of a stripe
    MaxShards,      \* The elements of the field that can be rows: 255
    None,           \* Nothing
    MaxSize         \* Bound: units (and sectors) of the largest data block

ASSUME CodeAssumption == /\ K \in Nat \ {0}
                         /\ M \in Nat \ {0}
                         /\ MaxShards \in Nat /\ K + M <= MaxShards

VARIABLES
    file,           \* The structures written
    writer,         \* next_block_position, and the ec_* fields of a writer
    damage          \* How structures of the file are damaged, by their place in it

Structure(kind, at, span, value) ==
    [kind |-> kind, at |-> at, span |-> span, value |-> value]

MetaKinds == {"meta", "key"}

(* Where SEEK_END is, aligned. *)
End(f) == Max({s.at + s.span : s \in Range(f)})

(* Two structures of the file share units. *)
Overlap(s, t) == s.at < t.at + t.span /\ t.at < s.at + s.span

PlacesOf(f, kind) == {i \in DOMAIN f : f[i].kind = kind}

PlaceAt(f, at) == Max({i \in DOMAIN f : f[i].at = at})

(* What reads back from an undamaged place: nothing if it was written over. *)
Whole(f, i) == \A j \in DOMAIN f : j > i => ~ Overlap(f[i], f[j])

Undamaged(i) == i \notin DOMAIN damage /\ Whole(file, i)

(***************************************************************************)
(* The code.  aaruf_crc64_data of a shard covers its first `over' units.   *)
(***************************************************************************)
Crc(value, over) == [value |-> value, over |-> over]

(* Addition of the shard of a position to every parity buffer. *)
rs_encode_incremental(parity, pos, value) ==
    SymDiff(parity, {<<pos, value>>})

Encoded(stripe) ==
    {<<k, stripe.data[k].crc.value>> : k \in DOMAIN stripe.data}

(* Rows of the survivors: any K of the K + M shards determine the others,  *)
(* and the first K that are present are used.  rs_decode fails with more   *)
(* than M erasures, and cannot tell a wrong shard from a right one.        *)
rs_decode(n, present, genuine) ==
    LET Used(i) == Cardinality({j \in present : j < i}) < n
    IN  IF Cardinality(1..(n + M) \ present) > M THEN "failed"
        ELSE IF \A i \in present : Used(i) => i \in genuine THEN "right" ELSE "wrong"

(***************************************************************************)
(* Writing.  An operator takes and returns a record of the file and the    *)
(* writer.                                                                 *)
(***************************************************************************)
NewWriter(next) ==
    [next |-> next, enabled |-> FALSE, shard |-> 0, parity |-> {}, slot |-> <<>>,
     stripes |-> <<>>]

set_erasure_coding(w) == [NewWriter(w.next) EXCEPT !.enabled = TRUE]

(* M blocks at the end of the file, and their offsets. *)
AppendParity(f, kind, size, content) ==
    f \o [m \in 1..M |-> Structure(kind, End(f) + (m - 1) * size, size, content)]

ParityOffsets(f, g) == [m \in 1..M |-> g[Len(f) + m].at]

Largest(entries) == Max({entries[k].size : k \in DOMAIN entries})

Stripe(w, offsets) == [data |-> w.slot, parity |-> offsets]

(* Mutant: the buffers keep the stripe that was written. *)
ResetSlot_kept(w) == [w EXCEPT !.slot = <<>>]

ResetSlot(w) == [w EXCEPT !.slot = <<>>, !.parity = {}]

RecordStripe(st, f) ==
    [file   |-> f,
     writer |-> ResetSlot([st.writer EXCEPT
                    !.next = End(f),
                    !.stripes = Append(@, Stripe(st.writer, ParityOffsets(st.file, f)))])]

(* The parity of the slot, the descriptor of its stripe, and empty buffers. *)
ec_flush_data_stripe(st) ==
    RecordStripe(st, AppendParity(st.file, "parity", Largest(st.writer.slot),
                                  st.writer.parity))

(* Mutant: the buffers keep the size that the first block gave them. *)
ShardFor_first(shard, size) == IF shard = 0 THEN size + size \div 4 ELSE shard

(* Buffers are made with a quarter of headroom, and grown the same way. *)
ShardFor(shard, size) == IF size > shard THEN size + size \div 4 ELSE shard

Accumulated(w, at, size, value) ==
    [w EXCEPT !.shard = ShardFor(@, size),
              !.slot = Append(@, [at |-> at, size |-> size, crc |-> Crc(value, size)]),
              !.parity = rs_encode_incremental(@, Len(w.slot) + 1, value)]

(* Mutant: a full stripe waits for one more block. *)
FlushIfFull_late(st) == IF Len(st.writer.slot) > K THEN ec_flush_data_stripe(st) ELSE st

FlushIfFull(st) == IF Len(st.writer.slot) = K THEN ec_flush_data_stripe(st) ELSE st

(* Slot 0 is filled before another is begun, and flushed when it is full. *)
ec_accumulate_data_block(st, at, size, value) ==
    IF ~ st.writer.enabled THEN st
    ELSE FlushIfFull([st EXCEPT !.writer = Accumulated(@, at, size, value)])

Advance(st, size) == [st EXCEPT !.writer.next = @ + size]

PutData(st, size, value) ==
    [st EXCEPT !.file = Append(@, Structure("data", st.writer.next, size, value))]

(* A data block at next_block_position.  The size of the block is added    *)
(* again after the parity of a full stripe moved the position.             *)
close_current_block(st, size, value, memory) ==
    Advance(IF memory
            THEN ec_accumulate_data_block(PutData(st, size, value), st.writer.next, size,
                                          value)
            ELSE PutData(st, size, value), size)

(* A block that aaruf_finalize_write appends. *)
AppendBlock(f, kind, size, value) == Append(f, Structure(kind, End(f), size, value))

(* The table of a type that the index names, the last written, with the    *)
(* size its own header gives.  Bound: one table of each type.              *)
ec_collect_blocks_by_type(f, kind) ==
    LET places == PlacesOf(f, kind)
        s      == f[Max(places)]
    IN  IF places = {} THEN <<>>
        ELSE <<[at |-> s.at, size |-> s.span, value |-> s.value]>>

(* A media tag has a BlockHeader with its size; the size of another block  *)
(* is the distance to the next block of the index.                         *)
Following(f, at) == Min({s.at : s \in {s \in Range(f) : s.at > at}})

Metadata(f, s) ==
    [at |-> s.at, value |-> s.value,
     size |-> IF s.kind = "key" THEN s.span ELSE Following(f, s.at) - s.at]

CollectMetadata(f) ==
    LET Collected[n \in 0..Len(f)] ==
            IF n = 0 THEN <<>>
            ELSE IF f[n].kind \in MetaKinds
                 THEN Append(Collected[n - 1], Metadata(f, f[n])) ELSE Collected[n - 1]
    IN  Collected[Len(f)]

NoGroup == [K |-> 0, shard |-> 0, stripes |-> <<>>]

(* The CRC64 covers the shard with its padding.                            *)
BatchData(blocks, shard) ==
    [k \in DOMAIN blocks |-> [at |-> blocks[k].at, size |-> blocks[k].size,
                              crc |-> Crc(blocks[k].value, shard)]]

BatchParity(blocks) ==
    LET Fed[n \in 0..Len(blocks)] ==
            IF n = 0 THEN {} ELSE rs_encode_incremental(Fed[n - 1], n, blocks[n].value)
    IN  Fed[Len(blocks)]

BatchGroup(f, g, blocks, shard) ==
    [file  |-> g,
     group |-> [K |-> Len(blocks), shard |-> shard,
                stripes |-> <<[data   |-> BatchData(blocks, shard),
                               parity |-> ParityOffsets(f, g)]>>]]

(* One stripe for all the blocks of a type, as many as the field has rows. *)
ec_write_batch_parity(f, blocks, kind) ==
    IF blocks = <<>> THEN [file |-> f, group |-> NoGroup]
    ELSE BatchGroup(f, AppendParity(f, kind, Largest(blocks), BatchParity(blocks)), blocks,
                    Largest(blocks))

Rows(blocks) == SubSeq(blocks, 1, Min({Len(blocks), MaxShards - M}))

(* The stripe groups, each after the one before; a state is a file and the *)
(* map so far.                                                             *)
Groups == {"data", "ddt2", "meta"}

DataGroup(st) ==
    [file |-> st.file,
     map  |-> [name \in Groups |->
                IF name = "data"
                THEN [K |-> K, shard |-> st.writer.shard, stripes |-> st.writer.stripes]
                ELSE NoGroup]]

With(x, name, batch) ==
    [file |-> batch.file, map |-> [x.map EXCEPT ![name] = batch.group]]

Ddt2Group(x) ==
    With(x, "ddt2", ec_write_batch_parity(x.file,
        Rows(ec_collect_blocks_by_type(x.file, "ddt2")), "parity_ddt2"))

(* The groups of the primary table and of the index have parity, and no    *)
(* reader looks for them.                                                  *)
DdtGroup(x) ==
    [x EXCEPT !.file = ec_write_batch_parity(@,
        Rows(ec_collect_blocks_by_type(@, "ddt")), "parity_ddt").file]

MetadataGroup(x) ==
    IF Len(CollectMetadata(x.file)) > MaxShards - M THEN x
    ELSE With(x, "meta", ec_write_batch_parity(x.file, CollectMetadata(x.file),
                                               "parity_meta"))

IndexGroup(x) ==
    [x EXCEPT !.file = ec_write_batch_parity(@,
        ec_collect_blocks_by_type(@, "index"), "parity_index").file]

(* The map, the duplicate that no reader opens, and the footer. *)
WriteMap(x) ==
    AppendBlock(AppendBlock(AppendBlock(x.file, "ecmb", 1, x.map), "ecmb", 1, x.map),
                "footer", 1, End(x.file))

(* Nothing of it is in the index, which is on disk already. *)
ec_finalize(st) ==
    IF ~ st.writer.enabled THEN st.file
    ELSE WriteMap(IndexGroup(MetadataGroup(DdtGroup(Ddt2Group(DataGroup(
             IF st.writer.slot # <<>> THEN ec_flush_data_stripe(st) ELSE st))))))

(***************************************************************************)
(* Reading.                                                                *)
(***************************************************************************)
(* The footer is the last of the file, and it leads to the first map. *)
ec_load_ecmb ==
    LET footer == Len(file)
        ecmb   == PlaceAt(file, file[footer].value)
    IN  IF file[footer].kind = "footer" /\ Undamaged(footer) /\ Undamaged(ecmb)
        THEN file[ecmb].value ELSE None

(* The stripe of a block in a group: HASH_FIND by its offset. *)
StripeOf(group, at) ==
    LET found == {s \in DOMAIN group.stripes :
                    \E k \in DOMAIN group.stripes[s].data :
                        group.stripes[s].data[k].at = at}
    IN  IF found = {} THEN None ELSE group.stripes[Min(found)]

PositionOf(stripe, at) == CHOOSE k \in DOMAIN stripe.data : stripe.data[k].at = at

(* The CRC64 of what is on disk, over its size and no more. *)
DataPresent(group, e) ==
    /\ Undamaged(PlaceAt(file, e.at))
    /\ Crc(file[PlaceAt(file, e.at)].value, Min({e.size, group.shard})) = e.crc

ParityLost(at) ==
    LET i == PlaceAt(file, at) IN i \in DOMAIN damage /\ damage[i] = "length"

(* Nothing checks the CRC64 of a parity block. *)
ParityGenuine(stripe, at) ==
    LET i == PlaceAt(file, at) IN Undamaged(i) /\ file[i].value = Encoded(stripe)

(* A position that the stripe does not use is all zeros, and present. *)
PresentData(group, stripe) ==
    {k \in 1..group.K : k > Len(stripe.data) \/ DataPresent(group, stripe.data[k])}

PresentParity(group, stripe) ==
    {group.K + m : m \in {m \in 1..M : ~ ParityLost(stripe.parity[m])}}

Genuine(group, stripe) ==
    PresentData(group, stripe) \cup
    {group.K + m : m \in {m \in 1..M : ParityGenuine(stripe, stripe.parity[m])}}

(* "right", "wrong" or "failed": what a shard comes back as. *)
Rebuild(n, position, data, parity, genuine) ==
    IF position \in data /\ rs_decode(n, data \cup parity, genuine) # "failed" THEN "right"
    ELSE rs_decode(n, data \cup parity, genuine)

ec_recover_raw_block(group, at) ==
    LET stripe == StripeOf(group, at) IN
    IF stripe = None THEN "failed"
    ELSE Rebuild(group.K, PositionOf(stripe, at), PresentData(group, stripe),
                 PresentParity(group, stripe), Genuine(group, stripe))

(* A block of data is taken when the CRC64 in its own header agrees. *)
ec_recover_data_block(map, at) ==
    IF map = None THEN "failed"
    ELSE IF ec_recover_raw_block(map["data"], at) = "right" THEN "right" ELSE "failed"

ec_recover_meta_block(map, at) ==
    IF map = None THEN "failed" ELSE ec_recover_raw_block(map["meta"], at)

ec_recover_ddt_block(map, at) ==
    IF map = None THEN "failed" ELSE ec_recover_raw_block(map["ddt2"], at)
=============================================================================
