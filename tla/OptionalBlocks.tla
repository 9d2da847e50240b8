--------------------------- MODULE OptionalBlocks ---------------------------
(***************************************************************************)
(* Everything of an image that is not its sectors: geometry, metadata,     *)
(* tracks, dump hardware, media tags, the tags of DVD, Blu-ray and Apple   *)
(* sectors, tape tables, data position measurements.  A setter leaves a    *)
(* value in the context and marks its block dirty; aaruf_finalize_write    *)
(* appends each dirty block that has content and replaces its entry of the *)
(* index; aaruf_open loads the blocks that the index on disk names.        *)
(*                                                                         *)
(* A slot is one value of the context, a kind one type of block.  The file *)
(* only grows here (every writer seeks to its aligned end), so it is the   *)
(* sequence of what was written, and an offset is a place in it.           *)
(***************************************************************************)
EXTENDS Integers, Sequences, SequencesExt

CONSTANTS
    Values,         \* What a program may put in a slot
    None,           \* Nothing in it
    Partners,       \* Bound: the groups of slots edited along with another group
    Keys,           \* The (head, track, subtrack, capture) of a flux capture
    MaxEdits,       \* Bound: edits
    MaxSessions,    \* Bound: times the image is open for writing
    MaxFaults       \* Bound: writes or allocations that fail

ASSUME ValuesAssumption == Values # {} /\ None \notin Values
ASSUME EffortAssumption == MaxEdits \in Nat /\ MaxSessions \in Nat /\ MaxFaults \in Nat

(***************************************************************************)
(* Slots and kinds.                                                        *)
(***************************************************************************)
Strings ==
    {"creator", "comments", "media_title", "media_manufacturer", "media_model",
     "media_serial_number", "media_barcode", "media_part_number",
     "drive_manufacturer", "drive_model", "drive_serial_number",
     "drive_firmware_revision"}

Fields == Strings \cup {"media_sequence"}

DvdSlots == {"sector_id", "sector_ied", "sector_cpr_mai", "sector_edc"}

(* Two media tags with a data type of their own, one of a MiniDisc, which  *)
(* has none, and what a block without a data type is loaded as.            *)
TypedTags == {"media_tag_a", "media_tag_b"}
Tags == TypedTags \cup {"minidisc_tag", "untyped_tag"}

Slots ==
    Fields \cup DvdSlots \cup Tags \cup
    {"tracks", "subchannel", "title_key", "tape_file", "tape_partition",
     "geometry", "dumphw", "cicm", "json", "dpm"}

(* The writers of aaruf_finalize_write in their order, one for each media  *)
(* tag.  Those of the checksums and of the parts of a CD sector are in     *)
(* StreamDigest and LongSectors.                                           *)
Order ==
    <<"tracks", "flux", "subchannel", "dvd_id", "dvd_ied", "dvd_cpr_mai",
      "dvd_edc", "bd_edc", "title_key", "media_tag_a", "media_tag_b",
      "untyped_tag", "minidisc_tag", "tape_file", "tape_partition", "geometry",
      "metadata", "dumphw", "cicm", "json", "dpm">>

(* The data type of a tag's block, -1 for a tag that has none, and back.   *)
aaruf_get_datatype_for_media_tag_type(t) ==
    IF t \in TypedTags THEN t ELSE "no_data_type"

aaruf_get_media_tag_type_for_datatype(k) ==
    IF k \in TypedTags THEN k ELSE "untyped_tag"

(* The kind of block a writer writes. *)
KindOf(w) == IF w \in Tags THEN aaruf_get_datatype_for_media_tag_type(w) ELSE w

Writers == {Order[i] : i \in DOMAIN Order}
Kinds == {KindOf(w) : w \in Writers}
TagKinds == {KindOf(t) : t \in Tags}
BlockKinds == Kinds \cup {"ddt", "ddt_prefix", "flux_payload", "index", "torn"}

DvdKinds == {"dvd_id", "dvd_ied", "dvd_cpr_mai", "dvd_edc"}

(* The slot that a writer other than those of metadata and flux writes:    *)
(* the EDC of DVD and of Blu-ray sectors share sector_edc.                 *)
SlotOf(k) ==
    CASE k = "dvd_id"      -> "sector_id"
      [] k = "dvd_ied"     -> "sector_ied"
      [] k = "dvd_cpr_mai" -> "sector_cpr_mai"
      [] k = "dvd_edc"     -> "sector_edc"
      [] k = "bd_edc"      -> "sector_edc"
      [] OTHER             -> k

(* The dirty_* flag that lets a writer run. *)
FlagOf(k) ==
    CASE k \in DvdKinds -> "dvd_long"
      [] k \in Tags     -> "media_tags"
      [] OTHER          -> k

Flags == {FlagOf(w) : w \in Writers}

VARIABLES
    active,         \* The slots this behaviour edits
    media,          \* image_info.MetadataMediaType
    mem,            \* The values of the context
    identifier,     \* metadata_block_header.identifier = MetadataBlock
    dirty,          \* The dirty_* flags that are set
    flux,           \* flux_captures, flux_entries, flux_map: see FluxCaptures
    index,          \* index_entries
    dirtyIndex,     \* dirty_index_block
    phase,          \* "writing", "finalising", "closed", or "ended" otherwise
    stage,          \* How many writers of Order have run
    file,           \* The blocks written, in the order of the file
    root,           \* header.indexOffset on disk: a place in file, or 0
    fresh,          \* The session is that of aaruf_create
    edited,         \* The slots edited in this session
    faulted,        \* Something failed in this session
    edits, sessions, faults

context == <<mem, identifier, dirty, flux>>
stored == <<index, dirtyIndex, file, root>>
counters == <<edits, sessions, faults>>
vars == <<active, media, context, stored, phase, stage, fresh, edited, faulted,
                  counters>>

NoMem == [s \in Slots |-> None]

(* The table of sectors is always there and written before: see ImageWriter. *)
Ddt == [kind |-> "ddt", value |-> None, count |-> 1]

NoFlux == [captures |-> <<>>, entries |-> <<>>, map |-> [k \in Keys |-> 0],
           latest |-> [k \in Keys |-> None]]

(* Bound: a behaviour edits one of these groups of slots and a partner. *)
Groups ==
    {{s} : s \in Slots \ (DvdSlots \cup {"untyped_tag"})} \cup {DvdSlots, {"flux"}}

(* aaruf_create marks everything dirty. *)
Init ==
    /\ \E a \in Groups, b \in Partners : active = a \cup b
    /\ media \in {"OpticalDisc", "BlockMedia"}
    /\ mem = NoMem
    /\ identifier = FALSE
    /\ dirty = Flags
    /\ flux = NoFlux
    /\ index = <<[kind |-> "ddt", at |-> 1]>>
    /\ dirtyIndex = TRUE
    /\ phase = "writing"
    /\ stage = 0
    /\ file = <<Ddt>>
    /\ root = 0
    /\ fresh = TRUE
    /\ edited = {}
    /\ faulted = FALSE
    /\ edits = 0
    /\ sessions = 1
    /\ faults = 0

(***************************************************************************)
(* Setters.                                                                *)
(***************************************************************************)
(* is_writing, and a slot this behaviour edits. *)
MayEdit(s) ==
    /\ phase = "writing"
    /\ s \subseteq active
    /\ edits < MaxEdits
    /\ edits' = edits + 1
    /\ edited' = edited \cup s
    /\ UNCHANGED <<active, media, flux, stored, phase, stage, fresh, sessions>>

NoFault == UNCHANGED <<faulted, faults>>

Fault ==
    /\ faults < MaxFaults
    /\ faults' = faults + 1
    /\ faulted' = TRUE

(* A value replaces that of its slots, and flags become dirty. *)
Set(s, v, marks) ==
    /\ MayEdit(s)
    /\ NoFault
    /\ mem' = [x \in Slots |-> IF x \in s THEN v ELSE mem[x]]
    /\ dirty' = dirty \cup marks
    /\ UNCHANGED identifier

set_geometry(v) == Set({"geometry"}, v, {"geometry"})

set_aaru_json_metadata(v) == Set({"json"}, v, {"json"})

(* No entries is a valid argument: it leaves nothing to write. *)
set_dumphw(v) == Set({"dumphw"}, v, {"dumphw"})

(* Only a list of tracks that is not empty marks the block. *)
set_tracks(v) == Set({"tracks"}, v, IF v = None THEN {} ELSE {"tracks"})

write_media_tag(t, v) == Set({t}, v, {"media_tags"})

set_dpm(v) == Set({"dpm"}, v, {"dpm"})
clear_dpm == Set({"dpm"}, None, {"dpm"})

set_tape_file(v) == Set({"tape_file"}, v, {"tape_file"})
set_tape_partition(v) == Set({"tape_partition"}, v, {"tape_partition"})

(* aaruf_write_sector_tag.  A DVD sector information marks nothing, and    *)
(* the EDC of a Blu-ray sector is only taken for block media.              *)
write_tag(type, s, v, marks) == media = type /\ Set({s}, v, marks)

write_tag_track(v) ==
    mem["tracks"] # None /\ write_tag("OpticalDisc", "tracks", v, {"tracks"})
write_tag_subchannel(v) == write_tag("OpticalDisc", "subchannel", v, {"subchannel"})
write_tag_dvd_cmi(v) == write_tag("OpticalDisc", "sector_cpr_mai", v, {"dvd_long"})
write_tag_dvd_information(v) == write_tag("OpticalDisc", "sector_id", v, {})
write_tag_dvd_number(v) == write_tag("OpticalDisc", "sector_id", v, {"dvd_long"})
write_tag_dvd_ied(v) == write_tag("OpticalDisc", "sector_ied", v, {"dvd_long"})
write_tag_dvd_edc(v) == write_tag("OpticalDisc", "sector_edc", v, {"dvd_long"})
write_tag_title_key(v) == write_tag("OpticalDisc", "title_key", v, {"title_key"})
write_tag_apple(v) == write_tag("BlockMedia", "subchannel", v, {"subchannel"})
write_tag_bd_edc(v) == write_tag("BlockMedia", "sector_edc", v, {"bd_edc"})

(* The long sectors of DVD and Blu-ray fill the same arrays and mark none. *)
write_long_dvd(v) == media = "OpticalDisc" /\ Set(DvdSlots, v, {})
write_long_bd(v) == media = "OpticalDisc" /\ Set({"sector_edc"}, v, {})

(***************************************************************************)
(* The metadata block.  Of its setters only that of the title marks it,    *)
(* and none of the functions that clear a field does.                      *)
(***************************************************************************)
SetMetadata(f, v, marks) ==
    /\ MayEdit({f})
    /\ NoFault
    /\ identifier' = TRUE
    /\ mem' = [mem EXCEPT ![f] = v]
    /\ dirty' = dirty \cup marks

set_media_sequence(v) == SetMetadata("media_sequence", v, {})
set_creator(v) == SetMetadata("creator", v, {})
set_comments(v) == SetMetadata("comments", v, {})
set_media_title(v) == SetMetadata("media_title", v, {"metadata"})
set_media_manufacturer(v) == SetMetadata("media_manufacturer", v, {})
set_media_model(v) == SetMetadata("media_model", v, {})
set_media_serial_number(v) == SetMetadata("media_serial_number", v, {})
set_media_barcode(v) == SetMetadata("media_barcode", v, {})
set_media_part_number(v) == SetMetadata("media_part_number", v, {})
set_drive_manufacturer(v) == SetMetadata("drive_manufacturer", v, {})
set_drive_model(v) == SetMetadata("drive_model", v, {})
set_drive_serial_number(v) == SetMetadata("drive_serial_number", v, {})
set_drive_firmware_revision(v) == SetMetadata("drive_firmware_revision", v, {})

(* malloc fails after the block was initialised. *)
SetMetadataNoMemory(f) ==
    /\ f \in Strings
    /\ MayEdit({})
    /\ f \in active
    /\ Fault
    /\ identifier' = TRUE
    /\ UNCHANGED <<mem, dirty>>

(* The block is deinitialised when its last field goes. *)
ClearMetadata(f) ==
    /\ MayEdit({f})
    /\ NoFault
    /\ identifier
    /\ mem' = [mem EXCEPT ![f] = None]
    /\ identifier' = \E g \in Fields : mem'[g] # None
    /\ UNCHANGED dirty

clear_media_sequence == ClearMetadata("media_sequence")
clear_creator == ClearMetadata("creator")
clear_comments == ClearMetadata("comments")
clear_media_title == ClearMetadata("media_title")
clear_media_manufacturer == ClearMetadata("media_manufacturer")
clear_media_model == ClearMetadata("media_model")
clear_media_serial_number == ClearMetadata("media_serial_number")
clear_media_barcode == ClearMetadata("media_barcode")
clear_media_part_number == ClearMetadata("media_part_number")
clear_drive_manufacturer == ClearMetadata("drive_manufacturer")
clear_drive_model == ClearMetadata("drive_model")
clear_drive_serial_number == ClearMetadata("drive_serial_number")
clear_drive_firmware_revision == ClearMetadata("drive_firmware_revision")

(***************************************************************************)
(* The writers of aaruf_finalize_write: when each has something to write,  *)
(* and the block it makes.  `count' is the entries field of the header.    *)
(***************************************************************************)
Block(k, ready, v) ==
    [ready |-> ready, block |-> [kind |-> KindOf(k), value |-> v, count |-> 1]]

Plain(k) == Block(k, mem[SlotOf(k)] # None, mem[SlotOf(k)])

write_tracks_block == Plain("tracks")
write_sector_subchannel == Plain("subchannel")
write_bd_sector_edc_block == Plain("bd_edc")
write_dvd_title_key_decrypted_block == Plain("title_key")
write_media_tags(t) == Plain(t)
write_geometry_block == Plain("geometry")
write_dumphw_block == Plain("dumphw")
write_cicm_block == Plain("cicm")
write_aaru_json_block == Plain("json")

(* All four arrays of a DVD, or none of the blocks. *)
DvdBlock(k) ==
    Block(k, \A s \in DvdSlots : mem[s] # None, mem[SlotOf(k)])

write_dvd_sector_id == DvdBlock("dvd_id")
write_dvd_sector_ied == DvdBlock("dvd_ied")
write_dvd_sector_cpr_mai == DvdBlock("dvd_cpr_mai")
write_dvd_sector_edc == DvdBlock("dvd_edc")

(* The header of a tape table has its length but not its entries. *)
TapeBlock(k) ==
    [Plain(k) EXCEPT !.block.count = 0]

write_tape_file_block == TapeBlock("tape_file")
write_tape_partition_block == TapeBlock("tape_partition")

write_metadata_block ==
    Block("metadata", identifier \/ \E f \in Fields : mem[f] # None,
          [f \in Fields |-> mem[f]])

(* With nothing to write the previous entry goes. *)
write_dpm_block == Block("dpm", TRUE, mem["dpm"])

Writer(k) ==
    CASE k = "tracks"         -> write_tracks_block
      [] k = "flux"           -> Block(k, flux.captures # <<>>, None)
      [] k = "subchannel"     -> write_sector_subchannel
      [] k = "dvd_id"         -> write_dvd_sector_id
      [] k = "dvd_ied"        -> write_dvd_sector_ied
      [] k = "dvd_cpr_mai"    -> write_dvd_sector_cpr_mai
      [] k = "dvd_edc"        -> write_dvd_sector_edc
      [] k = "bd_edc"         -> write_bd_sector_edc_block
      [] k = "title_key"      -> write_dvd_title_key_decrypted_block
      [] k \in Tags           -> write_media_tags(k)
      [] k = "tape_file"      -> write_tape_file_block
      [] k = "tape_partition" -> write_tape_partition_block
      [] k = "geometry"       -> write_geometry_block
      [] k = "metadata"       -> write_metadata_block
      [] k = "dumphw"         -> write_dumphw_block
      [] k = "cicm"           -> write_cicm_block
      [] k = "json"           -> write_aaru_json_block
      [] k = "dpm"            -> write_dpm_block

Ready(k) == FlagOf(k) \in dirty /\ Writer(k).ready

(***************************************************************************)
(* aaruf_finalize_write.                                                   *)
(***************************************************************************)
BeginClose ==
    /\ phase = "writing"
    /\ phase' = "finalising"
    /\ stage' = 0
    /\ UNCHANGED <<active, media, context, stored, fresh, edited, faulted, counters>>

(* The place in Order of the first writer that has something to write. *)
NextWriter ==
    LET due == {i \in (stage + 1)..Len(Order) : Ready(Order[i])} IN
    IF phase = "finalising" /\ due # {} THEN {Min(due)} ELSE {}

InFinalise == UNCHANGED <<active, media, context, phase, root, fresh, edited,
                          edits, sessions>>

(* Mutant: the previous entry stays. *)
WithoutKindKept(k) == index

(* The entries of index ix that are of one of the kinds, in their order. *)
OfKinds(ix, kinds) ==
    LET kept[n \in 0..Len(ix)] ==
            IF n = 0 THEN <<>>
            ELSE IF ix[n].kind \in kinds THEN Append(kept[n - 1], ix[n])
            ELSE kept[n - 1]
    IN  kept[Len(ix)]

WithoutKind(k) == OfKinds(index, BlockKinds \ {k})

(* Mutant: the offset is taken after the block is written. *)
WriteBlockPastEnd(i) ==
    LET k == Order[i] IN
    /\ stage' = i
    /\ k # "flux"
    /\ k = "dpm" => mem["dpm"] # None
    /\ file' = Append(file, Writer(k).block)
    /\ index' = Append(WithoutKind(KindOf(k)), [kind |-> KindOf(k), at |-> Len(file) + 2])
    /\ dirtyIndex' = TRUE
    /\ NoFault
    /\ InFinalise

(* The entries of a kind are removed, and one for the new block pushed,    *)
(* once the block is written.                                              *)
WriteBlock(i) ==
    LET k == Order[i] IN
    /\ stage' = i
    /\ k # "flux"
    /\ k = "dpm" => mem["dpm"] # None
    /\ file' = Append(file, Writer(k).block)
    /\ index' = Append(WithoutKind(KindOf(k)), [kind |-> KindOf(k), at |-> Len(file) + 1])
    /\ dirtyIndex' = TRUE
    /\ NoFault
    /\ InFinalise

remove_dpm_index_entries(i) ==
    /\ stage' = i
    /\ Order[i] = "dpm"
    /\ mem["dpm"] = None
    /\ index' = WithoutKind("dpm")
    /\ dirtyIndex' = (dirtyIndex \/ index' # index)
    /\ NoFault
    /\ InFinalise
    /\ UNCHANGED file

(* Mutants: the entry is pushed before the write, or removed before it. *)
WriteBlockFailsEntry(i) ==
    /\ stage' = i
    /\ Order[i] # "flux"
    /\ Order[i] = "dpm" => mem["dpm"] # None
    /\ Fault
    /\ file' = Append(file, [kind |-> "torn", value |-> None, count |-> 0])
    /\ index' = Append(WithoutKind(KindOf(Order[i])),
                       [kind |-> KindOf(Order[i]), at |-> Len(file) + 1])
    /\ dirtyIndex' = TRUE
    /\ InFinalise

WriteBlockFailsRemoved(i) ==
    /\ stage' = i
    /\ Order[i] # "flux"
    /\ Order[i] = "dpm" => mem["dpm"] # None
    /\ Fault
    /\ file' = Append(file, [kind |-> "torn", value |-> None, count |-> 0])
    /\ index' = WithoutKind(KindOf(Order[i]))
    /\ dirtyIndex' = TRUE
    /\ InFinalise

(* An fwrite fails: part of the block is in the file, the index is as it   *)
(* was, and nobody is told.                                                *)
Torn == [kind |-> "torn", value |-> None, count |-> 0]

WriteBlockFails(i) ==
    /\ stage' = i
    /\ Order[i] # "flux"
    /\ Order[i] = "dpm" => mem["dpm"] # None
    /\ Fault
    /\ file' = Append(file, Torn)
    /\ UNCHANGED <<index, dirtyIndex>>
    /\ InFinalise

(* The buffer for compression cannot be allocated: the DVD and media tag   *)
(* writers give up all their remaining blocks.                             *)
WriterNoMemory(i) ==
    LET k == Order[i] IN
    /\ k \notin {"tracks", "flux", "geometry", "cicm", "json", "dpm"}
    /\ Fault
    /\ stage' = CHOOSE j \in DOMAIN Order :
                    /\ j >= i
                    /\ FlagOf(Order[j]) = FlagOf(k)
                    /\ j = Len(Order) \/ FlagOf(Order[j + 1]) # FlagOf(k)
    /\ UNCHANGED <<file, index, dirtyIndex>>
    /\ InFinalise

WritersDone == phase = "finalising" /\ NextWriter = {}

(* The index is only written when something changed it. *)
write_index_block ==
    /\ WritersDone
    /\ IF dirtyIndex
       THEN /\ file' = Append(file, [kind |-> "index", value |-> index, count |-> Len(index)])
            /\ root' = Len(file')
       ELSE UNCHANGED <<file, root>>
    /\ phase' = "closed"
    /\ UNCHANGED <<active, media, context, index, dirtyIndex, stage, fresh, edited,
                   faulted, counters>>

(* aaruf_close returns the error and keeps the context. *)
write_index_block_fails ==
    /\ WritersDone
    /\ dirtyIndex
    /\ Fault
    /\ file' = Append(file, Torn)
    /\ phase' = "writing"
    /\ UNCHANGED <<active, media, context, index, dirtyIndex, stage, root, fresh,
                   edited, edits, sessions>>

Crash ==
    /\ phase \in {"writing", "finalising"}
    /\ phase' = "ended"
    /\ UNCHANGED <<active, media, context, stored, stage, fresh, edited, faulted,
                   counters>>

(***************************************************************************)
(* aaruf_open: the loaders, in the order of the index.  A loader gives the *)
(* context [mem, identifier, dirty] that follows from one block.           *)
(***************************************************************************)
NoContext == [mem |-> NoMem, identifier |-> FALSE, dirty |-> {}]

Take(c, b) == [c EXCEPT !.mem = [c.mem EXCEPT ![SlotOf(b.kind)] = b.value]]

process_tracks_block(c, b) == Take(c, b)
process_geometry_block(c, b) == Take(c, b)
process_dumphw_block(c, b) == Take(c, b)
process_cicm_block(c, b) == Take(c, b)
process_aaru_metadata_json_block(c, b) == Take(c, b)
process_dpm_block(c, b) == Take(c, b)

(* Sector tags and media tags. *)
process_data_block(c, b) ==
    IF b.kind \in TagKinds
    THEN [c EXCEPT !.mem = [c.mem EXCEPT
                             ![aaruf_get_media_tag_type_for_datatype(b.kind)] = b.value]]
    ELSE Take(c, b)

(* Mutant: the identifier of the header is not restored. *)
process_metadata_block_unidentified(c, b) ==
    [c EXCEPT !.mem = [s \in Slots |->
                        IF s \in Fields /\ b.value[s] # None THEN b.value[s] ELSE c.mem[s]]]

(* The strings that lie within the block are copied; the others stay. *)
CopyStrings(c, b) ==
    [c EXCEPT !.mem = [s \in Slots |->
                        IF s \in Strings /\ b.value[s] # None THEN b.value[s] ELSE c.mem[s]]]

CopySequence(c, b) ==
    IF b.value["media_sequence"] = None THEN c
    ELSE [c EXCEPT !.mem = [c.mem EXCEPT !["media_sequence"] = b.value["media_sequence"]]]

process_metadata_block(c, b) ==
    [CopyStrings(CopySequence(c, b), b) EXCEPT !.identifier = TRUE]

(* As many entries as the header counts are read, and they are taken when  *)
(* their CRC64 is the stored one: not when the count was left at 0.        *)
TapeTable(c, b, flag) ==
    LET entries == IF b.count = 0 THEN None ELSE b.value IN
    IF entries # b.value THEN c
    ELSE [Take(c, b) EXCEPT !.dirty = c.dirty \cup {flag}]

process_tape_files_block(c, b) == TapeTable(c, b, "tape_file")
process_tape_partitions_block(c, b) == TapeTable(c, b, "tape_partition")

Process(f, c, e) ==
    LET b == f[e.at] IN
    IF b.kind # e.kind THEN c
    ELSE CASE b.kind = "tracks"               -> process_tracks_block(c, b)
           [] b.kind = "geometry"             -> process_geometry_block(c, b)
           [] b.kind = "dumphw"               -> process_dumphw_block(c, b)
           [] b.kind = "cicm"                 -> process_cicm_block(c, b)
           [] b.kind = "json"                 -> process_aaru_metadata_json_block(c, b)
           [] b.kind = "dpm"                  -> process_dpm_block(c, b)
           [] b.kind = "metadata"             -> process_metadata_block(c, b)
           [] b.kind = "tape_file"            -> process_tape_files_block(c, b)
           [] b.kind = "tape_partition"       -> process_tape_partitions_block(c, b)
           [] b.kind \in {"ddt", "ddt_prefix", "flux", "flux_payload"} -> c
           [] OTHER                           -> process_data_block(c, b)

DiskIndex == IF root = 0 THEN <<>> ELSE file[root].value

Loading(f, ix) ==
    LET loaded[n \in 0..Len(ix)] ==
            IF n = 0 THEN NoContext ELSE Process(f, loaded[n - 1], ix[n])
    IN  loaded[Len(ix)]

Loaded == Loading(file, DiskIndex)

(* The header of a table is not that of an older library: see ImageTools.  *)
TablesAreOurs ==
    \A i \in DOMAIN DiskIndex : DiskIndex[i].kind = "ddt" => file[DiskIndex[i].at] = Ddt

Resume ==
    /\ phase \in {"closed", "ended"}
    /\ root # 0
    /\ TablesAreOurs
    /\ sessions < MaxSessions
    /\ mem' = Loaded.mem
    /\ identifier' = Loaded.identifier
    /\ dirty' = Loaded.dirty
    /\ flux' = NoFlux
    /\ index' = DiskIndex
    /\ dirtyIndex' = FALSE
    /\ phase' = "writing"
    /\ stage' = 0
    /\ fresh' = FALSE
    /\ edited' = {}
    /\ faulted' = FALSE
    /\ sessions' = sessions + 1
    /\ UNCHANGED <<active, media, file, root, edits, faults>>

(***************************************************************************)
(* Getters.                                                                *)
(***************************************************************************)
GetMetadata(c, f) == IF c.identifier THEN c.mem[f] ELSE None

get_media_sequence(c) == GetMetadata(c, "media_sequence")
get_creator(c) == GetMetadata(c, "creator")
get_comments(c) == GetMetadata(c, "comments")
get_media_title(c) == GetMetadata(c, "media_title")
get_media_manufacturer(c) == GetMetadata(c, "media_manufacturer")
get_media_model(c) == GetMetadata(c, "media_model")
get_media_serial_number(c) == GetMetadata(c, "media_serial_number")
get_media_barcode(c) == GetMetadata(c, "media_barcode")
get_media_part_number(c) == GetMetadata(c, "media_part_number")
get_drive_manufacturer(c) == GetMetadata(c, "drive_manufacturer")
get_drive_model(c) == GetMetadata(c, "drive_model")
get_drive_serial_number(c) == GetMetadata(c, "drive_serial_number")
get_drive_firmware_revision(c) == GetMetadata(c, "drive_firmware_revision")

get_geometry(c) == c.mem["geometry"]
get_cicm_metadata(c) == c.mem["cicm"]
get_aaru_json_metadata(c) == c.mem["json"]
get_dumphw(c) == c.mem["dumphw"]
get_dpm(c) == c.mem["dpm"]
get_tracks(c) == c.mem["tracks"]
read_media_tag(c, t) == c.mem[t]
get_tape_file(c) == c.mem["tape_file"]
get_tape_partition(c) == c.mem["tape_partition"]

(* aaruf_read_sector_tag: the flags and ISRC of a track come from the list *)
(* of tracks.                                                              *)
read_tag_track(c) == get_tracks(c)
read_tag_subchannel(c) == c.mem["subchannel"]
read_tag_dvd(c, s) == c.mem[s]
read_tag_title_key(c) == c.mem["title_key"]
read_tag_apple(c) == c.mem["subchannel"]

Get(c, s) ==
    CASE s = "media_sequence"          -> get_media_sequence(c)
      [] s = "creator"                 -> get_creator(c)
      [] s = "comments"                -> get_comments(c)
      [] s = "media_title"             -> get_media_title(c)
      [] s = "media_manufacturer"      -> get_media_manufacturer(c)
      [] s = "media_model"             -> get_media_model(c)
      [] s = "media_serial_number"     -> get_media_serial_number(c)
      [] s = "media_barcode"           -> get_media_barcode(c)
      [] s = "media_part_number"       -> get_media_part_number(c)
      [] s = "drive_manufacturer"      -> get_drive_manufacturer(c)
      [] s = "drive_model"             -> get_drive_model(c)
      [] s = "drive_serial_number"     -> get_drive_serial_number(c)
      [] s = "drive_firmware_revision" -> get_drive_firmware_revision(c)
      [] s = "geometry"                -> get_geometry(c)
      [] s = "cicm"                    -> get_cicm_metadata(c)
      [] s = "json"                    -> get_aaru_json_metadata(c)
      [] s = "dumphw"                  -> get_dumphw(c)
      [] s = "dpm"                     -> get_dpm(c)
      [] s = "tracks"                  -> read_tag_track(c)
      [] s \in Tags                    -> read_media_tag(c, s)
      [] s = "tape_file"               -> get_tape_file(c)
      [] s = "tape_partition"          -> get_tape_partition(c)
      [] s = "subchannel"              -> IF media = "BlockMedia" THEN read_tag_apple(c)
                                          ELSE read_tag_subchannel(c)
      [] s \in DvdSlots                -> read_tag_dvd(c, s)
      [] s = "title_key"               -> read_tag_title_key(c)

Context == [mem |-> mem, identifier |-> identifier, dirty |-> dirty]

(***************************************************************************)
(* Next.                                                                   *)
(***************************************************************************)
SetStep(v) ==
    \/ set_geometry(v) \/ set_aaru_json_metadata(v) \/ set_dumphw(v) \/ set_tracks(v)
    \/ \E t \in Tags \ {"untyped_tag"} : write_media_tag(t, v)
    \/ set_dpm(v) \/ set_tape_file(v) \/ set_tape_partition(v)
    \/ write_long_dvd(v) \/ write_long_bd(v)

TagStep(v) ==
    \/ write_tag_track(v) \/ write_tag_subchannel(v) \/ write_tag_dvd_cmi(v)
    \/ write_tag_dvd_information(v) \/ write_tag_dvd_number(v)
    \/ write_tag_dvd_ied(v) \/ write_tag_dvd_edc(v) \/ write_tag_title_key(v)
    \/ write_tag_apple(v) \/ write_tag_bd_edc(v)

SetMetadataStep(v) ==
    \/ set_media_sequence(v) \/ set_creator(v) \/ set_comments(v)
    \/ set_media_title(v) \/ set_media_manufacturer(v) \/ set_media_model(v)
    \/ set_media_serial_number(v) \/ set_media_barcode(v)
    \/ set_media_part_number(v) \/ set_drive_manufacturer(v)
    \/ set_drive_model(v) \/ set_drive_serial_number(v)
    \/ set_drive_firmware_revision(v)

ClearStep ==
    \/ clear_dpm \/ set_dumphw(None) \/ set_tracks(None)
    \/ clear_media_sequence \/ clear_creator \/ clear_comments
    \/ clear_media_title \/ clear_media_manufacturer \/ clear_media_model
    \/ clear_media_serial_number \/ clear_media_barcode
    \/ clear_media_part_number \/ clear_drive_manufacturer
    \/ clear_drive_model \/ clear_drive_serial_number
    \/ clear_drive_firmware_revision

EditStep ==
    \/ \E v \in Values : SetStep(v) \/ TagStep(v) \/ SetMetadataStep(v)
    \/ ClearStep
    \/ \E f \in Strings : SetMetadataNoMemory(f)

WriterStep ==
    \E i \in NextWriter :
        \/ WriteBlock(i)
        \/ remove_dpm_index_entries(i)
        \/ WriteBlockFails(i)
        \/ WriterNoMemory(i)

OptionalNext ==
    \/ EditStep
    \/ BeginClose
    \/ WriterStep
    \/ write_index_block
    \/ write_index_block_fails
    \/ Crash
    \/ Resume

(***************************************************************************)
(* Properties.                                                             *)
(***************************************************************************)
(* Type invariant. *)
TypeOK ==
    /\ mem \in [Slots -> Values \cup {None}]
    /\ identifier \in BOOLEAN
    /\ dirty \subseteq Flags
    /\ \A i \in DOMAIN index : index[i].kind \in BlockKinds /\ index[i].at \in DOMAIN file
    /\ \A i \in DOMAIN file : file[i].kind \in BlockKinds
    /\ phase \in {"writing", "finalising", "closed", "ended"}
    /\ stage \in 0..Len(Order)
    /\ root \in 0..Len(file)

(* Whatever failed before, every entry of the index in memory and of the   *)
(* index on disk leads to a whole block of its own kind: the entry of a    *)
(* block is pushed only after the block is written.                        *)
IndexResolves ==
    \A ix \in {index, DiskIndex} :
        \A i \in DOMAIN ix : file[ix[i].at].kind = ix[i].kind

(* Each writer removes the entries of its kind before it pushes its own:   *)
(* after resumes, retries and failures an image has one geometry, one      *)
(* metadata block, one block of each tag.                                  *)
OneEntryPerKind ==
    \A k \in Kinds \ {"flux"} :
        Cardinality({i \in DOMAIN index : index[i].kind = k}) <= 1

(* Closed without an error, by a session in which nothing failed. *)
ClosedWell == phase = "closed" /\ ~faulted

(* A slot whose block the writers of this close write, or the DPM, whose   *)
(* writer also removes it.                                                 *)
Written(s) ==
    \/ \E k \in Writers \ {"tape_file", "tape_partition", "minidisc_tag"} :
        /\ Ready(k)
        /\ IF k = "metadata" THEN s \in Fields ELSE s = SlotOf(k)
    \/ s = "dpm"

(* What aaruf_open finds after aaruf_close is what the context held: for   *)
(* every slot this session did not edit, although the index may have been  *)
(* replaced, and for every edited one whose block was marked and has       *)
(* content.  The exceptions are those of the code: edits that mark nothing *)
(* on a resumed image, a block whose whole content was cleared, tape       *)
(* tables, DVD tags without all four arrays, and the tags of a MiniDisc,   *)
(* which come back as tags of no type.                                     *)
ClosedIsReopened ==
    ClosedWell =>
        LET reopened == Loaded IN
        \A s \in Slots \ {"untyped_tag"} :
            (s \notin edited \/ Written(s)) => Get(reopened, s) = Get(Context, s)

(* What an aaruf_open of the image would give, now. *)
Found == {k \in Kinds : \E i \in DOMAIN DiskIndex : DiskIndex[i].kind = k}

(* A block that the image has is still there after any later close, with   *)
(* writes that fail, with no memory, after a crash in between and after a  *)
(* retry: a writer that fails leaves the previous entry.  Only the DPM is  *)
(* ever removed, and only in a session that edited it (aaruf_clear_dpm).   *)
NothingForgotten ==
    [][\A k \in Found : k \in Found' \/ (k = "dpm" /\ "dpm" \in edited)]_vars

(* The documentation of TapeFileHeader says that its count reflects the    *)
(* entries that follow, so that what was set is found again.               *)
TapeTablesReadBack ==
    ClosedWell => \A s \in {"tape_file", "tape_partition"} : Get(Loaded, s) = Get(Context, s)
=============================================================================
