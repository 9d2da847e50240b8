----------------------------- MODULE ImageOpen -----------------------------
(***************************************************************************)
(* Opening an image of any version, perhaps damaged, and looking a sector  *)
(* up in its table: aaruf_open (src/open.c), process_index_v1 to _v3       *)
(* (src/index), process_ddt_v1 and process_ddt_v2 with the decoding of     *)
(* their entries (src/ddt), process_data_block (src/blocks/data.c), and    *)
(* what aaruf_verify_image says of the same image.                         *)
(*                                                                         *)
(* The image does not change; its erasure coding is that of ErasureCoding. *)
(***************************************************************************)
EXTENDS Naturals, Sequences, FiniteSets

CONSTANTS
    Tables,     \* Entries of a primary table
    Items,      \* 1 << tableShift: entries of a secondary table
    Undumped,   \* Sectors with an entry of 0
    MaxTroubles \* Bound: harmed structures and needs of an image

ASSUME OpenAssumption ==
    /\ Tables \in Nat \ {0}
    /\ Items \in Nat \ {0}
    /\ Undumped \subseteq 0..(Tables * Items - 1)
    /\ MaxTroubles \in Nat

VARIABLES
    image,      \* The image and what happened to it
    phase,      \* "closed", "header", "entries", "open" or "refused"
    resuming,   \* resume_mode
    pending,    \* The index entries that are still to be processed
    ctx,        \* What the context keeps of them
    status,     \* errno of a refused image
    got         \* What the last lookup gave

vars == <<image, phase, resuming, pending, ctx, status, got>>

(***************************************************************************)
(* Images.                                                                 *)
(***************************************************************************)
Position == 0..(Tables - 1)
Slot == 0..(Tables * Items - 1)
PositionOf(i) == i \div Items

(* Payloads that end early, or changed without a trace; headers whose      *)
(* identifier or compression nobody knows.                                 *)
Harms == {"cut", "altered", "lost"}

Part(name) == <<name, 0>>
SecondaryPart(p) == <<"secondary", p>>
Parts ==
    {Part(name) : name \in {"header", "footer", "index", "tag", "ddt", "cd", "tracks"}}
        \cup {SecondaryPart(p) : p \in Position}

HarmOf(part) ==
    IF part \in DOMAIN image.harm THEN image.harm[part] ELSE "none"

(* AARUF_VERSION, and what images of later releases may need. *)
Needs == {"nothing", "readOnlyFeature", "incompatibleFeature", "newerVersion"}

(* Version 1 has tables of one level, and neither flux, footer nor         *)
(* features.  A resumed image still has the table of its first session if  *)
(* the table has one level: a primary table is rewritten in its place.     *)
(* A harmed structure, or a need, is one trouble.                          *)
OldImages ==
    [version : {1}, index : {1}, levels : {1}, packed : {"none", "lzma", "zstd"}, needs : {"nothing"},
     flux : {FALSE}, resumed : {FALSE}, made : {Position}, footer : {FALSE},
     memory : BOOLEAN, harm : {<<>>}]
NewImages ==
    {im \in [version : {2}, index : 2..3, levels : 1..2, packed : {"none", "lzma", "zstd"}, needs : Needs,
             flux : BOOLEAN, resumed : BOOLEAN, made : SUBSET Position,
             footer : BOOLEAN, memory : BOOLEAN, harm : {<<>>}] :
        IF im.levels = 1 THEN im.made = Position ELSE ~im.resumed}

Troubles(im, parts) == Cardinality(parts) + (IF im.needs = "nothing" THEN 0 ELSE 1)

Damaged(im) ==
    UNION {{[im EXCEPT !.harm = h] : h \in [parts -> Harms]} :
              parts \in {ps \in SUBSET Parts : Troubles(im, ps) <= MaxTroubles}}

NoContext ==
    [found |-> FALSE, flux |-> FALSE, table |-> "none", cd |-> FALSE,
     readable |-> FALSE, tag |-> FALSE, tracks |-> FALSE, loaded |-> 0,
     at |-> 0, noUserDdt |-> FALSE, isWriting |-> FALSE, rewinded |-> FALSE]

NoLookup == [result |-> "none"]

Init ==
    /\ \E im \in OldImages \cup NewImages :
          image \in Damaged(im)
    /\ phase = "closed"
    /\ resuming = FALSE
    /\ pending = <<>>
    /\ ctx = NoContext
    /\ status = "OK"
    /\ got = NoLookup

(***************************************************************************)
(* The header and the index.                                               *)
(***************************************************************************)
Refuse(error) ==
    /\ phase' = "refused"
    /\ status' = error
    /\ ctx' = NoContext
    /\ pending' = <<>>
    /\ UNCHANGED <<image, resuming, got>>

HeaderHarm == HarmOf(Part("header"))

(* The recovery footer, with the CRC64 of the header it holds. *)
BackupUsable == image.footer /\ HarmOf(Part("footer")) = "none"

Identified == HeaderHarm \in {"none", "altered"} \/ BackupUsable

(* The backup tells the version only: a header of version 2 is then read   *)
(* from its place again, and what is not an identifier there is taken for  *)
(* the header.                                                             *)
HeaderError ==
    CASE HeaderHarm = "cut" -> "FILE_TOO_SMALL"
      [] HeaderHarm # "cut" /\ ~Identified -> "NOT_AARUFORMAT"
      [] OTHER ->
         CASE image.version = 1 /\ resuming -> "INCOMPATIBLE_VERSION"
           [] image.needs = "newerVersion" -> "INCOMPATIBLE_VERSION"
           [] image.needs = "incompatibleFeature" -> "INCOMPATIBLE_FEATURES"
           [] image.needs = "readOnlyFeature" /\ resuming -> "INCOMPATIBLE_FEATURES"
           [] OTHER -> "OK"

(* fopen, and what aaruf_open does before it looks for the index. *)
OpenFile(resume) ==
    /\ phase \in {"closed", "refused"}
    /\ resuming' = resume
    /\ phase' = "header"
    /\ status' = "OK"
    /\ UNCHANGED <<image, pending, ctx, got>>

RefuseHeader ==
    /\ phase = "header"
    /\ HeaderError # "OK"
    /\ Refuse(HeaderError)

OutOfMemory ==
    /\ phase = "header"
    /\ image.memory
    /\ HeaderError = "OK"
    /\ Refuse("NOT_ENOUGH_MEMORY")

(* Where an index entry leads: to its block, to the table of the first     *)
(* session, or to nothing that can be read.                                *)
Entries ==
    [t \in {"tag", "ddt", "cd", "tracks", "flux"} |-> [type |-> t, leads |-> "home"]]

WholeIndex ==
    SubSeq(<<Entries["tag"], Entries["ddt"], Entries["cd"], Entries["tracks"], Entries["flux"]>>,
           1, IF image.flux THEN 5 ELSE 4)

(* One entry leads elsewhere. *)
AlteredIndexes ==
    {[WholeIndex EXCEPT ![k].leads = "nowhere"] : k \in DOMAIN WholeIndex}
        \cup {[WholeIndex EXCEPT ![k].leads = "first"] :
                  k \in {k \in DOMAIN WholeIndex : WholeIndex[k].type = "ddt" /\ image.resumed}}

IndexHarm == HarmOf(Part("index"))

(* The entries, of which nobody looks at the CRC64; none is NULL. *)
EntriesRead ==
    CASE IndexHarm = "none"            -> {WholeIndex}
      [] IndexHarm \in {"cut", "lost"} -> {}
      [] IndexHarm = "altered"         -> AlteredIndexes

(* Subindexes, that version 3 may have, are never written. *)
process_index_v1 == EntriesRead
process_index_v2 == EntriesRead
process_index_v3 == EntriesRead

process_index ==
    CASE image.index = 1 -> process_index_v1
      [] image.index = 2 -> process_index_v2
      [] image.index = 3 -> process_index_v3

(* A header that was altered leads to something that is no index. *)
IndexReadable == HeaderHarm # "altered" /\ process_index # {}

ReadIndex ==
    /\ phase = "header"
    /\ HeaderError = "OK"
    /\ IndexReadable
    /\ pending' \in process_index
    /\ phase' = "entries"
    /\ UNCHANGED <<image, resuming, ctx, status, got>>

RefuseIndex ==
    /\ phase = "header"
    /\ HeaderError = "OK"
    /\ ~IndexReadable
    /\ Refuse("CANNOT_READ_INDEX")

(***************************************************************************)
(* The payload of a structure: what of it comes to memory.                 *)
(***************************************************************************)
OutOfHarm(h, unpacked) ==
    CASE h = "none"    -> {"good"}
      [] h = "cut"     -> {"noHeader", "short"}
      [] h = "altered" -> unpacked
      [] h = "lost"    -> {"unknown"}

WithMemory(outcomes) == IF image.memory THEN outcomes \cup {"noMemory"} ELSE outcomes

(* LZMA and Zstandard may notice that their input was altered. *)
LzmaOutcomes(h) == WithMemory(OutOfHarm(h, {"undecodable", "wrong"}))
ZstdOutcomes(h) == WithMemory(OutOfHarm(h, {"undecodable", "wrong"}))
PlainOutcomes(h) == WithMemory(OutOfHarm(h, {"wrong"}))

Outcomes(part) ==
    LET h == HarmOf(part)
    IN  CASE image.packed = "lzma" -> LzmaOutcomes(h)
          [] image.packed = "zstd" -> ZstdOutcomes(h)
          [] image.packed = "none" -> PlainOutcomes(h)

(***************************************************************************)
(* The entries of the index, in its order.                                 *)
(***************************************************************************)
Current(type) == phase = "entries" /\ pending # <<>> /\ Head(pending).type = type

AtHome == Head(pending).leads = "home"

Processed(c) ==
    /\ ctx' = c
    /\ pending' = Tail(pending)
    /\ UNCHANGED <<image, phase, resuming, status, got>>

(* An entry that cannot be sought is left out, whatever it was of. *)
SkipEntry ==
    /\ phase = "entries"
    /\ pending # <<>>
    /\ Head(pending).leads = "nowhere"
    /\ Processed(ctx)

(* A block of media tags that is short, or whose CRC64 is wrong, is left   *)
(* out; one that cannot be decoded refuses the image.                      *)
TagKept(o) == [ctx EXCEPT !.tag = o = "good"]

process_data_block(o) ==
    [error |-> IF o = "undecodable" THEN "CANNOT_DECOMPRESS_BLOCK" ELSE "OK",
     ctx   |-> TagKept(o)]

Settle(r) == IF r.error = "OK" THEN Processed(r.ctx) ELSE Refuse(r.error)

ProcessDataBlock ==
    /\ Current("tag") /\ AtHome
    /\ \E o \in Outcomes(Part("tag")) : Settle(process_data_block(o))

(* Errors of the other blocks are not looked at. *)
ProcessTracks ==
    /\ Current("tracks") /\ AtHome
    /\ \E o \in WithMemory(OutOfHarm(HarmOf(Part("tracks")), {"wrong"})) :
          Processed([ctx EXCEPT !.tracks = o = "good"])

(* Flux is read when it is asked for. *)
SeeFlux ==
    /\ Current("flux") /\ AtHome
    /\ Processed([ctx EXCEPT !.flux = TRUE])

(* Errors of the structure itself: each of them refuses the image. *)
LoadError(o, checked) ==
    CASE o = "noHeader"              -> "CANNOT_READ_BLOCK"
      [] o = "undecodable"           -> "CANNOT_DECOMPRESS_BLOCK"
      [] o = "wrong" /\ checked      -> "INVALID_BLOCK_CRC"
      [] OTHER                       -> "OK"

(* The table of version 1 is found once its header is, whatever comes of   *)
(* it, and its CRC64 is not looked at.  Memory that was freed stays in the *)
(* context after a short read of a table that is not compressed.           *)
UserTableV1(o) ==
    [ctx EXCEPT
        !.found = o # "unknown",
        !.table = CASE o \in {"good", "wrong"}                    -> o
                    [] o = "short" /\ image.packed = "none"      -> "freed"
                    [] OTHER                                     -> "none"]

process_ddt_v1_user(o) == [error |-> LoadError(o, FALSE), ctx |-> UserTableV1(o)]

(* The tables of corrected prefixes and suffixes count as found too. *)
CorrectedTableV1(o) ==
    [ctx EXCEPT !.found = TRUE, !.cd = o \in {"good", "wrong"}]

process_ddt_v1_corrected(o) ==
    [error |-> LoadError(o, FALSE), ctx |-> CorrectedTableV1(o)]

(* Mutant of UserTableV2: found with its header, as in version 1. *)
UserTableV2Early(o, leads) ==
    [ctx EXCEPT !.found = o # "unknown",
                !.table = IF o = "good" THEN leads ELSE @]

(* The table of version 2 is found when it is in memory. *)
UserTableV2(o, leads) ==
    [ctx EXCEPT !.found = IF o = "unknown" THEN FALSE ELSE @ \/ o = "good",
                !.table = IF o = "good" THEN leads ELSE @]

process_ddt_v2_user(o, leads) ==
    [error |-> LoadError(o, TRUE), ctx |-> UserTableV2(o, leads)]

(* The tags are readable whether the table came to memory or not. *)
CdTableV2(o) == [ctx EXCEPT !.cd = o = "good", !.readable = TRUE]

process_ddt_v2_cd(o) == [error |-> LoadError(o, TRUE), ctx |-> CdTableV2(o)]

ProcessDdtV1 ==
    /\ Current("ddt") /\ AtHome
    /\ image.version = 1
    /\ \E o \in Outcomes(Part("ddt")) : Settle(process_ddt_v1_user(o))

ProcessDdtV2 ==
    /\ Current("ddt") /\ AtHome
    /\ image.version = 2
    /\ \E o \in Outcomes(Part("ddt")) : Settle(process_ddt_v2_user(o, "good"))

(* The table of the first session is whole, and nothing tells it apart. *)
ProcessFirstDdt ==
    /\ Current("ddt")
    /\ Head(pending).leads = "first"
    /\ \E o \in WithMemory({"good"}) : Settle(process_ddt_v2_user(o, "first"))

ProcessCdTable ==
    /\ Current("cd") /\ AtHome
    /\ \E o \in Outcomes(Part("cd")) :
          Settle(IF image.version = 1 THEN process_ddt_v1_corrected(o)
                                      ELSE process_ddt_v2_cd(o))

(***************************************************************************)
(* The end of aaruf_open, with or without resume_mode.                     *)
(***************************************************************************)
NoTableNorFlux == ~ctx.found /\ ~ctx.flux

(* The stream is not closed: aaruf_close knows a context by a magic that   *)
(* is not there yet.                                                       *)
RefuseNoTable ==
    /\ phase = "entries"
    /\ pending = <<>>
    /\ NoTableNorFlux
    /\ Refuse("CANNOT_READ_INDEX")

FinishOpen ==
    /\ phase = "entries"
    /\ pending = <<>>
    /\ ~NoTableNorFlux
    /\ ctx' = [ctx EXCEPT !.noUserDdt = ~ctx.found,
                          !.rewinded = resuming,
                          !.isWriting = resuming]
    /\ phase' = "open"
    /\ UNCHANGED <<image, resuming, pending, status, got>>

(***************************************************************************)
(* aaruf_read_sector up to the entry of the sector, for a context that     *)
(* aaruf_open gave.                                                        *)
(***************************************************************************)
Blank == [result |-> "notDumped"]
EntryOf(kind, i) ==
    IF i \in Undumped THEN Blank ELSE [result |-> "entry", kind |-> kind, sector |-> i]
Error(e) == [result |-> "error", error |-> e]

(* Memory that is not the program's is read. *)
Crash == [result |-> "crash"]

decode_ddt_entry_v1(i) ==
    CASE ctx.table = "none"  -> Error("NOT_AARUFORMAT")
      [] ctx.table = "freed" -> Crash
      [] OTHER               -> EntryOf(ctx.table, i)

decode_ddt_single_level_v2(i) ==
    IF ctx.table = "none" THEN Crash ELSE EntryOf(ctx.table, i)

(* Where the secondary tables are: 0 for one that was never made. *)
OffsetOf(p) == IF p \in image.made THEN p + 1 ELSE 0

(* The header of the file, and of other structures, is not of a table. *)
SecondaryError(o) ==
    CASE o \in {"noHeader", "unknown"}  -> "CANNOT_READ_BLOCK"
      [] o = "wrong"                    -> "INVALID_BLOCK_CRC"
      [] o = "undecodable"              -> "CANNOT_DECOMPRESS_BLOCK"
      [] o \in {"short", "noMemory"}    ->
            IF image.packed = "none" THEN "CANNOT_READ_BLOCK" ELSE "CANNOT_DECOMPRESS_BLOCK"

SecondaryOutcomes(offset) ==
    IF offset = 0 THEN {"unknown"} ELSE Outcomes(SecondaryPart(offset - 1))

(* Mutant of Cached: the place is kept of a table that was not. *)
CachedEarly(offset, o) ==
    [ctx EXCEPT !.at = offset, !.loaded = IF o = "good" THEN offset ELSE @]

(* cached_ddt_offset and cached_secondary_ddt2 change together. *)
Cached(offset, o) ==
    IF o = "good" THEN [ctx EXCEPT !.at = offset, !.loaded = offset] ELSE ctx

(* The entry in a table that is in memory, which has those of its place. *)
InCached(c, i) ==
    IF c.loaded = 0 THEN Crash
    ELSE EntryOf("good", (c.loaded - 1) * Items + (i % Items))

CacheHit(i) == ctx.at = OffsetOf(PositionOf(i))

Looked(i, c, answer) ==
    /\ ctx' = c
    /\ got' = [sector |-> i, answer |-> answer]
    /\ UNCHANGED <<image, phase, resuming, pending, status>>

(* An image without a table of user data has only its flux. *)
LookupNothing(i) ==
    /\ phase = "open"
    /\ ctx.noUserDdt
    /\ Looked(i, ctx, Error("USER_DATA_NOT_PRESENT"))

LookupOneLevel(i) ==
    /\ phase = "open"
    /\ ~ctx.noUserDdt
    /\ image.levels = 1
    /\ Looked(i, ctx, IF image.version = 1 THEN decode_ddt_entry_v1(i)
                                           ELSE decode_ddt_single_level_v2(i))

(* decode_ddt_multi_level_v2, with and without the table that is needed. *)
LookupCached(i) ==
    /\ phase = "open"
    /\ ~ctx.noUserDdt
    /\ image.levels = 2
    /\ CacheHit(i)
    /\ Looked(i, ctx, InCached(ctx, i))

LookupLoading(i) ==
    /\ phase = "open"
    /\ ~ctx.noUserDdt
    /\ image.levels = 2
    /\ ~CacheHit(i)
    /\ \E o \in SecondaryOutcomes(OffsetOf(PositionOf(i))) :
          LET c == Cached(OffsetOf(PositionOf(i)), o)
          IN  Looked(i, c, IF o = "good" THEN InCached(c, i) ELSE Error(SecondaryError(o)))

CloseImage ==
    /\ phase = "open"
    /\ phase' = "closed"
    /\ ctx' = NoContext
    /\ got' = NoLookup
    /\ UNCHANGED <<image, resuming, pending, status>>

OpenStep ==
    \/ \E resume \in BOOLEAN : OpenFile(resume)
    \/ RefuseHeader \/ OutOfMemory
    \/ ReadIndex \/ RefuseIndex
    \/ SkipEntry
    \/ ProcessDataBlock \/ ProcessTracks \/ SeeFlux
    \/ ProcessDdtV1 \/ ProcessDdtV2 \/ ProcessFirstDdt \/ ProcessCdTable
    \/ RefuseNoTable \/ FinishOpen

Next ==
    \/ OpenStep
    \/ \E i \in Slot :
          LookupNothing(i) \/ LookupOneLevel(i) \/ LookupCached(i) \/ LookupLoading(i)
    \/ CloseImage

Spec == Init /\ [][Next]_vars

(***************************************************************************)
(* Properties.                                                             *)
(***************************************************************************)
(* verify_index_v1, _v2 and _v3: the CRC64 of the entries. *)
verify_index_v1 == IndexHarm = "none"
verify_index_v2 == IndexHarm = "none"
verify_index_v3 == IndexHarm = "none"

verify_index ==
    CASE image.index = 1 -> verify_index_v1
      [] image.index = 2 -> verify_index_v2
      [] image.index = 3 -> verify_index_v3

(* aaruf_verify_image has no error: the index, and the payload of every    *)
(* block of it that has a CRC64.                                           *)
aaruf_verify_image ==
    /\ verify_index
    /\ \A name \in {"tag", "ddt", "cd", "tracks"} : HarmOf(Part(name)) \in {"none", "lost"}

(* A table that was never made, looked up when no other is in memory: the  *)
(* code takes the place 0 for that of the table it has, and has none.      *)
NeverMade(i) == image.levels = 2 /\ PositionOf(i) \notin image.made

(* A lookup, in any order and after others that failed, gives the entry of *)
(* its sector or an error (decode_ddt_multi_level_v2, decode_ddt_entry_v1).*)
(* Where it does not, the harm is one that aaruf_verify_image tells of.    *)
LookupsTrueOrTold ==
    got = NoLookup
        \/ got.answer.result = "error"
        \/ got.answer = EntryOf("good", got.sector)
        \/ NeverMade(got.sector)
        \/ ~aaruf_verify_image

(* An image is refused only for harm, memory or features it needs; and an  *)
(* image of version 2 that is opened has its table in memory unless it is  *)
(* opened for its flux alone (open.c:678).                                 *)
Sound == DOMAIN image.harm = {} /\ ~image.memory /\ image.needs = "nothing"

OpensWhatItCan ==
    /\ phase = "refused" => ~Sound \/ (resuming /\ image.version = 1)
    /\ phase = "open" /\ image.version = 2 => (ctx.noUserDdt <=> ctx.table = "none")
=============================================================================
