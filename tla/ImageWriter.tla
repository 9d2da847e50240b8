----------------------------- MODULE ImageWriter -----------------------------
(***************************************************************************)
(* The life of an image with a single-level deduplication table (DDT):     *)
(* aaruf_create, aaruf_write_sector, aaruf_close_current_block, the steps  *)
(* of aaruf_finalize_write, a crash at any of them, and aaruf_open in      *)
(* resume mode (src/write.c, src/close_write.c, src/create.c, src/open.c). *)
(*                                                                         *)
(* The file is that of ImageFile: blocks, tables and indexes are written   *)
(* whole at a unit, or torn.                                               *)
(***************************************************************************)
EXTENDS ImageFile, Sequences

CONSTANTS
    Negative,       \* Sectors before address 0 (user_data_ddt_header.negative)
    Sectors,        \* User sectors (image_info.Sectors)
    Overflow,       \* Sectors after the last user sector (overflow)
    Data,           \* Contents a program may write
    SizeOf,         \* The length in bytes of each content
    Hashes,         \* Values of XXH3_64bits
    Hash,           \* XXH3_64bits of each content
    Statuses,       \* SectorStatus
    Written,        \* The statuses the program gives to the sectors it writes
    NotDumped,      \* SectorStatusNotDumped, the zero status
    Generable,      \* SectorStatusGenerable
    NintendoDisc,   \* TRUE for the GOD and WOD media types
    Dedup,          \* The deduplicate option
    UseZstd,        \* The zstd option given to aaruf_create
    BlockSectors,   \* 1 << dataShift
    Failures        \* Which of the writes may fail

ASSUME GeometryAssumption ==
    /\ Negative \in Nat
    /\ Sectors \in Nat \ {0}
    /\ Overflow \in Nat

ASSUME DataAssumption ==
    /\ SizeOf \in [Data -> Nat \ {0}]
    /\ Hash \in [Data -> Hashes]

(* The code identifies equal hashes with equal sectors. *)
ASSUME HashAssumption ==
    \A d, e \in Data : Hash[d] = Hash[e] => d = e

ASSUME StatusAssumption ==
    /\ NotDumped \in Statuses
    /\ Written \subseteq Statuses
    /\ Generable # NotDumped
    /\ NintendoDisc => Generable \in Written

ASSUME OptionAssumption ==
    /\ NintendoDisc \in BOOLEAN
    /\ Dedup \in BOOLEAN
    /\ UseZstd \in BOOLEAN
    /\ Failures \subseteq {"header", "block", "ddtHeader", "index", "root"}

ASSUME SizeAssumption ==
    /\ BlockSectors \in Nat \ {0}
    /\ MaxSpan \in Nat \ {0}
    /\ MaxTear \in 0..MaxSpan
    /\ MaxUnit \in Nat \ {0}

VARIABLES
    ddt,        \* user_data_ddt2, by corrected address
    hashMap,    \* sector_hash_map: hash -> entry, NoEntry when absent
    buffer,     \* The sectors in writing_buffer
    sectorSize, \* current_block_header.sectorSize
    nextPos,    \* next_block_position
    index,      \* index_entries, as a set: nothing depends on their order
    header,     \* ctx->header: [index |-> indexOffset, zstd |-> feature bit]
    hasZstd,    \* has_zstd_blocks
    useZstd,    \* use_zstd: the option is not applied again on resume
    dirtyDdt,   \* dirty_single_level_ddt
    dirtyIndex, \* dirty_index_block
    phase,      \* Where the writer is: see Phases
    file,       \* The units of the file
    eof,        \* First unit after the end of the file
    disk        \* The header in unit 0

memory == <<ddt, hashMap, buffer, sectorSize, nextPos, index, header, hasZstd,
            useZstd, dirtyDdt, dirtyIndex>>
disc == <<file, eof, disk>>
vars == <<memory, phase, disc>>

(***************************************************************************)
(* Addresses, table entries and structures.                                *)
(***************************************************************************)
(* The addresses aaruf_write_sector does not refuse. *)
Address ==
    {a \in [negative : BOOLEAN, lba : 0..Larger(Negative, Sectors + Overflow - 1)] :
        IF a.negative THEN a.lba <= Negative ELSE a.lba <= Sectors + Overflow - 1}

Corrected(a) == IF a.negative THEN Negative - a.lba ELSE a.lba + Negative

Slot == 0..(Negative + Sectors + Overflow - 1)

(* An entry is one 64-bit word: sector in the block, block, status nibble. *)
Entry == [block : Units, offset : 0..(BlockSectors - 1), status : Statuses]

(* The zero word: never written, and "make a new entry" to set_ddt_entry.  *)
NoEntry == [block |-> 0, offset |-> 0, status |-> NotDumped]

EmptyDdt == [i \in Slot |-> NoEntry]
EmptyMap == [h \in Hashes |-> NoEntry]

IndexEntry == [type : {"data", "ddt"}, pos : Units]

DataBlock ==
    [kind : {"data"}, span : Spans, zstd : BOOLEAN, size : Nat, sectors : Seq(Data)]
DdtBlock ==
    [kind : {"ddt"}, span : Spans, zstd : BOOLEAN, table : [Slot -> Entry]]
IndexBlock ==
    [kind : {"index"}, span : Spans, entries : SUBSET IndexEntry]
Cell == [start : Units, obj : DataBlock \cup DdtBlock \cup IndexBlock \cup {Hole}]

(***************************************************************************)
(* aaruf_create, and the memory of a program that has no image open.       *)
(***************************************************************************)
Phases == {"Open", "Block", "Ddt", "Index", "Root", "Retry", "Closed", "Lost"}

(* No context: the image was closed, or the session ended otherwise. *)
Ended == phase \in {"Closed", "Lost"}

(* aaruf_create marks everything dirty and places the first block after    *)
(* the header; fopen truncates what the file held.                         *)
Init ==
    /\ ddt = EmptyDdt
    /\ hashMap = EmptyMap
    /\ buffer = <<>>
    /\ sectorSize = 0
    /\ nextPos = 1
    /\ index = {}
    /\ header = [index |-> 0, zstd |-> FALSE]
    /\ hasZstd = FALSE
    /\ useZstd = UseZstd
    /\ dirtyDdt = TRUE
    /\ dirtyIndex = TRUE
    /\ phase = "Open"
    /\ file = [q \in Units |-> NoCell]
    /\ eof = 1
    /\ disk = [index |-> 0, zstd |-> FALSE]

(* Mutant of FreeContext: the hash map outlives the context. *)
FreeContextKeepsMap ==
    /\ ddt' = EmptyDdt
    /\ buffer' = <<>>
    /\ sectorSize' = 0
    /\ nextPos' = 1
    /\ index' = {}
    /\ header' = [index |-> 0, zstd |-> FALSE]
    /\ dirtyDdt' = FALSE
    /\ dirtyIndex' = FALSE
    /\ UNCHANGED <<hashMap, hasZstd, useZstd>>

(* The context is freed, or lost with the process. *)
FreeContext ==
    /\ ddt' = EmptyDdt
    /\ hashMap' = EmptyMap
    /\ buffer' = <<>>
    /\ sectorSize' = 0
    /\ nextPos' = 1
    /\ index' = {}
    /\ header' = [index |-> 0, zstd |-> FALSE]
    /\ hasZstd' = FALSE
    /\ useZstd' = FALSE
    /\ dirtyDdt' = FALSE
    /\ dirtyIndex' = FALSE

(***************************************************************************)
(* aaruf_close_current_block: the index entry is pushed before the write,  *)
(* and stays when the write fails.                                         *)
(***************************************************************************)
PushDataBlock ==
    /\ index' = index \cup {[type |-> "data", pos |-> nextPos]}
    /\ dirtyIndex' = TRUE

CloseBlock(span, z) ==
    /\ Fits(nextPos, span)
    /\ z => useZstd
    /\ PushDataBlock
    /\ file' = Put(file, nextPos, [kind |-> "data", span |-> span, zstd |-> z,
                                   size |-> sectorSize, sectors |-> buffer])
    /\ eof' = Larger(eof, nextPos + span)
    /\ nextPos' = nextPos + span
    /\ hasZstd' = (hasZstd \/ z)

(* Mutant of CloseBlockFails: the buffer is freed although the write failed. *)
CloseBlockFailsFreesBuffer(n) ==
    /\ "block" \in Failures
    /\ Fits(nextPos, n)
    /\ PushDataBlock
    /\ file' = Tear(file, nextPos, n)
    /\ eof' = Larger(eof, nextPos + n)
    /\ buffer' = <<>>
    /\ sectorSize' = 0
    /\ UNCHANGED <<ddt, hashMap, nextPos, header, hasZstd, useZstd, dirtyDdt, disk>>

(* n units of the block reach the file before an fwrite fails. *)
CloseBlockFails(n) ==
    /\ "block" \in Failures
    /\ Fits(nextPos, n)
    /\ PushDataBlock
    /\ file' = Tear(file, nextPos, n)
    /\ eof' = Larger(eof, nextPos + n)
    /\ UNCHANGED <<ddt, hashMap, buffer, sectorSize, nextPos, header, hasZstd,
                   useZstd, dirtyDdt, disk>>

(***************************************************************************)
(* aaruf_write_sector.                                                     *)
(***************************************************************************)
(* Mutants of MustClose: a change of sector size, or a full block, is not seen. *)
MustCloseIgnoresSize(d) == buffer # <<>> /\ Len(buffer) = BlockSectors
MustCloseIgnoresFull(d) == buffer # <<>> /\ sectorSize # SizeOf[d]

MustClose(d) ==
    /\ buffer # <<>>
    /\ \/ sectorSize # SizeOf[d]
       \/ Len(buffer) = BlockSectors

IsGenerated(s) == NintendoDisc /\ s = Generable

(* Mutant of EntryFor: the offset is read after it was advanced. *)
EntryForAdvanced(found, offset, block, s) ==
    IF found # NoEntry
    THEN [found EXCEPT !.status = s]
    ELSE [block |-> block, offset |-> offset + 1, status |-> s]

(* set_ddt_single_level_v2 keeps the entry of an equal sector and replaces *)
(* its status; otherwise it makes one for the sector about to be buffered. *)
EntryFor(found, offset, block, s) ==
    IF found # NoEntry
    THEN [found EXCEPT !.status = s]
    ELSE [block |-> block, offset |-> offset % BlockSectors, status |-> s]

(* Mutant of SetDdtEntry: the table is not marked dirty. *)
SetDdtEntryClean(a, e) ==
    /\ ddt' = [ddt EXCEPT ![Corrected(a)] = e]
    /\ UNCHANGED dirtyDdt

SetDdtEntry(a, e) ==
    /\ ddt' = [ddt EXCEPT ![Corrected(a)] = e]
    /\ dirtyDdt' = TRUE

(* What follows the closing of a full block, when the open block holds buf *)
(* and will start at unit p.                                               *)
Store(a, d, s, buf, p) ==
    LET found == IF Dedup THEN hashMap[Hash[d]] ELSE NoEntry
        e     == EntryFor(found, Len(buf), p, s)
    IN  /\ p <= MaxUnit
        /\ SetDdtEntry(a, e)
        /\ IF found # NoEntry
           THEN /\ buffer' = buf
                /\ sectorSize' = IF buf = <<>> THEN 0 ELSE sectorSize
                /\ UNCHANGED hashMap
           ELSE /\ buffer' = Append(buf, d)
                /\ sectorSize' = IF buf = <<>> THEN SizeOf[d] ELSE sectorSize
                /\ hashMap' = IF Dedup THEN [hashMap EXCEPT ![Hash[d]] = e]
                                       ELSE hashMap

WriteSector(a, d, s) ==
    /\ phase = "Open"
    /\ ~IsGenerated(s)
    /\ ~MustClose(d)
    /\ Store(a, d, s, buffer, nextPos)
    /\ UNCHANGED <<nextPos, index, header, hasZstd, useZstd, dirtyIndex, phase,
                   disc>>

WriteSectorInNewBlock(a, d, s, span, z) ==
    /\ phase = "Open"
    /\ ~IsGenerated(s)
    /\ MustClose(d)
    /\ CloseBlock(span, z)
    /\ Store(a, d, s, <<>>, nextPos + span)
    /\ UNCHANGED <<header, useZstd, phase, disk>>

(* The sector is refused because the full block could not be written. *)
WriteSectorFails(d, n) ==
    /\ phase = "Open"
    /\ MustClose(d)
    /\ CloseBlockFails(n)
    /\ UNCHANGED phase

(* A sector of a Nintendo disc that can be generated has only its status   *)
(* in the table.                                                           *)
WriteGenerable(a) ==
    /\ phase = "Open"
    /\ IsGenerated(Generable)
    /\ SetDdtEntry(a, [NoEntry EXCEPT !.status = Generable])
    /\ UNCHANGED <<hashMap, buffer, sectorSize, nextPos, index, header, hasZstd,
                   useZstd, dirtyIndex, phase, disc>>

(***************************************************************************)
(* aaruf_close: the steps of aaruf_finalize_write.                         *)
(*                                                                         *)
(* A step that fails returns its error with the context still open, and    *)
(* the program may write on and close again: nothing it wrote is lost.     *)
(* After a failure of the very last write the header in memory points past *)
(* next_block_position, and we assume of the program that it only closes   *)
(* again or gives up (phase "Retry").                                      *)
(***************************************************************************)
FailedClose == phase' = IF header.index < nextPos THEN "Open" ELSE "Retry"

CloseHeader ==
    /\ phase \in {"Open", "Retry"}
    /\ header' = [header EXCEPT !.zstd = @ \/ hasZstd]
    /\ disk' = header'
    /\ phase' = "Block"
    /\ UNCHANGED <<ddt, hashMap, buffer, sectorSize, nextPos, index, hasZstd,
                   useZstd, dirtyDdt, dirtyIndex, file, eof>>

(* The stream is closed under the context, which is of no more use. *)
CloseHeaderFails ==
    /\ "header" \in Failures
    /\ phase \in {"Open", "Retry"}
    /\ phase' = "Lost"
    /\ FreeContext
    /\ UNCHANGED disc

CloseLastBlock(span, z) ==
    /\ phase = "Block"
    /\ buffer # <<>>
    /\ CloseBlock(span, z)
    /\ buffer' = <<>>
    /\ sectorSize' = 0
    /\ phase' = "Ddt"
    /\ UNCHANGED <<ddt, hashMap, header, useZstd, dirtyDdt, disk>>

CloseLastBlockFails(n) ==
    /\ phase = "Block"
    /\ buffer # <<>>
    /\ CloseBlockFails(n)
    /\ FailedClose

CloseNoBlock ==
    /\ phase = "Block"
    /\ buffer = <<>>
    /\ phase' = "Ddt"
    /\ UNCHANGED <<memory, disc>>

(* Mutant of IndexWithoutDdt: all entries of user data go, the data blocks too. *)
IndexWithoutUserData(es) == {}

(* The entries of the index that stay when the table is written again. *)
IndexWithoutDdt(es) == {e \in es : e.type # "ddt"}

(* write_single_level_ddt, at the end of the file. *)
CloseDdt(span, z) ==
    /\ phase = "Ddt"
    /\ dirtyDdt
    /\ Fits(eof, span)
    /\ z => useZstd
    /\ file' = Put(file, eof, [kind |-> "ddt", span |-> span, zstd |-> z,
                               table |-> ddt])
    /\ eof' = eof + span
    /\ index' = IndexWithoutDdt(index) \cup {[type |-> "ddt", pos |-> eof]}
    /\ dirtyIndex' = TRUE
    /\ hasZstd' = (hasZstd \/ z)
    /\ phase' = "Index"
    /\ UNCHANGED <<ddt, hashMap, buffer, sectorSize, nextPos, header, useZstd,
                   dirtyDdt, disk>>

(* Mutant of CloseDdtFails: the error is ignored and the table is indexed. *)
CloseDdtFailsUnseen(n) ==
    /\ phase = "Ddt"
    /\ dirtyDdt
    /\ "ddtHeader" \in Failures
    /\ Fits(eof, n)
    /\ eof <= MaxUnit
    /\ file' = Tear(file, eof, n)
    /\ eof' = eof + n
    /\ index' = IndexWithoutDdt(index) \cup {[type |-> "ddt", pos |-> eof]}
    /\ phase' = "Index"
    /\ UNCHANGED <<ddt, hashMap, buffer, sectorSize, nextPos, header, hasZstd,
                   useZstd, dirtyDdt, dirtyIndex, disk>>

CloseDdtFails(n) ==
    /\ phase = "Ddt"
    /\ dirtyDdt
    /\ "ddtHeader" \in Failures
    /\ Fits(eof, n)
    /\ file' = Tear(file, eof, n)
    /\ eof' = eof + n
    /\ FailedClose
    /\ UNCHANGED <<memory, disk>>

CloseCleanDdt ==
    /\ phase = "Ddt"
    /\ ~dirtyDdt
    /\ phase' = "Index"
    /\ UNCHANGED <<memory, disc>>

(* write_index_block, up to the header that makes the index the root. *)
CloseIndex(span) ==
    /\ phase = "Index"
    /\ dirtyIndex
    /\ index # {}
    /\ Fits(eof, span)
    /\ file' = Put(file, eof, [kind |-> "index", span |-> span, entries |-> index])
    /\ eof' = eof + span
    /\ header' = [header EXCEPT !.index = eof]
    /\ phase' = "Root"
    /\ UNCHANGED <<ddt, hashMap, buffer, sectorSize, nextPos, index, hasZstd,
                   useZstd, dirtyDdt, dirtyIndex, disk>>

CloseIndexFails(n) ==
    /\ phase = "Index"
    /\ dirtyIndex
    /\ index # {}
    /\ "index" \in Failures
    /\ Fits(eof, n)
    /\ file' = Tear(file, eof, n)
    /\ eof' = eof + n
    /\ FailedClose
    /\ UNCHANGED <<memory, disk>>

(* The header with the new index offset is the commit point. *)
CloseRoot ==
    /\ phase = "Root"
    /\ phase' = "Closed"
    /\ disk' = header
    /\ FreeContext
    /\ UNCHANGED <<file, eof>>

CloseRootFails ==
    /\ phase = "Root"
    /\ "root" \in Failures
    /\ phase' = "Retry"
    /\ UNCHANGED <<memory, disc>>

(* Nothing changed since the image was resumed. *)
CloseCleanIndex ==
    /\ phase = "Index"
    /\ ~dirtyIndex
    /\ phase' = "Closed"
    /\ FreeContext
    /\ UNCHANGED disc

(***************************************************************************)
(* Crash, aaruf_create over the file, and aaruf_open in resume mode.       *)
(***************************************************************************)

(* The process ends between two writes.  What stdio had not written yet is *)
(* a suffix of the writes, so that case is a crash at an earlier step.     *)
Crash ==
    /\ ~Ended
    /\ phase' = "Lost"
    /\ FreeContext
    /\ UNCHANGED disc

Create ==
    /\ Ended
    /\ ddt' = EmptyDdt
    /\ nextPos' = 1
    /\ useZstd' = UseZstd
    /\ dirtyDdt' = TRUE
    /\ dirtyIndex' = TRUE
    /\ phase' = "Open"
    /\ file' = [q \in Units |-> NoCell]
    /\ eof' = 1
    /\ disk' = [index |-> 0, zstd |-> FALSE]
    /\ UNCHANGED <<hashMap, buffer, sectorSize, index, header, hasZstd>>

(* The index the header points at, and the table it lists, of which there  *)
(* is one: CloseDdt removes the entry of the table before.  Open refuses   *)
(* an image without a table or with a damaged one.  It does not compute    *)
(* the CRC64 of the index; CommittedImageReadable says it need not.        *)
DiskIndex == file[disk.index].obj.entries
DdtPositions == {p \in Units : [type |-> "ddt", pos |-> p] \in DiskIndex}

Openable ==
    /\ Intact(file, disk.index, "index")
    /\ DdtPositions # {}
    /\ \A p \in DdtPositions : Intact(file, p, "ddt")

DiskDdtPos == CHOOSE p \in DdtPositions : TRUE
DiskDdt == file[DiskDdtPos].obj.table

(* Mutant of ResumePosition: new blocks go over the old index. *)
ResumeAtIndex == disk.index

(* next_block_position of a resumed image: the end of the file, aligned. *)
ResumePosition == eof

(* Appends after the end of the file, with an empty deduplication map. *)
Resume ==
    /\ Ended
    /\ Openable
    /\ eof <= MaxUnit
    /\ ddt' = DiskDdt
    /\ nextPos' = ResumePosition
    /\ index' = DiskIndex
    /\ header' = disk
    /\ phase' = "Open"
    /\ UNCHANGED <<hashMap, buffer, sectorSize, hasZstd, useZstd, dirtyDdt,
                   dirtyIndex, disc>>

WriteStep ==
    \/ \E a \in Address, d \in Data, s \in Written :
          \/ WriteSector(a, d, s)
          \/ \E span \in Spans, z \in BOOLEAN : WriteSectorInNewBlock(a, d, s, span, z)
    \/ \E d \in Data, n \in 0..MaxTear : WriteSectorFails(d, n)
    \/ \E a \in Address : WriteGenerable(a)

CloseStep ==
    \/ CloseHeader
    \/ CloseHeaderFails
    \/ \E span \in Spans, z \in BOOLEAN : CloseLastBlock(span, z) \/ CloseDdt(span, z)
    \/ CloseNoBlock
    \/ CloseCleanDdt
    \/ \E span \in Spans : CloseIndex(span)
    \/ CloseRoot
    \/ CloseRootFails
    \/ CloseCleanIndex
    \/ \E n \in 0..MaxTear : CloseLastBlockFails(n) \/ CloseDdtFails(n) \/ CloseIndexFails(n)

Next ==
    \/ WriteStep
    \/ CloseStep
    \/ Crash
    \/ Create
    \/ Resume

Spec == Init /\ [][Next]_vars

(***************************************************************************)
(* Properties.                                                             *)
(***************************************************************************)

(* Every variable has its type. *)
TypeOK ==
    /\ ddt \in [Slot -> Entry]
    /\ hashMap \in [Hashes -> Entry]
    /\ buffer \in Seq(Data)
    /\ sectorSize \in Nat
    /\ nextPos \in 1..(MaxUnit + 1)
    /\ index \in SUBSET IndexEntry
    /\ header \in [index : Units, zstd : BOOLEAN]
    /\ hasZstd \in BOOLEAN
    /\ useZstd \in BOOLEAN
    /\ dirtyDdt \in BOOLEAN
    /\ dirtyIndex \in BOOLEAN
    /\ phase \in Phases
    /\ file \in [Units -> Cell]
    /\ eof \in 1..(MaxUnit + 1)
    /\ disk \in [index : Units, zstd : BOOLEAN]

(* A sector is found in a block by multiplying its offset by the size that *)
(* the header of the block gives for all of them.                          *)
Located(sectors, size, offset) ==
    /\ offset < Len(sectors)
    /\ \A k \in 1..(offset + 1) : SizeOf[sectors[k]] = size

(* The block of an entry is whole in the file, or it is the open one, and  *)
(* it has the sector the entry asks for.                                   *)
OnDisk(e) ==
    /\ Intact(file, e.block, "data")
    /\ Located(file[e.block].obj.sectors, file[e.block].obj.size, e.offset)
InBuffer(e) == e.block = nextPos /\ Located(buffer, sectorSize, e.offset)

SectorAt(e) ==
    IF InBuffer(e) THEN buffer[e.offset + 1]
                   ELSE file[e.block].obj.sectors[e.offset + 1]

(* No entry of the table dangles: whatever was refused, torn or retried    *)
(* before, each address the program wrote leads to a sector that exists.   *)
(* A generated sector and one never written have block 0.                  *)
EntriesResolve ==
    \A i \in Slot : ddt[i].block # 0 => InBuffer(ddt[i]) \/ OnDisk(ddt[i])

(* A sector found by its hash is the sector that was hashed, also when the *)
(* block it was buffered for has since been written, or failed to be.      *)
HashMapSound ==
    \A h \in Hashes : hashMap[h] # NoEntry =>
        /\ InBuffer(hashMap[h]) \/ OnDisk(hashMap[h])
        /\ Hash[SectorAt(hashMap[h])] = h

(* The index lists every written block the table uses, so that a verifier  *)
(* that walks the index reads all the user data.                           *)
IndexCoversEntries ==
    \A i \in Slot : ddt[i].block # 0 /\ ~InBuffer(ddt[i]) =>
        [type |-> "data", pos |-> ddt[i].block] \in index

(* The units an opened image depends on. *)
CommittedUnits ==
    IF disk.index = 0 THEN {}
    ELSE Region(file, disk.index) \cup
         UNION {Region(file, e.pos) : e \in DiskIndex}

(* While the header points at an index, that index and everything it lists *)
(* is whole and every entry of its table resolves: the image opens         *)
(* whenever the process dies.                                              *)
CommittedImageReadable ==
    disk.index # 0 =>
        /\ Openable
        /\ \A e \in DiskIndex : Intact(file, e.pos, e.type)
        /\ LET table == DiskDdt
           IN  \A i \in Slot : table[i].block # 0 => OnDisk(table[i])

(* No write lands on a unit the committed image uses, until the program    *)
(* creates a new image over the file.                                      *)
CommittedUntouched ==
    [][disk'.index # 0 => \A q \in CommittedUnits : file'[q] = file[q]]_vars

(***************************************************************************)
(* The image as a table of contents.                                       *)
(***************************************************************************)
Unreadable == [status |-> NotDumped, sector |-> "unreadable"]
BlankSector == [status |-> NotDumped, sector |-> "blank"]
GeneratedSector == [status |-> Generable, sector |-> "generated"]

(* aaruf_read_sector of an entry. *)
ContentOf(e, resolves, sector) ==
    IF e.status = NotDumped THEN BlankSector
    ELSE IF IsGenerated(e.status) THEN GeneratedSector
    ELSE IF resolves THEN [status |-> e.status, sector |-> sector]
    ELSE Unreadable

OpenImage ==
    [i \in Slot |-> ContentOf(ddt[i], InBuffer(ddt[i]) \/ OnDisk(ddt[i]),
                              SectorAt(ddt[i]))]

(* A sector that is written without an error is what will be read back,    *)
(* and no other sector changes: whether it was found by its hash, closed   *)
(* a block, or was refused before.                                         *)
WriteStoresSector ==
    [][\A a \in Address, d \in Data, s \in Written :
          \/ WriteSector(a, d, s)
          \/ \E span \in Spans, z \in BOOLEAN : WriteSectorInNewBlock(a, d, s, span, z)
          => OpenImage' =
                [OpenImage EXCEPT ![Corrected(a)] =
                    IF s = NotDumped THEN BlankSector
                                     ELSE [status |-> s, sector |-> d]]]_vars

NoImage == <<>>

DurableImage ==
    IF ~Openable THEN NoImage
    ELSE LET table == DiskDdt
         IN  [i \in Slot |->
                 ContentOf(table[i], OnDisk(table[i]),
                           file[table[i].block].obj.sectors[table[i].offset + 1])]

(* What a program that writes content d with status s will read back. *)
Contents ==
    {BlankSector, GeneratedSector} \cup [status : Statuses, sector : Data]

Promised == INSTANCE SectorStore WITH
    Address <- Slot,
    Content <- Contents,
    Blank <- BlankSector,
    image <- IF Ended THEN DurableImage ELSE OpenImage,
    durable <- DurableImage,
    session <- CASE phase = "Closed" -> "closed"
                 [] phase = "Lost" -> "lost"
                 [] OTHER -> "open"

(* The writer implements the abstract store: block boundaries, failed      *)
(* writes and the steps of a close are invisible to the program, and a     *)
(* close that reports success lost nothing.                                *)
ImplementsStore == Promised!StoreSpec
=============================================================================
