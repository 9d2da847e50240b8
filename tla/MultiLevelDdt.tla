---------------------------- MODULE MultiLevelDdt ----------------------------
(***************************************************************************)
(* The deduplication table of large media, in two levels (tableShift > 0). *)
(* The primary table leads to secondary tables, of which one at most is in *)
(* memory: set_ddt_multi_level_v2 and decode_ddt_multi_level_v2            *)
(* (src/ddt/ddt_v2.c), write_cached_secondary_ddt and write_primary_ddt    *)
(* (src/close_write.c), with the closing of blocks they share the file and *)
(* next_block_position with.                                               *)
(*                                                                         *)
(* A new image is written and closed, then opened and read.  While it is   *)
(* written no sector is read: cached_ddt_offset stays 0, and the dirty     *)
(* flags keep the TRUE that aaruf_create gave them.                        *)
(***************************************************************************)
EXTENDS ImageFile, Sequences

CONSTANTS
    Tables,         \* Entries of the primary table
    Items,          \* 1 << tableShift: entries of a secondary table
    Data,           \* Contents a program may write; they are their own hash
    Dedup,          \* The deduplicate option
    BlockSectors,   \* 1 << dataShift
    TableSpan,      \* Units of a secondary table that does not compress
    InOrder,        \* TRUE: the program never goes back to an earlier table
    Failures        \* Which of the writes may fail

ASSUME TableAssumption ==
    /\ Tables \in Nat \ {0}
    /\ Items \in Nat \ {0}
    /\ BlockSectors \in Nat \ {0}
    /\ TableSpan \in Nat \ {0}
    /\ Dedup \in BOOLEAN
    /\ InOrder \in BOOLEAN
    /\ Failures \subseteq {"table", "primary"}

ASSUME SizeAssumption ==
    /\ MaxSpan \in Nat \ {0}
    /\ MaxTear \in Nat
    /\ MaxUnit \in Nat \ {0}

VARIABLES
    primary,        \* user_data_ddt2: unit of each secondary table, 0 for none
    cached,         \* cached_secondary_ddt2, NoTable when it is NULL
    cachedOffset,   \* cached_ddt_offset, in units
    cachedPosition, \* cached_ddt_position
    hashMap,        \* sector_hash_map: content -> entry
    buffer,         \* The sectors in writing_buffer
    nextPos,        \* next_block_position
    index,          \* index_entries, as a set
    phase,          \* Where the program is
    file,           \* The units of the file
    eof,            \* First unit after the end of the file
    root            \* indexOffset of the header in unit 0

tables == <<primary, cached, cachedOffset, cachedPosition>>
writer == <<hashMap, buffer, nextPos, index>>
disc == <<file, eof, root>>
vars == <<tables, writer, phase, disc>>

(***************************************************************************)
(* Addresses, entries and structures.                                      *)
(***************************************************************************)
Position == 0..(Tables - 1)
Slot == 0..(Tables * Items - 1)
Item == 0..(Items - 1)

PositionOf(i) == i \div Items
ItemOf(i) == i % Items

Entry == [block : Units, offset : 0..(BlockSectors - 1)]
NoEntry == [block |-> 0, offset |-> 0]

(* Mutant of EmptyTable: one entry too many. *)
EmptyTableLong == [k \in 0..Items |-> NoEntry]

EmptyTable == [k \in Item |-> NoEntry]
NoTable == <<>>

IndexEntry == [type : {"data", "secondary", "primary"}, pos : Units]

(* primary_ddt_offset, and the place of the first block. *)
PrimaryUnit == 1
FirstBlock == 2

DataBlock == [kind : {"data"}, span : Spans, sectors : Seq(Data)]
SecondaryBlock == [kind : {"secondary"}, span : 1..TableSpan, table : [Item -> Entry]]

(* The header of the primary table has the CRC64 of a table, which need    *)
(* not be the one that follows it.                                         *)
PrimaryTable == [Position -> Units]
PrimaryBlock ==
    [kind : {"primary"}, span : {1}, table : PrimaryTable,
     sum : PrimaryTable \cup {NoTable}]
IndexBlock == [kind : {"index"}, span : Spans, entries : SUBSET IndexEntry]

Cell ==
    [start : Units,
     obj : DataBlock \cup SecondaryBlock \cup PrimaryBlock \cup IndexBlock \cup {Hole}]

(* The data of the primary table is rewritten behind the header it has.    *)
PutPrimaryData(f, table) ==
    Put(f, PrimaryUnit,
        [kind |-> "primary", span |-> 1, table |-> table,
         sum |-> IF f[PrimaryUnit].obj.kind = "primary" THEN f[PrimaryUnit].obj.sum
                                                        ELSE NoTable])

Phases ==
    {"Open", "Secondary", "Primary", "Index", "Retry", "Closed", "Lost", "Reading"}

(***************************************************************************)
(* aaruf_create, and a context without an image.                           *)
(***************************************************************************)
Init ==
    /\ primary = [p \in Position |-> 0]
    /\ cached = NoTable
    /\ cachedOffset = 0
    /\ cachedPosition = 0
    /\ hashMap = [d \in Data |-> NoEntry]
    /\ buffer = <<>>
    /\ nextPos = FirstBlock
    /\ index = {}
    /\ phase = "Open"
    /\ file = [q \in Units |-> NoCell]
    /\ eof = 1
    /\ root = 0

FreeContext ==
    /\ primary' = [p \in Position |-> 0]
    /\ cached' = NoTable
    /\ cachedOffset' = 0
    /\ cachedPosition' = 0
    /\ hashMap' = [d \in Data |-> NoEntry]
    /\ buffer' = <<>>
    /\ nextPos' = FirstBlock
    /\ index' = {}

(***************************************************************************)
(* The tail of the image: what a block or a secondary table moves.         *)
(***************************************************************************)
Tail0 == [file |-> file, eof |-> eof, next |-> nextPos, index |-> index,
          buffer |-> buffer]

(* aaruf_close_current_block, which does nothing without an open block. *)
AfterBlock(span) ==
    IF buffer = <<>> THEN Tail0
    ELSE [file   |-> Put(file, nextPos,
                         [kind |-> "data", span |-> span, sectors |-> buffer]),
          eof    |-> Larger(eof, nextPos + span),
          next   |-> nextPos + span,
          index  |-> index \cup {[type |-> "data", pos |-> nextPos]},
          buffer |-> <<>>]

BlockFits(span) ==
    IF buffer = <<>> THEN span = 1 ELSE Fits(nextPos, span)

(* Mutant of SecondaryIndexed: every table takes the place of all others. *)
SecondaryIndexedAlone(es, old, pos) ==
    {e \in es : e.type # "secondary"} \cup {[type |-> "secondary", pos |-> pos]}

(* The entry of the place the table had in the file goes. *)
SecondaryIndexed(es, old, pos) ==
    {e \in es : e.type # "secondary" \/ old = 0 \/ e.pos # old}
        \cup {[type |-> "secondary", pos |-> pos]}

PutSecondary(f, p, span) ==
    Put(f, p, [kind |-> "secondary", span |-> span, table |-> cached])

(* Mutant of AfterSecondary: next_block_position stays before the table. *)
AfterSecondaryOver(t, span) ==
    [t EXCEPT !.file = PutSecondary(@, t.eof, span),
              !.eof = @ + span,
              !.index = SecondaryIndexed(@, cachedOffset, t.eof)]

(* Step 2.5 of set_ddt_multi_level_v2: the cached table goes to the end of *)
(* the file, and blocks will go after the room it takes uncompressed.      *)
AfterSecondary(t, span) ==
    [t EXCEPT !.file = PutSecondary(@, t.eof, span),
              !.eof = @ + span,
              !.next = t.eof + TableSpan,
              !.index = SecondaryIndexed(@, cachedOffset, t.eof)]

Becomes(t) ==
    /\ file' = t.file
    /\ eof' = t.eof
    /\ nextPos' = t.next
    /\ index' = t.index

(***************************************************************************)
(* aaruf_write_sector with set_ddt_multi_level_v2.                         *)
(***************************************************************************)
Full == Len(buffer) = BlockSectors

(* The cached table was never written and is of another position. *)
NeedsFlush(i) == cached # NoTable /\ PositionOf(i) # cachedPosition

(* Otherwise a new table is made, or the cached one used.  A table that    *)
(* has a place in the file is loaded again, and that always fails: it is   *)
(* expected to be a primary table.                                         *)
CanSet(i) == cached = NoTable \/ primary[PositionOf(i)] = 0

(* The program writes a medium from its start, table by table. *)
Ahead(i) ==
    InOrder => \A p \in Position :
        primary[p] # 0 \/ (cached # NoTable /\ p = cachedPosition) => p <= PositionOf(i)

(* Mutant of SetEntry: the block goes on in the old entry's place. *)
SetEntryStale(i, d, t, table) ==
    LET found == IF Dedup THEN hashMap[d] ELSE NoEntry
        e == IF found # NoEntry THEN found
             ELSE [block |-> nextPos, offset |-> Len(t.buffer)]
    IN  /\ t.next <= MaxUnit
        /\ cached' = [table EXCEPT ![ItemOf(i)] = e]
        /\ cachedOffset' = 0
        /\ cachedPosition' = PositionOf(i)
        /\ buffer' = IF found # NoEntry THEN t.buffer ELSE Append(t.buffer, d)
        /\ hashMap' = IF Dedup THEN [hashMap EXCEPT ![d] = e] ELSE hashMap

(* Steps 5 and 6, and the sector that goes to the buffer of tail t. *)
SetEntry(i, d, t, table) ==
    LET found == IF Dedup THEN hashMap[d] ELSE NoEntry
        e == IF found # NoEntry THEN found
             ELSE [block |-> t.next, offset |-> Len(t.buffer)]
    IN  /\ t.next <= MaxUnit
        /\ cached' = [table EXCEPT ![ItemOf(i)] = e]
        /\ cachedOffset' = 0
        /\ cachedPosition' = PositionOf(i)
        /\ buffer' = IF found # NoEntry THEN t.buffer ELSE Append(t.buffer, d)
        /\ hashMap' = IF Dedup THEN [hashMap EXCEPT ![d] = e] ELSE hashMap

TableFor(i) == IF cached = NoTable THEN EmptyTable ELSE cached

WriteSector(i, d) ==
    /\ phase = "Open"
    /\ Ahead(i)
    /\ ~NeedsFlush(i)
    /\ CanSet(i)
    /\ ~Full
    /\ SetEntry(i, d, Tail0, TableFor(i))
    /\ UNCHANGED <<primary, nextPos, index, phase, disc>>

WriteSectorInNewBlock(i, d, span) ==
    /\ phase = "Open"
    /\ Ahead(i)
    /\ ~NeedsFlush(i)
    /\ CanSet(i)
    /\ Full
    /\ BlockFits(span)
    /\ LET t == AfterBlock(span)
       IN  SetEntry(i, d, t, TableFor(i)) /\ Becomes(t)
    /\ UNCHANGED <<primary, phase, root>>

(* The cached table is written before the sector gets a new one; the       *)
(* primary table in the file is rewritten at once.                         *)
WriteSectorInNewTable(i, d, span, tableSpan) ==
    /\ phase = "Open"
    /\ Ahead(i)
    /\ NeedsFlush(i)
    /\ BlockFits(span)
    /\ LET b == AfterBlock(span)
           t == AfterSecondary(b, tableSpan)
       IN  /\ Fits(b.eof, TableSpan)
           /\ primary' = [primary EXCEPT ![cachedPosition] = b.eof]
           /\ SetEntry(i, d, t, EmptyTable)
           /\ Becomes([t EXCEPT !.file = PutPrimaryData(@, primary')])
    /\ UNCHANGED <<phase, root>>

(* The sector is refused: the cached table could not be written. *)
WriteTableFails(i, span, n) ==
    /\ "table" \in Failures
    /\ phase = "Open"
    /\ Ahead(i)
    /\ NeedsFlush(i)
    /\ BlockFits(span)
    /\ LET b == AfterBlock(span)
       IN  /\ Fits(b.eof, n)
           /\ Becomes([b EXCEPT !.file = Tear(@, b.eof, n), !.eof = @ + n])
    /\ buffer' = <<>>
    /\ UNCHANGED <<tables, hashMap, phase, root>>

(* The sector is refused: the table was written and entered in the primary *)
(* table, whose copy in the file was torn.                                 *)
WritePrimaryFails(i, span, tableSpan) ==
    /\ "primary" \in Failures
    /\ phase = "Open"
    /\ Ahead(i)
    /\ NeedsFlush(i)
    /\ BlockFits(span)
    /\ LET b == AfterBlock(span)
           t == AfterSecondary(b, tableSpan)
       IN  /\ Fits(b.eof, TableSpan)
           /\ primary' = [primary EXCEPT ![cachedPosition] = b.eof]
           /\ Becomes([t EXCEPT !.file = Tear(@, PrimaryUnit, 1), !.next = b.next])
    /\ buffer' = <<>>
    /\ UNCHANGED <<cached, cachedOffset, cachedPosition, hashMap, phase, root>>

(***************************************************************************)
(* aaruf_finalize_write.  After a step that fails we assume of the program *)
(* that it only closes again: phase "Retry".                               *)
(***************************************************************************)
CloseLastBlock(span) ==
    /\ phase \in {"Open", "Retry"}
    /\ BlockFits(span)
    /\ Becomes(AfterBlock(span))
    /\ buffer' = <<>>
    /\ phase' = "Secondary"
    /\ UNCHANGED <<tables, hashMap, root>>

(* write_cached_secondary_ddt, at the end of the file. *)
SecondaryWritten(span) ==
    /\ phase = "Secondary"
    /\ cached # NoTable
    /\ Fits(eof, span)
    /\ primary' = [primary EXCEPT ![cachedPosition] = eof]
    /\ index' = SecondaryIndexed(index, cachedOffset, eof)
    /\ eof' = eof + span

CloseSecondary(span) ==
    /\ SecondaryWritten(span)
    /\ file' = PutPrimaryData(PutSecondary(file, eof, span), primary')
    /\ cached' = NoTable
    /\ cachedOffset' = 0
    /\ phase' = "Primary"
    /\ UNCHANGED <<cachedPosition, hashMap, buffer, nextPos, root>>

CloseSecondaryFails(span) ==
    /\ "primary" \in Failures
    /\ SecondaryWritten(span)
    /\ file' = Tear(PutSecondary(file, eof, span), PrimaryUnit, 1)
    /\ phase' = "Retry"
    /\ UNCHANGED <<cached, cachedOffset, cachedPosition, hashMap, buffer,
                   nextPos, root>>

CloseNoSecondary ==
    /\ phase = "Secondary"
    /\ cached = NoTable
    /\ phase' = "Primary"
    /\ UNCHANGED <<tables, writer, disc>>

(* write_primary_ddt: the header, with the CRC64 of the table, and the table. *)
ClosePrimary ==
    /\ phase = "Primary"
    /\ file' = Put(file, PrimaryUnit, [kind |-> "primary", span |-> 1,
                                       table |-> primary, sum |-> primary])
    /\ eof' = Larger(eof, PrimaryUnit + 1)
    /\ index' = {e \in index : e.type # "primary"}
                    \cup {[type |-> "primary", pos |-> PrimaryUnit]}
    /\ phase' = "Index"
    /\ UNCHANGED <<tables, hashMap, buffer, nextPos, root>>

ClosePrimaryFails ==
    /\ "primary" \in Failures
    /\ phase = "Primary"
    /\ file' = Tear(file, PrimaryUnit, 1)
    /\ phase' = "Retry"
    /\ UNCHANGED <<tables, writer, eof, root>>

(* write_index_block, with the header that makes the index the root. *)
CloseIndex(span) ==
    /\ phase = "Index"
    /\ Fits(eof, span)
    /\ file' = Put(file, eof, [kind |-> "index", span |-> span, entries |-> index])
    /\ eof' = eof + span
    /\ root' = eof
    /\ phase' = "Closed"
    /\ FreeContext

(***************************************************************************)
(* aaruf_open, and aaruf_read_sector with decode_ddt_multi_level_v2.       *)
(***************************************************************************)
DiskIndex == file[root].obj.entries

Openable ==
    /\ Intact(file, root, "index")
    /\ [type |-> "primary", pos |-> PrimaryUnit] \in DiskIndex
    /\ Intact(file, PrimaryUnit, "primary")
    /\ file[PrimaryUnit].obj.sum = file[PrimaryUnit].obj.table

OpenRead ==
    /\ phase = "Closed"
    /\ Openable
    /\ primary' = file[PrimaryUnit].obj.table
    /\ index' = DiskIndex
    /\ phase' = "Reading"
    /\ UNCHANGED <<cached, cachedOffset, cachedPosition, hashMap, buffer, nextPos,
                   disc>>

(* Mutant of CacheHit: any cached table will do. *)
CacheHitAny(i) == cached # NoTable

CacheHit(i) == cachedOffset = primary[PositionOf(i)]

(* The table of another position replaces the cached one. *)
ReadSector(i) ==
    /\ phase = "Reading"
    /\ ~CacheHit(i)
    /\ Intact(file, primary[PositionOf(i)], "secondary")
    /\ cached' = file[primary[PositionOf(i)]].obj.table
    /\ cachedOffset' = primary[PositionOf(i)]
    /\ UNCHANGED <<primary, cachedPosition, writer, phase, disc>>

(* The process ends, and the image with it unless it had its root. *)
Crash ==
    /\ phase \notin {"Closed", "Reading", "Lost"}
    /\ phase' = "Lost"
    /\ FreeContext
    /\ UNCHANGED disc

CloseRead ==
    /\ phase = "Reading"
    /\ phase' = "Closed"
    /\ FreeContext
    /\ UNCHANGED disc

WriteStep(i) ==
    \/ \E d \in Data :
          \/ WriteSector(i, d)
          \/ \E span \in Spans : WriteSectorInNewBlock(i, d, span)
          \/ \E span \in Spans, tableSpan \in 1..TableSpan :
                WriteSectorInNewTable(i, d, span, tableSpan)
    \/ \E span \in Spans, n \in 0..MaxTear : WriteTableFails(i, span, n)
    \/ \E span \in Spans, tableSpan \in 1..TableSpan : WritePrimaryFails(i, span, tableSpan)

CloseStep ==
    \/ \E span \in Spans : CloseLastBlock(span) \/ CloseIndex(span)
    \/ \E span \in 1..TableSpan : CloseSecondary(span) \/ CloseSecondaryFails(span)
    \/ CloseNoSecondary
    \/ ClosePrimary
    \/ ClosePrimaryFails

Next ==
    \/ \E i \in Slot : WriteStep(i) \/ ReadSector(i)
    \/ CloseStep
    \/ Crash
    \/ OpenRead
    \/ CloseRead

Spec == Init /\ [][Next]_vars

(***************************************************************************)
(* Properties.                                                             *)
(***************************************************************************)

(* Every variable has its type. *)
TypeOK ==
    /\ primary \in PrimaryTable
    /\ cached \in [Item -> Entry] \cup {NoTable}
    /\ cachedOffset \in Units
    /\ cachedPosition \in Position
    /\ hashMap \in [Data -> Entry]
    /\ buffer \in Seq(Data)
    /\ nextPos \in FirstBlock..(MaxUnit + 1)
    /\ index \in SUBSET IndexEntry
    /\ phase \in Phases
    /\ file \in [Units -> Cell]
    /\ eof \in 1..(MaxUnit + 1)
    /\ root \in Units

(* Every table the primary table leads to is whole in the file and listed  *)
(* by the index, while it is written and once it is read.                  *)
TablesReachable ==
    \A p \in Position : primary[p] # 0 =>
        /\ Intact(file, primary[p], "secondary")
        /\ [type |-> "secondary", pos |-> primary[p]] \in index

(* Nothing is written over a table that the primary table leads to, nor    *)
(* over a block that a table leads to: blocks go to next_block_position,   *)
(* tables to the end of the file, and the two never meet.                  *)
Live ==
    (UNION {Region(file, primary[p]) : p \in {p \in Position : primary[p] # 0}})
        \cup (UNION {Region(file, e.pos) : e \in {e \in index : e.type = "data"}})
LiveUntouched == [][\A q \in Live : file'[q] = file[q]]_vars

(***************************************************************************)
(* The image as a table of contents.                                       *)
(***************************************************************************)
Blank == [sector |-> "blank"]
Unreadable == [sector |-> "unreadable"]

SectorOf(e) ==
    IF e = NoEntry THEN Blank
    ELSE IF e.block = nextPos /\ e.offset < Len(buffer)
    THEN [sector |-> buffer[e.offset + 1]]
    ELSE IF Intact(file, e.block, "data") /\ e.offset < Len(file[e.block].obj.sectors)
    THEN [sector |-> file[e.block].obj.sectors[e.offset + 1]]
    ELSE Unreadable

(* The sector that a primary table leads to in the file. *)
InFile(table, i) ==
    IF table[PositionOf(i)] = 0 THEN Blank
    ELSE IF Intact(file, table[PositionOf(i)], "secondary")
    THEN SectorOf(file[table[PositionOf(i)]].obj.table[ItemOf(i)])
    ELSE Unreadable

(* What the writer keeps of its sectors: the cached table has the last     *)
(* word on its position.                                                   *)
Kept(i) ==
    IF cached # NoTable /\ cachedPosition = PositionOf(i)
    THEN SectorOf(cached[ItemOf(i)])
    ELSE InFile(primary, i)

KeptImage == [i \in Slot |-> Kept(i)]

(* A sector that is written without an error is the only one that changes, *)
(* also when it is the first of another table and the tables and blocks    *)
(* before it are moved out of memory.                                      *)
WriteStoresSector ==
    [][\A i \in Slot, d \in Data :
          \/ WriteSector(i, d)
          \/ \E span \in Spans : WriteSectorInNewBlock(i, d, span)
          \/ \E span \in Spans, tableSpan \in 1..TableSpan :
                WriteSectorInNewTable(i, d, span, tableSpan)
          => KeptImage' = [KeptImage EXCEPT ![i] = [sector |-> d]]]_vars

(* decode_ddt_multi_level_v2, with the cached table if it is the right one.*)
(* A medium of which no table was written for a sector is left aside: the  *)
(* code then reads the header of the file as a table.                      *)
Decoded(i) ==
    IF primary[PositionOf(i)] = 0 THEN Blank
    ELSE IF CacheHit(i) THEN SectorOf(cached[ItemOf(i)])
    ELSE InFile(primary, i)

NoImage == <<>>
DurableImage ==
    IF ~Openable THEN NoImage
    ELSE [i \in Slot |-> InFile(file[PrimaryUnit].obj.table, i)]

Promised == INSTANCE SectorStore WITH
    Address <- Slot,
    Content <- {Blank} \cup [sector : Data],
    image <- CASE phase \in {"Closed", "Lost"} -> DurableImage
               [] phase = "Reading" -> [i \in Slot |-> Decoded(i)]
               [] OTHER -> KeptImage,
    durable <- DurableImage,
    session <- CASE phase \in {"Closed", "Reading"} -> "closed"
                 [] phase = "Lost" -> "lost"
                 [] OTHER -> "open"

(* The image with two levels of tables implements the abstract store, for  *)
(* a program that does not go back: what it wrote is what is read after    *)
(* the close, in whatever order the tables are then loaded.                *)
ImplementsStore == Promised!StoreSpec
=============================================================================
