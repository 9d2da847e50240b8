------------------------- MODULE ImageWriterProofs --------------------------
(***************************************************************************)
(* Proofs about ImageWriter for every geometry, every set of contents and  *)
(* every failure of a write, in three parts.                               *)
(*                                                                         *)
(* Safety.  The types, and that the writer never damages what it has       *)
(* written: the table of an open image never dangles, and the image the    *)
(* header points at stays whole, at every unit, through every failure and  *)
(* every crash.  The argument: what is relied upon lies below a limit (the *)
(* open block's position, or the end of the file for what a close has just *)
(* written), and every write lands at or after that limit.                 *)
(*                                                                         *)
(* Contents.  What the writer stores, not only that it stores something,   *)
(* and what the index lists.                                               *)
(*                                                                         *)
(* Refinement.  The writer implements SectorStore.                         *)
(***************************************************************************)
EXTENDS ImageWriter, TLAPS

USE GeometryAssumption, SizeAssumption

(***************************************************************************)
(* The operators of the model.                                             *)
(***************************************************************************)
Block == DataBlock \cup DdtBlock \cup IndexBlock

(* Every address that is not refused has a slot in the table. *)
LEMMA CorrectedInSlot ==
    \A a \in Address : Corrected(a) \in Slot
BY DEF Address, Corrected, Slot, Larger

(* The zero word is an entry. *)
LEMMA NoEntryIsEntry == NoEntry \in Entry
BY StatusAssumption DEF NoEntry, Entry, Units

(* A remainder is within its divisor. *)
LEMMA OffsetInBlock ==
    \A n \in Nat : n % BlockSectors \in 0..(BlockSectors - 1)
BY SMT

(* set_ddt_entry makes an entry or keeps one. *)
LEMMA EntryForIsEntry ==
    ASSUME NEW found \in Entry, NEW offset \in Nat, NEW block \in Units,
           NEW s \in Statuses
    PROVE  EntryFor(found, offset, block, s) \in Entry
<1>1. offset % BlockSectors \in 0..(BlockSectors - 1)
  BY OffsetInBlock
<1>2. QED
  BY <1>1 DEF EntryFor, Entry

(* A file stays a file when a structure is written. *)
LEMMA PutIsFile ==
    ASSUME NEW f \in [Units -> Cell], NEW p \in Units, NEW o \in Block
    PROVE  Put(f, p, o) \in [Units -> Cell]
<1>1. [start |-> p, obj |-> o] \in Cell
  BY DEF Cell, Block
<1>2. QED
  BY <1>1 DEF Put

(* A torn write leaves a file too. *)
LEMMA TearIsFile ==
    ASSUME NEW f \in [Units -> Cell], NEW p, NEW n
    PROVE  Tear(f, p, n) \in [Units -> Cell]
<1>1. NoCell \in Cell
  BY DEF Cell, NoCell, Units
<1>2. QED
  BY <1>1 DEF Tear

(* The types of the variables a program without an image has. *)
LEMMA FreeContextTyped ==
    ASSUME TypeOK, FreeContext, UNCHANGED file, UNCHANGED eof,
           phase' \in Phases, disk' \in [index : Units, zstd : BOOLEAN]
    PROVE  TypeOK'
<1>1. EmptyDdt \in [Slot -> Entry] /\ EmptyMap \in [Hashes -> Entry]
  BY NoEntryIsEntry DEF EmptyDdt, EmptyMap
<1>2. 1 \in 1..(MaxUnit + 1) /\ 0 \in Units
  BY DEF Units
<1>3. <<>> \in Seq(Data)
  OBVIOUS
<1>4. QED
  BY <1>1, <1>2, <1>3 DEF TypeOK, FreeContext

(* What a block that is written does to the types. *)
LEMMA CloseBlockTyped ==
    ASSUME TypeOK, NEW span \in Spans, NEW z \in BOOLEAN, CloseBlock(span, z)
    PROVE  /\ file' \in [Units -> Cell]
           /\ eof' \in 1..(MaxUnit + 1)
           /\ nextPos' \in 1..(MaxUnit + 1)
           /\ nextPos' = nextPos + span
           /\ index' \in SUBSET IndexEntry
           /\ dirtyIndex' = TRUE
           /\ hasZstd' \in BOOLEAN
<1>1. nextPos \in Units
  BY DEF TypeOK, CloseBlock, Fits, Units, Spans
<1>2. [kind |-> "data", span |-> span, zstd |-> z, size |-> sectorSize,
       sectors |-> buffer] \in Block
  BY DEF TypeOK, Block, DataBlock
<1>3. file' \in [Units -> Cell]
  BY <1>1, <1>2, PutIsFile DEF TypeOK, CloseBlock
<1>4. index' \in SUBSET IndexEntry
  BY <1>1 DEF TypeOK, CloseBlock, PushDataBlock, IndexEntry
<1>5. eof' \in 1..(MaxUnit + 1) /\ nextPos' \in 1..(MaxUnit + 1)
  BY DEF TypeOK, CloseBlock, Fits, Larger, Spans
<1>6. QED
  BY <1>3, <1>4, <1>5 DEF TypeOK, CloseBlock, PushDataBlock

(* A block that fails to be written keeps every type. *)
LEMMA CloseBlockFailsTyped ==
    ASSUME TypeOK, NEW n \in 0..MaxTear, CloseBlockFails(n), nextPos \in Units,
           phase' \in Phases
    PROVE  TypeOK'
<1>1. file' \in [Units -> Cell]
  BY TearIsFile DEF TypeOK, CloseBlockFails
<1>2. index' \in SUBSET IndexEntry
  BY DEF TypeOK, CloseBlockFails, PushDataBlock, IndexEntry
<1>3. eof' \in 1..(MaxUnit + 1)
  BY DEF TypeOK, CloseBlockFails, Fits, Larger
<1>4. QED
  BY <1>1, <1>2, <1>3 DEF TypeOK, CloseBlockFails, PushDataBlock

(* What the tail of aaruf_write_sector does to the types. *)
LEMMA StoreTyped ==
    ASSUME TypeOK, NEW a \in Address, NEW d \in Data, NEW s \in Statuses,
           NEW buf \in Seq(Data), NEW p \in 1..(MaxUnit + 1),
           Store(a, d, s, buf, p)
    PROVE  /\ ddt' \in [Slot -> Entry]
           /\ hashMap' \in [Hashes -> Entry]
           /\ buffer' \in Seq(Data)
           /\ sectorSize' \in Nat
           /\ dirtyDdt' = TRUE
<1> DEFINE found == IF Dedup THEN hashMap[Hash[d]] ELSE NoEntry
           e     == EntryFor(found, Len(buf), p, s)
<1>1. Hash[d] \in Hashes /\ SizeOf[d] \in Nat
  BY DataAssumption
<1>2. found \in Entry
  BY <1>1, NoEntryIsEntry DEF TypeOK
<1>3. p \in Units
  BY DEF Store, Units
<1>4. e \in Entry
  BY <1>2, <1>3, EntryForIsEntry
<1>5. ddt' \in [Slot -> Entry]
  <2>1. ddt' = [ddt EXCEPT ![Corrected(a)] = e]
    BY DEF Store, SetDdtEntry
  <2>2. QED
    BY <2>1, <1>4 DEF TypeOK
<1>6. hashMap' \in [Hashes -> Entry]
  <2>1. hashMap' = hashMap \/ hashMap' = [hashMap EXCEPT ![Hash[d]] = e]
    BY DEF Store
  <2>2. QED
    BY <2>1, <1>4 DEF TypeOK
<1>7. buffer' \in Seq(Data)
  <2>1. buffer' = buf \/ buffer' = Append(buf, d)
    BY DEF Store
  <2>2. QED
    BY <2>1
<1>8. sectorSize' \in Nat
  BY <1>1 DEF Store, TypeOK
<1>9. QED
  BY <1>5, <1>6, <1>7, <1>8 DEF Store, SetDdtEntry

(***************************************************************************)
(* Type correctness.  A block that fails to be written is indexed at       *)
(* next_block_position, which is a unit of the file only because a sector  *)
(* was buffered for it: that is the one fact TypeOK lacks to be inductive. *)
(***************************************************************************)
OpenBlockHasUnit == buffer # <<>> => nextPos <= MaxUnit

TypeInv == TypeOK /\ OpenBlockHasUnit

(* A structure appended at the end of the file. *)
LEMMA AppendTyped ==
    ASSUME TypeOK, NEW o \in Block, o.span \in Spans, Fits(eof, o.span)
    PROVE  /\ eof \in Units
           /\ Put(file, eof, o) \in [Units -> Cell]
           /\ eof + o.span \in 1..(MaxUnit + 1)
<1>1. eof \in Units
  BY DEF TypeOK, Fits, Spans, Units
<1>2. QED
  BY <1>1, PutIsFile DEF TypeOK, Fits, Spans

(* What a torn structure at the end of the file leaves. *)
LEMMA AppendFailsTyped ==
    ASSUME TypeOK, NEW n \in 0..MaxTear, Fits(eof, n)
    PROVE  /\ Tear(file, eof, n) \in [Units -> Cell]
           /\ eof + n \in 1..(MaxUnit + 1)
BY TearIsFile DEF TypeOK, Fits

(* The index and the table that aaruf_open loads from a file it accepts. *)
LEMMA DiskTyped ==
    ASSUME TypeOK, Openable
    PROVE  /\ DiskIndex \in SUBSET IndexEntry
           /\ DiskDdtPos \in DdtPositions
           /\ DiskDdtPos \in Units
           /\ DiskDdt \in [Slot -> Entry]
<1>1. disk.index \in Units
  BY DEF TypeOK
<1>2. file[disk.index].obj \in IndexBlock
  <2>1. file[disk.index].obj.kind = "index"
    BY DEF Openable, Intact
  <2>2. file[disk.index] \in Cell
    BY <1>1 DEF TypeOK
  <2>3. QED
    BY <2>1, <2>2 DEF Cell, DataBlock, DdtBlock, Hole
<1>3. DiskIndex \in SUBSET IndexEntry
  BY <1>2 DEF DiskIndex, IndexBlock
<1>4. DiskDdtPos \in DdtPositions
  BY DEF Openable, DiskDdtPos
<1>5. DiskDdtPos \in Units
  BY <1>4 DEF DdtPositions
<1>6. file[DiskDdtPos].obj \in DdtBlock
  <2>1. file[DiskDdtPos].obj.kind = "ddt"
    BY <1>4 DEF Openable, Intact
  <2>2. file[DiskDdtPos] \in Cell
    BY <1>5 DEF TypeOK
  <2>3. QED
    BY <2>1, <2>2 DEF Cell, DataBlock, IndexBlock, Hole
<1>7. QED
  BY <1>3, <1>4, <1>5, <1>6 DEF DiskDdt, DdtBlock

(* A new image has its types. *)
LEMMA InitTypeInv == Init => TypeInv
<1> SUFFICES ASSUME Init PROVE TypeInv
  OBVIOUS
<1>1. EmptyDdt \in [Slot -> Entry] /\ EmptyMap \in [Hashes -> Entry]
  BY NoEntryIsEntry DEF EmptyDdt, EmptyMap
<1>2. [q \in Units |-> NoCell] \in [Units -> Cell]
  BY DEF Cell, NoCell, Units
<1>3. <<>> \in Seq(Data) /\ 0 \in Units
  BY DEF Units
<1>4. [index |-> 0, zstd |-> FALSE] \in [index : Units, zstd : BOOLEAN]
  BY <1>3
<1>5. TypeOK
  <2>1. ddt \in [Slot -> Entry] /\ hashMap \in [Hashes -> Entry]
    BY <1>1 DEF Init
  <2>2. file \in [Units -> Cell]
    BY <1>2 DEF Init
  <2>3. /\ header \in [index : Units, zstd : BOOLEAN]
        /\ disk \in [index : Units, zstd : BOOLEAN]
    BY <1>4 DEF Init
  <2>4. /\ buffer \in Seq(Data)
        /\ sectorSize \in Nat
        /\ nextPos \in 1..(MaxUnit + 1)
        /\ index \in SUBSET IndexEntry
        /\ eof \in 1..(MaxUnit + 1)
    BY <1>3 DEF Init
  <2>5. /\ hasZstd \in BOOLEAN
        /\ useZstd \in BOOLEAN
        /\ dirtyDdt \in BOOLEAN
        /\ dirtyIndex \in BOOLEAN
        /\ phase \in Phases
    BY OptionAssumption DEF Init, Phases
  <2>6. QED
    BY <2>1, <2>2, <2>3, <2>4, <2>5 DEF TypeOK
<1>6. QED
  BY <1>5 DEF Init, TypeInv, OpenBlockHasUnit

(* Each step of aaruf_write_sector. *)
LEMMA WriteTypeInv ==
    ASSUME TypeInv, WriteStep
    PROVE  TypeInv'
<1> USE DEF TypeInv
<1>1. ASSUME NEW a \in Address, NEW d \in Data, NEW s \in Written,
             WriteSector(a, d, s)
      PROVE  TypeInv'
  <2>1. s \in Statuses /\ nextPos <= MaxUnit
    BY <1>1, StatusAssumption DEF WriteSector, Store
  <2>2. /\ ddt' \in [Slot -> Entry]
        /\ hashMap' \in [Hashes -> Entry]
        /\ buffer' \in Seq(Data)
        /\ sectorSize' \in Nat
        /\ dirtyDdt' = TRUE
    <3>1. buffer \in Seq(Data) /\ nextPos \in 1..(MaxUnit + 1)
      BY DEF TypeOK
    <3>2. QED
      BY <1>1, <2>1, <3>1, StoreTyped DEF WriteSector
  <2>3. QED
    BY <1>1, <2>1, <2>2 DEF WriteSector, TypeOK, OpenBlockHasUnit, disc
<1>2. ASSUME NEW a \in Address, NEW d \in Data, NEW s \in Written,
             NEW span \in Spans, NEW z \in BOOLEAN,
             WriteSectorInNewBlock(a, d, s, span, z)
      PROVE  TypeInv'
  <2>1. s \in Statuses /\ nextPos + span <= MaxUnit
    BY <1>2, StatusAssumption DEF WriteSectorInNewBlock, Store
  <2>2. /\ file' \in [Units -> Cell]
        /\ eof' \in 1..(MaxUnit + 1)
        /\ nextPos' \in 1..(MaxUnit + 1)
        /\ nextPos' = nextPos + span
        /\ index' \in SUBSET IndexEntry
        /\ dirtyIndex' = TRUE
        /\ hasZstd' \in BOOLEAN
    BY <1>2, CloseBlockTyped DEF WriteSectorInNewBlock
  <2>3. /\ ddt' \in [Slot -> Entry]
        /\ hashMap' \in [Hashes -> Entry]
        /\ buffer' \in Seq(Data)
        /\ sectorSize' \in Nat
        /\ dirtyDdt' = TRUE
    <3>1. <<>> \in Seq(Data) /\ nextPos + span \in 1..(MaxUnit + 1)
      BY <2>2
    <3>2. QED
      BY <1>2, <2>1, <3>1, StoreTyped DEF WriteSectorInNewBlock
  <2>4. QED
    BY <1>2, <2>1, <2>2, <2>3 DEF WriteSectorInNewBlock, TypeOK, OpenBlockHasUnit
<1>3. ASSUME NEW d \in Data, NEW n \in 0..MaxTear, WriteSectorFails(d, n)
      PROVE  TypeInv'
  <2>1. nextPos \in Units
    BY <1>3 DEF WriteSectorFails, MustClose, OpenBlockHasUnit, TypeOK, Units
  <2>2. TypeOK'
    BY <1>3, <2>1, CloseBlockFailsTyped DEF WriteSectorFails, TypeOK
  <2>3. QED
    BY <1>3, <2>2 DEF WriteSectorFails, CloseBlockFails, OpenBlockHasUnit
<1>4. ASSUME NEW a \in Address, WriteGenerable(a)
      PROVE  TypeInv'
  <2>1. [NoEntry EXCEPT !.status = Generable] \in Entry
    BY <1>4, NoEntryIsEntry, StatusAssumption
       DEF WriteGenerable, IsGenerated, Entry, NoEntry
  <2>2. ddt' \in [Slot -> Entry]
    BY <1>4, <2>1 DEF WriteGenerable, SetDdtEntry, TypeOK
  <2>3. QED
    BY <1>4, <2>2 DEF WriteGenerable, SetDdtEntry, TypeOK, OpenBlockHasUnit, disc
<1>5. QED
  BY <1>1, <1>2, <1>3, <1>4 DEF WriteStep

(* Each step of aaruf_close. *)
LEMMA CloseTypeInv ==
    ASSUME TypeInv, CloseStep
    PROVE  TypeInv'
<1> USE DEF TypeInv
<1>1. CASE CloseHeader
  <2>1. header' \in [index : Units, zstd : BOOLEAN]
    BY <1>1 DEF CloseHeader, TypeOK
  <2>2. QED
    BY <1>1, <2>1 DEF CloseHeader, TypeOK, OpenBlockHasUnit, Phases
<1>2. CASE CloseHeaderFails
  BY <1>2, FreeContextTyped
     DEF CloseHeaderFails, disc, FreeContext, OpenBlockHasUnit, TypeOK, Phases
<1>3. ASSUME NEW span \in Spans, NEW z \in BOOLEAN, CloseLastBlock(span, z)
      PROVE  TypeInv'
  <2>1. /\ file' \in [Units -> Cell]
        /\ eof' \in 1..(MaxUnit + 1)
        /\ nextPos' \in 1..(MaxUnit + 1)
        /\ index' \in SUBSET IndexEntry
        /\ dirtyIndex' = TRUE
        /\ hasZstd' \in BOOLEAN
    BY <1>3, CloseBlockTyped DEF CloseLastBlock
  <2>2. <<>> \in Seq(Data)
    OBVIOUS
  <2>3. QED
    BY <1>3, <2>1, <2>2 DEF CloseLastBlock, TypeOK, OpenBlockHasUnit, Phases
<1>4. ASSUME NEW span \in Spans, NEW z \in BOOLEAN, CloseDdt(span, z)
      PROVE  TypeInv'
  <2> DEFINE o == [kind |-> "ddt", span |-> span, zstd |-> z, table |-> ddt]
  <2>1. o \in Block /\ o.span = span
    BY DEF Block, DdtBlock, TypeOK
  <2>2. /\ eof \in Units
        /\ Put(file, eof, o) \in [Units -> Cell]
        /\ eof + span \in 1..(MaxUnit + 1)
    BY <1>4, <2>1, AppendTyped DEF CloseDdt
  <2>3. file' \in [Units -> Cell] /\ eof' \in 1..(MaxUnit + 1)
    BY <1>4, <2>2 DEF CloseDdt
  <2>4. index' \in SUBSET IndexEntry
    BY <1>4, <2>2 DEF CloseDdt, IndexWithoutDdt, IndexEntry, TypeOK
  <2>5. QED
    BY <1>4, <2>3, <2>4 DEF CloseDdt, TypeOK, OpenBlockHasUnit, Phases
<1>5. CASE CloseNoBlock \/ CloseCleanDdt \/ CloseRootFails
  BY <1>5 DEF CloseNoBlock, CloseCleanDdt, CloseRootFails, memory, disc, TypeOK,
              OpenBlockHasUnit, Phases
<1>6. ASSUME NEW span \in Spans, CloseIndex(span)
      PROVE  TypeInv'
  <2> DEFINE o == [kind |-> "index", span |-> span, entries |-> index]
  <2>1. o \in Block /\ o.span = span
    BY DEF Block, IndexBlock, TypeOK
  <2>2. /\ eof \in Units
        /\ Put(file, eof, o) \in [Units -> Cell]
        /\ eof + span \in 1..(MaxUnit + 1)
    BY <1>6, <2>1, AppendTyped DEF CloseIndex
  <2>3. file' \in [Units -> Cell] /\ eof' \in 1..(MaxUnit + 1)
    BY <1>6, <2>2 DEF CloseIndex
  <2>4. header' \in [index : Units, zstd : BOOLEAN]
    BY <1>6, <2>2 DEF CloseIndex, TypeOK
  <2>5. QED
    BY <1>6, <2>3, <2>4 DEF CloseIndex, TypeOK, OpenBlockHasUnit, Phases
<1>7. CASE CloseRoot
  <2>1. disk' \in [index : Units, zstd : BOOLEAN]
    BY <1>7 DEF CloseRoot, TypeOK
  <2>2. QED
    BY <1>7, <2>1, FreeContextTyped DEF CloseRoot, FreeContext, OpenBlockHasUnit, Phases
<1>8. CASE CloseCleanIndex
  BY <1>8, FreeContextTyped
     DEF CloseCleanIndex, disc, FreeContext, OpenBlockHasUnit, TypeOK, Phases
<1>9. ASSUME NEW n \in 0..MaxTear,
             CloseLastBlockFails(n) \/ CloseDdtFails(n) \/ CloseIndexFails(n)
      PROVE  TypeInv'
  <2>1. CASE CloseLastBlockFails(n)
    <3>1. nextPos \in Units
      BY <2>1 DEF CloseLastBlockFails, OpenBlockHasUnit, TypeOK, Units
    <3>2. TypeOK'
      BY <2>1, <3>1, CloseBlockFailsTyped DEF CloseLastBlockFails, FailedClose, Phases
    <3>3. QED
      BY <2>1, <3>2 DEF CloseLastBlockFails, CloseBlockFails, OpenBlockHasUnit
  <2>2. CASE CloseDdtFails(n) \/ CloseIndexFails(n)
    <3>1. file' \in [Units -> Cell] /\ eof' \in 1..(MaxUnit + 1)
      BY <2>2, AppendFailsTyped DEF CloseDdtFails, CloseIndexFails
    <3>2. phase' \in Phases
      BY <2>2 DEF CloseDdtFails, CloseIndexFails, FailedClose, Phases
    <3>3. QED
      BY <2>2, <3>1, <3>2
         DEF CloseDdtFails, CloseIndexFails, memory, TypeOK, OpenBlockHasUnit
  <2>3. QED
    BY <1>9, <2>1, <2>2
<1>10. QED
  BY <1>1, <1>2, <1>3, <1>4, <1>5, <1>6, <1>7, <1>8, <1>9 DEF CloseStep

(* Every step, of the program, of the file system or of a crash. *)
LEMMA NextTypeInv ==
    ASSUME TypeInv, [Next]_vars
    PROVE  TypeInv'
<1> USE DEF TypeInv
<1>1. CASE Crash
  BY <1>1, FreeContextTyped DEF Crash, disc, FreeContext, OpenBlockHasUnit, TypeOK, Phases
<1>2. CASE Create
  <2>1. EmptyDdt \in [Slot -> Entry]
    BY NoEntryIsEntry DEF EmptyDdt
  <2>2. file' \in [Units -> Cell]
    BY <1>2 DEF Create, Cell, NoCell, Units
  <2>3. disk' \in [index : Units, zstd : BOOLEAN]
    BY <1>2 DEF Create, Units
  <2>4. QED
    BY <1>2, <2>1, <2>2, <2>3, OptionAssumption
       DEF Create, TypeOK, OpenBlockHasUnit, Phases
<1>3. CASE Resume
  <2>1. DiskIndex \in SUBSET IndexEntry /\ DiskDdt \in [Slot -> Entry]
    BY <1>3, DiskTyped DEF Resume
  <2>2. nextPos' \in 1..(MaxUnit + 1) /\ nextPos' <= MaxUnit
    BY <1>3 DEF Resume, ResumePosition, TypeOK
  <2>3. QED
    BY <1>3, <2>1, <2>2 DEF Resume, disc, TypeOK, OpenBlockHasUnit, Phases
<1>4. CASE UNCHANGED vars
  BY <1>4 DEF vars, memory, disc, TypeOK, OpenBlockHasUnit
<1>5. QED
  BY <1>1, <1>2, <1>3, <1>4, WriteTypeInv, CloseTypeInv DEF Next

(* The strengthened invariant holds in every state of the writer. *)
LEMMA TypeInvariant == Spec => []TypeInv
<1>1. Init => TypeInv
  BY InitTypeInv
<1>2. TypeInv /\ [Next]_vars => TypeInv'
  BY NextTypeInv
<1>3. QED
  BY <1>1, <1>2, PTL DEF Spec

(* Every variable of the writer keeps its type: no offset leaves its block *)
(* and no position leaves the file, whatever is written, fails or crashes. *)
THEOREM TypeCorrect == Spec => []TypeOK
<1>1. TypeInv => TypeOK
  BY DEF TypeInv
<1>2. QED
  BY <1>1, TypeInvariant, PTL


(***************************************************************************)
(* What is whole below a limit, so that no write at or after it matters.   *)
(***************************************************************************)
Whole(f, p, kind, limit) ==
    /\ Intact(f, p, kind)
    /\ p + f[p].obj.span <= limit

Resolves(f, e, limit) ==
    /\ Whole(f, e.block, "data", limit)
    /\ Located(f[e.block].obj.sectors, f[e.block].obj.size, e.offset)

GoodTable(f, t, limit) ==
    \A i \in Slot : t[i].block # 0 => Resolves(f, t[i], limit)

(* What an index entry promises. *)
GoodIndexed(f, e, limit) ==
    /\ Whole(f, e.pos, e.type, limit)
    /\ e.type = "ddt" => GoodTable(f, f[e.pos].obj.table, limit)

GoodIndex(f, es, limit) ==
    /\ \A e \in es : GoodIndexed(f, e, limit)
    /\ \E e \in es : e.type = "ddt"

GoodRoot(f, p, limit) ==
    /\ Whole(f, p, "index", limit)
    /\ GoodIndex(f, f[p].obj.entries, limit)

(* An entry leads below unit p, where the open block buf will start, or    *)
(* into that block.                                                        *)
GoodEntry(f, e, p, buf, size) ==
    e.block # 0 =>
        Resolves(f, e, p) \/ (e.block = p /\ Located(buf, size, e.offset))

(* File g is file f, changed at or after the limit only. *)
Agree(f, g, limit) == \A q \in Units : q < limit => g[q] = f[q]

(***************************************************************************)
(* The inductive invariant.                                                *)
(***************************************************************************)
FileInv ==
    /\ nextPos <= eof
    /\ file[0] = NoCell

SameSize(buf, size) == \A k \in 1..Len(buf) : SizeOf[buf[k]] = size

BufferInv == Len(buffer) <= BlockSectors /\ SameSize(buffer, sectorSize)

EntryInv ==
    /\ \A i \in Slot : GoodEntry(file, ddt[i], nextPos, buffer, sectorSize)
    /\ \A h \in Hashes : GoodEntry(file, hashMap[h], nextPos, buffer, sectorSize)

(* The entry of a block whose write failed waits for the block. *)
DataIndexed ==
    \A e \in index : e.type = "data" =>
        Whole(file, e.pos, "data", nextPos) \/ (e.pos = nextPos /\ buffer # <<>>)

(* The table listed in the index is used again when the table in memory is *)
(* clean, and once it has been written.                                    *)
CleanTable == ~dirtyDdt => \A e \in index : e.type = "ddt" => GoodIndexed(file, e, nextPos)
WrittenTable ==
    phase \in {"Index", "Root"} =>
        \A e \in index : e.type = "ddt" => GoodIndexed(file, e, eof)
SomeTable ==
    (~dirtyDdt /\ ~Ended) \/ phase \in {"Index", "Root"} =>
        \E e \in index : e.type = "ddt"

(* An index in front of the open block is still to be replaced, and no     *)
(* block is open then.                                                     *)
PhaseInv ==
    /\ phase \in {"Ddt", "Index", "Root", "Retry"} => buffer = <<>>
    /\ header.index >= nextPos => buffer = <<>> /\ phase # "Open"
    /\ ~Ended /\ disk.index >= nextPos => header.index >= nextPos
    /\ phase = "Root" => header.index >= nextPos

EndedInv ==
    Ended => /\ buffer = <<>>
             /\ index = {}
             /\ hashMap = EmptyMap
             /\ ddt = EmptyDdt
             /\ header.index = 0
             /\ ~dirtyDdt
             /\ nextPos = 1

RootLimit(p) == IF Ended \/ p >= nextPos THEN eof ELSE nextPos

HeaderRoot == header.index # 0 => GoodRoot(file, header.index, RootLimit(header.index))
DiskRoot == disk.index # 0 => GoodRoot(file, disk.index, RootLimit(disk.index))

SafeInv ==
    /\ TypeInv
    /\ FileInv
    /\ BufferInv
    /\ EntryInv
    /\ DataIndexed
    /\ CleanTable
    /\ WrittenTable
    /\ SomeTable
    /\ PhaseInv
    /\ EndedInv
    /\ HeaderRoot
    /\ DiskRoot

(***************************************************************************)
(* Structures below a limit.                                               *)
(***************************************************************************)

(* A unit belongs to a structure of one unit at least. *)
LEMMA CellSpan ==
    ASSUME NEW f \in [Units -> Cell], NEW p \in Units
    PROVE  f[p].obj.span \in Nat /\ f[p].obj.span >= 1
<1>1. f[p].obj \in DataBlock \cup DdtBlock \cup IndexBlock \cup {Hole}
  BY DEF Cell
<1>2. f[p].obj.span \in Spans \/ f[p].obj.span = 1
  BY <1>1 DEF DataBlock, DdtBlock, IndexBlock, Hole
<1>3. QED
  BY <1>2 DEF Spans

(* A structure knows what kind it is. *)
LEMMA CellKind ==
    ASSUME NEW f \in [Units -> Cell], NEW p \in Units
    PROVE  /\ f[p].obj.kind = "index" => f[p].obj \in IndexBlock
           /\ f[p].obj.kind = "ddt" => f[p].obj \in DdtBlock
<1>1. f[p].obj \in DataBlock \cup DdtBlock \cup IndexBlock \cup {Hole}
  BY DEF Cell
<1>2. QED
  BY <1>1 DEF DataBlock, DdtBlock, IndexBlock, Hole

(* A structure below a limit survives every change at or after the limit,  *)
(* and lies below every later limit.                                       *)
LEMMA WholeKept ==
    ASSUME NEW f \in [Units -> Cell], NEW g, NEW l \in Nat, NEW m \in Nat,
           Agree(f, g, l), l <= m,
           NEW p \in Units, NEW kind, Whole(f, p, kind, l)
    PROVE  Whole(g, p, kind, m) /\ g[p] = f[p] /\ p < l
<1>1. f[p].obj.span \in Nat /\ f[p].obj.span >= 1
  BY CellSpan
<1>2. p \in Nat /\ p < l
  BY <1>1 DEF Whole, Units
<1>3. g[p] = f[p]
  BY <1>2 DEF Agree
<1>4. \A q \in Units : p <= q /\ q < p + f[p].obj.span => g[q] = f[q]
  BY <1>1, <1>2 DEF Agree, Whole, Units
<1>5. Intact(g, p, kind)
  BY <1>3, <1>4 DEF Intact, Whole
<1>6. p + g[p].obj.span <= m
  BY <1>1, <1>2, <1>3 DEF Whole
<1>7. QED
  BY <1>2, <1>3, <1>5, <1>6 DEF Whole

(* So do the sectors of a block. *)
LEMMA ResolvesKept ==
    ASSUME NEW f \in [Units -> Cell], NEW g, NEW l \in Nat, NEW m \in Nat,
           Agree(f, g, l), l <= m,
           NEW e \in Entry, Resolves(f, e, l)
    PROVE  Resolves(g, e, m)
<1>1. e.block \in Units
  BY DEF Entry
<1>2. Whole(g, e.block, "data", m) /\ g[e.block] = f[e.block]
  BY <1>1, WholeKept DEF Resolves
<1>3. QED
  BY <1>2 DEF Resolves

(* So does all that a table leads to. *)
LEMMA TableKept ==
    ASSUME NEW f \in [Units -> Cell], NEW g, NEW l \in Nat, NEW m \in Nat,
           Agree(f, g, l), l <= m,
           NEW t \in [Slot -> Entry], GoodTable(f, t, l)
    PROVE  GoodTable(g, t, m)
<1> SUFFICES ASSUME NEW i \in Slot, t[i].block # 0
             PROVE  Resolves(g, t[i], m)
  BY DEF GoodTable
<1>1. t[i] \in Entry
  OBVIOUS
<1>2. Resolves(f, t[i], l)
  BY DEF GoodTable
<1>3. QED
  BY <1>1, <1>2, ResolvesKept

(* So does what an index entry stands for. *)
LEMMA IndexedKept ==
    ASSUME NEW f \in [Units -> Cell], NEW g, NEW l \in Nat, NEW m \in Nat,
           Agree(f, g, l), l <= m,
           NEW e \in IndexEntry, GoodIndexed(f, e, l)
    PROVE  GoodIndexed(g, e, m)
<1>1. e.pos \in Units
  BY DEF IndexEntry
<1>2. Whole(g, e.pos, e.type, m) /\ g[e.pos] = f[e.pos]
  BY <1>1, WholeKept DEF GoodIndexed
<1>3. ASSUME e.type = "ddt"
      PROVE  GoodTable(g, g[e.pos].obj.table, m)
  <2>1. f[e.pos].obj \in DdtBlock
    BY <1>1, <1>3, CellKind DEF GoodIndexed, Whole, Intact
  <2>2. f[e.pos].obj.table \in [Slot -> Entry]
    BY <2>1 DEF DdtBlock
  <2>3. GoodTable(g, f[e.pos].obj.table, m)
    BY <1>3, <2>2, TableKept DEF GoodIndexed
  <2>4. QED
    BY <2>3, <1>2
<1>4. QED
  BY <1>2, <1>3 DEF GoodIndexed

(* So does a whole image. *)
LEMMA RootKept ==
    ASSUME NEW f \in [Units -> Cell], NEW g, NEW l \in Nat, NEW m \in Nat,
           Agree(f, g, l), l <= m,
           NEW p \in Units, GoodRoot(f, p, l)
    PROVE  GoodRoot(g, p, m)
<1>1. Whole(g, p, "index", m) /\ g[p] = f[p]
  BY WholeKept DEF GoodRoot
<1>2. f[p].obj.entries \in SUBSET IndexEntry
  BY CellKind DEF GoodRoot, Whole, Intact, IndexBlock
<1>3. \A e \in f[p].obj.entries : GoodIndexed(g, e, m)
  BY <1>2, IndexedKept DEF GoodRoot, GoodIndex
<1>4. QED
  BY <1>1, <1>3 DEF GoodRoot, GoodIndex

(* A structure that is written is whole, and what is before it is as it    *)
(* was.                                                                    *)
LEMMA PutWhole ==
    ASSUME NEW f \in [Units -> Cell], NEW p \in Units, NEW o \in Block,
           Fits(p, o.span)
    PROVE  /\ Whole(Put(f, p, o), p, o.kind, p + o.span)
           /\ Put(f, p, o)[p].obj = o
           /\ Agree(f, Put(f, p, o), p)
<1> DEFINE g == Put(f, p, o)
           c == [start |-> p, obj |-> o]
<1>1. o.span \in Nat /\ o.span >= 1
  BY DEF Block, DataBlock, DdtBlock, IndexBlock, Spans
<1>2. \A q \in Units : g[q] = IF p <= q /\ q < p + o.span THEN c ELSE f[q]
  BY DEF Put
<1>3. g[p] = c
  BY <1>1, <1>2 DEF Units
<1>4. \A q \in Units : p <= q /\ q < p + o.span => g[q] = c
  BY <1>2
<1>5. Agree(f, g, p)
  BY <1>2 DEF Agree, Units
<1> HIDE DEF g
<1>6. Whole(g, p, o.kind, p + o.span)
  BY <1>1, <1>3, <1>4 DEF Whole, Intact, Units
<1>7. g[p].obj = o
  BY <1>3
<1>8. QED
  BY <1>5, <1>6, <1>7 DEF g

(* A torn write leaves what is before it as it was. *)
LEMMA TearAgrees ==
    ASSUME NEW f, NEW p \in Nat, NEW n \in Nat
    PROVE  Agree(f, Tear(f, p, n), p)
BY DEF Agree, Tear, Units

(***************************************************************************)
(* Entries of the table and of the deduplication map.                      *)
(***************************************************************************)

(* The zero word leads nowhere. *)
LEMMA NoEntryGood ==
    ASSUME NEW f, NEW p, NEW buf, NEW size
    PROVE  GoodEntry(f, NoEntry, p, buf, size)
BY DEF GoodEntry, NoEntry

(* An entry stays good when its status is replaced. *)
LEMMA StatusKeepsEntry ==
    ASSUME NEW f, NEW p, NEW buf, NEW size, NEW e \in Entry, NEW s,
           GoodEntry(f, e, p, buf, size)
    PROVE  GoodEntry(f, [e EXCEPT !.status = s], p, buf, size)
BY DEF GoodEntry, Resolves, Entry

(* An entry stays good when a sector of the same size joins the open block.*)
LEMMA AppendKeepsEntry ==
    ASSUME NEW f, NEW p, NEW buf \in Seq(Data), NEW size, NEW d \in Data,
           NEW e \in Entry, GoodEntry(f, e, p, buf, size)
    PROVE  GoodEntry(f, e, p, Append(buf, d), size)
<1>1. e.offset \in Nat
  BY DEF Entry
<1>2. Located(buf, size, e.offset) => Located(Append(buf, d), size, e.offset)
  BY <1>1 DEF Located
<1>3. QED
  BY <1>2 DEF GoodEntry

(* No entry leads into a block that has no sector. *)
LEMMA EmptyBlockEntry ==
    ASSUME NEW f, NEW p, NEW size, NEW e \in Entry, NEW size2, NEW buf,
           GoodEntry(f, e, p, <<>>, size)
    PROVE  GoodEntry(f, e, p, buf, size2)
<1>1. ~Located(<<>>, size, e.offset)
  BY DEF Located, Entry
<1>2. QED
  BY <1>1 DEF GoodEntry

(* An offset below the number of sectors of a block is kept whole. *)
LEMMA SmallRemainder ==
    ASSUME NEW n \in Nat, n < BlockSectors
    PROVE  n % BlockSectors = n
BY SMT

(* The entry made for the sector that joins the open block leads to it. *)
LEMMA NewEntryGood ==
    ASSUME NEW f, NEW p \in Units, NEW buf \in Seq(Data), NEW d \in Data, NEW s,
           Len(buf) < BlockSectors, SameSize(Append(buf, d), SizeOf[d])
    PROVE  GoodEntry(f, EntryFor(NoEntry, Len(buf), p, s), p, Append(buf, d), SizeOf[d])
<1> DEFINE e == EntryFor(NoEntry, Len(buf), p, s)
<1>1. e.block = p /\ e.offset = Len(buf)
  BY SmallRemainder DEF EntryFor
<1>2. Located(Append(buf, d), SizeOf[d], Len(buf))
  BY DEF Located, SameSize
<1>3. QED
  BY <1>1, <1>2 DEF GoodEntry

(* What the tail of aaruf_write_sector does to the entries, when the open  *)
(* block holds buf and will start at unit p.                               *)
LEMMA StoreEntries ==
    ASSUME TypeOK, NEW a \in Address, NEW d \in Data, NEW s \in Statuses,
           NEW f, NEW buf \in Seq(Data), NEW p \in Units,
           Store(a, d, s, buf, p),
           Len(buf) < BlockSectors, SameSize(buf, sectorSize),
           buf # <<>> => sectorSize = SizeOf[d],
           \A i \in Slot : GoodEntry(f, ddt[i], p, buf, sectorSize),
           \A h \in Hashes : GoodEntry(f, hashMap[h], p, buf, sectorSize)
    PROVE  /\ Len(buffer') <= BlockSectors
           /\ SameSize(buffer', sectorSize')
           /\ buf # <<>> => buffer' # <<>>
           /\ \A i \in Slot : GoodEntry(f, ddt'[i], p, buffer', sectorSize')
           /\ \A h \in Hashes : GoodEntry(f, hashMap'[h], p, buffer', sectorSize')
<1> DEFINE found == IF Dedup THEN hashMap[Hash[d]] ELSE NoEntry
           e     == EntryFor(found, Len(buf), p, s)
<1>1. Hash[d] \in Hashes /\ SizeOf[d] \in Nat
  BY DataAssumption
<1>2. /\ found \in Entry
      /\ ddt \in [Slot -> Entry]
      /\ hashMap \in [Hashes -> Entry]
  BY <1>1, NoEntryIsEntry DEF TypeOK
<1>3. GoodEntry(f, found, p, buf, sectorSize)
  BY <1>1, NoEntryGood
<1>4. ddt' = [ddt EXCEPT ![Corrected(a)] = e]
  BY DEF Store, SetDdtEntry
<1> HIDE DEF found, e
<1>5. CASE found # NoEntry
  <2>1. buffer' = buf /\ hashMap' = hashMap
    BY <1>5 DEF Store, found
  <2>2. sectorSize' = IF buf = <<>> THEN 0 ELSE sectorSize
    BY <1>5 DEF Store, found
  <2>3. \A x \in Entry : GoodEntry(f, x, p, buf, sectorSize)
                            => GoodEntry(f, x, p, buffer', sectorSize')
    BY <2>1, <2>2, EmptyBlockEntry
  <2>4. GoodEntry(f, e, p, buf, sectorSize) /\ e \in Entry
    <3>1. e = [found EXCEPT !.status = s]
      BY <1>5 DEF EntryFor, e
    <3>2. e \in Entry
      BY <1>2, EntryForIsEntry DEF e
    <3>3. GoodEntry(f, [found EXCEPT !.status = s], p, buf, sectorSize)
      BY <1>2, <1>3, StatusKeepsEntry
    <3>4. QED
      BY <3>1, <3>2, <3>3
  <2>5. \A i \in Slot : ddt'[i] \in Entry /\ GoodEntry(f, ddt'[i], p, buf, sectorSize)
    BY <1>2, <1>4, <2>4
  <2>6. SameSize(buffer', sectorSize')
    BY <2>1, <2>2 DEF SameSize
  <2>7. Len(buffer') <= BlockSectors /\ (buf # <<>> => buffer' # <<>>)
    BY <2>1
  <2>8. \A h \in Hashes : GoodEntry(f, hashMap'[h], p, buffer', sectorSize')
    BY <1>2, <2>1, <2>3
  <2>9. QED
    BY <2>3, <2>5, <2>6, <2>7, <2>8
<1>6. CASE found = NoEntry
  <2>1. buffer' = Append(buf, d)
    BY <1>6 DEF Store, found, e
  <2>2. sectorSize' = SizeOf[d]
    BY <1>6 DEF Store, found, e
  <2>3. SameSize(buffer', sectorSize')
    BY <2>1, <2>2 DEF SameSize
  <2>4. \A x \in Entry : GoodEntry(f, x, p, buf, sectorSize)
                            => GoodEntry(f, x, p, buffer', sectorSize')
    <3>1. CASE buf = <<>>
      BY <3>1, EmptyBlockEntry
    <3>2. CASE buf # <<>>
      BY <3>2, <2>1, <2>2, AppendKeepsEntry
    <3>3. QED
      BY <3>1, <3>2
  <2>5. GoodEntry(f, e, p, buffer', sectorSize')
    BY <1>6, <2>1, <2>2, <2>3, NewEntryGood DEF e
  <2>6. \A i \in Slot : GoodEntry(f, ddt'[i], p, buffer', sectorSize')
    BY <1>2, <1>4, <2>4, <2>5
  <2>7. \A h \in Hashes : GoodEntry(f, hashMap'[h], p, buffer', sectorSize')
    <3>1. hashMap' = hashMap \/ hashMap' = [hashMap EXCEPT ![Hash[d]] = e]
      BY <1>6 DEF Store, found, e
    <3>2. QED
      BY <3>1, <1>2, <2>4, <2>5
  <2>8. Len(buffer') = Len(buf) + 1
    BY <2>1
  <2>9. Len(buffer') <= BlockSectors /\ buffer' # <<>>
    BY <2>8
  <2>10. QED
    BY <2>3, <2>6, <2>7, <2>9
<1>7. QED
  BY <1>5, <1>6

(***************************************************************************)
(* What each kind of write keeps.                                          *)
(***************************************************************************)

(* A block is open in an image that is open, at a unit of the file, after  *)
(* the index that either header points at.                                 *)
LEMMA OpenBlockFacts ==
    ASSUME SafeInv, buffer # <<>>
    PROVE  /\ ~Ended
           /\ nextPos \in Units /\ nextPos >= 1 /\ nextPos <= eof
           /\ header.index < nextPos
           /\ disk.index < nextPos
BY DEF SafeInv, TypeInv, TypeOK, OpenBlockHasUnit, FileInv, PhaseInv, EndedInv, Units

(* The roots lie where RootLimit says, also after a change that leaves the *)
(* units below next_block_position alone, when a block is open.            *)
LEMMA RootsKeptAtBlock ==
    ASSUME SafeInv, buffer # <<>>, NEW g, NEW m \in Nat,
           Agree(file, g, nextPos), nextPos <= m
    PROVE  /\ header.index # 0 => GoodRoot(g, header.index, m)
           /\ disk.index # 0 => GoodRoot(g, disk.index, m)
<1>1. ~Ended /\ nextPos \in Nat /\ header.index < nextPos /\ disk.index < nextPos
  BY OpenBlockFacts DEF Units
<1>2. file \in [Units -> Cell] /\ header.index \in Units /\ disk.index \in Units
  BY DEF SafeInv, TypeInv, TypeOK
<1>3. RootLimit(header.index) = nextPos /\ RootLimit(disk.index) = nextPos
  BY <1>1, <1>2 DEF RootLimit, Units
<1>4. header.index # 0 => GoodRoot(g, header.index, m)
  BY <1>1, <1>2, <1>3, RootKept DEF SafeInv, HeaderRoot
<1>5. disk.index # 0 => GoodRoot(g, disk.index, m)
  BY <1>1, <1>2, <1>3, RootKept DEF SafeInv, DiskRoot
<1>6. QED
  BY <1>4, <1>5

(* aaruf_close_current_block: every entry that led into the open block     *)
(* leads into the written one, and all that was whole stays so.            *)
LEMMA CloseBlockSafe ==
    ASSUME SafeInv, buffer # <<>>, NEW span \in Spans, NEW z \in BOOLEAN,
           CloseBlock(span, z)
    PROVE  /\ FileInv'
           /\ nextPos' = nextPos + span
           /\ \A e \in Entry : GoodEntry(file, e, nextPos, buffer, sectorSize)
                => \A buf, size : GoodEntry(file', e, nextPos', buf, size)
           /\ \A e \in index' : e.type = "data" => Whole(file', e.pos, "data", nextPos')
           /\ ~dirtyDdt => \A e \in index' : e.type = "ddt"
                                => GoodIndexed(file', e, nextPos')
           /\ (\E e \in index : e.type = "ddt") => \E e \in index' : e.type = "ddt"
           /\ header.index < nextPos' /\ disk.index < nextPos'
           /\ header.index # 0 => GoodRoot(file', header.index, nextPos')
           /\ disk.index # 0 => GoodRoot(file', disk.index, nextPos')
<1> DEFINE o == [kind |-> "data", span |-> span, zstd |-> z, size |-> sectorSize,
                 sectors |-> buffer]
<1>1. /\ TypeOK
      /\ file \in [Units -> Cell]
      /\ index \in SUBSET IndexEntry
      /\ header.index \in Nat /\ disk.index \in Nat
      /\ eof \in Nat
  BY DEF SafeInv, TypeInv, TypeOK, Units
<1>2. nextPos \in Units /\ nextPos \in Nat /\ nextPos >= 1 /\ nextPos <= eof
  BY OpenBlockFacts DEF Units
<1>3. span \in Nat /\ span >= 1 /\ nextPos' = nextPos + span /\ nextPos' \in Nat
  BY <1>2 DEF Spans, CloseBlock
<1>4. o \in Block /\ o.span = span /\ Fits(nextPos, o.span)
  BY <1>1 DEF TypeOK, Block, DataBlock, CloseBlock
<1>5. file' = Put(file, nextPos, o)
  BY DEF CloseBlock
<1>6. /\ Whole(file', nextPos, "data", nextPos')
      /\ file'[nextPos].obj = o
      /\ Agree(file, file', nextPos)
  <2>1. /\ Whole(Put(file, nextPos, o), nextPos, o.kind, nextPos + o.span)
        /\ Put(file, nextPos, o)[nextPos].obj = o
        /\ Agree(file, Put(file, nextPos, o), nextPos)
    BY <1>1, <1>2, <1>4, PutWhole
  <2>2. QED
    BY <2>1, <1>3, <1>5
<1> HIDE DEF o
<1>7. FileInv'
  <2>1. file'[0] = NoCell
    BY <1>2, <1>6 DEF Agree, SafeInv, FileInv, Units
  <2>2. nextPos' <= eof'
    BY <1>1, <1>2, <1>3 DEF CloseBlock, Larger
  <2>3. QED
    BY <2>1, <2>2 DEF FileInv
<1>8. ASSUME NEW e \in Entry, GoodEntry(file, e, nextPos, buffer, sectorSize),
             NEW buf, NEW size
      PROVE  GoodEntry(file', e, nextPos', buf, size)
  <2>1. CASE Resolves(file, e, nextPos)
    BY <2>1, <1>1, <1>2, <1>3, <1>6, ResolvesKept DEF GoodEntry
  <2>2. CASE e.block = nextPos /\ Located(buffer, sectorSize, e.offset)
    BY <2>2, <1>6 DEF GoodEntry, Resolves, o
  <2>3. QED
    BY <1>8, <2>1, <2>2 DEF GoodEntry
<1>9. ASSUME NEW e \in index', e.type = "data"
      PROVE  Whole(file', e.pos, "data", nextPos')
  <2>1. CASE e.pos = nextPos
    BY <2>1, <1>6
  <2>2. CASE e \in index /\ e.pos # nextPos
    <3>1. e.pos \in Units /\ Whole(file, e.pos, "data", nextPos)
      BY <1>1, <1>9, <2>2 DEF SafeInv, DataIndexed, IndexEntry
    <3>2. QED
      BY <3>1, <1>1, <1>2, <1>3, <1>6, WholeKept
  <2>3. QED
    BY <2>1, <2>2 DEF CloseBlock, PushDataBlock
<1>10. ASSUME ~dirtyDdt, NEW e \in index', e.type = "ddt"
       PROVE  GoodIndexed(file', e, nextPos')
  <2>1. e \in index
    BY <1>10 DEF CloseBlock, PushDataBlock
  <2>2. e \in IndexEntry /\ GoodIndexed(file, e, nextPos)
    BY <1>1, <1>10, <2>1 DEF SafeInv, CleanTable
  <2>3. QED
    BY <2>2, <1>1, <1>2, <1>3, <1>6, IndexedKept
<1>11. (\E e \in index : e.type = "ddt") => \E e \in index' : e.type = "ddt"
  BY DEF CloseBlock, PushDataBlock
<1>12. /\ header.index # 0 => GoodRoot(file', header.index, nextPos')
       /\ disk.index # 0 => GoodRoot(file', disk.index, nextPos')
  BY <1>2, <1>3, <1>6, RootsKeptAtBlock
<1>13. header.index < nextPos' /\ disk.index < nextPos'
  BY <1>1, <1>2, <1>3, OpenBlockFacts
<1>14. QED
  BY <1>3, <1>7, <1>8, <1>9, <1>10, <1>11, <1>12, <1>13

(* A block that fails to be written: the table in memory still leads into  *)
(* the buffer, and the torn units are those of the open block.             *)
LEMMA CloseBlockFailsSafe ==
    ASSUME SafeInv, buffer # <<>>, NEW n \in 0..MaxTear, CloseBlockFails(n),
           phase' = "Open"
    PROVE  SafeInv'
<1>1. /\ TypeOK
      /\ file \in [Units -> Cell]
      /\ index \in SUBSET IndexEntry
      /\ ddt \in [Slot -> Entry]
      /\ hashMap \in [Hashes -> Entry]
      /\ header.index \in Nat /\ disk.index \in Nat
      /\ eof \in Nat
  BY DEF SafeInv, TypeInv, TypeOK, Units
<1>2. nextPos \in Units /\ nextPos \in Nat /\ nextPos >= 1 /\ nextPos <= eof
  BY OpenBlockFacts DEF Units
<1>3. /\ ddt' = ddt /\ hashMap' = hashMap /\ buffer' = buffer
      /\ sectorSize' = sectorSize /\ nextPos' = nextPos /\ header' = header
      /\ dirtyDdt' = dirtyDdt /\ disk' = disk
      /\ index' = index \cup {[type |-> "data", pos |-> nextPos]}
      /\ eof' = Larger(eof, nextPos + n)
  BY DEF CloseBlockFails, PushDataBlock
<1>4. Agree(file, file', nextPos)
  BY <1>2, TearAgrees DEF CloseBlockFails
<1>5. TypeInv'
  <2>1. TypeOK'
    BY <1>1, <1>2, CloseBlockFailsTyped DEF Phases
  <2>2. QED
    BY <1>3, <2>1 DEF TypeInv, OpenBlockHasUnit, SafeInv
<1>6. FileInv'
  BY <1>1, <1>2, <1>3, <1>4 DEF SafeInv, FileInv, Agree, Larger, Units
<1>7. BufferInv'
  BY <1>3 DEF SafeInv, BufferInv, SameSize
<1>8. EntryInv'
  <2>1. \A e \in Entry : GoodEntry(file, e, nextPos, buffer, sectorSize)
            => GoodEntry(file', e, nextPos, buffer, sectorSize)
    BY <1>1, <1>2, <1>4, ResolvesKept DEF GoodEntry
  <2>2. QED
    BY <2>1, <1>1, <1>3 DEF SafeInv, EntryInv
<1>9. DataIndexed'
  <2>1. \A e \in index : Whole(file, e.pos, "data", nextPos)
            => Whole(file', e.pos, "data", nextPos)
    BY <1>1, <1>2, <1>4, WholeKept DEF IndexEntry
  <2>2. QED
    BY <2>1, <1>3 DEF SafeInv, DataIndexed
<1>10. CleanTable'
  BY <1>1, <1>2, <1>3, <1>4, IndexedKept DEF SafeInv, CleanTable
<1>11. WrittenTable' /\ SomeTable' /\ PhaseInv' /\ EndedInv'
  <2>1. ~Ended /\ ~Ended' /\ header.index < nextPos /\ disk.index < nextPos
    BY OpenBlockFacts DEF Ended
  <2>2. QED
    BY <1>1, <1>2, <1>3, <2>1
       DEF SafeInv, WrittenTable, SomeTable, PhaseInv, EndedInv
<1>12. HeaderRoot' /\ DiskRoot'
  <2>1. header.index < nextPos /\ disk.index < nextPos /\ ~Ended'
    BY OpenBlockFacts DEF Ended
  <2>2. /\ header'.index # 0 => GoodRoot(file', header'.index, nextPos')
        /\ disk'.index # 0 => GoodRoot(file', disk'.index, nextPos')
    BY <1>2, <1>3, <1>4, RootsKeptAtBlock
  <2>3. RootLimit(header.index)' = nextPos' /\ RootLimit(disk.index)' = nextPos'
    BY <1>1, <1>2, <1>3, <2>1 DEF RootLimit
  <2>4. QED
    BY <2>2, <2>3 DEF HeaderRoot, DiskRoot
<1>13. QED
  BY <1>5, <1>6, <1>7, <1>8, <1>9, <1>10, <1>11, <1>12 DEF SafeInv

(* A sector that joins the open block, or is found by its hash. *)
LEMMA WriteSectorSafe ==
    ASSUME SafeInv, NEW a \in Address, NEW d \in Data, NEW s \in Written,
           WriteSector(a, d, s)
    PROVE  SafeInv'
<1>1. /\ nextPos' = nextPos /\ index' = index /\ header' = header
      /\ phase' = phase /\ file' = file /\ eof' = eof /\ disk' = disk
      /\ phase = "Open" /\ dirtyDdt' = TRUE
      /\ Store(a, d, s, buffer, nextPos)
      /\ ~MustClose(d)
  BY DEF WriteSector, disc, Store, SetDdtEntry
<1>2. TypeInv'
  BY WriteTypeInv DEF WriteStep, SafeInv
<1>3. TypeOK /\ buffer \in Seq(Data) /\ nextPos \in Units /\ s \in Statuses
  BY <1>1, StatusAssumption DEF SafeInv, TypeInv, TypeOK, Store, Units
<1>4. Len(buffer) < BlockSectors /\ (buffer # <<>> => sectorSize = SizeOf[d])
  BY <1>1, <1>3 DEF MustClose, SafeInv, BufferInv
<1>5. /\ Len(buffer') <= BlockSectors
      /\ SameSize(buffer', sectorSize')
      /\ buffer # <<>> => buffer' # <<>>
      /\ \A i \in Slot : GoodEntry(file, ddt'[i], nextPos, buffer', sectorSize')
      /\ \A h \in Hashes : GoodEntry(file, hashMap'[h], nextPos, buffer', sectorSize')
  BY <1>1, <1>3, <1>4, StoreEntries DEF SafeInv, BufferInv, EntryInv
<1>6. FileInv' /\ BufferInv'
  BY <1>1, <1>5 DEF SafeInv, FileInv, BufferInv, SameSize
<1>7. EntryInv'
  BY <1>1, <1>5 DEF EntryInv
<1>8. DataIndexed'
  BY <1>1, <1>5 DEF SafeInv, DataIndexed
<1>9. CleanTable' /\ WrittenTable' /\ SomeTable'
  BY <1>1 DEF CleanTable, WrittenTable, SomeTable
<1>10. PhaseInv' /\ EndedInv'
  BY <1>1 DEF SafeInv, PhaseInv, EndedInv, Ended
<1>11. HeaderRoot' /\ DiskRoot'
  BY <1>1 DEF SafeInv, HeaderRoot, DiskRoot, RootLimit, Ended
<1>12. QED
  BY <1>2, <1>6, <1>7, <1>8, <1>9, <1>10, <1>11 DEF SafeInv

(* A sector that finds the open block full, or of another sector size. *)
LEMMA WriteSectorInNewBlockSafe ==
    ASSUME SafeInv, NEW a \in Address, NEW d \in Data, NEW s \in Written,
           NEW span \in Spans, NEW z \in BOOLEAN,
           WriteSectorInNewBlock(a, d, s, span, z)
    PROVE  SafeInv'
<1>1. /\ phase = "Open" /\ phase' = "Open"
      /\ header' = header /\ disk' = disk
      /\ buffer # <<>>
      /\ CloseBlock(span, z)
      /\ Store(a, d, s, <<>>, nextPos + span)
      /\ dirtyDdt' = TRUE
  BY DEF WriteSectorInNewBlock, MustClose, Store, SetDdtEntry
<1>2. TypeInv'
  BY WriteTypeInv DEF WriteStep, SafeInv
<1>3. /\ FileInv'
      /\ nextPos' = nextPos + span
      /\ \A e \in Entry : GoodEntry(file, e, nextPos, buffer, sectorSize)
           => \A buf, size : GoodEntry(file', e, nextPos', buf, size)
      /\ \A e \in index' : e.type = "data" => Whole(file', e.pos, "data", nextPos')
      /\ header.index < nextPos' /\ disk.index < nextPos'
      /\ header.index # 0 => GoodRoot(file', header.index, nextPos')
      /\ disk.index # 0 => GoodRoot(file', disk.index, nextPos')
  BY <1>1, CloseBlockSafe
<1>4. /\ TypeOK /\ s \in Statuses
      /\ nextPos' \in Units
      /\ ddt \in [Slot -> Entry] /\ hashMap \in [Hashes -> Entry]
      /\ header.index \in Nat /\ disk.index \in Nat
  <2>1. TypeOK
    BY DEF SafeInv, TypeInv
  <2>2. s \in Statuses
    BY StatusAssumption
  <2>3. nextPos' \in Units
    <3>1. nextPos + span <= MaxUnit
      BY <1>1 DEF Store
    <3>2. nextPos' \in 1..(MaxUnit + 1) /\ MaxUnit \in Nat
      BY <1>2, SizeAssumption DEF TypeInv, TypeOK
    <3> QED BY <1>3, <3>1, <3>2 DEF Units
  <2>4. ddt \in [Slot -> Entry] /\ hashMap \in [Hashes -> Entry]
    BY <2>1 DEF TypeOK
  <2>5. /\ header \in [index : Units, zstd : BOOLEAN]
        /\ disk \in [index : Units, zstd : BOOLEAN]
    BY <2>1 DEF TypeOK
  <2>6. header.index \in Nat /\ disk.index \in Nat
    BY <2>5 DEF Units
  <2> QED BY <2>1, <2>2, <2>3, <2>4, <2>6
<1>5. /\ \A i \in Slot : GoodEntry(file', ddt[i], nextPos', <<>>, sectorSize)
      /\ \A h \in Hashes : GoodEntry(file', hashMap[h], nextPos', <<>>, sectorSize)
  BY <1>3, <1>4 DEF SafeInv, EntryInv
<1>6. /\ Len(buffer') <= BlockSectors
      /\ SameSize(buffer', sectorSize')
      /\ \A i \in Slot : GoodEntry(file', ddt'[i], nextPos', buffer', sectorSize')
      /\ \A h \in Hashes : GoodEntry(file', hashMap'[h], nextPos', buffer', sectorSize')
  <2>1. <<>> \in Seq(Data) /\ Len(<<>>) < BlockSectors /\ SameSize(<<>>, sectorSize)
    BY DEF SameSize
  <2>2. Store(a, d, s, <<>>, nextPos')
    BY <1>1, <1>3
  <2>3. QED
    BY <1>4, <1>5, <2>1, <2>2, StoreEntries
<1>7. BufferInv' /\ EntryInv'
  BY <1>6 DEF BufferInv, SameSize, EntryInv
<1>8. DataIndexed'
  BY <1>3 DEF DataIndexed
<1>9. CleanTable' /\ WrittenTable' /\ SomeTable'
  BY <1>1 DEF CleanTable, WrittenTable, SomeTable
<1>10. PhaseInv' /\ EndedInv'
  BY <1>1, <1>3, <1>4 DEF PhaseInv, EndedInv, Ended, Units
<1>11. HeaderRoot' /\ DiskRoot'
  <2>1. RootLimit(header.index)' = nextPos' /\ RootLimit(disk.index)' = nextPos'
    BY <1>1, <1>3, <1>4 DEF RootLimit, Ended, Units
  <2>2. QED
    BY <1>1, <1>3, <2>1 DEF HeaderRoot, DiskRoot
<1>12. QED
  BY <1>2, <1>3, <1>7, <1>8, <1>9, <1>10, <1>11 DEF SafeInv

(* A sector that is generated has a table entry only. *)
LEMMA WriteGenerableSafe ==
    ASSUME SafeInv, NEW a \in Address, WriteGenerable(a)
    PROVE  SafeInv'
<1>1. /\ nextPos' = nextPos /\ index' = index /\ header' = header
      /\ phase' = phase /\ file' = file /\ eof' = eof /\ disk' = disk
      /\ hashMap' = hashMap /\ buffer' = buffer /\ sectorSize' = sectorSize
      /\ phase = "Open" /\ dirtyDdt' = TRUE
      /\ ddt' = [ddt EXCEPT ![Corrected(a)] = [NoEntry EXCEPT !.status = Generable]]
  BY DEF WriteGenerable, disc, SetDdtEntry
<1>2. TypeInv'
  BY WriteTypeInv DEF WriteStep, SafeInv
<1>3. ddt \in [Slot -> Entry]
  BY DEF SafeInv, TypeInv, TypeOK
<1>4. EntryInv'
  <2>1. GoodEntry(file, [NoEntry EXCEPT !.status = Generable], nextPos, buffer, sectorSize)
    BY DEF GoodEntry, NoEntry
  <2>2. QED
    BY <1>1, <1>3, <2>1 DEF SafeInv, EntryInv
<1>5. FileInv' /\ BufferInv' /\ DataIndexed'
  BY <1>1 DEF SafeInv, FileInv, BufferInv, SameSize, DataIndexed
<1>6. CleanTable' /\ WrittenTable' /\ SomeTable'
  BY <1>1 DEF CleanTable, WrittenTable, SomeTable
<1>7. PhaseInv' /\ EndedInv'
  BY <1>1 DEF SafeInv, PhaseInv, EndedInv, Ended
<1>8. HeaderRoot' /\ DiskRoot'
  BY <1>1 DEF SafeInv, HeaderRoot, DiskRoot, RootLimit, Ended
<1>9. QED
  BY <1>2, <1>4, <1>5, <1>6, <1>7, <1>8 DEF SafeInv

(* Each step of aaruf_write_sector. *)
LEMMA WriteSafe ==
    ASSUME SafeInv, WriteStep
    PROVE  SafeInv'
<1>1. ASSUME NEW d \in Data, NEW n \in 0..MaxTear, WriteSectorFails(d, n)
      PROVE  SafeInv'
  BY <1>1, CloseBlockFailsSafe DEF WriteSectorFails, MustClose
<1>2. QED
  BY <1>1, WriteSectorSafe, WriteSectorInNewBlockSafe, WriteGenerableSafe DEF WriteStep

(***************************************************************************)
(* aaruf_close.                                                            *)
(***************************************************************************)

(* The context is freed or lost: what is left is the image the header      *)
(* points at, which may reach up to the end of the file.                   *)
LEMMA FreeContextSafe ==
    ASSUME SafeInv, TypeInv', FreeContext, phase' \in {"Closed", "Lost"},
           UNCHANGED file, UNCHANGED eof,
           disk'.index # 0 => GoodRoot(file, disk'.index, eof)
    PROVE  SafeInv'
<1>1. /\ Ended' /\ buffer' = <<>> /\ index' = {} /\ nextPos' = 1
      /\ ddt' = EmptyDdt /\ hashMap' = EmptyMap /\ header'.index = 0
      /\ dirtyDdt' = FALSE /\ sectorSize' = 0
      /\ phase' # "Open" /\ phase' \notin {"Index", "Root"}
  BY DEF FreeContext, Ended
<1>2. eof >= 1 /\ file[0] = NoCell
  BY DEF SafeInv, TypeInv, TypeOK, FileInv
<1>3. FileInv' /\ BufferInv'
  BY <1>1, <1>2 DEF FileInv, BufferInv, SameSize
<1>4. EntryInv'
  BY <1>1, NoEntryGood DEF EntryInv, EmptyDdt, EmptyMap
<1>5. DataIndexed' /\ CleanTable' /\ WrittenTable' /\ SomeTable'
  BY <1>1 DEF DataIndexed, CleanTable, WrittenTable, SomeTable
<1>6. PhaseInv' /\ EndedInv'
  BY <1>1 DEF PhaseInv, EndedInv
<1>7. HeaderRoot' /\ DiskRoot'
  BY <1>1 DEF HeaderRoot, DiskRoot, RootLimit
<1>8. QED
  BY <1>3, <1>4, <1>5, <1>6, <1>7 DEF SafeInv

(* Where an image starts, it lies below the end of the file. *)
LEMMA RootsBelowEof ==
    ASSUME SafeInv
    PROVE  /\ header.index # 0 => GoodRoot(file, header.index, eof)
           /\ disk.index # 0 => GoodRoot(file, disk.index, eof)
<1>1. /\ file \in [Units -> Cell]
      /\ header.index \in Units /\ disk.index \in Units
      /\ nextPos \in Nat /\ eof \in Nat /\ nextPos <= eof
  BY DEF SafeInv, TypeInv, TypeOK, FileInv
<1>2. Agree(file, file, nextPos) /\ Agree(file, file, eof)
  BY DEF Agree
<1>3. \A p \in Units : GoodRoot(file, p, RootLimit(p)) => GoodRoot(file, p, eof)
  BY <1>1, <1>2, RootKept DEF RootLimit
<1>4. QED
  BY <1>1, <1>3 DEF SafeInv, HeaderRoot, DiskRoot

(* What a change at the end of the file keeps, when no block is open. *)
LEMMA AppendSafe ==
    ASSUME SafeInv, Agree(file, file', eof), eof' \in Nat, eof' >= eof,
           nextPos' = nextPos
    PROVE  /\ FileInv'
           /\ \A e \in Entry : GoodEntry(file, e, nextPos, buffer, sectorSize)
                => GoodEntry(file', e, nextPos, buffer, sectorSize)
           /\ \A e \in index : Whole(file, e.pos, "data", nextPos)
                => Whole(file', e.pos, "data", nextPos)
           /\ \A e \in index : GoodIndexed(file, e, nextPos)
                => GoodIndexed(file', e, nextPos)
           /\ \A p \in Units : GoodRoot(file, p, nextPos) => GoodRoot(file', p, nextPos)
           /\ \A p \in Units : GoodRoot(file, p, eof) => GoodRoot(file', p, eof')
<1>1. /\ file \in [Units -> Cell]
      /\ index \in SUBSET IndexEntry
      /\ nextPos \in Nat /\ eof \in Nat /\ nextPos <= eof
      /\ eof >= 1 /\ file[0] = NoCell
  BY DEF SafeInv, TypeInv, TypeOK, FileInv
<1>2. Agree(file, file', nextPos)
  BY <1>1 DEF Agree, Units
<1>3. FileInv'
  BY <1>1 DEF FileInv, Agree, Units
<1>4. \A e \in Entry : GoodEntry(file, e, nextPos, buffer, sectorSize)
                => GoodEntry(file', e, nextPos, buffer, sectorSize)
  BY <1>1, <1>2, ResolvesKept DEF GoodEntry
<1>5. \A e \in index : Whole(file, e.pos, "data", nextPos)
                => Whole(file', e.pos, "data", nextPos)
  BY <1>1, <1>2, WholeKept DEF IndexEntry
<1>6. \A e \in index : GoodIndexed(file, e, nextPos) => GoodIndexed(file', e, nextPos)
  BY <1>1, <1>2, IndexedKept
<1>7. \A p \in Units : GoodRoot(file, p, nextPos) => GoodRoot(file', p, nextPos)
  BY <1>1, <1>2, RootKept
<1>8. \A p \in Units : GoodRoot(file, p, eof) => GoodRoot(file', p, eof')
  BY <1>1, RootKept
<1>9. QED
  BY <1>3, <1>4, <1>5, <1>6, <1>7, <1>8

(* A table or an index that fails to be written at the end of the file,    *)
(* after which the program may write on unless an index awaits its root.   *)
LEMMA AppendFailsSafe ==
    ASSUME SafeInv, TypeInv', phase \in {"Ddt", "Index"}, NEW n \in 0..MaxTear,
           file' = Tear(file, eof, n), eof' = eof + n, FailedClose,
           UNCHANGED <<memory, disk>>
    PROVE  SafeInv'
<1>1. /\ ddt' = ddt /\ hashMap' = hashMap /\ buffer' = buffer
      /\ sectorSize' = sectorSize /\ nextPos' = nextPos /\ header' = header
      /\ dirtyDdt' = dirtyDdt /\ disk' = disk /\ index' = index
  BY DEF memory
<1>2. /\ ddt \in [Slot -> Entry] /\ hashMap \in [Hashes -> Entry]
      /\ header.index \in Units /\ disk.index \in Units
      /\ nextPos \in Nat /\ eof \in Nat /\ n \in Nat
      /\ buffer = <<>>
  BY DEF SafeInv, TypeInv, TypeOK, PhaseInv
<1>3. Agree(file, file', eof) /\ eof' \in Nat /\ eof' >= eof
  BY <1>2, TearAgrees
<1>4. /\ FileInv'
      /\ \A e \in Entry : GoodEntry(file, e, nextPos, buffer, sectorSize)
            => GoodEntry(file', e, nextPos, buffer, sectorSize)
      /\ \A e \in index : Whole(file, e.pos, "data", nextPos)
            => Whole(file', e.pos, "data", nextPos)
      /\ \A e \in index : GoodIndexed(file, e, nextPos)
            => GoodIndexed(file', e, nextPos)
      /\ \A p \in Units : GoodRoot(file, p, nextPos) => GoodRoot(file', p, nextPos)
      /\ \A p \in Units : GoodRoot(file, p, eof) => GoodRoot(file', p, eof')
  BY <1>1, <1>3, AppendSafe
<1>5. ~Ended /\ ~Ended' /\ phase' \in {"Open", "Retry"}
  BY DEF FailedClose, Ended
<1>6. BufferInv'
  BY <1>1 DEF SafeInv, BufferInv, SameSize
<1>7. EntryInv'
  BY <1>1, <1>2, <1>4 DEF SafeInv, EntryInv
<1>8. DataIndexed' /\ CleanTable'
  BY <1>1, <1>4 DEF SafeInv, DataIndexed, CleanTable
<1>9. WrittenTable' /\ SomeTable'
  BY <1>1, <1>5 DEF SafeInv, WrittenTable, SomeTable
<1>10. PhaseInv' /\ EndedInv'
  <2>1. phase' = "Open" => ~(header.index >= nextPos)
    BY <1>2 DEF FailedClose, Units
  <2>2. QED
    BY <1>1, <1>2, <1>5, <2>1 DEF SafeInv, PhaseInv, EndedInv
<1>11. HeaderRoot' /\ DiskRoot'
  BY <1>1, <1>2, <1>4, <1>5 DEF SafeInv, HeaderRoot, DiskRoot, RootLimit
<1>12. QED
  BY <1>4, <1>6, <1>7, <1>8, <1>9, <1>10, <1>11 DEF SafeInv

(* The header is written as the close begins. *)
LEMMA CloseHeaderSafe ==
    ASSUME SafeInv, CloseHeader
    PROVE  SafeInv'
<1>1. /\ ddt' = ddt /\ hashMap' = hashMap /\ buffer' = buffer
      /\ sectorSize' = sectorSize /\ nextPos' = nextPos
      /\ dirtyDdt' = dirtyDdt /\ index' = index /\ file' = file /\ eof' = eof
      /\ header'.index = header.index /\ disk'.index = header.index
      /\ phase' = "Block" /\ phase \in {"Open", "Retry"}
  BY DEF CloseHeader, SafeInv, TypeInv, TypeOK
<1>2. TypeInv'
  BY CloseTypeInv DEF CloseStep, SafeInv
<1>3. ~Ended /\ ~Ended'
  BY <1>1 DEF Ended
<1>4. FileInv' /\ BufferInv' /\ EntryInv' /\ DataIndexed' /\ CleanTable'
  BY <1>1 DEF SafeInv, FileInv, BufferInv, SameSize, EntryInv, DataIndexed, CleanTable
<1>5. WrittenTable' /\ SomeTable'
  BY <1>1, <1>3 DEF SafeInv, WrittenTable, SomeTable
<1>6. PhaseInv' /\ EndedInv'
  BY <1>1, <1>3 DEF SafeInv, PhaseInv, EndedInv
<1>7. HeaderRoot' /\ DiskRoot'
  BY <1>1, <1>3 DEF SafeInv, HeaderRoot, DiskRoot, RootLimit
<1>8. QED
  BY <1>2, <1>4, <1>5, <1>6, <1>7 DEF SafeInv

(* The open block is written before the table. *)
LEMMA CloseLastBlockSafe ==
    ASSUME SafeInv, NEW span \in Spans, NEW z \in BOOLEAN, CloseLastBlock(span, z)
    PROVE  SafeInv'
<1>1. /\ phase' = "Ddt" /\ buffer # <<>> /\ buffer' = <<>> /\ sectorSize' = 0
      /\ ddt' = ddt /\ hashMap' = hashMap /\ header' = header
      /\ dirtyDdt' = dirtyDdt /\ disk' = disk
      /\ CloseBlock(span, z)
  BY DEF CloseLastBlock
<1>2. TypeInv'
  BY CloseTypeInv DEF CloseStep, SafeInv
<1>3. /\ FileInv'
      /\ nextPos' = nextPos + span
      /\ \A e \in Entry : GoodEntry(file, e, nextPos, buffer, sectorSize)
           => \A buf, size : GoodEntry(file', e, nextPos', buf, size)
      /\ \A e \in index' : e.type = "data" => Whole(file', e.pos, "data", nextPos')
      /\ ~dirtyDdt => \A e \in index' : e.type = "ddt"
                           => GoodIndexed(file', e, nextPos')
      /\ (\E e \in index : e.type = "ddt") => \E e \in index' : e.type = "ddt"
      /\ header.index < nextPos' /\ disk.index < nextPos'
      /\ header.index # 0 => GoodRoot(file', header.index, nextPos')
      /\ disk.index # 0 => GoodRoot(file', disk.index, nextPos')
  BY <1>1, CloseBlockSafe
<1>4. /\ ddt \in [Slot -> Entry] /\ hashMap \in [Hashes -> Entry]
      /\ header.index \in Nat /\ disk.index \in Nat
      /\ nextPos' \in Nat
  BY <1>2 DEF SafeInv, TypeInv, TypeOK, Units
<1>5. ~Ended /\ ~Ended'
  BY <1>1, OpenBlockFacts DEF Ended
<1>6. BufferInv'
  BY <1>1 DEF BufferInv, SameSize
<1>7. EntryInv'
  BY <1>1, <1>3, <1>4 DEF SafeInv, EntryInv
<1>8. DataIndexed' /\ CleanTable'
  BY <1>1, <1>3 DEF DataIndexed, CleanTable
<1>9. WrittenTable' /\ SomeTable'
  BY <1>1, <1>3, <1>5 DEF SafeInv, WrittenTable, SomeTable
<1>10. PhaseInv' /\ EndedInv'
  BY <1>1, <1>3, <1>4, <1>5 DEF PhaseInv, EndedInv
<1>11. HeaderRoot' /\ DiskRoot'
  <2>1. RootLimit(header.index)' = nextPos' /\ RootLimit(disk.index)' = nextPos'
    BY <1>1, <1>3, <1>4, <1>5 DEF RootLimit
  <2>2. QED
    BY <1>1, <1>3, <2>1 DEF HeaderRoot, DiskRoot
<1>12. QED
  BY <1>2, <1>3, <1>6, <1>7, <1>8, <1>9, <1>10, <1>11 DEF SafeInv

(* The table is written at the end of the file.  Every block it leads to   *)
(* is in the file already, because no block is open.                       *)
LEMMA CloseDdtSafe ==
    ASSUME SafeInv, NEW span \in Spans, NEW z \in BOOLEAN, CloseDdt(span, z)
    PROVE  SafeInv'
<1> DEFINE o == [kind |-> "ddt", span |-> span, zstd |-> z, table |-> ddt]
           new == [type |-> "ddt", pos |-> eof]
<1>1. /\ ddt' = ddt /\ hashMap' = hashMap /\ buffer' = buffer
      /\ sectorSize' = sectorSize /\ nextPos' = nextPos /\ header' = header
      /\ dirtyDdt' = dirtyDdt /\ dirtyDdt /\ disk' = disk
      /\ phase = "Ddt" /\ phase' = "Index"
      /\ file' = Put(file, eof, o) /\ eof' = eof + span
      /\ index' = {e \in index : e.type # "ddt"} \cup {new}
  BY DEF CloseDdt, IndexWithoutDdt
<1>2. TypeInv'
  BY CloseTypeInv DEF CloseStep, SafeInv
<1>3. /\ file \in [Units -> Cell]
      /\ ddt \in [Slot -> Entry] /\ hashMap \in [Hashes -> Entry]
      /\ header.index \in Units /\ disk.index \in Units
      /\ nextPos \in Nat /\ eof \in Nat /\ span \in Nat /\ span >= 1
      /\ nextPos <= eof /\ eof >= 1
      /\ buffer = <<>>
  BY <1>1 DEF SafeInv, TypeInv, TypeOK, PhaseInv, FileInv, Spans
<1>4. eof \in Units /\ o \in Block /\ o.span = span /\ Fits(eof, o.span)
  BY <1>3 DEF CloseDdt, Fits, Units, Block, DdtBlock
<1>5. /\ Whole(file', eof, "ddt", eof')
      /\ file'[eof].obj = o
      /\ Agree(file, file', eof)
  <2>1. /\ Whole(Put(file, eof, o), eof, o.kind, eof + o.span)
        /\ Put(file, eof, o)[eof].obj = o
        /\ Agree(file, Put(file, eof, o), eof)
    BY <1>3, <1>4, PutWhole
  <2>2. QED
    BY <1>1, <2>1
<1>6. file'[eof].obj.table = ddt /\ new.pos = eof /\ new.type = "ddt"
  BY <1>5
<1> HIDE DEF o, new
<1>7. eof' \in Nat /\ eof' >= eof
  BY <1>1, <1>3
<1>8. /\ FileInv'
      /\ \A e \in Entry : GoodEntry(file, e, nextPos, buffer, sectorSize)
            => GoodEntry(file', e, nextPos, buffer, sectorSize)
      /\ \A e \in index : Whole(file, e.pos, "data", nextPos)
            => Whole(file', e.pos, "data", nextPos)
      /\ \A p \in Units : GoodRoot(file, p, nextPos) => GoodRoot(file', p, nextPos)
      /\ \A p \in Units : GoodRoot(file, p, eof) => GoodRoot(file', p, eof')
  BY <1>1, <1>5, <1>7, AppendSafe
<1>9. GoodIndexed(file', new, eof')
  <2>1. GoodTable(file, ddt, nextPos)
    <3>1. ASSUME NEW i \in Slot, ddt[i].block # 0
          PROVE  Resolves(file, ddt[i], nextPos)
      <4>1. GoodEntry(file, ddt[i], nextPos, <<>>, sectorSize) /\ ddt[i] \in Entry
        BY <1>3 DEF SafeInv, EntryInv
      <4>2. ~Located(<<>>, sectorSize, ddt[i].offset)
        BY <4>1 DEF Located, Entry
      <4>3. QED
        BY <3>1, <4>1, <4>2 DEF GoodEntry
    <3>2. QED
      BY <3>1 DEF GoodTable
  <2>2. Agree(file, file', nextPos) /\ nextPos <= eof'
    BY <1>3, <1>5, <1>7 DEF Agree, Units
  <2>3. GoodTable(file', ddt, eof')
    BY <1>3, <1>7, <2>1, <2>2, TableKept
  <2>4. QED
    BY <1>5, <1>6, <2>3 DEF GoodIndexed
<1>10. \A e \in index' : e.type = "ddt" => e = new
  BY <1>1
<1>11. CleanTable' /\ WrittenTable' /\ SomeTable'
  <2>1. new \in index'
    BY <1>1
  <2>2. QED
    BY <1>1, <1>6, <1>9, <1>10, <2>1 DEF CleanTable, WrittenTable, SomeTable
<1>12. DataIndexed'
  <2>1. \A e \in index' : e.type = "data" => e \in index
    BY <1>1, <1>6
  <2>2. QED
    BY <1>1, <1>8, <2>1 DEF SafeInv, DataIndexed
<1>13. BufferInv' /\ EntryInv'
  BY <1>1, <1>3, <1>8 DEF SafeInv, BufferInv, SameSize, EntryInv
<1>14. ~Ended /\ ~Ended'
  BY <1>1 DEF Ended
<1>15. PhaseInv' /\ EndedInv'
  BY <1>1, <1>3, <1>14 DEF SafeInv, PhaseInv, EndedInv
<1>16. HeaderRoot' /\ DiskRoot'
  BY <1>1, <1>3, <1>8, <1>14 DEF SafeInv, HeaderRoot, DiskRoot, RootLimit
<1>17. QED
  BY <1>2, <1>8, <1>11, <1>12, <1>13, <1>15, <1>16 DEF SafeInv

(* The index is written at the end of the file: an image of its own, not   *)
(* yet the one the header on disk points at.                               *)
LEMMA CloseIndexSafe ==
    ASSUME SafeInv, NEW span \in Spans, CloseIndex(span)
    PROVE  SafeInv'
<1> DEFINE o == [kind |-> "index", span |-> span, entries |-> index]
<1>1. /\ ddt' = ddt /\ hashMap' = hashMap /\ buffer' = buffer
      /\ sectorSize' = sectorSize /\ nextPos' = nextPos /\ header'.index = eof
      /\ dirtyDdt' = dirtyDdt /\ disk' = disk /\ index' = index
      /\ phase = "Index" /\ phase' = "Root"
      /\ file' = Put(file, eof, o) /\ eof' = eof + span
  BY DEF CloseIndex, SafeInv, TypeInv, TypeOK
<1>2. TypeInv'
  BY CloseTypeInv DEF CloseStep, SafeInv
<1>3. /\ file \in [Units -> Cell]
      /\ index \in SUBSET IndexEntry
      /\ ddt \in [Slot -> Entry] /\ hashMap \in [Hashes -> Entry]
      /\ disk.index \in Units
      /\ nextPos \in Nat /\ eof \in Nat /\ span \in Nat /\ span >= 1
      /\ nextPos <= eof /\ eof >= 1
      /\ buffer = <<>>
  BY <1>1 DEF SafeInv, TypeInv, TypeOK, PhaseInv, FileInv, Spans
<1>4. eof \in Units /\ o \in Block /\ o.span = span /\ Fits(eof, o.span)
  BY <1>3 DEF CloseIndex, Fits, Units, Block, IndexBlock
<1>5. /\ Whole(file', eof, "index", eof')
      /\ file'[eof].obj = o
      /\ Agree(file, file', eof)
  <2>1. /\ Whole(Put(file, eof, o), eof, o.kind, eof + o.span)
        /\ Put(file, eof, o)[eof].obj = o
        /\ Agree(file, Put(file, eof, o), eof)
    BY <1>3, <1>4, PutWhole
  <2>2. QED
    BY <1>1, <2>1
<1>6. file'[eof].obj.entries = index
  BY <1>5
<1> HIDE DEF o
<1>7. eof' \in Nat /\ eof' >= eof
  BY <1>1, <1>3
<1>8. /\ FileInv'
      /\ \A e \in Entry : GoodEntry(file, e, nextPos, buffer, sectorSize)
            => GoodEntry(file', e, nextPos, buffer, sectorSize)
      /\ \A e \in index : Whole(file, e.pos, "data", nextPos)
            => Whole(file', e.pos, "data", nextPos)
      /\ \A e \in index : GoodIndexed(file, e, nextPos)
            => GoodIndexed(file', e, nextPos)
      /\ \A p \in Units : GoodRoot(file, p, nextPos) => GoodRoot(file', p, nextPos)
      /\ \A p \in Units : GoodRoot(file, p, eof) => GoodRoot(file', p, eof')
  BY <1>1, <1>5, <1>7, AppendSafe
<1>9. \A e \in index : GoodIndexed(file', e, eof')
  <2> SUFFICES ASSUME NEW e \in index PROVE GoodIndexed(file', e, eof')
    OBVIOUS
  <2>1. e \in IndexEntry /\ e.type \in {"data", "ddt"} /\ e.pos \in Units
    BY <1>3 DEF IndexEntry
  <2>2. CASE e.type = "data"
    <3>1. Whole(file, e.pos, "data", nextPos)
      BY <1>3, <2>2 DEF SafeInv, DataIndexed
    <3>2. Agree(file, file', nextPos) /\ nextPos <= eof'
      BY <1>3, <1>5, <1>7 DEF Agree, Units
    <3>3. Whole(file', e.pos, "data", eof')
      BY <1>3, <1>7, <2>1, <3>1, <3>2, WholeKept
    <3>4. QED
      BY <2>2, <3>3 DEF GoodIndexed
  <2>3. CASE e.type = "ddt"
    <3>1. GoodIndexed(file, e, eof)
      BY <1>1, <2>3 DEF SafeInv, WrittenTable
    <3>2. QED
      BY <1>3, <1>5, <1>7, <2>1, <3>1, IndexedKept
  <2>4. QED
    BY <2>1, <2>2, <2>3
<1>10. GoodRoot(file', eof, eof')
  <2>1. \E e \in index : e.type = "ddt"
    BY <1>1 DEF SafeInv, SomeTable
  <2>2. QED
    BY <1>5, <1>6, <1>9, <2>1 DEF GoodRoot, GoodIndex
<1>11. ~Ended /\ ~Ended'
  BY <1>1 DEF Ended
<1>12. BufferInv' /\ EntryInv'
  BY <1>1, <1>3, <1>8 DEF SafeInv, BufferInv, SameSize, EntryInv
<1>13. DataIndexed' /\ CleanTable'
  BY <1>1, <1>8 DEF SafeInv, DataIndexed, CleanTable
<1>14. WrittenTable' /\ SomeTable'
  BY <1>1, <1>9 DEF SafeInv, WrittenTable, SomeTable
<1>15. PhaseInv' /\ EndedInv'
  BY <1>1, <1>3, <1>11 DEF SafeInv, PhaseInv, EndedInv
<1>16. HeaderRoot'
  BY <1>1, <1>3, <1>10 DEF HeaderRoot, RootLimit
<1>17. DiskRoot'
  BY <1>1, <1>3, <1>8, <1>11 DEF SafeInv, DiskRoot, RootLimit
<1>18. QED
  BY <1>2, <1>8, <1>12, <1>13, <1>14, <1>15, <1>16, <1>17 DEF SafeInv

(* The steps of a close that move on without writing anything. *)
LEMMA ClosePhaseSafe ==
    ASSUME SafeInv, CloseNoBlock \/ CloseCleanDdt \/ CloseRootFails
    PROVE  SafeInv'
<1>1. /\ ddt' = ddt /\ hashMap' = hashMap /\ buffer' = buffer
      /\ sectorSize' = sectorSize /\ nextPos' = nextPos /\ header' = header
      /\ dirtyDdt' = dirtyDdt /\ disk' = disk /\ index' = index
      /\ file' = file /\ eof' = eof
      /\ buffer = <<>>
      /\ ~Ended /\ ~Ended'
      /\ phase' \in {"Ddt", "Index", "Retry"}
  BY DEF CloseNoBlock, CloseCleanDdt, CloseRootFails, memory, disc, SafeInv,
         PhaseInv, Ended
<1>2. TypeInv'
  BY CloseTypeInv DEF CloseStep, SafeInv
<1>3. phase' = "Index" => ~dirtyDdt
  BY DEF CloseNoBlock, CloseCleanDdt, CloseRootFails
<1>4. FileInv' /\ BufferInv' /\ EntryInv' /\ DataIndexed' /\ CleanTable'
  BY <1>1 DEF SafeInv, FileInv, BufferInv, SameSize, EntryInv, DataIndexed, CleanTable
<1>5. WrittenTable'
  <2>1. /\ file \in [Units -> Cell] /\ index \in SUBSET IndexEntry
        /\ nextPos \in Nat /\ eof \in Nat /\ nextPos <= eof
        /\ Agree(file, file, nextPos)
    BY DEF SafeInv, TypeInv, TypeOK, FileInv, Agree
  <2>2. \A e \in index : GoodIndexed(file, e, nextPos) => GoodIndexed(file, e, eof)
    BY <2>1, IndexedKept
  <2>3. QED
    BY <1>1, <1>3, <2>2 DEF SafeInv, CleanTable, WrittenTable
<1>6. SomeTable'
  BY <1>1, <1>3 DEF SafeInv, SomeTable
<1>7. PhaseInv' /\ EndedInv'
  BY <1>1 DEF SafeInv, PhaseInv, EndedInv
<1>8. HeaderRoot' /\ DiskRoot'
  BY <1>1 DEF SafeInv, HeaderRoot, DiskRoot, RootLimit
<1>9. QED
  BY <1>2, <1>4, <1>5, <1>6, <1>7, <1>8 DEF SafeInv

(* Each step of aaruf_close. *)
LEMMA CloseSafe ==
    ASSUME SafeInv, CloseStep
    PROVE  SafeInv'
<1>1. TypeInv'
  BY CloseTypeInv DEF SafeInv
<1>2. CASE CloseHeaderFails \/ CloseCleanIndex
  <2>1. /\ FreeContext /\ phase' \in {"Closed", "Lost"}
        /\ file' = file /\ eof' = eof /\ disk' = disk
    BY <1>2 DEF CloseHeaderFails, CloseCleanIndex, disc
  <2>2. QED
    BY <1>1, <2>1, RootsBelowEof, FreeContextSafe
<1>3. CASE CloseRoot
  <2>1. /\ FreeContext /\ phase' = "Closed"
        /\ file' = file /\ eof' = eof /\ disk' = header
    BY <1>3 DEF CloseRoot
  <2>2. QED
    BY <1>1, <2>1, RootsBelowEof, FreeContextSafe
<1>4. ASSUME NEW n \in 0..MaxTear,
             CloseLastBlockFails(n) \/ CloseDdtFails(n) \/ CloseIndexFails(n)
      PROVE  SafeInv'
  <2>1. CASE CloseLastBlockFails(n)
    <3>1. buffer # <<>> /\ CloseBlockFails(n) /\ FailedClose
      BY <2>1 DEF CloseLastBlockFails
    <3>2. phase' = "Open"
      BY <3>1, OpenBlockFacts DEF FailedClose
    <3>3. QED
      BY <3>1, <3>2, CloseBlockFailsSafe
  <2>2. CASE CloseDdtFails(n) \/ CloseIndexFails(n)
    BY <1>1, <2>2, AppendFailsSafe DEF CloseDdtFails, CloseIndexFails
  <2>3. QED
    BY <1>4, <2>1, <2>2
<1>5. QED
  BY <1>2, <1>3, <1>4, CloseHeaderSafe, CloseLastBlockSafe, CloseDdtSafe,
     CloseIndexSafe, ClosePhaseSafe
     DEF CloseStep

(***************************************************************************)
(* Crash, create and resume.                                               *)
(***************************************************************************)

(* aaruf_create starts over: there is no image to damage. *)
LEMMA CreateSafe ==
    ASSUME SafeInv, Create
    PROVE  SafeInv'
<1>1. TypeInv'
  BY NextTypeInv DEF Next, SafeInv
<1>2. /\ buffer' = <<>> /\ index' = {} /\ hashMap' = EmptyMap
      /\ ddt' = EmptyDdt /\ header'.index = 0 /\ disk'.index = 0
      /\ dirtyDdt' = TRUE /\ nextPos' = 1 /\ eof' = 1 /\ phase' = "Open"
      /\ file'[0] = NoCell
  BY DEF Create, SafeInv, EndedInv, Units
<1>3. FileInv' /\ BufferInv'
  BY <1>2 DEF FileInv, BufferInv, SameSize
<1>4. EntryInv'
  BY <1>2, NoEntryGood DEF EntryInv, EmptyDdt, EmptyMap
<1>5. DataIndexed' /\ CleanTable' /\ WrittenTable' /\ SomeTable'
  BY <1>2 DEF DataIndexed, CleanTable, WrittenTable, SomeTable
<1>6. PhaseInv' /\ EndedInv' /\ HeaderRoot' /\ DiskRoot'
  BY <1>2 DEF PhaseInv, EndedInv, HeaderRoot, DiskRoot, Ended
<1>7. QED
  BY <1>1, <1>3, <1>4, <1>5, <1>6 DEF SafeInv

(* An image that aaruf_open accepts has an index outside the header. *)
LEMMA OpenableHasRoot ==
    ASSUME SafeInv, Openable
    PROVE  disk.index # 0
<1>1. file[0].obj.kind # "index"
  BY DEF SafeInv, FileInv, NoCell, Hole
<1>2. QED
  BY <1>1 DEF Openable, Intact

(* A resumed image is whole below the end of the file, where it goes on.   *)
LEMMA ResumeSafe ==
    ASSUME SafeInv, Resume
    PROVE  SafeInv'
<1>1. /\ Ended /\ Openable
      /\ ddt' = DiskDdt /\ nextPos' = eof /\ index' = DiskIndex /\ header' = disk
      /\ phase' = "Open"
      /\ buffer' = <<>> /\ hashMap' = EmptyMap /\ sectorSize' = sectorSize
      /\ dirtyDdt' = FALSE /\ file' = file /\ eof' = eof /\ disk' = disk
  BY DEF Resume, ResumePosition, disc, SafeInv, EndedInv, TypeInv, TypeOK
<1>2. TypeInv'
  BY NextTypeInv DEF Next, SafeInv
<1>3. /\ file \in [Units -> Cell] /\ file[0] = NoCell
      /\ disk.index \in Units /\ disk.index \in Nat
      /\ eof \in Nat /\ eof >= 1
  BY DEF SafeInv, TypeInv, TypeOK, FileInv, Units
<1>4. disk.index # 0 /\ GoodRoot(file, disk.index, eof)
  BY <1>1, OpenableHasRoot, RootsBelowEof
<1>5. disk.index < eof
  <2>1. Whole(file, disk.index, "index", eof) /\ Agree(file, file, eof)
    BY <1>4 DEF GoodRoot, Agree
  <2>2. QED
    BY <1>3, <2>1, WholeKept
<1>6. /\ \A e \in DiskIndex : GoodIndexed(file, e, eof)
      /\ \E e \in DiskIndex : e.type = "ddt"
  BY <1>4 DEF GoodRoot, GoodIndex, DiskIndex
<1>7. FileInv' /\ BufferInv'
  BY <1>1, <1>3 DEF FileInv, BufferInv, SameSize
<1>8. EntryInv'
  <2>1. [type |-> "ddt", pos |-> DiskDdtPos] \in DiskIndex
    BY <1>1, DiskTyped DEF DdtPositions, SafeInv, TypeInv
  <2>2. GoodTable(file, DiskDdt, eof)
    BY <1>6, <2>1 DEF GoodIndexed, DiskDdt
  <2>3. \A i \in Slot : GoodEntry(file, DiskDdt[i], eof, <<>>, sectorSize)
    BY <2>2 DEF GoodTable, GoodEntry
  <2>4. QED
    BY <1>1, <2>3, NoEntryGood DEF EntryInv, EmptyMap
<1>9. DataIndexed' /\ CleanTable'
  BY <1>1, <1>6 DEF DataIndexed, CleanTable, GoodIndexed
<1>10. WrittenTable' /\ SomeTable'
  BY <1>1, <1>6 DEF WrittenTable, SomeTable
<1>11. PhaseInv' /\ EndedInv'
  BY <1>1, <1>3, <1>5 DEF PhaseInv, EndedInv, Ended
<1>12. HeaderRoot' /\ DiskRoot'
  BY <1>1, <1>4 DEF HeaderRoot, DiskRoot, RootLimit
<1>13. QED
  BY <1>2, <1>7, <1>8, <1>9, <1>10, <1>11, <1>12 DEF SafeInv

(* A new image satisfies the invariant. *)
LEMMA InitSafe == Init => SafeInv
<1> SUFFICES ASSUME Init PROVE SafeInv
  OBVIOUS
<1>1. TypeInv
  BY InitTypeInv
<1>2. FileInv /\ BufferInv
  BY DEF Init, FileInv, BufferInv, SameSize, Units
<1>3. EntryInv
  BY NoEntryGood DEF Init, EntryInv, EmptyDdt, EmptyMap
<1>4. DataIndexed /\ CleanTable /\ WrittenTable /\ SomeTable
  BY DEF Init, DataIndexed, CleanTable, WrittenTable, SomeTable
<1>5. PhaseInv /\ EndedInv /\ HeaderRoot /\ DiskRoot
  BY DEF Init, PhaseInv, EndedInv, HeaderRoot, DiskRoot, Ended
<1>6. QED
  BY <1>1, <1>2, <1>3, <1>4, <1>5 DEF SafeInv

(* Every step keeps it. *)
LEMMA NextSafe ==
    ASSUME SafeInv, [Next]_vars
    PROVE  SafeInv'
<1>1. CASE Crash
  <2>1. TypeInv'
    BY NextTypeInv DEF SafeInv
  <2>2. /\ FreeContext /\ phase' = "Lost"
        /\ file' = file /\ eof' = eof /\ disk' = disk
    BY <1>1 DEF Crash, disc
  <2>3. QED
    BY <2>1, <2>2, RootsBelowEof, FreeContextSafe
<1>2. CASE UNCHANGED vars
  BY <1>2 DEF vars, memory, disc, SafeInv, TypeInv, TypeOK, OpenBlockHasUnit, FileInv,
              BufferInv, SameSize, EntryInv, DataIndexed, CleanTable, WrittenTable,
              SomeTable, PhaseInv, EndedInv, HeaderRoot, DiskRoot, RootLimit, Ended
<1>3. QED
  BY <1>1, <1>2, WriteSafe, CloseSafe, CreateSafe, ResumeSafe DEF Next

(* The invariant holds in every state of the writer. *)
LEMMA Safety == Spec => []SafeInv
<1>1. Init => SafeInv
  BY InitSafe
<1>2. SafeInv /\ [Next]_vars => SafeInv'
  BY NextSafe
<1>3. QED
  BY <1>1, <1>2, PTL DEF Spec

(***************************************************************************)
(* The theorems.                                                           *)
(***************************************************************************)

(* aaruf_write_sector and aaruf_close never leave an entry of the table in *)
(* memory that leads nowhere: for every geometry, block size, content and  *)
(* failure, the block of each address is in the file or in the buffer.     *)
THEOREM TableNeverDangles == Spec => []EntriesResolve
<1>1. SafeInv => EntriesResolve
  <2> SUFFICES ASSUME SafeInv, NEW i \in Slot, ddt[i].block # 0
               PROVE  InBuffer(ddt[i]) \/ OnDisk(ddt[i])
    BY DEF EntriesResolve
  <2>1. GoodEntry(file, ddt[i], nextPos, buffer, sectorSize)
    BY DEF SafeInv, EntryInv
  <2>2. QED
    BY <2>1 DEF GoodEntry, Resolves, Whole, InBuffer, OnDisk
<1>2. QED
  BY <1>1, Safety, PTL

(* An image that the header points at can be opened and read.              *)
LEMMA SafeReadable == SafeInv => CommittedImageReadable
<1> SUFFICES ASSUME SafeInv, disk.index # 0
             PROVE  /\ Openable
                    /\ \A e \in DiskIndex : Intact(file, e.pos, e.type)
                    /\ \A i \in Slot : DiskDdt[i].block # 0 => OnDisk(DiskDdt[i])
  BY DEF CommittedImageReadable
<1>1. file \in [Units -> Cell] /\ disk.index \in Units /\ TypeOK
  BY DEF SafeInv, TypeInv, TypeOK
<1>2. GoodRoot(file, disk.index, eof)
  BY RootsBelowEof
<1>3. Intact(file, disk.index, "index") /\ DiskIndex \in SUBSET IndexEntry
  BY <1>1, <1>2, CellKind DEF GoodRoot, Whole, Intact, DiskIndex, IndexBlock
<1>4. \A e \in DiskIndex : GoodIndexed(file, e, eof)
  BY <1>2 DEF GoodRoot, GoodIndex, DiskIndex
<1>5. DdtPositions # {}
  <2>1. PICK e \in DiskIndex : e.type = "ddt"
    BY <1>2 DEF GoodRoot, GoodIndex, DiskIndex
  <2>2. e.pos \in Units /\ e = [type |-> "ddt", pos |-> e.pos]
    BY <1>3, <2>1 DEF IndexEntry
  <2>3. QED
    BY <2>1, <2>2 DEF DdtPositions
<1>6. \A e \in DiskIndex : Intact(file, e.pos, e.type)
  BY <1>4 DEF GoodIndexed, Whole
<1>7. \A p \in DdtPositions : Intact(file, p, "ddt")
  <2>1. ASSUME NEW p \in DdtPositions PROVE Intact(file, p, "ddt")
    <3>1. [type |-> "ddt", pos |-> p] \in DiskIndex
      BY DEF DdtPositions
    <3>2. QED
      BY <3>1, <1>6
  <2>2. QED
    BY <2>1
<1>8. Openable
  BY <1>3, <1>5, <1>7 DEF Openable
<1>9. [type |-> "ddt", pos |-> DiskDdtPos] \in DiskIndex
  BY <1>1, <1>8, DiskTyped DEF DdtPositions
<1>10. GoodTable(file, DiskDdt, eof)
  BY <1>4, <1>9 DEF GoodIndexed, DiskDdt
<1>11. \A i \in Slot : DiskDdt[i].block # 0 => OnDisk(DiskDdt[i])
  BY <1>10 DEF GoodTable, Resolves, Whole, OnDisk
<1>12. QED
  BY <1>6, <1>8, <1>11

(* Whenever the process dies, the header on disk points at an index that   *)
(* is whole, lists whole blocks and a whole table, and every entry of that *)
(* table leads to a sector: aaruf_finalize_write commits with its last     *)
(* write, and nothing written before or after it undoes the commit.        *)
THEOREM CommitSurvives == Spec => []CommittedImageReadable
BY SafeReadable, Safety, PTL

(* The units of a committed image lie below its limit. *)
LEMMA CommittedBelow ==
    ASSUME SafeInv, disk.index # 0, NEW q \in CommittedUnits, NEW l \in Nat,
           GoodRoot(file, disk.index, l)
    PROVE  q \in Nat /\ q < l
<1>1. file \in [Units -> Cell] /\ disk.index \in Units
  BY DEF SafeInv, TypeInv, TypeOK
<1>2. \A p \in Units : \A kind : Whole(file, p, kind, l) =>
          \A r \in Region(file, p) : r \in Nat /\ r < l
  BY <1>1, CellSpan DEF Whole, Region, Units
<1>3. DiskIndex \in SUBSET IndexEntry
  BY <1>1, CellKind DEF GoodRoot, Whole, Intact, DiskIndex, IndexBlock
<1>4. CASE q \in Region(file, disk.index)
  BY <1>1, <1>2, <1>4 DEF GoodRoot
<1>5. ASSUME NEW e \in DiskIndex, q \in Region(file, e.pos)
      PROVE  q \in Nat /\ q < l
  <2>1. e.pos \in Units /\ Whole(file, e.pos, e.type, l)
    BY <1>3 DEF IndexEntry, GoodRoot, GoodIndex, GoodIndexed, DiskIndex
  <2>2. QED
    BY <1>2, <1>5, <2>1
<1>6. QED
  BY <1>4, <1>5 DEF CommittedUnits

(* Every write lands at or after the open block, or at the end of the file. *)
LEMMA WritesLandAfter ==
    ASSUME SafeInv, [Next]_vars
    PROVE  \/ file' = file
           \/ Create
           \/ buffer # <<>> /\ Agree(file, file', nextPos)
           \/ Agree(file, file', eof)
<1>1. nextPos \in Nat /\ eof \in Nat /\ file \in [Units -> Cell]
  BY DEF SafeInv, TypeInv, TypeOK
<1>2. ASSUME NEW span \in Spans, NEW z \in BOOLEAN, CloseBlock(span, z)
      PROVE  Agree(file, file', nextPos)
  BY <1>1, <1>2 DEF CloseBlock, Agree, Put, Units
<1>3. ASSUME NEW n \in 0..MaxTear, CloseBlockFails(n)
      PROVE  Agree(file, file', nextPos)
  BY <1>1, <1>3, TearAgrees DEF CloseBlockFails
<1>4. CASE WriteStep
  BY <1>2, <1>3, <1>4 DEF WriteStep, WriteSector, WriteSectorInNewBlock,
     WriteSectorFails, WriteGenerable, MustClose, disc
<1>5. CASE CloseStep
  <2>1. ASSUME NEW span \in Spans, NEW z \in BOOLEAN,
               CloseLastBlock(span, z) \/ CloseDdt(span, z)
        PROVE  (buffer # <<>> /\ Agree(file, file', nextPos)) \/ Agree(file, file', eof)
    <3>1. CASE CloseLastBlock(span, z)
      BY <1>2, <3>1 DEF CloseLastBlock
    <3>2. CASE CloseDdt(span, z)
      BY <1>1, <3>2 DEF CloseDdt, Agree, Put, Units
    <3>3. QED
      BY <2>1, <3>1, <3>2
  <2>2. ASSUME NEW span \in Spans, CloseIndex(span)
        PROVE  Agree(file, file', eof)
    BY <1>1, <2>2 DEF CloseIndex, Agree, Put, Units
  <2>3. ASSUME NEW n \in 0..MaxTear,
               CloseLastBlockFails(n) \/ CloseDdtFails(n) \/ CloseIndexFails(n)
        PROVE  (buffer # <<>> /\ Agree(file, file', nextPos)) \/ Agree(file, file', eof)
    <3>1. CASE CloseLastBlockFails(n)
      BY <1>3, <3>1 DEF CloseLastBlockFails
    <3>2. CASE CloseDdtFails(n) \/ CloseIndexFails(n)
      BY <1>1, <3>2, TearAgrees DEF CloseDdtFails, CloseIndexFails
    <3>3. QED
      BY <2>3, <3>1, <3>2
  <2>4. CASE \/ CloseHeader \/ CloseHeaderFails \/ CloseNoBlock \/ CloseCleanDdt
             \/ CloseRoot \/ CloseRootFails \/ CloseCleanIndex
    BY <2>4 DEF CloseHeader, CloseHeaderFails, CloseNoBlock, CloseCleanDdt, CloseRoot,
                CloseRootFails, CloseCleanIndex, disc
  <2>5. QED
    BY <1>5, <2>1, <2>2, <2>3, <2>4 DEF CloseStep
<1>6. CASE Crash \/ Create \/ Resume \/ UNCHANGED vars
  BY <1>6 DEF Crash, Create, Resume, vars, disc
<1>7. QED
  BY <1>4, <1>5, <1>6 DEF Next

(* No step of the writer changes a unit that the committed image uses, but *)
(* for aaruf_create over the file, which gives that image up.              *)
THEOREM CommitUntouched == Spec => CommittedUntouched
<1>1. SafeInv /\ [Next]_vars =>
        [disk'.index # 0 => \A q \in CommittedUnits : file'[q] = file[q]]_vars
  <2> SUFFICES ASSUME SafeInv, [Next]_vars, disk'.index # 0, NEW q \in CommittedUnits
               PROVE  file'[q] = file[q]
    OBVIOUS
  <2>1. /\ nextPos \in Nat /\ eof \in Nat /\ nextPos <= eof /\ eof <= MaxUnit + 1
        /\ file \in [Units -> Cell] /\ disk.index # 0
    BY DEF SafeInv, TypeInv, TypeOK, FileInv, CommittedUnits
  <2>2. CASE file' = file
    BY <2>2
  <2>3. CASE buffer # <<>> /\ Agree(file, file', nextPos)
    <3>1. GoodRoot(file, disk.index, nextPos)
      BY <2>1, <2>3, RootsKeptAtBlock DEF Agree
    <3>2. q \in Units /\ q < nextPos
      BY <2>1, <3>1, CommittedBelow DEF Units
    <3>3. QED
      BY <2>3, <3>2 DEF Agree
  <2>4. CASE Agree(file, file', eof)
    <3>1. GoodRoot(file, disk.index, eof)
      BY <2>1, RootsBelowEof
    <3>2. q \in Units /\ q < eof
      BY <2>1, <3>1, CommittedBelow DEF Units
    <3>3. QED
      BY <2>4, <3>2 DEF Agree
  <2>5. ~Create
    BY DEF Create
  <2>6. QED
    BY <2>2, <2>3, <2>4, <2>5, WritesLandAfter
<1>2. QED
  BY <1>1, Safety, PTL DEF Spec, CommittedUntouched

(***************************************************************************)
(* Contents.  A sector found by its hash is the sector that was hashed, a  *)
(* write that succeeds changes what its address reads as and nothing else; *)
(* the index lists every block the table in memory uses and, once written, *)
(* that very table, and so for the indexes in the file.                    *)
(*                                                                         *)
(* The argument: the sector an entry leads to is the same in the buffer,   *)
(* in the file once the block is written, and after every later write.  An *)
(* index at or after the open block is about the table in memory, an index *)
(* before it is the one the header on disk points at, and neither changes  *)
(* while the header points at it.                                          *)
(***************************************************************************)
HIDE GeometryAssumption

(* The sector that an entry leads to, when the open block is buf and will  *)
(* start at unit p.                                                        *)
Sector(f, e, p, buf) ==
    IF e.block = p THEN buf[e.offset + 1] ELSE f[e.block].obj.sectors[e.offset + 1]

(* The deduplication map leads each hash to a sector that has it.          *)
HashesRight(f, m, p, buf) ==
    \A h \in Hashes : m[h] # NoEntry =>
        m[h].block # 0 /\ Hash[Sector(f, m[h], p, buf)] = h

HashInv == HashesRight(file, hashMap, nextPos, buffer)

(* What an entry reads as, and a whole table.                              *)
Reading(f, e, p, buf) == ContentOf(e, e.block # 0, Sector(f, e, p, buf))

Readings(f, t, p, buf) == [i \in Slot |-> Reading(f, t[i], p, buf)]

(* The table t with the entry e at i, and what it reads as when sector d    *)
(* is written at address a with status s.                                  *)
Replaced(t, i, e) == [t EXCEPT ![i] = e]

Rewritten(image, a, d, s) ==
    Replaced(image, Corrected(a),
             IF s = NotDumped THEN BlankSector ELSE [status |-> s, sector |-> d])

(* The sectors that entries lead to stay when buf becomes after, ...       *)
Kept(f, p, buf, after, size) ==
    \A x \in Entry : x.block # 0 /\ GoodEntry(f, x, p, buf, size)
        => Sector(f, x, p, after) = Sector(f, x, p, buf)

(* ... and table u is table t with an entry for the sector d at address a. *)
Entered(t, u, a, d, s, f, p, after) ==
    \E e \in Entry : /\ u = Replaced(t, Corrected(a), e)
                    /\ e.status = s /\ e.block # 0
                    /\ Sector(f, e, p, after) = d

EntriesGood(f, t, p, buf, size) == \A i \in Slot : GoodEntry(f, t[i], p, buf, size)

(***************************************************************************)
(* The sector of a good entry.                                             *)
(***************************************************************************)

(* An entry leads below the open block, or into it, never both.            *)
LEMMA EntryPlace ==
    ASSUME NEW f \in [Units -> Cell], NEW p \in Nat, NEW buf, NEW size,
           NEW e \in Entry, e.block # 0, GoodEntry(f, e, p, buf, size)
    PROVE  /\ e.block \in Units /\ e.offset \in Nat
           /\ e.block = p => Located(buf, size, e.offset)
           /\ e.block # p => Resolves(f, e, p) /\ e.block < p
<1>1. e.block \in Units /\ e.offset \in Nat
  BY DEF Entry
<1>2. f[e.block].obj.span \in Nat /\ f[e.block].obj.span >= 1
  BY <1>1, CellSpan
<1>3. Resolves(f, e, p) => e.block < p
  BY <1>1, <1>2, SizeAssumption DEF Resolves, Whole, Units
<1>4. QED
  BY <1>1, <1>3 DEF GoodEntry, Units

(* What it leads to is a sector.                                           *)
LEMMA SectorIsData ==
    ASSUME NEW f \in [Units -> Cell], NEW p \in Nat, NEW buf \in Seq(Data), NEW size,
           NEW e \in Entry, e.block # 0, GoodEntry(f, e, p, buf, size)
    PROVE  Sector(f, e, p, buf) \in Data
<1>1. CASE e.block = p
  BY <1>1, EntryPlace DEF Sector, Located
<1>2. CASE e.block # p
  <2>1. e.block \in Units /\ e.offset \in Nat /\ Resolves(f, e, p)
    BY <1>2, EntryPlace
  <2>2. f[e.block].obj \in DataBlock \cup DdtBlock \cup IndexBlock \cup {Hole}
    BY <2>1 DEF Cell
  <2>3. f[e.block].obj.kind = "data"
    BY <2>1 DEF Resolves, Whole, Intact
  <2>4. f[e.block].obj \in DataBlock
    BY <2>2, <2>3 DEF DdtBlock, IndexBlock, Hole
  <2>5. f[e.block].obj.sectors \in Seq(Data)
    BY <2>4 DEF DataBlock
  <2>6. QED
    BY <1>2, <2>1, <2>5 DEF Sector, Resolves, Located
<1>3. QED
  BY <1>1, <1>2

(* It survives every change at or after the open block.                    *)
LEMMA SectorKept ==
    ASSUME NEW f \in [Units -> Cell], NEW g, NEW p \in Nat, NEW buf, NEW size,
           NEW e \in Entry, e.block # 0, GoodEntry(f, e, p, buf, size), Agree(f, g, p)
    PROVE  Sector(g, e, p, buf) = Sector(f, e, p, buf)
BY EntryPlace DEF Sector, Agree

(* It survives when a sector joins the open block.                         *)
LEMMA SectorAppended ==
    ASSUME NEW f \in [Units -> Cell], NEW p \in Nat, NEW buf \in Seq(Data), NEW size,
           NEW d \in Data, NEW e \in Entry, e.block # 0, GoodEntry(f, e, p, buf, size)
    PROVE  Sector(f, e, p, Append(buf, d)) = Sector(f, e, p, buf)
BY EntryPlace DEF Sector, Located

(* An open block without a sector is led to by nothing.                    *)
LEMMA SectorElsewhere ==
    ASSUME NEW f \in [Units -> Cell], NEW p \in Nat, NEW size, NEW buf, NEW other,
           NEW e \in Entry, e.block # 0, GoodEntry(f, e, p, <<>>, size)
    PROVE  Sector(f, e, p, buf) = Sector(f, e, p, other)
BY EntryPlace DEF Sector, Located

(* It is the same sector once the block is written.                        *)
LEMMA SectorWritten ==
    ASSUME SafeInv, buffer # <<>>, NEW span \in Spans, NEW z \in BOOLEAN,
           CloseBlock(span, z), NEW buf,
           NEW e \in Entry, e.block # 0, GoodEntry(file, e, nextPos, buffer, sectorSize)
    PROVE  Sector(file', e, nextPos', buf) = Sector(file, e, nextPos, buffer)
<1> DEFINE o == [kind |-> "data", span |-> span, zstd |-> z, size |-> sectorSize,
                 sectors |-> buffer]
<1>1. file \in [Units -> Cell] /\ nextPos \in Units /\ nextPos \in Nat
  BY OpenBlockFacts DEF SafeInv, TypeInv, TypeOK, Units
<1>2. span \in Nat /\ span >= 1 /\ nextPos' = nextPos + span
  BY DEF Spans, CloseBlock
<1>3. o.span = span /\ o.sectors = buffer
  OBVIOUS
<1>4. file' = Put(file, nextPos, o)
  BY DEF CloseBlock
<1> HIDE DEF o
<1>5. file'[nextPos].obj = o /\ \A q \in Units : q < nextPos => file'[q] = file[q]
  BY <1>1, <1>2, <1>3, <1>4 DEF Put, Units
<1>6. e.block \in Units /\ e.block \in Nat /\ e.block <= nextPos
  BY <1>1, EntryPlace DEF Units
<1>7. e.block # nextPos'
  BY <1>1, <1>2, <1>6
<1>8. CASE e.block = nextPos
  BY <1>3, <1>5, <1>7, <1>8 DEF Sector
<1>9. CASE e.block # nextPos
  <2>1. file'[e.block] = file[e.block]
    BY <1>1, <1>5, <1>6, <1>9
  <2>2. QED
    BY <2>1, <1>7, <1>9 DEF Sector
<1>10. QED
  BY <1>8, <1>9

(***************************************************************************)
(* The tail of aaruf_write_sector.                                         *)
(***************************************************************************)

(* What Store does to the sectors that were there, to the map, and to the  *)
(* entry of the address, when the open block holds buf and will start at   *)
(* unit p.                                                                 *)
LEMMA StoreSectors ==
    ASSUME TypeOK, NEW a \in Address, NEW d \in Data, NEW s \in Statuses,
           NEW f \in [Units -> Cell], NEW buf \in Seq(Data), NEW p \in Units, p # 0,
           Store(a, d, s, buf, p), Len(buf) < BlockSectors,
           \A h \in Hashes : GoodEntry(f, hashMap[h], p, buf, sectorSize),
           HashesRight(f, hashMap, p, buf)
    PROVE  /\ Kept(f, p, buf, buffer', sectorSize)
           /\ HashesRight(f, hashMap', p, buffer')
           /\ Entered(ddt, ddt', a, d, s, f, p, buffer')
<1> DEFINE found == IF Dedup THEN hashMap[Hash[d]] ELSE NoEntry
           e     == EntryFor(found, Len(buf), p, s)
<1>1. Hash \in [Data -> Hashes] /\ Hash[d] \in Hashes
  BY DataAssumption
<1>2. /\ found \in Entry
      /\ hashMap \in [Hashes -> Entry]
      /\ p \in Nat
  BY <1>1, NoEntryIsEntry, SizeAssumption DEF TypeOK, Units
<1>3. e \in Entry
  BY <1>2, EntryForIsEntry
<1>4. ddt' = Replaced(ddt, Corrected(a), e)
  BY DEF Store, SetDdtEntry, Replaced
<1> HIDE DEF found, e
<1>5. CASE found # NoEntry
  <2>1. buffer' = buf /\ hashMap' = hashMap
    BY <1>5 DEF Store, found
  <2>2. found = hashMap[Hash[d]]
    BY <1>5 DEF found
  <2>3. found.block # 0 /\ Hash[Sector(f, found, p, buf)] = Hash[d]
    BY <1>1, <1>5, <2>2 DEF HashesRight
  <2>4. Sector(f, found, p, buf) \in Data
    BY <1>1, <1>2, <2>2, <2>3, SectorIsData
  <2>5. Sector(f, found, p, buf) = d
    BY <2>3, <2>4, HashAssumption
  <2>6. e = [found EXCEPT !.status = s]
    BY <1>5 DEF EntryFor, e
  <2>7. e.block = found.block /\ e.offset = found.offset /\ e.status = s
    BY <1>2, <2>6 DEF Entry
  <2>8. Sector(f, e, p, buffer') = d
    BY <2>1, <2>5, <2>7 DEF Sector
  <2>9. QED
    BY <1>3, <1>4, <2>1, <2>3, <2>7, <2>8 DEF Kept, Entered
<1>6. CASE found = NoEntry
  <2>1. buffer' = Append(buf, d)
    BY <1>6 DEF Store, found, e
  <2>2. e.block = p /\ e.offset = Len(buf) /\ e.status = s
    BY <1>6, SmallRemainder DEF EntryFor, e
  <2>3. Sector(f, e, p, buffer') = d
    BY <2>1, <2>2 DEF Sector
  <2>4. Kept(f, p, buf, buffer', sectorSize)
    BY <1>2, <2>1, SectorAppended DEF Kept
  <2>5. HashesRight(f, hashMap', p, buffer')
    <3>1. hashMap' = hashMap \/ hashMap' = [hashMap EXCEPT ![Hash[d]] = e]
      BY <1>6 DEF Store, found, e
    <3> SUFFICES ASSUME NEW h \in Hashes, hashMap'[h] # NoEntry
                 PROVE  /\ hashMap'[h].block # 0
                        /\ Hash[Sector(f, hashMap'[h], p, buffer')] = h
      BY DEF HashesRight
    <3>2. CASE hashMap'[h] = hashMap[h]
      <4>1. hashMap[h].block # 0 /\ Hash[Sector(f, hashMap[h], p, buf)] = h
        BY <3>2 DEF HashesRight
      <4>2. hashMap[h] \in Entry /\ GoodEntry(f, hashMap[h], p, buf, sectorSize)
        BY <1>2
      <4>3. QED
        BY <3>2, <4>1, <4>2, <2>4 DEF Kept
    <3>3. CASE hashMap'[h] # hashMap[h]
      <4>1. h = Hash[d] /\ hashMap'[h] = e
        BY <1>2, <3>1, <3>3
      <4>2. QED
        BY <4>1, <2>2, <2>3
    <3>4. QED
      BY <3>2, <3>3
  <2>6. QED
    BY <1>3, <1>4, <2>2, <2>3, <2>4, <2>5 DEF Entered
<1>7. QED
  BY <1>5, <1>6

(* After aaruf_close_current_block, before the rest of the write.          *)
LEMMA HashesWritten ==
    ASSUME SafeInv, HashInv, buffer # <<>>, NEW span \in Spans, NEW z \in BOOLEAN,
           CloseBlock(span, z), NEW buf
    PROVE  HashesRight(file', hashMap, nextPos', buf)
<1> SUFFICES ASSUME NEW h \in Hashes, hashMap[h] # NoEntry
             PROVE  /\ hashMap[h].block # 0
                    /\ Hash[Sector(file', hashMap[h], nextPos', buf)] = h
  BY DEF HashesRight
<1>1. hashMap[h] \in Entry /\ GoodEntry(file, hashMap[h], nextPos, buffer, sectorSize)
  BY DEF SafeInv, TypeInv, TypeOK, EntryInv
<1>2. hashMap[h].block # 0 /\ Hash[Sector(file, hashMap[h], nextPos, buffer)] = h
  BY DEF HashInv, HashesRight
<1>3. QED
  BY <1>1, <1>2, SectorWritten

(* A change of the file at or after the open block, the memory unchanged.  *)
LEMMA HashesKept ==
    ASSUME SafeInv, HashInv, Agree(file, file', nextPos),
           UNCHANGED <<hashMap, nextPos, buffer>>
    PROVE  HashInv'
<1> SUFFICES ASSUME NEW h \in Hashes, hashMap[h] # NoEntry
             PROVE  /\ hashMap[h].block # 0
                    /\ Hash[Sector(file', hashMap[h], nextPos, buffer)] = h
  BY DEF HashesRight, HashInv
<1>1. hashMap[h] \in Entry /\ GoodEntry(file, hashMap[h], nextPos, buffer, sectorSize)
  BY DEF SafeInv, TypeInv, TypeOK, EntryInv
<1>2. hashMap[h].block # 0 /\ Hash[Sector(file, hashMap[h], nextPos, buffer)] = h
  BY DEF HashInv, HashesRight
<1>3. file \in [Units -> Cell] /\ nextPos \in Nat
  BY DEF SafeInv, TypeInv, TypeOK
<1>4. QED
  BY <1>1, <1>2, <1>3, SectorKept

(***************************************************************************)
(* What the open image reads as.                                           *)
(***************************************************************************)

(* An entry that leads nowhere reads the same whatever sector is offered.  *)
LEMMA ReadingSame ==
    ASSUME NEW e, NEW f, NEW p, NEW buf, NEW g, NEW q, NEW other,
           e.block # 0 => Sector(f, e, p, buf) = Sector(g, e, q, other)
    PROVE  Reading(f, e, p, buf) = Reading(g, e, q, other)
BY DEF Reading, ContentOf

(* aaruf_read_sector of a good entry gives the sector it leads to.         *)
LEMMA GoodReading ==
    ASSUME NEW f \in [Units -> Cell], f[0] = NoCell, NEW p \in Nat, p >= 1,
           NEW buf, NEW size, NEW e \in Entry, GoodEntry(f, e, p, buf, size)
    PROVE  LET buffered == e.block = p /\ Located(buf, size, e.offset)
               onDisk   == /\ Intact(f, e.block, "data")
                           /\ Located(f[e.block].obj.sectors, f[e.block].obj.size, e.offset)
           IN  ContentOf(e, buffered \/ onDisk,
                         IF buffered THEN buf[e.offset + 1]
                                     ELSE f[e.block].obj.sectors[e.offset + 1])
                   = Reading(f, e, p, buf)
<1>1. CASE e.block = 0
  <2>1. ~Intact(f, e.block, "data")
    BY <1>1 DEF Intact, NoCell, Hole
  <2>2. e.block # p
    BY <1>1
  <2>3. QED
    BY <1>1, <2>1, <2>2 DEF Reading, ContentOf
<1>2. CASE e.block # 0
  <2>1. /\ e.block = p => Located(buf, size, e.offset)
        /\ e.block # p => Resolves(f, e, p)
    BY <1>2, EntryPlace
  <2>2. QED
    BY <1>2, <2>1 DEF Reading, Sector, ContentOf, Resolves, Whole
<1>3. QED
  BY <1>1, <1>2

LEMMA OpenImageReads == SafeInv => OpenImage = Readings(file, ddt, nextPos, buffer)
<1> SUFFICES ASSUME SafeInv PROVE OpenImage = Readings(file, ddt, nextPos, buffer)
  OBVIOUS
<1>1. /\ file \in [Units -> Cell] /\ file[0] = NoCell
      /\ nextPos \in Nat /\ nextPos >= 1
      /\ ddt \in [Slot -> Entry]
  BY DEF SafeInv, TypeInv, TypeOK, FileInv
<1>2. ASSUME NEW i \in Slot
      PROVE  ContentOf(ddt[i], InBuffer(ddt[i]) \/ OnDisk(ddt[i]), SectorAt(ddt[i]))
                 = Reading(file, ddt[i], nextPos, buffer)
  <2>1. ddt[i] \in Entry /\ GoodEntry(file, ddt[i], nextPos, buffer, sectorSize)
    BY <1>1 DEF SafeInv, EntryInv
  <2>2. QED
    BY <1>1, <2>1, GoodReading DEF InBuffer, OnDisk, SectorAt
<1>3. QED
  BY <1>2 DEF OpenImage, Readings

LEMMA OpenImageReadsNext ==
    ASSUME SafeInv' PROVE OpenImage' = Readings(file', ddt', nextPos', buffer')
<1>1. (SafeInv => OpenImage = Readings(file, ddt, nextPos, buffer))'
  BY OpenImageReads, PTL
<1>2. QED
  BY <1>1

(* The table after one entry is replaced: f and p are the file and the     *)
(* unit of the open block, buf and after its sectors before and after.     *)
LEMMA StoredReadings ==
    ASSUME NEW a \in Address, NEW d, NEW s, ~IsGenerated(s),
           NEW f, NEW buf, NEW after, NEW p, NEW size,
           NEW t \in [Slot -> Entry], NEW u,
           EntriesGood(f, t, p, buf, size),
           Kept(f, p, buf, after, size),
           Entered(t, u, a, d, s, f, p, after)
    PROVE  Readings(f, u, p, after) =
          Rewritten(Readings(f, t, p, buf), a, d, s)
<1>1. Corrected(a) \in Slot
  BY CorrectedInSlot
<1>2. PICK e \in Entry : /\ u = Replaced(t, Corrected(a), e)
                         /\ e.status = s /\ e.block # 0
                         /\ Sector(f, e, p, after) = d
  BY DEF Entered
<1>3. Reading(f, e, p, after) =
          IF s = NotDumped THEN BlankSector ELSE [status |-> s, sector |-> d]
  BY <1>2 DEF Reading, ContentOf
<1>4. ASSUME NEW i \in Slot, i # Corrected(a)
      PROVE  Reading(f, u[i], p, after) = Reading(f, t[i], p, buf)
  <2>1. u[i] = t[i] /\ t[i] \in Entry
    BY <1>1, <1>2, <1>4 DEF Replaced
  <2>2. t[i].block # 0 => Sector(f, t[i], p, after) = Sector(f, t[i], p, buf)
    BY <2>1 DEF Kept, EntriesGood
  <2>3. QED
    BY <2>1, <2>2, ReadingSame
<1>5. u[Corrected(a)] = e
  BY <1>1, <1>2 DEF Replaced
<1>6. QED
  BY <1>1, <1>3, <1>4, <1>5 DEF Readings, Rewritten, Replaced

(* What the tail of aaruf_write_sector makes of the image.                 *)
LEMMA StoreReadings ==
    ASSUME TypeOK, NEW a \in Address, NEW d \in Data, NEW s \in Statuses, ~IsGenerated(s),
           NEW f \in [Units -> Cell], NEW buf \in Seq(Data), NEW p \in Units, p # 0,
           Store(a, d, s, buf, p), Len(buf) < BlockSectors,
           EntriesGood(f, ddt, p, buf, sectorSize),
           \A h \in Hashes : GoodEntry(f, hashMap[h], p, buf, sectorSize),
           HashesRight(f, hashMap, p, buf)
    PROVE  Readings(f, ddt', p, buffer') =
          Rewritten(Readings(f, ddt, p, buf), a, d, s)
<1>1. ddt \in [Slot -> Entry]
  BY DEF TypeOK
<1>2. /\ Kept(f, p, buf, buffer', sectorSize)
      /\ Entered(ddt, ddt', a, d, s, f, p, buffer')
  BY StoreSectors
<1>3. QED
  BY <1>1, <1>2, StoredReadings

(* Closing a block changes nothing a program reads.                        *)
LEMMA BlockReadings ==
    ASSUME SafeInv, buffer # <<>>, NEW span \in Spans, NEW z \in BOOLEAN,
           CloseBlock(span, z), NEW buf
    PROVE  Readings(file', ddt, nextPos', buf) = Readings(file, ddt, nextPos, buffer)
<1>1. ASSUME NEW i \in Slot
      PROVE  Reading(file', ddt[i], nextPos', buf) = Reading(file, ddt[i], nextPos, buffer)
  <2>1. ddt[i] \in Entry /\ GoodEntry(file, ddt[i], nextPos, buffer, sectorSize)
    BY DEF SafeInv, TypeInv, TypeOK, EntryInv
  <2>2. QED
    BY <2>1, SectorWritten, ReadingSame
<1>2. QED
  BY <1>1 DEF Readings

(* Nor does any other change of the file at or after the open block.       *)
LEMMA LaterReadings ==
    ASSUME SafeInv, NEW g, Agree(file, g, nextPos)
    PROVE  Readings(g, ddt, nextPos, buffer) = Readings(file, ddt, nextPos, buffer)
<1>1. file \in [Units -> Cell] /\ nextPos \in Nat
  BY DEF SafeInv, TypeInv, TypeOK
<1>2. ASSUME NEW i \in Slot
      PROVE  Reading(g, ddt[i], nextPos, buffer) = Reading(file, ddt[i], nextPos, buffer)
  <2>1. ddt[i] \in Entry /\ GoodEntry(file, ddt[i], nextPos, buffer, sectorSize)
    BY DEF SafeInv, TypeInv, TypeOK, EntryInv
  <2>2. QED
    BY <1>1, <2>1, SectorKept, ReadingSame
<1>3. QED
  BY <1>2 DEF Readings

(***************************************************************************)
(* aaruf_write_sector.                                                     *)
(***************************************************************************)
Stores(a, d, s) ==
    OpenImage' =
          Rewritten(OpenImage, a, d, s)

(* A sector that joins the open block or is found by its hash.             *)
LEMMA WriteSectorStores ==
    ASSUME SafeInv, HashInv, NEW a \in Address, NEW d \in Data, NEW s \in Written,
           WriteSector(a, d, s)
    PROVE  HashInv' /\ Stores(a, d, s)
<1>1. /\ nextPos' = nextPos /\ file' = file /\ phase = "Open"
      /\ Store(a, d, s, buffer, nextPos) /\ ~MustClose(d) /\ ~IsGenerated(s)
  BY DEF WriteSector, disc
<1>2. /\ TypeOK /\ buffer \in Seq(Data) /\ s \in Statuses
      /\ nextPos \in Units /\ nextPos # 0 /\ file \in [Units -> Cell]
  BY <1>1, StatusAssumption DEF SafeInv, TypeInv, TypeOK, Store, Units
<1>3. Len(buffer) < BlockSectors
  BY <1>1, <1>2, SizeAssumption DEF MustClose, SafeInv, BufferInv
<1>4. HashesRight(file, hashMap', nextPos, buffer')
  BY <1>1, <1>2, <1>3, StoreSectors DEF SafeInv, EntryInv, HashInv
<1>5. Readings(file, ddt', nextPos, buffer') =
          Rewritten(Readings(file, ddt, nextPos, buffer), a, d, s)
  BY <1>1, <1>2, <1>3, StoreReadings DEF SafeInv, EntryInv, HashInv, EntriesGood
<1>6. SafeInv'
  BY WriteSectorSafe
<1>7. QED
  BY <1>1, <1>4, <1>5, <1>6, OpenImageReads, OpenImageReadsNext DEF HashInv, Stores

(* A sector that finds the open block full, or of another sector size.     *)
LEMMA WriteSectorInNewBlockStores ==
    ASSUME SafeInv, HashInv, NEW a \in Address, NEW d \in Data, NEW s \in Written,
           NEW span \in Spans, NEW z \in BOOLEAN, WriteSectorInNewBlock(a, d, s, span, z)
    PROVE  HashInv' /\ Stores(a, d, s)
<1>1. /\ buffer # <<>> /\ CloseBlock(span, z) /\ nextPos' = nextPos + span
      /\ Store(a, d, s, <<>>, nextPos') /\ ~IsGenerated(s)
  BY DEF WriteSectorInNewBlock, MustClose, CloseBlock
<1>2. SafeInv'
  BY WriteSectorInNewBlockSafe
<1>3. /\ TypeOK /\ <<>> \in Seq(Data) /\ s \in Statuses /\ Len(<<>>) < BlockSectors
      /\ nextPos' \in Units /\ nextPos' # 0 /\ file' \in [Units -> Cell]
      /\ ddt \in [Slot -> Entry] /\ hashMap \in [Hashes -> Entry]
  <2>1. nextPos' \in 1..(MaxUnit + 1) /\ file' \in [Units -> Cell]
    BY <1>2 DEF SafeInv, TypeInv, TypeOK
  <2>2. nextPos' <= MaxUnit
    BY <1>1 DEF Store
  <2>3. QED
    BY <2>1, <2>2, StatusAssumption, SizeAssumption DEF SafeInv, TypeInv, TypeOK, Units
<1>4. /\ EntriesGood(file', ddt, nextPos', <<>>, sectorSize)
      /\ \A h \in Hashes : GoodEntry(file', hashMap[h], nextPos', <<>>, sectorSize)
  BY <1>1, <1>3, CloseBlockSafe DEF SafeInv, EntryInv, EntriesGood
<1>5. HashesRight(file', hashMap, nextPos', <<>>)
  BY <1>1, HashesWritten
<1>6. HashesRight(file', hashMap', nextPos', buffer')
  BY <1>1, <1>3, <1>4, <1>5, StoreSectors
<1>7. Readings(file', ddt', nextPos', buffer') =
          Rewritten(Readings(file', ddt, nextPos', <<>>), a, d, s)
  <2>1. /\ Kept(file', nextPos', <<>>, buffer', sectorSize)
        /\ Entered(ddt, ddt', a, d, s, file', nextPos', buffer')
    BY <1>1, <1>3, <1>4, <1>5, StoreSectors
  <2>2. QED
    BY <1>1, <1>3, <1>4, <2>1, StoredReadings
<1>8. Readings(file', ddt, nextPos', <<>>) = Readings(file, ddt, nextPos, buffer)
  BY <1>1, BlockReadings
<1>9. QED
  BY <1>2, <1>6, <1>7, <1>8, OpenImageReads, OpenImageReadsNext DEF HashInv, Stores

(***************************************************************************)
(* The deduplication map in every step.                                    *)
(***************************************************************************)
LEMMA HashesOfFreeContext ==
    ASSUME FreeContext PROVE HashInv'
BY DEF FreeContext, HashInv, HashesRight, EmptyMap

LEMMA HashesInClose ==
    ASSUME SafeInv, HashInv, CloseStep
    PROVE  HashInv'
<1>1. /\ nextPos \in Nat /\ eof \in Nat /\ nextPos <= eof
      /\ file \in [Units -> Cell]
  BY DEF SafeInv, TypeInv, TypeOK, FileInv
<1>2. ASSUME NEW span \in Spans, NEW z \in BOOLEAN, CloseLastBlock(span, z)
      PROVE  HashInv'
  <2>1. HashesRight(file', hashMap, nextPos', <<>>)
    BY <1>2, HashesWritten DEF CloseLastBlock
  <2>2. QED
    BY <1>2, <2>1 DEF CloseLastBlock, HashInv
<1>3. ASSUME Agree(file, file', eof), UNCHANGED <<hashMap, nextPos, buffer>>
      PROVE  HashInv'
  BY <1>1, <1>3, HashesKept DEF Agree, Units
<1>4. ASSUME NEW span \in Spans, NEW z \in BOOLEAN, CloseDdt(span, z) \/ CloseIndex(span)
      PROVE  HashInv'
  <2>1. CASE CloseDdt(span, z)
    <3>1. Agree(file, file', eof)
      BY <1>1, <2>1 DEF CloseDdt, Agree, Put, Units
    <3>2. QED
      BY <1>3, <2>1, <3>1 DEF CloseDdt
  <2>2. CASE CloseIndex(span)
    <3>1. Agree(file, file', eof)
      BY <1>1, <2>2 DEF CloseIndex, Agree, Put, Units
    <3>2. QED
      BY <1>3, <2>2, <3>1 DEF CloseIndex
  <2>3. QED
    BY <1>4, <2>1, <2>2
<1>5. ASSUME NEW n \in 0..MaxTear, CloseDdtFails(n) \/ CloseIndexFails(n)
      PROVE  HashInv'
  BY <1>1, <1>3, <1>5, TearAgrees DEF CloseDdtFails, CloseIndexFails, memory
<1>6. ASSUME NEW n \in 0..MaxTear, CloseLastBlockFails(n)
      PROVE  HashInv'
  BY <1>1, <1>6, TearAgrees, HashesKept DEF CloseLastBlockFails, CloseBlockFails
<1>7. CASE CloseHeader \/ CloseNoBlock \/ CloseCleanDdt \/ CloseRootFails
  BY <1>3, <1>7 DEF CloseHeader, CloseNoBlock, CloseCleanDdt, CloseRootFails, memory, disc,
                    Agree
<1>8. CASE CloseHeaderFails \/ CloseRoot \/ CloseCleanIndex
  BY <1>8, HashesOfFreeContext DEF CloseHeaderFails, CloseRoot, CloseCleanIndex
<1>9. QED
  BY <1>2, <1>4, <1>5, <1>6, <1>7, <1>8 DEF CloseStep

LEMMA HashesInWrite ==
    ASSUME SafeInv, HashInv, WriteStep
    PROVE  HashInv'
<1>1. ASSUME NEW d \in Data, NEW n \in 0..MaxTear, WriteSectorFails(d, n)
      PROVE  HashInv'
  <2>1. nextPos \in Nat
    BY DEF SafeInv, TypeInv, TypeOK
  <2>2. QED
    BY <1>1, <2>1, TearAgrees, HashesKept DEF WriteSectorFails, CloseBlockFails
<1>2. ASSUME NEW a \in Address, WriteGenerable(a)
      PROVE  HashInv'
  BY <1>2, HashesKept DEF WriteGenerable, disc, Agree
<1>3. QED
  BY <1>1, <1>2, WriteSectorStores, WriteSectorInNewBlockStores DEF WriteStep

LEMMA HashesHold == Spec => []HashInv
<1>1. Init => HashInv
  BY DEF Init, HashInv, HashesRight, EmptyMap
<1>2. SafeInv /\ HashInv /\ [Next]_vars => HashInv'
  <2> SUFFICES ASSUME SafeInv, HashInv, [Next]_vars PROVE HashInv'
    OBVIOUS
  <2>1. CASE Crash
    BY <2>1, HashesOfFreeContext DEF Crash
  <2>2. CASE Create \/ Resume
    <3>1. hashMap' = hashMap /\ hashMap = EmptyMap
      BY <2>2 DEF Create, Resume, SafeInv, EndedInv
    <3>2. QED
      BY <3>1 DEF HashInv, HashesRight, EmptyMap
  <2>3. CASE UNCHANGED vars
    BY <2>3 DEF vars, memory, disc, HashInv, HashesRight
  <2>4. QED
    BY <2>1, <2>2, <2>3, HashesInWrite, HashesInClose DEF Next
<1>3. QED
  BY <1>1, <1>2, Safety, PTL DEF Spec

(***************************************************************************)
(* The theorems.                                                           *)
(***************************************************************************)

(* aaruf_write_sector takes a sector it finds by its hash for the one it   *)
(* was given: for every instance, however the block it was buffered for    *)
(* ended, the sector found exists and has that hash.                       *)
THEOREM HashMapIsSound == Spec => []HashMapSound
<1>1. SafeInv /\ HashInv => HashMapSound
  <2> SUFFICES ASSUME SafeInv, HashInv, NEW h \in Hashes, hashMap[h] # NoEntry
               PROVE  /\ InBuffer(hashMap[h]) \/ OnDisk(hashMap[h])
                      /\ Hash[SectorAt(hashMap[h])] = h
    BY DEF HashMapSound
  <2>1. /\ file \in [Units -> Cell] /\ nextPos \in Nat
        /\ hashMap[h] \in Entry
        /\ GoodEntry(file, hashMap[h], nextPos, buffer, sectorSize)
    BY DEF SafeInv, TypeInv, TypeOK, EntryInv
  <2>2. hashMap[h].block # 0 /\ Hash[Sector(file, hashMap[h], nextPos, buffer)] = h
    BY DEF HashInv, HashesRight
  <2>3. /\ hashMap[h].block = nextPos => Located(buffer, sectorSize, hashMap[h].offset)
        /\ hashMap[h].block # nextPos => Resolves(file, hashMap[h], nextPos)
    BY <2>1, <2>2, EntryPlace
  <2>4. QED
    BY <2>2, <2>3 DEF Sector, SectorAt, InBuffer, OnDisk, Resolves, Whole
<1>2. QED
  BY <1>1, Safety, HashesHold, PTL

(* A call of aaruf_write_sector that succeeds changes what its address     *)
(* reads as, to what it was given, and no other address: for every         *)
(* instance, with and without deduplication, before and after failures.    *)
THEOREM WritesStoreSectors == Spec => WriteStoresSector
<1>1. SafeInv /\ HashInv /\ [Next]_vars =>
        [\A a \in Address, d \in Data, s \in Written :
          \/ WriteSector(a, d, s)
          \/ \E span \in Spans, z \in BOOLEAN : WriteSectorInNewBlock(a, d, s, span, z)
          => OpenImage' =
                [OpenImage EXCEPT ![Corrected(a)] =
                    IF s = NotDumped THEN BlankSector
                                     ELSE [status |-> s, sector |-> d]]]_vars
  BY WriteSectorStores, WriteSectorInNewBlockStores DEF Stores, Rewritten, Replaced
<1>2. QED
  BY <1>1, Safety, HashesHold, PTL DEF Spec, WriteStoresSector

(***************************************************************************)
(* The inductive invariant.                                                *)
(***************************************************************************)
Indexed(es, block) == [type |-> "data", pos |-> block] \in es

(* The index es lists every block of table t, but for the one at unit p.   *)
ListsBlocks(es, t, p) == \A i \in Slot : t[i].block \notin {0, p} => Indexed(es, t[i].block)

(* The tables that the index es lists are table t. *)
ListsTable(f, es, t) == \A e \in es : e.type = "ddt" => f[e.pos].obj.table = t

(* The index at unit p is about table t. *)
Lists(f, p, t) ==
    ListsTable(f, f[p].obj.entries, t) /\ ListsBlocks(f[p].obj.entries, t, 0)

HashesIndexed(es, m, p) ==
    \A h \in Hashes : m[h].block \notin {0, p} => Indexed(es, m[h].block)

MemoryIndexed ==
    ListsBlocks(index, ddt, nextPos) /\ HashesIndexed(index, hashMap, nextPos)

CurrentTable ==
    (~dirtyDdt /\ ~Ended) \/ phase \in {"Index", "Root"} => ListsTable(file, index, ddt)

HeaderLists == header.index >= nextPos => Lists(file, header.index, ddt)

DiskLists == disk.index # 0 => \E t \in [Slot -> Entry] : Lists(file, disk.index, t)

HeaderOnDisk == ~Ended /\ header.index < nextPos => disk.index = header.index

CleanIndex ==
    ~dirtyIndex /\ ~Ended =>
        disk.index # 0 /\ header.index = disk.index /\ index = DiskIndex

IndexInv ==
    /\ MemoryIndexed
    /\ CurrentTable
    /\ HeaderLists
    /\ DiskLists
    /\ HeaderOnDisk
    /\ CleanIndex

(***************************************************************************)
(* What a step leaves of the indexes.                                      *)
(***************************************************************************)

(* No step but aaruf_create changes what is before the open block.         *)
LEMMA FileAgrees ==
    ASSUME SafeInv, [Next]_vars, ~Create
    PROVE  Agree(file, file', nextPos)
<1>1. nextPos \in Nat /\ eof \in Nat /\ nextPos <= eof
  BY DEF SafeInv, TypeInv, TypeOK, FileInv
<1>2. QED
  BY <1>1, WritesLandAfter DEF Agree, Units

(* What a whole index lists stays what it was below its limit.             *)
LEMMA ListsKept ==
    ASSUME NEW f \in [Units -> Cell], NEW g, NEW l \in Nat, Agree(f, g, l),
           NEW p \in Units, GoodRoot(f, p, l)
    PROVE  /\ g[p] = f[p]
           /\ \A t : Lists(f, p, t) => Lists(g, p, t)
<1>1. g[p] = f[p]
  BY WholeKept DEF GoodRoot
<1>2. f[p].obj.entries \in SUBSET IndexEntry
  BY CellKind DEF GoodRoot, Whole, Intact, IndexBlock
<1>3. \A e \in f[p].obj.entries : g[e.pos] = f[e.pos]
  <2> SUFFICES ASSUME NEW e \in f[p].obj.entries PROVE g[e.pos] = f[e.pos]
    OBVIOUS
  <2>1. e.pos \in Units /\ Whole(f, e.pos, e.type, l)
    BY <1>2 DEF IndexEntry, GoodRoot, GoodIndex, GoodIndexed
  <2>2. QED
    BY <2>1, WholeKept
<1>4. QED
  BY <1>1, <1>3 DEF Lists, ListsTable

(* The indexes that the headers point at, in memory and on disk.           *)
LEMMA RootsStay ==
    ASSUME SafeInv, [Next]_vars, ~Create
    PROVE  /\ header.index # 0 =>
                 /\ file'[header.index] = file[header.index]
                 /\ \A t : Lists(file, header.index, t) => Lists(file', header.index, t)
           /\ disk.index # 0 =>
                 /\ file'[disk.index] = file[disk.index]
                 /\ \A t : Lists(file, disk.index, t) => Lists(file', disk.index, t)
<1>1. /\ file \in [Units -> Cell] /\ header.index \in Units /\ disk.index \in Units
      /\ nextPos \in Nat /\ eof \in Nat
  BY DEF SafeInv, TypeInv, TypeOK
<1>2. CASE file' = file
  BY <1>2
<1>3. CASE buffer # <<>> /\ Agree(file, file', nextPos)
  <2>1. Agree(file, file, nextPos)
    BY DEF Agree
  <2>2. /\ header.index # 0 => GoodRoot(file, header.index, nextPos)
        /\ disk.index # 0 => GoodRoot(file, disk.index, nextPos)
    BY <1>1, <1>3, <2>1, RootsKeptAtBlock
  <2>3. QED
    BY <1>1, <1>3, <2>2, ListsKept
<1>4. CASE Agree(file, file', eof)
  BY <1>1, <1>4, RootsBelowEof, ListsKept
<1>5. QED
  BY <1>2, <1>3, <1>4, WritesLandAfter

(* The tables listed in memory, when the units they are in are left alone. *)
LEMMA TablesStay ==
    ASSUME SafeInv, NEW g, NEW l \in Nat, Agree(file, g, l),
           \A e \in index : e.type = "ddt" => GoodIndexed(file, e, l),
           ListsTable(file, index, ddt)
    PROVE  ListsTable(g, index, ddt)
<1> SUFFICES ASSUME NEW e \in index, e.type = "ddt"
             PROVE  g[e.pos].obj.table = ddt
  BY DEF ListsTable
<1>1. file \in [Units -> Cell] /\ e.pos \in Units
  BY DEF SafeInv, TypeInv, TypeOK, IndexEntry
<1>2. Whole(file, e.pos, "ddt", l)
  BY DEF GoodIndexed
<1>3. g[e.pos] = file[e.pos]
  BY <1>1, <1>2, WholeKept
<1>4. QED
  BY <1>3 DEF ListsTable

(***************************************************************************)
(* aaruf_write_sector.                                                     *)
(***************************************************************************)

(* The tail of aaruf_write_sector: an entry it makes or shares leads to a  *)
(* block that is indexed, or to the open one.                              *)
LEMMA StoreIndexed ==
    ASSUME TypeOK, NEW a \in Address, NEW d \in Data, NEW s, NEW buf, NEW p,
           Store(a, d, s, buf, p), NEW es,
           ListsBlocks(es, ddt, p), HashesIndexed(es, hashMap, p)
    PROVE  ListsBlocks(es, ddt', p) /\ HashesIndexed(es, hashMap', p)
<1> DEFINE found == IF Dedup THEN hashMap[Hash[d]] ELSE NoEntry
           e     == EntryFor(found, Len(buf), p, s)
<1>1. Hash[d] \in Hashes
  BY DataAssumption
<1>2. found.block \notin {0, p} => Indexed(es, found.block)
  BY <1>1 DEF HashesIndexed, NoEntry
<1>3. e.block \notin {0, p} => Indexed(es, e.block)
  <2>1. CASE found # NoEntry
    <3>1. found \in Entry
      BY <1>1, NoEntryIsEntry DEF TypeOK
    <3>2. e = [found EXCEPT !.status = s]
      BY <2>1 DEF EntryFor
    <3>3. e.block = found.block
      BY <3>1, <3>2 DEF Entry
    <3>4. QED
      BY <1>2, <3>3
  <2>2. CASE found = NoEntry
    BY <2>2 DEF EntryFor
  <2>3. QED
    BY <2>1, <2>2
<1>4. /\ ddt' = [ddt EXCEPT ![Corrected(a)] = e]
      /\ hashMap' = hashMap \/ hashMap' = [hashMap EXCEPT ![Hash[d]] = e]
  BY DEF Store, SetDdtEntry
<1> HIDE DEF e
<1>5. ddt \in [Slot -> Entry] /\ hashMap \in [Hashes -> Entry]
  BY DEF TypeOK
<1>6. ASSUME NEW i \in Slot PROVE ddt'[i] = e \/ ddt'[i] = ddt[i]
  BY <1>4, <1>5
<1>7. ASSUME NEW h \in Hashes PROVE hashMap'[h] = e \/ hashMap'[h] = hashMap[h]
  BY <1>4, <1>5
<1>8. ListsBlocks(es, ddt', p)
  BY <1>3, <1>6 DEF ListsBlocks
<1>9. HashesIndexed(es, hashMap', p)
  BY <1>3, <1>7 DEF HashesIndexed
<1>10. QED
  BY <1>8, <1>9

(* Once the open block is in the index, nothing is left out.               *)
LEMMA PushIndexes ==
    ASSUME MemoryIndexed, PushDataBlock, NEW p
    PROVE  /\ ListsBlocks(index', ddt, p) /\ HashesIndexed(index', hashMap, p)
           /\ \A f, t : ListsTable(f, index, t) => ListsTable(f, index', t)
<1>1. index' = index \cup {[type |-> "data", pos |-> nextPos]}
  BY DEF PushDataBlock
<1>2. ASSUME NEW q, q \notin {0, nextPos} => Indexed(index, q), q # 0
      PROVE  Indexed(index', q)
  BY <1>1, <1>2 DEF Indexed
<1>3. ListsBlocks(index', ddt, p)
  BY <1>2 DEF MemoryIndexed, ListsBlocks
<1>4. HashesIndexed(index', hashMap, p)
  BY <1>2 DEF MemoryIndexed, HashesIndexed
<1>5. ASSUME NEW f, NEW t, ListsTable(f, index, t)
      PROVE  ListsTable(f, index', t)
  BY <1>1, <1>5 DEF ListsTable
<1>6. QED
  BY <1>3, <1>4, <1>5

(* What a step that moves no root leaves of the indexes in the file.       *)
LEMMA RootsFollow ==
    ASSUME SafeInv, IndexInv, [Next]_vars, ~Create, ~Ended,
           header'.index = header.index, disk'.index = disk.index,
           nextPos' \in Nat, nextPos <= nextPos',
           header.index < nextPos \/ (ddt' = ddt /\ nextPos' = nextPos),
           dirtyIndex' = TRUE \/ (dirtyIndex' = dirtyIndex /\ index' = index)
    PROVE  HeaderLists' /\ DiskLists' /\ HeaderOnDisk' /\ CleanIndex'
<1>1. /\ header.index \in Nat /\ nextPos \in Nat /\ nextPos >= 1
      /\ dirtyIndex \in BOOLEAN
  BY DEF SafeInv, TypeInv, TypeOK, Units
<1>2. HeaderLists'
  <2> SUFFICES ASSUME header'.index >= nextPos'
               PROVE  Lists(file', header'.index, ddt')
    BY DEF HeaderLists
  <2>1. header.index >= nextPos /\ ddt' = ddt /\ header.index # 0
    BY <1>1
  <2>2. Lists(file, header.index, ddt)
    BY <2>1 DEF IndexInv, HeaderLists
  <2>3. QED
    BY <2>1, <2>2, RootsStay
<1>3. DiskLists'
  <2> SUFFICES ASSUME disk'.index # 0
               PROVE  \E t \in [Slot -> Entry] : Lists(file', disk'.index, t)
    BY DEF DiskLists
  <2>1. PICK t \in [Slot -> Entry] : Lists(file, disk.index, t)
    BY DEF IndexInv, DiskLists
  <2>2. Lists(file', disk.index, t)
    BY <2>1, RootsStay
  <2>3. QED
    BY <2>2
<1>4. HeaderOnDisk'
  BY <1>1 DEF IndexInv, HeaderOnDisk
<1>5. CleanIndex'
  BY <1>1, RootsStay DEF IndexInv, CleanIndex, DiskIndex
<1>6. QED
  BY <1>2, <1>3, <1>4, <1>5

(* The tables that the index lists, after a step that leaves the table     *)
(* clean.                                                                  *)
LEMMA CleanStays ==
    ASSUME SafeInv, IndexInv, [Next]_vars, ~Create, ~Ended, ~dirtyDdt
    PROVE  ListsTable(file', index, ddt)
<1>1. nextPos \in Nat /\ Agree(file, file', nextPos)
  BY FileAgrees DEF SafeInv, TypeInv, TypeOK
<1>2. /\ \A e \in index : e.type = "ddt" => GoodIndexed(file, e, nextPos)
      /\ ListsTable(file, index, ddt)
  BY DEF SafeInv, CleanTable, IndexInv, CurrentTable
<1>3. QED
  BY <1>1, <1>2, TablesStay

LEMMA WriteSectorIndexed ==
    ASSUME SafeInv, IndexInv, NEW a \in Address, NEW d \in Data, NEW s \in Written,
           WriteSector(a, d, s)
    PROVE  IndexInv'
<1>1. /\ phase = "Open" /\ phase' = "Open" /\ Store(a, d, s, buffer, nextPos)
      /\ nextPos' = nextPos /\ index' = index /\ header' = header /\ disk' = disk
      /\ dirtyIndex' = dirtyIndex /\ dirtyDdt' = TRUE
  BY DEF WriteSector, Store, SetDdtEntry, disc
<1>2. [Next]_vars /\ ~Create
  BY <1>1 DEF Next, WriteStep, Create, Ended
<1>3. TypeOK /\ nextPos \in Nat /\ header.index \in Nat
  BY DEF SafeInv, TypeInv, TypeOK, Units
<1>4. MemoryIndexed'
  BY <1>1, <1>3, StoreIndexed DEF IndexInv, MemoryIndexed
<1>5. CurrentTable'
  BY <1>1 DEF CurrentTable
<1>6. header.index < nextPos
  BY <1>1, <1>3 DEF SafeInv, PhaseInv
<1>7. HeaderLists' /\ DiskLists' /\ HeaderOnDisk' /\ CleanIndex'
  BY <1>1, <1>2, <1>3, <1>6, RootsFollow DEF Ended
<1>8. QED
  BY <1>4, <1>5, <1>7 DEF IndexInv

LEMMA WriteSectorInNewBlockIndexed ==
    ASSUME SafeInv, IndexInv, NEW a \in Address, NEW d \in Data, NEW s \in Written,
           NEW span \in Spans, NEW z \in BOOLEAN, WriteSectorInNewBlock(a, d, s, span, z)
    PROVE  IndexInv'
<1>1. /\ phase = "Open" /\ phase' = "Open" /\ buffer # <<>>
      /\ Store(a, d, s, <<>>, nextPos') /\ PushDataBlock /\ dirtyIndex' = TRUE
      /\ nextPos' = nextPos + span /\ header' = header /\ disk' = disk
      /\ dirtyDdt' = TRUE
  BY DEF WriteSectorInNewBlock, MustClose, CloseBlock, PushDataBlock, Store, SetDdtEntry
<1>2. [Next]_vars /\ ~Create
  BY <1>1 DEF Next, WriteStep, Create, Ended
<1>3. TypeOK /\ nextPos \in Nat /\ span \in Nat
  BY DEF SafeInv, TypeInv, TypeOK, Spans
<1>4. MemoryIndexed'
  <2>1. ListsBlocks(index', ddt, nextPos') /\ HashesIndexed(index', hashMap, nextPos')
    BY <1>1, PushIndexes DEF IndexInv
  <2>2. QED
    BY <1>1, <1>3, <2>1, StoreIndexed DEF MemoryIndexed
<1>5. CurrentTable'
  BY <1>1 DEF CurrentTable
<1>6. header.index < nextPos
  BY <1>1, OpenBlockFacts
<1>7. HeaderLists' /\ DiskLists' /\ HeaderOnDisk' /\ CleanIndex'
  BY <1>1, <1>2, <1>3, <1>6, RootsFollow DEF Ended
<1>8. QED
  BY <1>4, <1>5, <1>7 DEF IndexInv

LEMMA WriteGenerableIndexed ==
    ASSUME SafeInv, IndexInv, NEW a \in Address, WriteGenerable(a)
    PROVE  IndexInv'
<1>1. /\ phase = "Open" /\ phase' = "Open" /\ hashMap' = hashMap
      /\ ddt' = [ddt EXCEPT ![Corrected(a)] = [NoEntry EXCEPT !.status = Generable]]
      /\ nextPos' = nextPos /\ index' = index /\ header' = header /\ disk' = disk
      /\ dirtyIndex' = dirtyIndex /\ dirtyDdt' = TRUE
  BY DEF WriteGenerable, SetDdtEntry, disc
<1>2. [Next]_vars /\ ~Create
  BY <1>1 DEF Next, WriteStep, Create, Ended
<1>3. /\ ddt \in [Slot -> Entry] /\ nextPos \in Nat /\ header.index \in Nat
  BY DEF SafeInv, TypeInv, TypeOK, Units
<1>4. MemoryIndexed'
  <2>1. \A i \in Slot : ddt'[i].block = 0 \/ ddt'[i] = ddt[i]
    BY <1>1, <1>3 DEF NoEntry
  <2>2. QED
    BY <1>1, <2>1 DEF IndexInv, MemoryIndexed, ListsBlocks
<1>5. CurrentTable'
  BY <1>1 DEF CurrentTable
<1>6. header.index < nextPos
  BY <1>1, <1>3 DEF SafeInv, PhaseInv
<1>7. HeaderLists' /\ DiskLists' /\ HeaderOnDisk' /\ CleanIndex'
  BY <1>1, <1>2, <1>3, <1>6, RootsFollow DEF Ended
<1>8. QED
  BY <1>4, <1>5, <1>7 DEF IndexInv

(***************************************************************************)
(* A block that cannot be written, in a write or in a close.               *)
(***************************************************************************)
LEMMA CloseBlockFailsIndexed ==
    ASSUME SafeInv, IndexInv, [Next]_vars, buffer # <<>>, NEW n \in 0..MaxTear,
           CloseBlockFails(n), phase' = "Open"
    PROVE  IndexInv'
<1>1. /\ PushDataBlock /\ dirtyIndex' = TRUE /\ disk' = disk
      /\ UNCHANGED <<ddt, hashMap, nextPos, header, dirtyDdt>>
  BY DEF CloseBlockFails, PushDataBlock
<1>2. ~Ended /\ ~Create /\ nextPos \in Nat /\ header.index < nextPos
  BY OpenBlockFacts DEF Create, SafeInv, TypeInv, TypeOK
<1>3. MemoryIndexed'
  BY <1>1, PushIndexes DEF IndexInv, MemoryIndexed
<1>4. CurrentTable'
  <2> SUFFICES ASSUME ~dirtyDdt PROVE ListsTable(file', index', ddt)
    BY <1>1 DEF CurrentTable
  <2>1. QED
    BY <1>1, <1>2, CleanStays, PushIndexes DEF IndexInv
<1>5. HeaderLists' /\ DiskLists' /\ HeaderOnDisk' /\ CleanIndex'
  BY <1>1, <1>2, RootsFollow
<1>6. QED
  BY <1>3, <1>4, <1>5 DEF IndexInv

(***************************************************************************)
(* aaruf_close.                                                            *)
(***************************************************************************)
LEMMA CloseHeaderIndexed ==
    ASSUME SafeInv, IndexInv, CloseHeader
    PROVE  IndexInv'
<1>1. /\ ~Ended /\ phase' = "Block" /\ header'.index = header.index
      /\ disk'.index = header.index
      /\ UNCHANGED <<ddt, hashMap, nextPos, index, dirtyDdt, dirtyIndex, file>>
  BY DEF CloseHeader, Ended, SafeInv, TypeInv, TypeOK
<1>2. /\ header.index \in Nat /\ nextPos \in Nat /\ nextPos >= 1
      /\ ddt \in [Slot -> Entry] /\ dirtyIndex \in BOOLEAN
  BY DEF SafeInv, TypeInv, TypeOK, Units
<1>3. MemoryIndexed' /\ CurrentTable' /\ HeaderLists'
  BY <1>1 DEF IndexInv, MemoryIndexed, ListsBlocks, HashesIndexed, CurrentTable, HeaderLists,
              ListsTable, Lists
<1>4. DiskLists'
  <2>1. CASE header.index < nextPos
    BY <1>1, <2>1 DEF IndexInv, HeaderOnDisk, DiskLists
  <2>2. CASE header.index >= nextPos
    BY <1>1, <1>2, <2>2 DEF IndexInv, HeaderLists, DiskLists
  <2>3. QED
    BY <1>2, <2>1, <2>2
<1>5. HeaderOnDisk'
  BY <1>1 DEF HeaderOnDisk
<1>6. CleanIndex'
  BY <1>1 DEF IndexInv, CleanIndex, DiskIndex
<1>7. QED
  BY <1>3, <1>4, <1>5, <1>6 DEF IndexInv

(* A context that is freed or lost has nothing to list; the file keeps the *)
(* index that the header pointed at, or gets the one just written.         *)
LEMMA FreeContextIndexed ==
    ASSUME SafeInv, IndexInv, FreeContext, phase' \in {"Closed", "Lost"}, file' = file,
           disk' = disk \/ (disk' = header /\ header.index >= nextPos)
    PROVE  IndexInv'
<1>1. /\ Ended' /\ ddt' = EmptyDdt /\ hashMap' = EmptyMap /\ nextPos' = 1
      /\ header'.index = 0 /\ phase' \notin {"Index", "Root"}
  BY DEF FreeContext, Ended
<1>2. MemoryIndexed'
  BY <1>1 DEF MemoryIndexed, ListsBlocks, HashesIndexed, EmptyDdt, EmptyMap, NoEntry
<1>3. CurrentTable' /\ HeaderOnDisk' /\ CleanIndex'
  BY <1>1 DEF CurrentTable, HeaderOnDisk, CleanIndex
<1>4. HeaderLists'
  BY <1>1 DEF HeaderLists
<1>5. DiskLists'
  <2>1. ddt \in [Slot -> Entry]
    BY DEF SafeInv, TypeInv, TypeOK
  <2>2. QED
    BY <2>1 DEF IndexInv, HeaderLists, DiskLists
<1>6. QED
  BY <1>2, <1>3, <1>4, <1>5 DEF IndexInv

LEMMA CloseLastBlockIndexed ==
    ASSUME SafeInv, IndexInv, NEW span \in Spans, NEW z \in BOOLEAN, CloseLastBlock(span, z)
    PROVE  IndexInv'
<1>1. /\ buffer # <<>> /\ PushDataBlock /\ dirtyIndex' = TRUE
      /\ phase = "Block" /\ phase' = "Ddt" /\ nextPos' = nextPos + span
      /\ UNCHANGED <<ddt, hashMap, header, dirtyDdt, disk>>
  BY DEF CloseLastBlock, CloseBlock, PushDataBlock
<1>2. [Next]_vars /\ ~Create /\ ~Ended
  BY <1>1 DEF Next, CloseStep, Create, Ended
<1>3. nextPos \in Nat /\ span \in Nat /\ header.index < nextPos
  BY <1>1, OpenBlockFacts DEF SafeInv, TypeInv, TypeOK, Spans
<1>4. MemoryIndexed'
  BY <1>1, PushIndexes DEF IndexInv, MemoryIndexed
<1>5. CurrentTable'
  <2> SUFFICES ASSUME ~dirtyDdt PROVE ListsTable(file', index', ddt)
    BY <1>1 DEF CurrentTable
  <2>1. QED
    BY <1>1, <1>2, CleanStays, PushIndexes DEF IndexInv
<1>6. HeaderLists' /\ DiskLists' /\ HeaderOnDisk' /\ CleanIndex'
  BY <1>1, <1>2, <1>3, RootsFollow
<1>7. QED
  BY <1>4, <1>5, <1>6 DEF IndexInv

(* A step of the close that fails at the end of the file, and one that     *)
(* writes nothing.                                                         *)
LEMMA CloseMemoryIndexed ==
    ASSUME SafeInv, IndexInv, [Next]_vars, ~Create, ~Ended, UNCHANGED memory, disk' = disk,
           phase' \in {"Index", "Root"} => ~dirtyDdt
    PROVE  IndexInv'
<1>1. UNCHANGED <<ddt, hashMap, nextPos, index, header, dirtyDdt, dirtyIndex>>
  BY DEF memory
<1>2. nextPos \in Nat /\ header.index \in Nat
  BY DEF SafeInv, TypeInv, TypeOK, Units
<1>3. MemoryIndexed'
  BY <1>1 DEF IndexInv, MemoryIndexed, ListsBlocks, HashesIndexed
<1>4. CurrentTable'
  BY <1>1, CleanStays DEF CurrentTable
<1>5. HeaderLists' /\ DiskLists' /\ HeaderOnDisk' /\ CleanIndex'
  BY <1>1, <1>2, RootsFollow
<1>6. QED
  BY <1>3, <1>4, <1>5 DEF IndexInv

(* The table that is written is the one in memory, and the only one that   *)
(* the index lists afterwards.                                             *)
LEMMA CloseDdtIndexed ==
    ASSUME SafeInv, IndexInv, NEW span \in Spans, NEW z \in BOOLEAN, CloseDdt(span, z)
    PROVE  IndexInv'
<1> DEFINE o == [kind |-> "ddt", span |-> span, zstd |-> z, table |-> ddt]
<1>1. /\ phase = "Ddt" /\ Fits(eof, span) /\ file' = Put(file, eof, o)
      /\ index' = IndexWithoutDdt(index) \cup {[type |-> "ddt", pos |-> eof]}
      /\ dirtyIndex' = TRUE
      /\ UNCHANGED <<ddt, hashMap, nextPos, header, disk>>
  BY DEF CloseDdt
<1>2. [Next]_vars /\ ~Create /\ ~Ended
  BY <1>1 DEF Next, CloseStep, Create, Ended
<1>3. /\ nextPos \in Nat /\ header.index \in Nat /\ ddt \in [Slot -> Entry] /\ TypeOK
      /\ file \in [Units -> Cell]
  BY DEF SafeInv, TypeInv, TypeOK, Units
<1>4. o \in Block /\ o.span = span /\ o.table = ddt
  BY <1>3 DEF Block, DdtBlock
<1> HIDE DEF o
<1>5. file'[eof].obj = o
  <2>1. eof \in Units
    BY <1>1, <1>3, <1>4, AppendTyped
  <2>2. QED
    BY <1>1, <1>3, <1>4, <2>1, PutWhole
<1>6. MemoryIndexed'
  <2>1. \A q : Indexed(index, q) => Indexed(index', q)
    BY <1>1 DEF Indexed, IndexWithoutDdt
  <2>2. QED
    BY <1>1, <2>1 DEF IndexInv, MemoryIndexed, ListsBlocks, HashesIndexed
<1>7. CurrentTable'
  <2>1. \A e \in index' : e.type = "ddt" => e.pos = eof
    BY <1>1 DEF IndexWithoutDdt
  <2>2. QED
    BY <1>1, <1>4, <1>5, <2>1 DEF CurrentTable, ListsTable
<1>8. HeaderLists' /\ DiskLists' /\ HeaderOnDisk' /\ CleanIndex'
  BY <1>1, <1>2, <1>3, RootsFollow
<1>9. QED
  BY <1>6, <1>7, <1>8 DEF IndexInv

(* The index that is written is about the table in memory.                 *)
LEMMA CloseIndexIndexed ==
    ASSUME SafeInv, IndexInv, NEW span \in Spans, CloseIndex(span)
    PROVE  IndexInv'
<1> DEFINE o == [kind |-> "index", span |-> span, entries |-> index]
<1>1. /\ phase = "Index" /\ phase' = "Root" /\ dirtyIndex
      /\ Fits(eof, span) /\ file' = Put(file, eof, o)
      /\ header' = [header EXCEPT !.index = eof]
      /\ UNCHANGED <<ddt, hashMap, nextPos, index, dirtyDdt, dirtyIndex, disk>>
  BY DEF CloseIndex
<1>2. [Next]_vars /\ ~Create /\ ~Ended
  BY <1>1 DEF Next, CloseStep, Create, Ended
<1>3. /\ nextPos \in Nat /\ nextPos >= 1 /\ eof \in Nat /\ nextPos <= eof
      /\ ddt \in [Slot -> Entry] /\ TypeOK
      /\ file \in [Units -> Cell] /\ index \in SUBSET IndexEntry
      /\ header \in [index : Units, zstd : BOOLEAN]
  BY DEF SafeInv, TypeInv, TypeOK, FileInv
<1>4. o \in Block /\ o.span = span /\ o.entries = index
  BY <1>3 DEF Block, IndexBlock
<1>5. header'.index = eof
  BY <1>1, <1>3
<1> HIDE DEF o
<1>6. file'[eof].obj = o /\ Agree(file, file', eof)
  <2>1. eof \in Units
    BY <1>1, <1>3, <1>4, AppendTyped
  <2>2. QED
    BY <1>1, <1>3, <1>4, <2>1, PutWhole
<1>7. ListsTable(file', index, ddt)
  <2>1. /\ \A e \in index : e.type = "ddt" => GoodIndexed(file, e, eof)
        /\ ListsTable(file, index, ddt)
    BY <1>1 DEF SafeInv, WrittenTable, IndexInv, CurrentTable
  <2>2. QED
    BY <1>3, <1>6, <2>1, TablesStay
<1>8. ListsBlocks(index, ddt, 0)
  <2> SUFFICES ASSUME NEW i \in Slot, ddt[i].block # 0
               PROVE  Indexed(index, ddt[i].block)
    BY DEF ListsBlocks
  <2>1. buffer = <<>>
    BY <1>1 DEF SafeInv, PhaseInv
  <2>2. ddt[i] \in Entry /\ GoodEntry(file, ddt[i], nextPos, <<>>, sectorSize)
    BY <1>3, <2>1 DEF SafeInv, EntryInv
  <2>3. ~Located(<<>>, sectorSize, ddt[i].offset)
    BY <2>2 DEF Located, Entry
  <2>4. ddt[i].block # nextPos
    BY <1>3, <2>2, <2>3, EntryPlace
  <2>5. QED
    BY <2>4 DEF IndexInv, MemoryIndexed, ListsBlocks
<1>9. MemoryIndexed' /\ CurrentTable'
  BY <1>1, <1>7 DEF IndexInv, MemoryIndexed, ListsBlocks, HashesIndexed, CurrentTable
<1>10. HeaderLists'
  BY <1>1, <1>4, <1>5, <1>6, <1>7, <1>8 DEF HeaderLists, Lists
<1>11. DiskLists'
  BY <1>1, <1>2, RootsStay DEF IndexInv, DiskLists
<1>12. HeaderOnDisk' /\ CleanIndex'
  BY <1>1, <1>3, <1>5 DEF HeaderOnDisk, CleanIndex
<1>13. QED
  BY <1>9, <1>10, <1>11, <1>12 DEF IndexInv

(* Each step of aaruf_close. *)
LEMMA CloseIndexed ==
    ASSUME SafeInv, IndexInv, CloseStep
    PROVE  IndexInv'
<1>1. [Next]_vars
  BY DEF Next
<1>2. ASSUME NEW n \in 0..MaxTear, CloseDdtFails(n) \/ CloseIndexFails(n)
      PROVE  IndexInv'
  <2>1. /\ phase \in {"Ddt", "Index"} /\ UNCHANGED memory /\ disk' = disk
        /\ phase' \in {"Open", "Retry"}
    BY <1>2 DEF CloseDdtFails, CloseIndexFails, FailedClose
  <2>2. QED
    BY <1>1, <2>1, CloseMemoryIndexed DEF Create, Ended
<1>3. ASSUME NEW n \in 0..MaxTear, CloseLastBlockFails(n)
      PROVE  IndexInv'
  <2>1. buffer # <<>> /\ CloseBlockFails(n) /\ phase' = "Open"
    BY <1>3, OpenBlockFacts DEF CloseLastBlockFails, FailedClose
  <2>2. QED
    BY <1>1, <2>1, CloseBlockFailsIndexed
<1>4. CASE CloseNoBlock \/ CloseCleanDdt \/ CloseRootFails
  <2>1. /\ phase \in {"Block", "Ddt", "Root"} /\ UNCHANGED memory /\ disk' = disk
        /\ phase' \in {"Index", "Root"} => ~dirtyDdt
    BY <1>4 DEF CloseNoBlock, CloseCleanDdt, CloseRootFails, disc
  <2>2. QED
    BY <1>1, <2>1, CloseMemoryIndexed DEF Create, Ended
<1>5. CASE CloseHeaderFails \/ CloseRoot \/ CloseCleanIndex
  <2>1. /\ FreeContext /\ phase' \in {"Closed", "Lost"} /\ file' = file
        /\ disk' = disk \/ (disk' = header /\ header.index >= nextPos)
    BY <1>5 DEF CloseHeaderFails, CloseRoot, CloseCleanIndex, disc, SafeInv, PhaseInv
  <2>2. QED
    BY <2>1, FreeContextIndexed
<1>6. QED
  BY <1>2, <1>3, <1>4, <1>5, CloseHeaderIndexed, CloseLastBlockIndexed, CloseDdtIndexed,
     CloseIndexIndexed
     DEF CloseStep

(***************************************************************************)
(* Create and resume.                                                      *)
(***************************************************************************)

(* The table of an image that is opened is the one its index is about.     *)
LEMMA ListedTable ==
    ASSUME SafeInv, Openable, NEW t, Lists(file, disk.index, t)
    PROVE  DiskDdt = t
<1>1. [type |-> "ddt", pos |-> DiskDdtPos] \in DiskIndex
  BY DiskTyped DEF DdtPositions, SafeInv, TypeInv
<1>2. QED
  BY <1>1 DEF Lists, ListsTable, DiskIndex, DiskDdt

LEMMA CreateIndexed ==
    ASSUME SafeInv, Create
    PROVE  IndexInv'
<1>1. /\ hashMap' = EmptyMap /\ ddt' = EmptyDdt /\ header'.index = 0 /\ disk'.index = 0
      /\ dirtyDdt' = TRUE /\ dirtyIndex' = TRUE /\ nextPos' = 1 /\ phase' = "Open"
  BY DEF Create, SafeInv, EndedInv
<1>2. MemoryIndexed'
  BY <1>1 DEF MemoryIndexed, ListsBlocks, HashesIndexed, EmptyDdt, EmptyMap, NoEntry
<1>3. QED
  BY <1>1, <1>2 DEF IndexInv, CurrentTable, HeaderLists, DiskLists, HeaderOnDisk, CleanIndex

LEMMA ResumeIndexed ==
    ASSUME SafeInv, IndexInv, Resume
    PROVE  IndexInv'
<1>1. /\ Openable /\ phase' = "Open"
      /\ ddt' = DiskDdt /\ nextPos' = eof /\ index' = DiskIndex /\ header' = disk
      /\ hashMap' = EmptyMap /\ file' = file /\ disk' = disk
  BY DEF Resume, ResumePosition, disc, SafeInv, EndedInv
<1>2. disk.index # 0
  BY <1>1, OpenableHasRoot
<1>3. /\ file \in [Units -> Cell] /\ disk.index \in Units /\ disk.index \in Nat
      /\ eof \in Nat
  BY DEF SafeInv, TypeInv, TypeOK, Units
<1>4. Lists(file, disk.index, DiskDdt)
  BY <1>1, <1>2, ListedTable DEF IndexInv, DiskLists
<1>5. disk.index < eof
  BY <1>2, <1>3, RootsBelowEof, WholeKept DEF GoodRoot, Agree
<1>6. MemoryIndexed'
  BY <1>1, <1>4 DEF Lists, DiskIndex, MemoryIndexed, ListsBlocks, HashesIndexed, EmptyMap,
                    NoEntry
<1>7. CurrentTable'
  BY <1>1, <1>4 DEF Lists, DiskIndex, CurrentTable
<1>8. DiskLists'
  BY <1>1 DEF IndexInv, DiskLists
<1>9. HeaderLists' /\ HeaderOnDisk' /\ CleanIndex'
  BY <1>1, <1>2, <1>3, <1>5 DEF HeaderLists, HeaderOnDisk, CleanIndex, DiskIndex
<1>10. QED
  BY <1>6, <1>7, <1>8, <1>9 DEF IndexInv

(* The invariant holds in every state of the writer. *)
LEMMA IndexHolds == Spec => []IndexInv
<1>1. Init => IndexInv
  BY DEF Init, IndexInv, MemoryIndexed, ListsBlocks, HashesIndexed, EmptyDdt, EmptyMap,
         NoEntry, CurrentTable, HeaderLists, DiskLists, HeaderOnDisk, CleanIndex
<1>2. SafeInv /\ IndexInv /\ [Next]_vars => IndexInv'
  <2> SUFFICES ASSUME SafeInv, IndexInv, [Next]_vars PROVE IndexInv'
    OBVIOUS
  <2>1. CASE WriteStep
    <3>1. ASSUME NEW d \in Data, NEW n \in 0..MaxTear, WriteSectorFails(d, n)
          PROVE  IndexInv'
      BY <3>1, CloseBlockFailsIndexed DEF WriteSectorFails, MustClose
    <3>2. QED
      BY <2>1, <3>1, WriteSectorIndexed, WriteSectorInNewBlockIndexed, WriteGenerableIndexed
         DEF WriteStep
  <2>2. CASE Crash
    BY <2>2, FreeContextIndexed DEF Crash, disc
  <2>3. CASE UNCHANGED vars
    BY <2>3 DEF vars, memory, disc, IndexInv, MemoryIndexed, ListsBlocks, HashesIndexed,
                CurrentTable, ListsTable, HeaderLists, DiskLists, Lists, HeaderOnDisk,
                CleanIndex, DiskIndex, Ended
  <2>4. QED
    BY <2>1, <2>2, <2>3, CloseIndexed, CreateIndexed, ResumeIndexed DEF Next
<1>3. QED
  BY <1>1, <1>2, Safety, PTL DEF Spec

(***************************************************************************)
(* The theorem.                                                            *)
(***************************************************************************)

(* The index that aaruf_close is to write lists every block of user data   *)
(* that the table uses and that is in the file, whatever was refused, torn *)
(* or resumed before: a verifier that walks the index misses none.         *)
THEOREM IndexIsComplete == Spec => []IndexCoversEntries
<1>1. SafeInv /\ IndexInv => IndexCoversEntries
  <2> SUFFICES ASSUME SafeInv, IndexInv,
                      NEW i \in Slot, ddt[i].block # 0, ~InBuffer(ddt[i])
               PROVE  [type |-> "data", pos |-> ddt[i].block] \in index
    BY DEF IndexCoversEntries
  <2>1. /\ file \in [Units -> Cell] /\ nextPos \in Nat
        /\ ddt[i] \in Entry /\ GoodEntry(file, ddt[i], nextPos, buffer, sectorSize)
    BY DEF SafeInv, TypeInv, TypeOK, EntryInv
  <2>2. ddt[i].block # nextPos
    BY <2>1, EntryPlace DEF InBuffer
  <2>3. QED
    BY <2>2 DEF IndexInv, MemoryIndexed, ListsBlocks, Indexed
<1>2. QED
  BY <1>1, Safety, IndexHolds, PTL

(***************************************************************************)
(* Refinement.  The blocks, the steps of a close, the writes that fail and *)
(* are repeated are invisible to the program, a crash takes it back to the *)
(* last commit, and a close that reports success lost nothing.             *)
(*                                                                         *)
(* The argument: an image is what its table reads as, and that is the same *)
(* in every file that agrees on the units the table leads to.  The only    *)
(* step that changes the durable image is the header that makes the new    *)
(* index the root, and that index is about the table in memory.            *)
(***************************************************************************)
(***************************************************************************)
(* What a table reads as when all that it leads to is in the file.         *)
(***************************************************************************)
Stored(f, t) ==
    [i \in Slot |-> ContentOf(t[i], t[i].block # 0,
                              f[t[i].block].obj.sectors[t[i].offset + 1])]

(* It is the same in every file that agrees on what the table leads to.    *)
LEMMA StoredKept ==
    ASSUME NEW f \in [Units -> Cell], NEW g, NEW l \in Nat, Agree(f, g, l),
           NEW t \in [Slot -> Entry], GoodTable(f, t, l)
    PROVE  Stored(g, t) = Stored(f, t)
<1>1. ASSUME NEW i \in Slot, t[i].block # 0
      PROVE  g[t[i].block] = f[t[i].block]
  <2>1. t[i].block \in Units /\ Whole(f, t[i].block, "data", l)
    BY <1>1 DEF GoodTable, Resolves, Entry
  <2>2. QED
    BY <2>1, WholeKept
<1>2. ASSUME NEW i \in Slot
      PROVE  ContentOf(t[i], t[i].block # 0, g[t[i].block].obj.sectors[t[i].offset + 1])
                 = ContentOf(t[i], t[i].block # 0,
                             f[t[i].block].obj.sectors[t[i].offset + 1])
  BY <1>1 DEF ContentOf
<1>3. QED
  BY <1>2 DEF Stored

(* The table of a whole index is whole. *)
LEMMA RootTable ==
    ASSUME NEW f \in [Units -> Cell], NEW l, NEW p \in Units, NEW t,
           GoodRoot(f, p, l), Lists(f, p, t)
    PROVE  GoodTable(f, t, l)
BY DEF GoodRoot, GoodIndex, GoodIndexed, Lists, ListsTable

(* aaruf_open of a committed image gives the table that its index is about. *)
LEMMA DurableIs ==
    SafeInv =>
        /\ disk.index = 0 => DurableImage = NoImage
        /\ \A t : disk.index # 0 /\ Lists(file, disk.index, t)
                      => DurableImage = Stored(file, t)
<1> SUFFICES ASSUME SafeInv
             PROVE  /\ disk.index = 0 => DurableImage = NoImage
                    /\ \A t : disk.index # 0 /\ Lists(file, disk.index, t)
                                  => DurableImage = Stored(file, t)
  OBVIOUS
<1>1. disk.index = 0 => DurableImage = NoImage
  BY OpenableHasRoot DEF DurableImage
<1>2. ASSUME NEW t, disk.index # 0, Lists(file, disk.index, t)
      PROVE  DurableImage = Stored(file, t)
  <2>1. /\ Openable
        /\ \A i \in Slot : DiskDdt[i].block # 0 => OnDisk(DiskDdt[i])
    BY <1>2, SafeReadable DEF CommittedImageReadable
  <2>2. DiskDdt = t
    BY <1>2, <2>1, ListedTable
  <2>3. \A i \in Slot : t[i].block = 0 => ~OnDisk(t[i])
    BY DEF OnDisk, Intact, SafeInv, FileInv, NoCell, Hole
  <2>4. ASSUME NEW i \in Slot
        PROVE  ContentOf(t[i], OnDisk(t[i]), file[t[i].block].obj.sectors[t[i].offset + 1])
                   = ContentOf(t[i], t[i].block # 0,
                               file[t[i].block].obj.sectors[t[i].offset + 1])
    BY <2>1, <2>2, <2>3 DEF ContentOf
  <2>5. DurableImage = [i \in Slot |->
            ContentOf(t[i], OnDisk(t[i]), file[t[i].block].obj.sectors[t[i].offset + 1])]
    BY <2>1, <2>2 DEF DurableImage
  <2>6. QED
    BY <2>4, <2>5 DEF Stored
<1>3. QED
  BY <1>1, <1>2

LEMMA DurableIsNext ==
    ASSUME SafeInv'
    PROVE  /\ disk'.index = 0 => DurableImage' = NoImage
           /\ \A t : disk'.index # 0 /\ Lists(file', disk'.index, t)
                         => DurableImage' = Stored(file', t)
<1>1. (SafeInv =>
        /\ disk.index = 0 => DurableImage = NoImage
        /\ \A t : disk.index # 0 /\ Lists(file, disk.index, t)
                      => DurableImage = Stored(file, t))'
  BY DurableIs, PTL
<1>2. QED
  BY <1>1

(* While no block is open, the open image is what its table reads as.      *)
LEMMA OpenIsStored ==
    ASSUME SafeInv, buffer = <<>>
    PROVE  OpenImage = Stored(file, ddt) /\ GoodTable(file, ddt, nextPos)
<1>1. /\ file \in [Units -> Cell] /\ nextPos \in Nat /\ ddt \in [Slot -> Entry]
  BY DEF SafeInv, TypeInv, TypeOK
<1>2. ASSUME NEW i \in Slot, ddt[i].block # 0
      PROVE  Resolves(file, ddt[i], nextPos) /\ ddt[i].block # nextPos
  <2>1. ddt[i] \in Entry /\ GoodEntry(file, ddt[i], nextPos, <<>>, sectorSize)
    BY <1>1 DEF SafeInv, EntryInv
  <2>2. ~Located(<<>>, sectorSize, ddt[i].offset)
    BY <2>1 DEF Located, Entry
  <2>3. QED
    BY <1>1, <1>2, <2>1, <2>2, EntryPlace
<1>3. ASSUME NEW i \in Slot
      PROVE  Reading(file, ddt[i], nextPos, buffer)
                 = ContentOf(ddt[i], ddt[i].block # 0,
                             file[ddt[i].block].obj.sectors[ddt[i].offset + 1])
  BY <1>2 DEF Reading, Sector, ContentOf
<1>4. OpenImage = Stored(file, ddt)
  BY <1>3, OpenImageReads DEF Readings, Stored
<1>5. QED
  BY <1>2, <1>4 DEF GoodTable

LEMMA OpenIsStoredNext ==
    ASSUME SafeInv', buffer' = <<>>
    PROVE  OpenImage' = Stored(file', ddt')
<1>1. (SafeInv /\ buffer = <<>> => OpenImage = Stored(file, ddt))'
  BY OpenIsStored, PTL
<1>2. QED
  BY <1>1

(***************************************************************************)
(* What a step leaves of the two images.                                   *)
(***************************************************************************)

(* The durable image changes only with the header on disk.                 *)
LEMMA DurableStays ==
    ASSUME SafeInv, SafeInv', IndexInv, [Next]_vars, ~Create, disk'.index = disk.index
    PROVE  DurableImage' = DurableImage
<1>1. CASE disk.index = 0
  BY <1>1, DurableIs, DurableIsNext
<1>2. CASE disk.index # 0
  <2>1. PICK t \in [Slot -> Entry] : Lists(file, disk.index, t)
    BY <1>2 DEF IndexInv, DiskLists
  <2>2. Lists(file', disk.index, t)
    BY <1>2, <2>1, RootsStay
  <2>3. DurableImage = Stored(file, t) /\ DurableImage' = Stored(file', t)
    BY <1>2, <2>1, <2>2, DurableIs, DurableIsNext
  <2>4. /\ file \in [Units -> Cell] /\ disk.index \in Units
        /\ nextPos \in Nat /\ eof \in Nat
    BY DEF SafeInv, TypeInv, TypeOK
  <2>5. CASE file' = file
    BY <2>3, <2>5
  <2>6. CASE buffer # <<>> /\ Agree(file, file', nextPos)
    <3>1. Agree(file, file, nextPos)
      BY DEF Agree
    <3>2. GoodRoot(file, disk.index, nextPos)
      BY <1>2, <2>4, <2>6, <3>1, RootsKeptAtBlock
    <3>3. GoodTable(file, t, nextPos)
      BY <2>1, <2>4, <3>2, RootTable
    <3>4. QED
      BY <2>3, <2>4, <2>6, <3>3, StoredKept
  <2>7. CASE Agree(file, file', eof)
    <3>1. GoodRoot(file, disk.index, eof)
      BY <1>2, RootsBelowEof
    <3>2. GoodTable(file, t, eof)
      BY <2>1, <2>4, <3>1, RootTable
    <3>3. QED
      BY <2>3, <2>4, <2>7, <3>2, StoredKept
  <2>8. QED
    BY <2>5, <2>6, <2>7, WritesLandAfter
<1>3. QED
  BY <1>1, <1>2

(* The open image does not change when the table and the open block do not. *)
LEMMA OpenStays ==
    ASSUME SafeInv, SafeInv', [Next]_vars, ~Create, UNCHANGED <<ddt, nextPos, buffer>>
    PROVE  OpenImage' = OpenImage
<1>1. Readings(file', ddt, nextPos, buffer) = Readings(file, ddt, nextPos, buffer)
  BY FileAgrees, LaterReadings
<1>2. QED
  BY <1>1, OpenImageReads, OpenImageReadsNext

(* The header that makes an index past the open block the root commits the *)
(* open image.                                                             *)
LEMMA HeaderCommits ==
    ASSUME SafeInv, SafeInv', IndexInv, header.index >= nextPos, file' = file,
           disk'.index = header.index
    PROVE  DurableImage' = OpenImage
<1>1. /\ buffer = <<>> /\ Lists(file, header.index, ddt)
      /\ header.index # 0
  BY DEF SafeInv, PhaseInv, IndexInv, HeaderLists, TypeInv, TypeOK
<1>2. QED
  BY <1>1, OpenIsStored, DurableIsNext

(***************************************************************************)
(* The steps of the abstract store, in terms of the two images.            *)
(***************************************************************************)
LEMMA MapStutter ==
    ASSUME ~Ended, ~Ended', OpenImage' = OpenImage, DurableImage' = DurableImage
    PROVE  UNCHANGED Promised!storeVars
BY DEF Promised!storeVars, Ended

LEMMA MapWrite ==
    ASSUME ~Ended, ~Ended', DurableImage' = DurableImage,
           NEW i \in Slot, NEW x \in Contents, OpenImage' = Replaced(OpenImage, i, x)
    PROVE  Promised!Write
<1>1. OpenImage'[i] = x /\ OpenImage' = [OpenImage EXCEPT ![i] = OpenImage'[i]]
  BY DEF OpenImage, Replaced
<1>2. Promised!OneSectorChanged(OpenImage, OpenImage')
  BY <1>1 DEF Promised!OneSectorChanged
<1>3. QED
  BY <1>2 DEF Promised!Write, Ended

LEMMA MapCommit ==
    ASSUME ~Ended, DurableImage' = OpenImage,
           (~Ended' /\ OpenImage' = OpenImage) \/ phase' = "Closed"
    PROVE  Promised!Commit
BY DEF Promised!Commit, Ended

LEMMA MapClose ==
    ASSUME ~Ended, phase' = "Closed", OpenImage = DurableImage, DurableImage' = DurableImage
    PROVE  Promised!Close
BY DEF Promised!Close, Ended

LEMMA MapCrash ==
    ASSUME ~Ended, phase' = "Lost", DurableImage' = DurableImage
    PROVE  Promised!Crash
BY DEF Promised!Crash, Ended

LEMMA MapResume ==
    ASSUME Ended, ~Ended', DurableImage # NoImage, OpenImage' = DurableImage,
           DurableImage' = DurableImage
    PROVE  Promised!Resume
BY DEF Promised!Resume, Ended

LEMMA MapCreate ==
    ASSUME Ended, ~Ended', OpenImage' = [i \in Slot |-> BlankSector],
           DurableImage' = NoImage
    PROVE  Promised!Create
BY DEF Promised!Create, Ended

(***************************************************************************)
(* Each step of the writer.                                                *)
(***************************************************************************)
AbstractStep == Promised!StoreNext \/ UNCHANGED Promised!storeVars

(* aaruf_write_sector writes one sector, or none when it is refused.       *)
LEMMA WriteImplements ==
    ASSUME SafeInv, SafeInv', HashInv, IndexInv, WriteStep
    PROVE  AbstractStep
<1>1. /\ [Next]_vars /\ phase = "Open" /\ phase' = "Open" /\ disk' = disk
  BY DEF Next, WriteStep, WriteSector, WriteSectorInNewBlock, WriteSectorFails,
         WriteGenerable, CloseBlockFails, disc
<1>2. ~Create /\ ~Ended /\ ~Ended' /\ DurableImage' = DurableImage
  BY <1>1, DurableStays DEF Create, Ended
<1>3. ASSUME NEW a \in Address, NEW d \in Data, NEW s \in Written, Stores(a, d, s)
      PROVE  Promised!Write
  <2>1. Corrected(a) \in Slot /\ s \in Statuses
    BY CorrectedInSlot, StatusAssumption
  <2>2. (IF s = NotDumped THEN BlankSector ELSE [status |-> s, sector |-> d]) \in Contents
    BY <2>1 DEF Contents
  <2>3. QED
    BY <1>2, <1>3, <2>1, <2>2, MapWrite DEF Stores, Rewritten
<1>4. ASSUME NEW a \in Address, WriteGenerable(a)
      PROVE  Promised!Write
  <2> DEFINE e == [NoEntry EXCEPT !.status = Generable]
  <2>1. /\ IsGenerated(Generable) /\ Corrected(a) \in Slot
        /\ ddt' = Replaced(ddt, Corrected(a), e)
        /\ UNCHANGED <<nextPos, buffer, file>>
    BY <1>4, CorrectedInSlot DEF WriteGenerable, SetDdtEntry, Replaced, disc
  <2>2. ddt \in [Slot -> Entry]
    BY DEF SafeInv, TypeInv, TypeOK
  <2>3. Reading(file, e, nextPos, buffer) = GeneratedSector
    BY <2>1, StatusAssumption DEF Reading, ContentOf, NoEntry
  <2> HIDE DEF e
  <2>4. Readings(file, ddt', nextPos, buffer) =
            Replaced(Readings(file, ddt, nextPos, buffer), Corrected(a), GeneratedSector)
    BY <2>1, <2>2, <2>3 DEF Readings, Replaced
  <2>5. OpenImage' = Replaced(OpenImage, Corrected(a), GeneratedSector)
    BY <2>1, <2>4, OpenImageReads, OpenImageReadsNext
  <2>6. QED
    BY <1>2, <2>1, <2>5, MapWrite DEF Contents
<1>5. ASSUME NEW d \in Data, NEW n \in 0..MaxTear, WriteSectorFails(d, n)
      PROVE  UNCHANGED Promised!storeVars
  BY <1>1, <1>2, <1>5, OpenStays, MapStutter DEF WriteSectorFails, CloseBlockFails
<1>6. QED
  BY <1>3, <1>4, <1>5, WriteSectorStores, WriteSectorInNewBlockStores
     DEF WriteStep, AbstractStep, Promised!StoreNext

(* aaruf_close commits with the header that makes the new index the root;  *)
(* every other step of it is invisible.                                    *)
LEMMA CloseImplements ==
    ASSUME SafeInv, SafeInv', IndexInv, CloseStep
    PROVE  AbstractStep
<1>1. [Next]_vars /\ ~Ended /\ ~Create
  BY DEF Next, CloseStep, CloseHeader, CloseHeaderFails, CloseLastBlock, CloseDdt,
         CloseNoBlock, CloseCleanDdt, CloseIndex, CloseRoot, CloseRootFails,
         CloseCleanIndex, CloseLastBlockFails, CloseDdtFails, CloseIndexFails, Create, Ended
<1>2. disk' = disk => DurableImage' = DurableImage
  BY <1>1, DurableStays
<1>3. ASSUME ~Ended', disk' = disk, UNCHANGED <<ddt, nextPos, buffer>>
      PROVE  UNCHANGED Promised!storeVars
  BY <1>1, <1>2, <1>3, OpenStays, MapStutter
<1>4. CASE CloseHeader
  <2>1. /\ ~Ended' /\ disk'.index = header.index /\ file' = file
        /\ UNCHANGED <<ddt, nextPos, buffer>>
    BY <1>4 DEF CloseHeader, Ended, SafeInv, TypeInv, TypeOK
  <2>2. OpenImage' = OpenImage
    BY <1>1, <2>1, OpenStays
  <2>3. CASE header.index < nextPos
    <3>1. disk.index = header.index
      BY <1>1, <2>3 DEF IndexInv, HeaderOnDisk
    <3>2. DurableImage' = DurableImage
      BY <1>1, <2>1, <3>1, DurableStays
    <3>3. QED
      BY <1>1, <2>1, <2>2, <3>2, MapStutter DEF AbstractStep
  <2>4. CASE header.index >= nextPos
    <3>1. DurableImage' = OpenImage
      BY <2>1, <2>4, HeaderCommits
    <3>2. QED
      BY <1>1, <2>1, <2>2, <3>1, MapCommit DEF AbstractStep, Promised!StoreNext
  <2>5. header.index \in Nat /\ nextPos \in Nat
    BY DEF SafeInv, TypeInv, TypeOK, Units
  <2>6. QED
    BY <2>3, <2>4, <2>5
<1>5. CASE CloseHeaderFails
  <2>1. phase' = "Lost" /\ disk' = disk
    BY <1>5 DEF CloseHeaderFails, disc
  <2>2. QED
    BY <1>1, <1>2, <2>1, MapCrash DEF AbstractStep, Promised!StoreNext
<1>6. ASSUME NEW span \in Spans, NEW z \in BOOLEAN, CloseLastBlock(span, z)
      PROVE  AbstractStep
  <2>1. /\ ~Ended' /\ disk' = disk /\ ddt' = ddt /\ buffer # <<>> /\ buffer' = <<>>
        /\ CloseBlock(span, z)
    BY <1>6 DEF CloseLastBlock, Ended
  <2>2. Readings(file', ddt, nextPos', <<>>) = Readings(file, ddt, nextPos, buffer)
    BY <2>1, BlockReadings
  <2>3. OpenImage' = OpenImage
    BY <2>1, <2>2, OpenImageReads, OpenImageReadsNext
  <2>4. QED
    BY <1>1, <1>2, <2>1, <2>3, MapStutter DEF AbstractStep
<1>7. CASE CloseNoBlock \/ CloseCleanDdt \/ CloseRootFails
  BY <1>3, <1>7 DEF CloseNoBlock, CloseCleanDdt, CloseRootFails, memory, disc, Ended,
                    AbstractStep
<1>8. ASSUME NEW span \in Spans, NEW z \in BOOLEAN, CloseDdt(span, z) \/ CloseIndex(span)
      PROVE  AbstractStep
  BY <1>3, <1>8 DEF CloseDdt, CloseIndex, Ended, AbstractStep
<1>9. ASSUME NEW n \in 0..MaxTear,
             CloseLastBlockFails(n) \/ CloseDdtFails(n) \/ CloseIndexFails(n)
      PROVE  AbstractStep
  BY <1>3, <1>9 DEF CloseLastBlockFails, CloseBlockFails, CloseDdtFails, CloseIndexFails,
                    FailedClose, memory, Ended, AbstractStep
<1>10. CASE CloseRoot
  <2>1. /\ phase' = "Closed" /\ disk' = header /\ file' = file /\ header.index >= nextPos
    BY <1>10 DEF CloseRoot, SafeInv, PhaseInv
  <2>2. DurableImage' = OpenImage
    BY <2>1, HeaderCommits
  <2>3. QED
    BY <1>1, <2>1, <2>2, MapCommit DEF AbstractStep, Promised!StoreNext
<1>11. CASE CloseCleanIndex
  <2>1. /\ phase = "Index" /\ ~dirtyIndex /\ phase' = "Closed" /\ disk' = disk
    BY <1>11 DEF CloseCleanIndex, disc
  <2>2. /\ disk.index # 0 /\ index = DiskIndex /\ buffer = <<>>
        /\ ListsTable(file, index, ddt)
    BY <1>1, <2>1 DEF IndexInv, CleanIndex, CurrentTable, SafeInv, PhaseInv
  <2>3. PICK t \in [Slot -> Entry] : Lists(file, disk.index, t)
    BY <2>2 DEF IndexInv, DiskLists
  <2>4. Openable /\ DiskDdt = t
    BY <2>2, <2>3, SafeReadable, ListedTable DEF CommittedImageReadable
  <2>5. t = ddt
    BY <2>2, <2>4, DiskTyped DEF DdtPositions, DiskDdt, ListsTable, SafeInv, TypeInv
  <2>6. OpenImage = DurableImage
    BY <2>2, <2>3, <2>5, OpenIsStored, DurableIs
  <2>7. QED
    BY <1>1, <1>2, <2>1, <2>6, MapClose DEF AbstractStep, Promised!StoreNext
<1>12. QED
  BY <1>4, <1>5, <1>6, <1>7, <1>8, <1>9, <1>10, <1>11 DEF CloseStep

(* aaruf_create gives up the image that the file had.                      *)
LEMMA CreateImplements ==
    ASSUME SafeInv, SafeInv', Create
    PROVE  AbstractStep
<1>1. Ended /\ ~Ended' /\ ddt' = EmptyDdt /\ disk'.index = 0
  BY DEF Create, Ended
<1>2. DurableImage' = NoImage
  BY <1>1, DurableIsNext
<1>3. OpenImage' = [i \in Slot |-> BlankSector]
  <2>1. OpenImage' = Readings(file', EmptyDdt, nextPos', buffer')
    BY <1>1, OpenImageReadsNext
  <2>2. QED
    BY <2>1 DEF Readings, Reading, ContentOf, EmptyDdt, NoEntry
<1>4. QED
  BY <1>1, <1>2, <1>3, MapCreate DEF AbstractStep, Promised!StoreNext

(* aaruf_open in resume mode gives back the durable image.                 *)
LEMMA ResumeImplements ==
    ASSUME SafeInv, SafeInv', IndexInv, Resume
    PROVE  AbstractStep
<1>1. /\ [Next]_vars /\ ~Create /\ Ended /\ ~Ended' /\ Openable
      /\ ddt' = DiskDdt /\ buffer' = <<>> /\ file' = file /\ disk' = disk
  BY DEF Next, Resume, Create, Ended, disc, SafeInv, EndedInv
<1>2. disk.index # 0
  BY <1>1, OpenableHasRoot
<1>3. PICK t \in [Slot -> Entry] : Lists(file, disk.index, t)
  BY <1>2 DEF IndexInv, DiskLists
<1>4. DurableImage = Stored(file, t) /\ DiskDdt = t
  BY <1>1, <1>2, <1>3, DurableIs, ListedTable
<1>5. OpenImage' = DurableImage
  BY <1>1, <1>4, OpenIsStoredNext
<1>6. DurableImage # NoImage
  <2>1. 0 \in Slot
    BY GeometryAssumption DEF Slot
  <2>2. DOMAIN Stored(file, t) = Slot
    BY DEF Stored
  <2>3. DOMAIN NoImage = 1..0
    BY DEF NoImage
  <2>4. QED
    BY <1>4, <2>1, <2>2, <2>3
<1>7. QED
  BY <1>1, <1>5, <1>6, DurableStays, MapResume DEF AbstractStep, Promised!StoreNext

(***************************************************************************)
(* The theorem.                                                            *)
(***************************************************************************)

(* aaruf_write_sector, aaruf_close and aaruf_open in resume mode, with the *)
(* failures and the crashes they meet, keep the promise of SectorStore for *)
(* every geometry, content, option and set of failures.                    *)
THEOREM WriterImplementsStore == Spec => ImplementsStore
<1>1. Init => Promised!StoreInit
  <2> SUFFICES ASSUME Init PROVE Promised!StoreInit
    OBVIOUS
  <2>1. SafeInv /\ ddt = EmptyDdt /\ disk.index = 0 /\ phase = "Open"
    BY InitSafe DEF Init
  <2>2. DurableImage = NoImage
    BY <2>1, DurableIs
  <2>3. OpenImage = [i \in Slot |-> BlankSector]
    BY <2>1, OpenImageReads DEF Readings, Reading, ContentOf, EmptyDdt, NoEntry
  <2>4. QED
    BY <2>1, <2>2, <2>3 DEF Promised!StoreInit, Ended
<1>2. SafeInv /\ SafeInv' /\ HashInv /\ IndexInv /\ [Next]_vars
        => [Promised!StoreNext]_(Promised!storeVars)
  <2> SUFFICES ASSUME SafeInv, SafeInv', HashInv, IndexInv, [Next]_vars
               PROVE  AbstractStep
    BY DEF AbstractStep
  <2>1. CASE Crash
    <3>1. ~Ended /\ phase' = "Lost" /\ ~Create /\ disk' = disk
      BY <2>1 DEF Crash, Create, disc
    <3>2. QED
      BY <3>1, DurableStays, MapCrash DEF AbstractStep, Promised!StoreNext
  <2>2. CASE UNCHANGED vars
    <3>1. Ended' = Ended /\ OpenImage' = OpenImage /\ DurableImage' = DurableImage
      BY <2>2, OpenImageReads, OpenImageReadsNext
         DEF vars, memory, disc, Ended, DurableImage, Openable, DdtPositions, DiskIndex,
             DiskDdt, DiskDdtPos, OnDisk
    <3>2. QED
      BY <2>2, <3>1 DEF AbstractStep, Promised!storeVars, vars
  <2>3. QED
    BY <2>1, <2>2, WriteImplements, CloseImplements, CreateImplements, ResumeImplements
       DEF Next
<1>3. QED
  BY <1>1, <1>2, Safety, HashesHold, IndexHolds, PTL
     DEF Spec, ImplementsStore, Promised!StoreSpec
=============================================================================
