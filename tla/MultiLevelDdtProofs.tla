------------------------- MODULE MultiLevelDdtProofs -------------------------
(***************************************************************************)
(* Proofs about the table in two levels, for every number of tables, of    *)
(* entries, of sectors in a block and every failure of a write: no table   *)
(* dangles, nothing live is written over, and a program that does not go   *)
(* back to an earlier table is kept the promise of SectorStore.            *)
(*                                                                         *)
(* The argument: blocks end at or before next_block_position, tables at or *)
(* before the end of the file, and tables may lie past next_block_position *)
(* only while no sector can join the open block (Stuck).  What a write     *)
(* moves out of memory keeps its meaning (Carries).                        *)
(***************************************************************************)
EXTENDS MultiLevelDdt, TLAPS

USE TableAssumption, SizeAssumption

(***************************************************************************)
(* The inductive invariant.                                                *)
(***************************************************************************)

(* What is whole between the primary table and a limit. *)
Whole(f, p, kind, limit) ==
    /\ p >= FirstBlock
    /\ Intact(f, p, kind)
    /\ p + f[p].obj.span <= limit

BlocksWhole(f, es, limit) ==
    \A e \in es : e.type = "data" => Whole(f, e.pos, "data", limit)

TablesWhole(f, t, limit) ==
    \A p \in Position : t[p] # 0 => Whole(f, t[p], "secondary", limit)

TablesListed(t, es) ==
    \A p \in Position : t[p] # 0 => [type |-> "secondary", pos |-> t[p]] \in es

(* File g is file f, changed in the primary table or past the limit only. *)
Agree(f, g, limit) ==
    \A q \in Units : FirstBlock <= q /\ q < limit => g[q] = f[q]

(* Entry e leads into the open block buf, which will start at unit np, or  *)
(* into a block that the index es lists.                                   *)
Located(f, es, e, np, buf) ==
    e # NoEntry =>
        \/ e.block = np /\ e.offset < Len(buf)
        \/ /\ [type |-> "data", pos |-> e.block] \in es
           /\ e.offset < Len(f[e.block].obj.sectors)

TablesLocated(f, es, t, np, buf) ==
    \A p \in Position, k \in Item :
        t[p] # 0 => Located(f, es, f[t[p]].obj.table[k], np, buf)

(* The sector that such an entry leads to. *)
Sector(f, e, np, buf) ==
    IF e = NoEntry THEN Blank
    ELSE IF e.block = np /\ e.offset < Len(buf) THEN [sector |-> buf[e.offset + 1]]
    ELSE [sector |-> f[e.block].obj.sectors[e.offset + 1]]

TableLocated(f, es, table, np, buf) ==
    \A k \in Item : Located(f, es, table[k], np, buf)

(* The hash map finds a sector by what it holds. *)
HashesLocated(f, es, h, np, buf) ==
    \A d \in Data : h[d] # NoEntry =>
        /\ Located(f, es, h[d], np, buf)
        /\ Sector(f, h[d], np, buf) = [sector |-> d]

(* Between two states of the tail of an image, every entry keeps leading   *)
(* to its sector.                                                          *)
Carries(f, es, np, buf, f2, es2, np2, buf2) ==
    \A e \in Entry :
        Located(f, es, e, np, buf) =>
            /\ Located(f2, es2, e, np2, buf2)
            /\ Sector(f2, e, np2, buf2) = Sector(f, e, np, buf)

Writing == phase \in {"Open", "Secondary", "Primary", "Index", "Retry"}

(* The cached table has a place in the file already: no sector of it can   *)
(* be written, and one of another table will move it.                      *)
Stuck == cached # NoTable /\ primary[cachedPosition] # 0

TailInv ==
    /\ Len(buffer) <= BlockSectors
    /\ phase # "Open" => buffer = <<>>
    /\ phase # "Reading" => cachedOffset = 0
    /\ Writing /\ cached # NoTable /\ buffer = <<>> => eof >= FirstBlock
    /\ phase = "Index" => eof >= FirstBlock
    /\ phase \in {"Primary", "Index", "Closed", "Lost"} => cached = NoTable

LiveInv ==
    /\ BlocksWhole(file, index, eof)
    /\ TablesWhole(file, primary, eof)
    /\ TablesListed(primary, index)
    /\ Writing => BlocksWhole(file, index, nextPos)
    /\ phase = "Open" => \/ TablesWhole(file, primary, nextPos)
                         \/ buffer = <<>> /\ Stuck

ContentInv ==
    /\ TablesLocated(file, index, primary, nextPos, buffer)
    /\ Writing /\ cached # NoTable =>
          TableLocated(file, index, cached, nextPos, buffer)
    /\ Writing => HashesLocated(file, index, hashMap, nextPos, buffer)

DiskTable == file[PrimaryUnit].obj.table

(* The image in the file, once it was closed. *)
ImageWhole ==
    /\ Openable
    /\ BlocksWhole(file, DiskIndex, eof)
    /\ TablesWhole(file, DiskTable, eof)
    /\ TablesListed(DiskTable, DiskIndex)
    /\ TablesLocated(file, DiskIndex, DiskTable, 0, <<>>)

DiskInv ==
    /\ file[0] = NoCell
    /\ phase \notin {"Closed", "Reading"} => root = 0
    /\ phase = "Index" =>
          /\ [type |-> "primary", pos |-> PrimaryUnit] \in index
          /\ file[PrimaryUnit] =
                [start |-> PrimaryUnit,
                 obj |-> [kind |-> "primary", span |-> 1, table |-> primary,
                          sum |-> primary]]
    /\ phase \in {"Closed", "Reading"} => ImageWhole
    /\ phase = "Reading" =>
          /\ primary = DiskTable /\ index = DiskIndex
          /\ cachedOffset # 0 => cached = file[cachedOffset].obj.table

OrderInv ==
    phase = "Open" =>
        /\ cached = NoTable => \A p \in Position : primary[p] = 0
        /\ InOrder /\ cached # NoTable =>
              \A p \in Position : primary[p] # 0 => p <= cachedPosition

TableInv ==
    /\ TypeOK
    /\ TailInv
    /\ LiveInv
    /\ ContentInv
    /\ DiskInv
    /\ OrderInv

(***************************************************************************)
(* The operators of the model.                                             *)
(***************************************************************************)
Block == DataBlock \cup SecondaryBlock \cup PrimaryBlock \cup IndexBlock

(* A sector has one place in one table.                                    *)
LEMMA SlotPlace ==
    ASSUME NEW i \in Slot
    PROVE  /\ PositionOf(i) \in Position
           /\ ItemOf(i) \in Item
           /\ i = Items * PositionOf(i) + ItemOf(i)
<1> DEFINE q == i \div Items
           r == i % Items
<1>1. i \in Nat /\ i < Tables * Items
  BY DEF Slot
<1>2. q \in Nat /\ r \in 0..(Items - 1) /\ i = Items * q + r
  BY <1>1
<1>3. q < Tables
  <2> HIDE DEF q, r
  <2> SUFFICES ASSUME q >= Tables PROVE FALSE
    BY <1>2
  <2>1. PICK k \in Nat : q = Tables + k
    <3>1. q - Tables \in Nat /\ q = Tables + (q - Tables)
      BY <1>2
    <3>2. QED
      BY <3>1
  <2>2. Items * q = Tables * Items + Items * k
    BY <2>1
  <2>3. Items * k >= 0 /\ Tables * Items \in Nat /\ Items * k \in Nat
    BY <2>1
  <2>4. QED
    BY <1>1, <1>2, <2>2, <2>3
<1>4. QED
  BY <1>2, <1>3 DEF PositionOf, ItemOf, Position, Item

(* Two sectors with the same place are one.                                *)
LEMMA PlaceIsOwn ==
    ASSUME NEW i \in Slot, NEW j \in Slot,
           PositionOf(i) = PositionOf(j), ItemOf(i) = ItemOf(j)
    PROVE  i = j
BY SlotPlace

LEMMA NoEntryIsEntry == NoEntry \in Entry
BY DEF NoEntry, Entry, Units

LEMMA EmptyTableTyped == EmptyTable \in [Item -> Entry] /\ EmptyTable # NoTable
<1>1. 0 \in Item
  BY DEF Item
<1>2. DOMAIN EmptyTable = Item /\ DOMAIN NoTable = 1..0
  BY DEF EmptyTable, NoTable
<1>3. QED
  BY <1>1, <1>2, NoEntryIsEntry DEF EmptyTable

(* A table is not the lack of one.                                         *)
LEMMA TableIsSome ==
    ASSUME NEW t \in [Item -> Entry]
    PROVE  t # NoTable
<1>1. 0 \in DOMAIN t
  BY DEF Item
<1>2. DOMAIN NoTable = 1..0
  BY DEF NoTable
<1>3. QED
  BY <1>1, <1>2

(* Every structure takes room, and its kind tells its type.                *)
LEMMA CellTyped ==
    ASSUME NEW c \in Cell
    PROVE  /\ c.start \in Units
           /\ c.obj.span \in Nat \ {0}
           /\ c.obj.kind = "data" => c.obj \in DataBlock
           /\ c.obj.kind = "secondary" => c.obj \in SecondaryBlock
           /\ c.obj.kind = "primary" => c.obj \in PrimaryBlock
           /\ c.obj.kind = "index" => c.obj \in IndexBlock
BY DEF Cell, DataBlock, SecondaryBlock, PrimaryBlock, IndexBlock, Hole, Spans

(* A file stays a file when a structure is written.                        *)
LEMMA PutIsFile ==
    ASSUME NEW f \in [Units -> Cell], NEW p \in Units, NEW o \in Block
    PROVE  Put(f, p, o) \in [Units -> Cell]
<1>1. [start |-> p, obj |-> o] \in Cell
  BY DEF Cell, Block
<1>2. QED
  BY <1>1 DEF Put

LEMMA TearIsFile ==
    ASSUME NEW f \in [Units -> Cell], NEW p, NEW n
    PROVE  Tear(f, p, n) \in [Units -> Cell]
<1>1. NoCell \in Cell
  BY DEF Cell, NoCell, Units
<1>2. QED
  BY <1>1 DEF Tear

(* A structure that is written is whole, and nothing before it changed.    *)
LEMMA PutWhole ==
    ASSUME NEW f \in [Units -> Cell], NEW p \in Units, NEW o \in Block,
           p >= FirstBlock, Fits(p, o.span)
    PROVE  /\ Put(f, p, o)[p] = [start |-> p, obj |-> o]
           /\ Whole(Put(f, p, o), p, o.kind, p + o.span)
           /\ Agree(f, Put(f, p, o), p)
<1>1. o.span \in Nat \ {0}
  <2>1. [start |-> p, obj |-> o] \in Cell
    BY DEF Cell, Block
  <2>2. QED
    BY <2>1, CellTyped
<1>2. Put(f, p, o)[p] = [start |-> p, obj |-> o]
  BY <1>1 DEF Put, Units
<1>3. QED
  BY <1>1, <1>2 DEF Put, Whole, Intact, Agree, Units, FirstBlock

(* The primary table is before everything else.                            *)
LEMMA PrimaryAgrees ==
    ASSUME NEW f \in [Units -> Cell], NEW t \in PrimaryTable, NEW l
    PROVE  /\ PutPrimaryData(f, t) \in [Units -> Cell]
           /\ Agree(f, PutPrimaryData(f, t), l)
           /\ PutPrimaryData(f, t)[0] = f[0]
<1> DEFINE o == [kind |-> "primary", span |-> 1, table |-> t,
                 sum |-> IF f[PrimaryUnit].obj.kind = "primary"
                         THEN f[PrimaryUnit].obj.sum ELSE NoTable]
<1>1. PrimaryUnit \in Units
  BY DEF PrimaryUnit, Units
<1>2. o \in PrimaryBlock
  <2>1. f[PrimaryUnit].obj.kind = "primary" => f[PrimaryUnit].obj \in PrimaryBlock
    BY <1>1, CellTyped
  <2>2. QED
    BY <2>1 DEF PrimaryBlock
<1> HIDE DEF o
<1>3. Put(f, PrimaryUnit, o) \in [Units -> Cell]
  BY <1>1, <1>2, PutIsFile DEF Block
<1>4. o.span = 1
  BY <1>2 DEF PrimaryBlock
<1>5. QED
  BY <1>3, <1>4 DEF PutPrimaryData, o, Put, Agree, PrimaryUnit, FirstBlock, Units

LEMMA TornPrimaryAgrees ==
    ASSUME NEW f \in [Units -> Cell], NEW l
    PROVE  /\ Tear(f, PrimaryUnit, 1) \in [Units -> Cell]
           /\ Agree(f, Tear(f, PrimaryUnit, 1), l)
           /\ Tear(f, PrimaryUnit, 1)[0] = f[0]
<1>1. Tear(f, PrimaryUnit, 1) \in [Units -> Cell]
  BY TearIsFile
<1>2. \A q \in Units : q # 1 => Tear(f, PrimaryUnit, 1)[q] = f[q]
  BY DEF Tear, PrimaryUnit, Units
<1>3. QED
  BY <1>1, <1>2 DEF Agree, FirstBlock, Units

LEMMA TearAgrees ==
    ASSUME NEW f \in [Units -> Cell], NEW p \in Nat, NEW n \in Nat
    PROVE  Agree(f, Tear(f, p, n), p)
BY DEF Tear, Agree, Units

LEMMA AgreeSelf == \A f, l : Agree(f, f, l)
BY DEF Agree

LEMMA AgreeTransitive ==
    ASSUME NEW f, NEW g, NEW h, NEW l \in Nat, NEW m \in Nat, l <= m,
           Agree(f, g, l), Agree(g, h, m)
    PROVE  Agree(f, h, l)
BY DEF Agree, Units

LEMMA AgreeLess ==
    ASSUME NEW f, NEW g, NEW l \in Nat, NEW m \in Nat, l <= m, Agree(f, g, m)
    PROVE  Agree(f, g, l)
BY DEF Agree, Units

(***************************************************************************)
(* What is whole stays whole where the file stays.                         *)
(***************************************************************************)
LEMMA WholeKept ==
    ASSUME NEW f \in [Units -> Cell], NEW g, NEW l \in Nat, Agree(f, g, l),
           NEW p \in Units, NEW kind, Whole(f, p, kind, l)
    PROVE  g[p] = f[p] /\ Whole(g, p, kind, l)
<1>1. f[p].obj.span \in Nat \ {0}
  BY CellTyped
<1>2. g[p] = f[p]
  BY <1>1 DEF Agree, Whole, Units, FirstBlock
<1>3. QED
  BY <1>1, <1>2 DEF Agree, Whole, Intact, Units, FirstBlock

LEMMA WholeMore ==
    ASSUME NEW f \in [Units -> Cell], NEW l \in Nat, NEW m \in Nat, l <= m,
           NEW p \in Units, NEW kind, Whole(f, p, kind, l)
    PROVE  Whole(f, p, kind, m)
<1>1. f[p].obj.span \in Nat \ {0}
  BY CellTyped
<1>2. QED
  BY <1>1 DEF Whole, Units

LEMMA BlocksKept ==
    ASSUME NEW f \in [Units -> Cell], NEW g, NEW l \in Nat, Agree(f, g, l),
           NEW es \in SUBSET IndexEntry, BlocksWhole(f, es, l)
    PROVE  /\ BlocksWhole(g, es, l)
           /\ \A e \in es : e.type = "data" => g[e.pos] = f[e.pos]
BY WholeKept DEF BlocksWhole, IndexEntry

LEMMA BlocksMore ==
    ASSUME NEW f \in [Units -> Cell], NEW l \in Nat, NEW m \in Nat, l <= m,
           NEW es \in SUBSET IndexEntry, BlocksWhole(f, es, l)
    PROVE  BlocksWhole(f, es, m)
BY WholeMore DEF BlocksWhole, IndexEntry

LEMMA TablesKept ==
    ASSUME NEW f \in [Units -> Cell], NEW g, NEW l \in Nat, Agree(f, g, l),
           NEW t \in PrimaryTable, TablesWhole(f, t, l)
    PROVE  /\ TablesWhole(g, t, l)
           /\ \A p \in Position : t[p] # 0 => g[t[p]] = f[t[p]]
BY WholeKept DEF TablesWhole, PrimaryTable

LEMMA TablesMore ==
    ASSUME NEW f \in [Units -> Cell], NEW l \in Nat, NEW m \in Nat, l <= m,
           NEW t \in PrimaryTable, TablesWhole(f, t, l)
    PROVE  TablesWhole(f, t, m)
BY WholeMore DEF TablesWhole, PrimaryTable

(* What ends within a limit does so in every file that agrees.             *)
LEMMA AllKept ==
    ASSUME NEW f \in [Units -> Cell], NEW g, NEW m \in Nat, Agree(f, g, m),
           NEW es \in SUBSET IndexEntry, BlocksWhole(f, es, m),
           NEW t \in PrimaryTable, TablesWhole(f, t, m), NEW l \in Nat
    PROVE  /\ BlocksWhole(f, es, l) => BlocksWhole(g, es, l)
           /\ TablesWhole(f, t, l) => TablesWhole(g, t, l)
<1>1. BlocksWhole(g, es, m) /\ \A e \in es : e.type = "data" => g[e.pos] = f[e.pos]
  BY BlocksKept
<1>2. TablesWhole(g, t, m) /\ \A p \in Position : t[p] # 0 => g[t[p]] = f[t[p]]
  BY TablesKept
<1>3. QED
  BY <1>1, <1>2 DEF BlocksWhole, TablesWhole, Whole

(***************************************************************************)
(* What every write does to the entries: they keep leading to their sector.*)
(***************************************************************************)

(* Without an open block, entries live as long as the blocks of the index. *)
LEMMA CarriesElsewhere ==
    ASSUME NEW f \in [Units -> Cell], NEW g, NEW l \in Nat, Agree(f, g, l),
           NEW es \in SUBSET IndexEntry, BlocksWhole(f, es, l),
           NEW es2, \A e \in es : e.type = "data" => e \in es2,
           NEW np, NEW np2
    PROVE  Carries(f, es, np, <<>>, g, es2, np2, <<>>)
<1> SUFFICES ASSUME NEW e \in Entry, Located(f, es, e, np, <<>>)
             PROVE  /\ Located(g, es2, e, np2, <<>>)
                    /\ Sector(g, e, np2, <<>>) = Sector(f, e, np, <<>>)
  BY DEF Carries
<1>1. CASE e = NoEntry
  BY <1>1 DEF Located, Sector
<1>2. CASE e # NoEntry
  <2>1. e.offset \in Nat /\ ~(e.offset < Len(<<>>))
    BY DEF Entry
  <2>2. /\ [type |-> "data", pos |-> e.block] \in es
        /\ e.offset < Len(f[e.block].obj.sectors)
    BY <1>2, <2>1 DEF Located
  <2>3. g[e.block] = f[e.block] /\ [type |-> "data", pos |-> e.block] \in es2
    BY <2>2, BlocksKept
  <2>4. QED
    BY <1>2, <2>1, <2>2, <2>3 DEF Located, Sector
<1>3. QED
  BY <1>1, <1>2

(* A block that is closed has the sectors of the open one.                 *)
LEMMA CarriesBlock ==
    ASSUME NEW f \in [Units -> Cell], NEW g, NEW np \in Nat, Agree(f, g, np),
           NEW es \in SUBSET IndexEntry, BlocksWhole(f, es, np),
           NEW buf \in Seq(Data), g[np].obj.sectors = buf, NEW np2
    PROVE  Carries(f, es, np, buf, g, es \cup {[type |-> "data", pos |-> np]},
                   np2, <<>>)
<1> DEFINE es2 == es \cup {[type |-> "data", pos |-> np]}
<1> SUFFICES ASSUME NEW e \in Entry, Located(f, es, e, np, buf)
             PROVE  /\ Located(g, es2, e, np2, <<>>)
                    /\ Sector(g, e, np2, <<>>) = Sector(f, e, np, buf)
  BY DEF Carries
<1>1. CASE e = NoEntry
  BY <1>1 DEF Located, Sector
<1>2. CASE e # NoEntry
  <2>1. e.offset \in Nat /\ ~(e.offset < Len(<<>>))
    BY DEF Entry
  <2>2. CASE e.block = np /\ e.offset < Len(buf)
    BY <1>2, <2>1, <2>2 DEF Located, Sector
  <2>3. CASE ~(e.block = np /\ e.offset < Len(buf))
    <3>1. /\ [type |-> "data", pos |-> e.block] \in es
          /\ e.offset < Len(f[e.block].obj.sectors)
      BY <1>2, <2>3 DEF Located
    <3>2. g[e.block] = f[e.block]
      BY <3>1, BlocksKept
    <3>3. QED
      BY <1>2, <2>1, <2>3, <3>1, <3>2 DEF Located, Sector
  <2>4. QED
    BY <2>2, <2>3
<1>3. QED
  BY <1>1, <1>2

(* A sector that joins the open block leaves the others in it.             *)
LEMMA CarriesAppend ==
    ASSUME NEW f \in [Units -> Cell], NEW np \in Nat,
           NEW es \in SUBSET IndexEntry, BlocksWhole(f, es, np),
           NEW buf \in Seq(Data), NEW d \in Data
    PROVE  Carries(f, es, np, buf, f, es, np, Append(buf, d))
<1> SUFFICES ASSUME NEW e \in Entry, Located(f, es, e, np, buf)
             PROVE  /\ Located(f, es, e, np, Append(buf, d))
                    /\ Sector(f, e, np, Append(buf, d)) = Sector(f, e, np, buf)
  BY DEF Carries
<1>1. CASE e = NoEntry
  BY <1>1 DEF Located, Sector
<1>2. CASE e # NoEntry /\ e.block = np /\ e.offset < Len(buf)
  BY <1>2 DEF Located, Sector, Entry
<1>3. CASE e # NoEntry /\ ~(e.block = np /\ e.offset < Len(buf))
  <2>1. /\ [type |-> "data", pos |-> e.block] \in es
        /\ e.offset < Len(f[e.block].obj.sectors)
    BY <1>3 DEF Located
  <2>2. e.block # np
    <3>1. e.block \in Units /\ Whole(f, e.block, "data", np)
      BY <2>1 DEF BlocksWhole, Entry
    <3>2. f[e.block].obj.span \in Nat \ {0}
      BY <3>1, CellTyped
    <3>3. QED
      BY <3>1, <3>2 DEF Whole, Units
  <2>3. QED
    BY <1>3, <2>1, <2>2 DEF Located, Sector
<1>4. QED
  BY <1>1, <1>2, <1>3

LEMMA CarriesTransitive ==
    ASSUME NEW f, NEW es, NEW np, NEW buf, NEW f2, NEW es2, NEW np2, NEW buf2,
           NEW f3, NEW es3, NEW np3, NEW buf3,
           Carries(f, es, np, buf, f2, es2, np2, buf2),
           Carries(f2, es2, np2, buf2, f3, es3, np3, buf3)
    PROVE  Carries(f, es, np, buf, f3, es3, np3, buf3)
BY DEF Carries

(* The entries of the tables in the file, of which none moves.             *)
LEMMA TablesCarried ==
    ASSUME NEW f \in [Units -> Cell], NEW g, NEW l \in Nat, Agree(f, g, l),
           NEW t \in PrimaryTable, TablesWhole(f, t, l),
           NEW es, NEW np, NEW buf, NEW es2, NEW np2, NEW buf2,
           TablesLocated(f, es, t, np, buf),
           Carries(f, es, np, buf, g, es2, np2, buf2)
    PROVE  TablesLocated(g, es2, t, np2, buf2)
<1> SUFFICES ASSUME NEW p \in Position, NEW k \in Item, t[p] # 0
             PROVE  Located(g, es2, g[t[p]].obj.table[k], np2, buf2)
  BY DEF TablesLocated
<1>1. g[t[p]] = f[t[p]] /\ t[p] \in Units
  BY TablesKept DEF PrimaryTable
<1>2. f[t[p]].obj \in SecondaryBlock
  BY <1>1, CellTyped DEF TablesWhole, Whole, Intact
<1>3. f[t[p]].obj.table[k] \in Entry
  BY <1>2 DEF SecondaryBlock
<1>4. QED
  BY <1>1, <1>3 DEF Carries, TablesLocated

(* The cached table and the hash map keep their meaning too.               *)
LEMMA TableCarried ==
    ASSUME NEW f, NEW g, NEW es, NEW np, NEW buf, NEW es2, NEW np2, NEW buf2,
           NEW table \in [Item -> Entry], TableLocated(f, es, table, np, buf),
           Carries(f, es, np, buf, g, es2, np2, buf2)
    PROVE  TableLocated(g, es2, table, np2, buf2)
BY DEF TableLocated, Carries

LEMMA HashesCarried ==
    ASSUME NEW f, NEW g, NEW es, NEW np, NEW buf, NEW es2, NEW np2, NEW buf2,
           NEW h \in [Data -> Entry], HashesLocated(f, es, h, np, buf),
           Carries(f, es, np, buf, g, es2, np2, buf2)
    PROVE  HashesLocated(g, es2, h, np2, buf2)
BY DEF HashesLocated, Carries

(* Where no block is open, the place of the next one tells nothing.        *)
LEMMA TablesLocatedAnywhere ==
    ASSUME NEW f \in [Units -> Cell], NEW es, NEW t \in PrimaryTable, NEW l \in Nat,
           TablesWhole(f, t, l), NEW np, NEW np2, TablesLocated(f, es, t, np, <<>>)
    PROVE  TablesLocated(f, es, t, np2, <<>>)
<1> SUFFICES ASSUME NEW p \in Position, NEW k \in Item, t[p] # 0
             PROVE  Located(f, es, f[t[p]].obj.table[k], np2, <<>>)
  BY DEF TablesLocated
<1>1. f[t[p]].obj.table[k] \in Entry
  BY CellTyped DEF TablesWhole, Whole, Intact, SecondaryBlock, PrimaryTable
<1>2. Located(f, es, f[t[p]].obj.table[k], np, <<>>)
  BY DEF TablesLocated
<1>3. ASSUME NEW e \in Entry, Located(f, es, e, np, <<>>)
      PROVE  Located(f, es, e, np2, <<>>)
  <2>1. ~(e.offset < Len(<<>>))
    BY DEF Entry
  <2>2. QED
    BY <1>3, <2>1 DEF Located
<1>4. QED
  BY <1>1, <1>2, <1>3

(***************************************************************************)
(* The open block goes to the file, if there is one.                       *)
(***************************************************************************)
Moved(b) ==
    /\ b.file \in [Units -> Cell]
    /\ b.file[0] = NoCell
    /\ b.eof \in 1..(MaxUnit + 1) /\ eof <= b.eof
    /\ b.next \in FirstBlock..(MaxUnit + 1)
    /\ b.index \in SUBSET IndexEntry
    /\ b.buffer = <<>>
    /\ BlocksWhole(b.file, b.index, b.next)
    /\ BlocksWhole(b.file, b.index, b.eof)
    /\ TablesWhole(b.file, primary, b.eof)
    /\ TablesListed(primary, b.index)
    /\ phase = "Open" => TablesWhole(b.file, primary, b.next) \/ Stuck
    /\ cached # NoTable => b.eof >= FirstBlock
    /\ \A np : /\ Carries(file, index, nextPos, buffer, b.file, b.index, np, <<>>)
               /\ TablesLocated(b.file, b.index, primary, np, <<>>)
               /\ HashesLocated(b.file, b.index, hashMap, np, <<>>)
               /\ cached # NoTable => TableLocated(b.file, b.index, cached, np, <<>>)

LEMMA BlockMoves ==
    ASSUME TableInv, phase \in {"Open", "Retry"}, NEW span \in Spans, BlockFits(span)
    PROVE  Moved(AfterBlock(span))
<1> DEFINE b == AfterBlock(span)
<1>1. /\ file \in [Units -> Cell] /\ file[0] = NoCell /\ Writing
      /\ eof \in Nat /\ nextPos \in Nat /\ nextPos >= FirstBlock
      /\ index \in SUBSET IndexEntry /\ primary \in PrimaryTable
      /\ buffer \in Seq(Data) /\ hashMap \in [Data -> Entry]
      /\ cached # NoTable => cached \in [Item -> Entry]
  BY DEF TableInv, TypeOK, DiskInv, Writing, FirstBlock
<1>2. /\ b.file \in [Units -> Cell]
      /\ b.file[0] = NoCell
      /\ b.eof \in 1..(MaxUnit + 1) /\ eof <= b.eof
      /\ b.next \in FirstBlock..(MaxUnit + 1)
      /\ b.index \in SUBSET IndexEntry
      /\ b.buffer = <<>>
      /\ BlocksWhole(b.file, b.index, b.next)
      /\ BlocksWhole(b.file, b.index, b.eof)
      /\ TablesWhole(b.file, primary, b.eof)
      /\ TablesListed(primary, b.index)
      /\ phase = "Open" => TablesWhole(b.file, primary, b.next) \/ Stuck
      /\ cached # NoTable => b.eof >= FirstBlock
      /\ \A np : Carries(file, index, nextPos, buffer, b.file, b.index, np, <<>>)
      /\ \E l \in Nat : Agree(file, b.file, l) /\ TablesWhole(file, primary, l)
  <2>1. CASE buffer = <<>>
    <3>1. b = Tail0
      BY <2>1 DEF AfterBlock
    <3>2. /\ b.file = file /\ b.eof = eof /\ b.next = nextPos /\ b.index = index
          /\ b.buffer = <<>>
      BY <2>1, <3>1 DEF Tail0
    <3>3. \A np : Carries(file, index, nextPos, <<>>, file, index, np, <<>>)
      BY <1>1, AgreeSelf, CarriesElsewhere DEF TableInv, LiveInv
    <3> HIDE DEF b
    <3>4. /\ eof \in 1..(MaxUnit + 1) /\ nextPos \in FirstBlock..(MaxUnit + 1)
          /\ BlocksWhole(file, index, nextPos)
          /\ BlocksWhole(file, index, eof)
          /\ TablesWhole(file, primary, eof)
          /\ TablesListed(primary, index)
          /\ phase = "Open" => TablesWhole(file, primary, nextPos) \/ Stuck
          /\ cached # NoTable => eof >= FirstBlock
      BY <1>1, <2>1 DEF TableInv, TypeOK, LiveInv, TailInv
    <3>5. QED
      BY <1>1, <2>1, <3>2, <3>3, <3>4, AgreeSelf
  <2>2. CASE buffer # <<>>
    <3> DEFINE o == [kind |-> "data", span |-> span, sectors |-> buffer]
    <3>1. /\ b.file = Put(file, nextPos, o)
          /\ b.eof = Larger(eof, nextPos + span)
          /\ b.next = nextPos + span
          /\ b.index = index \cup {[type |-> "data", pos |-> nextPos]}
          /\ b.buffer = <<>>
      BY <2>2 DEF AfterBlock
    <3>2. phase = "Open" /\ TablesWhole(file, primary, nextPos)
      BY <2>2 DEF TableInv, TailInv, LiveInv
    <3>3. nextPos \in Units /\ Fits(nextPos, span) /\ span \in Nat \ {0}
      BY <1>1, <2>2 DEF BlockFits, Fits, Units, Spans
    <3>4. o \in Block
      BY <1>1 DEF Block, DataBlock
    <3>5. o.span = span /\ o.kind = "data" /\ o.sectors = buffer
      OBVIOUS
    <3> HIDE DEF o, b
    <3>6. /\ b.file \in [Units -> Cell]
          /\ b.file[nextPos] = [start |-> nextPos, obj |-> o]
          /\ Whole(b.file, nextPos, "data", nextPos + span)
          /\ Agree(file, b.file, nextPos)
      BY <1>1, <3>1, <3>3, <3>4, <3>5, PutIsFile, PutWhole
    <3>7. b.file[0] = file[0]
      BY <1>1, <3>1, <3>3 DEF Put, Units, FirstBlock
    <3>8. /\ b.eof \in 1..(MaxUnit + 1) /\ eof <= b.eof /\ nextPos + span <= b.eof
          /\ b.next \in FirstBlock..(MaxUnit + 1)
      <4>1. eof \in 1..(MaxUnit + 1)
        BY DEF TableInv, TypeOK
      <4>2. QED
        BY <1>1, <3>1, <3>3, <4>1 DEF Larger, Fits, FirstBlock
    <3>9. b.index \in SUBSET IndexEntry
      BY <1>1, <3>1, <3>3 DEF IndexEntry
    <3>10. BlocksWhole(file, index, nextPos)
      BY <1>1 DEF TableInv, LiveInv
    <3>11. BlocksWhole(b.file, index, nextPos + span)
      BY <1>1, <3>3, <3>6, <3>10, BlocksKept, BlocksMore
    <3>12. BlocksWhole(b.file, b.index, b.next)
      BY <3>1, <3>6, <3>11 DEF BlocksWhole
    <3>13. BlocksWhole(b.file, b.index, b.eof)
      BY <1>1, <3>1, <3>3, <3>6, <3>8, <3>9, <3>12, BlocksMore
    <3>14. TablesWhole(b.file, primary, nextPos)
      BY <1>1, <3>2, <3>6, TablesKept
    <3>15. TablesWhole(b.file, primary, b.eof) /\ TablesWhole(b.file, primary, b.next)
      BY <1>1, <3>1, <3>3, <3>6, <3>8, <3>14, TablesMore
    <3>16. TablesListed(primary, b.index)
      BY <3>1 DEF TableInv, LiveInv, TablesListed
    <3>17. \A np : Carries(file, index, nextPos, buffer, b.file, b.index, np, <<>>)
      <4>1. b.file[nextPos].obj.sectors = buffer
        BY <3>5, <3>6
      <4>2. \A np : Carries(file, index, nextPos, buffer, b.file,
                            index \cup {[type |-> "data", pos |-> nextPos]}, np, <<>>)
        BY <1>1, <3>6, <3>10, <4>1, CarriesBlock
      <4>3. QED
        BY <3>1, <4>2
    <3>18. b.eof >= FirstBlock
      BY <1>1, <3>3, <3>8 DEF FirstBlock
    <3>19. \E l \in Nat : Agree(file, b.file, l) /\ TablesWhole(file, primary, l)
      BY <1>1, <3>2, <3>6
    <3>20. b.file[0] = NoCell
      BY <1>1, <3>7
    <3>21. QED
      BY <3>1, <3>6, <3>8, <3>9, <3>12, <3>13, <3>15, <3>16, <3>17, <3>18, <3>19, <3>20
  <2>3. QED
    BY <2>1, <2>2
<1> HIDE DEF b
<1>3. PICK l \in Nat : Agree(file, b.file, l) /\ TablesWhole(file, primary, l)
  BY <1>2
<1>4. ASSUME NEW np
      PROVE  /\ TablesLocated(b.file, b.index, primary, np, <<>>)
             /\ HashesLocated(b.file, b.index, hashMap, np, <<>>)
             /\ cached # NoTable => TableLocated(b.file, b.index, cached, np, <<>>)
  <2>1. Carries(file, index, nextPos, buffer, b.file, b.index, np, <<>>)
    BY <1>2
  <2>2. /\ TablesLocated(file, index, primary, nextPos, buffer)
        /\ HashesLocated(file, index, hashMap, nextPos, buffer)
        /\ cached # NoTable => TableLocated(file, index, cached, nextPos, buffer)
    BY <1>1 DEF TableInv, ContentInv
  <2>3. TablesLocated(b.file, b.index, primary, np, <<>>)
    BY <1>1, <1>3, <2>1, <2>2, TablesCarried
  <2>4. HashesLocated(b.file, b.index, hashMap, np, <<>>)
    BY <1>1, <2>1, <2>2, HashesCarried
  <2>5. cached # NoTable => TableLocated(b.file, b.index, cached, np, <<>>)
    BY <1>1, <2>1, <2>2, TableCarried
  <2>6. QED
    BY <2>3, <2>4, <2>5
<1>5. QED
  BY <1>2, <1>4 DEF Moved, b

(***************************************************************************)
(* The cached table goes to the end of the file.                           *)
(***************************************************************************)
TableFits(f, es, end, np) ==
    /\ f \in [Units -> Cell] /\ f[0] = NoCell /\ es \in SUBSET IndexEntry
    /\ end \in Units /\ end >= FirstBlock
    /\ cached \in [Item -> Entry] /\ cachedPosition \in Position
    /\ primary \in PrimaryTable
    /\ BlocksWhole(f, es, end) /\ TablesWhole(f, primary, end)
    /\ TablesListed(primary, es)
    /\ TablesLocated(f, es, primary, np, <<>>)
    /\ TableLocated(f, es, cached, np, <<>>)

WrittenTo(g, f, end, span) ==
    /\ g \in [Units -> Cell]
    /\ \A l \in Nat : Agree(PutSecondary(f, end, span), g, l)
    /\ g[0] = PutSecondary(f, end, span)[0]

TableDone(f, es, end, span, np, g, es2, t) ==
    /\ t \in PrimaryTable
    /\ es2 \in SUBSET IndexEntry
    /\ g[0] = NoCell
    /\ Agree(f, g, end)
    /\ g[end].obj.table = cached
    /\ \A l \in Nat : BlocksWhole(f, es, l) => BlocksWhole(g, es2, l)
    /\ BlocksWhole(g, es2, end + span)
    /\ TablesWhole(g, t, end + span)
    /\ TablesListed(t, es2)
    /\ \A np2 : /\ Carries(f, es, np, <<>>, g, es2, np2, <<>>)
                /\ TablesLocated(g, es2, t, np2, <<>>)

LEMMA TableMoves ==
    ASSUME NEW f, NEW es, NEW end, NEW np, TableFits(f, es, end, np),
           NEW span \in 1..TableSpan, Fits(end, span), NEW g, WrittenTo(g, f, end, span)
    PROVE  TableDone(f, es, end, span, np, g, SecondaryIndexed(es, 0, end),
                     [primary EXCEPT ![cachedPosition] = end])
<1> DEFINE es2 == SecondaryIndexed(es, 0, end)
           t == [primary EXCEPT ![cachedPosition] = end]
           o == [kind |-> "secondary", span |-> span, table |-> cached]
           h == PutSecondary(f, end, span)
<1> USE DEF TableFits, WrittenTo
<1>1. o \in Block /\ o.span = span /\ o.kind = "secondary" /\ o.table = cached
  BY DEF Block, SecondaryBlock
<1>2. end \in Nat /\ span \in Nat \ {0} /\ end + span \in Nat
  BY DEF Units
<1>3. es2 = es \cup {[type |-> "secondary", pos |-> end]} /\ es2 \in SUBSET IndexEntry
  BY DEF SecondaryIndexed, IndexEntry
<1> HIDE DEF o, es2, t
<1>4. /\ h = Put(f, end, o)
      /\ h \in [Units -> Cell]
      /\ h[end] = [start |-> end, obj |-> o]
      /\ Whole(h, end, "secondary", end + span)
      /\ Agree(f, h, end)
  BY <1>1, PutIsFile, PutWhole DEF PutSecondary, o
<1>5. h[0] = f[0]
  BY <1>2, <1>4 DEF Put, Units, FirstBlock
<1> HIDE DEF h
<1>6. Agree(h, g, end) /\ Agree(h, g, end + span)
  BY <1>2 DEF h
<1>7. Agree(f, g, end)
  BY <1>2, <1>4, <1>6, AgreeTransitive
<1>8. g[end] = h[end] /\ Whole(g, end, "secondary", end + span)
  BY <1>2, <1>4, <1>6, WholeKept
<1>9. t \in PrimaryTable /\ t[cachedPosition] = end
      /\ \A p \in Position : p # cachedPosition => t[p] = primary[p]
  BY DEF PrimaryTable, t
<1>10. /\ TablesWhole(g, primary, end)
       /\ \A p \in Position : primary[p] # 0 => g[primary[p]] = f[primary[p]]
  BY <1>2, <1>7, TablesKept
<1>11. TablesWhole(g, primary, end + span)
  BY <1>2, <1>10, TablesMore
<1>12. TablesWhole(g, t, end + span)
  BY <1>8, <1>9, <1>11 DEF TablesWhole
<1>13. TablesListed(t, es2)
  BY <1>3, <1>9 DEF TablesListed
<1>14. ASSUME NEW l \in Nat, BlocksWhole(f, es, l)
       PROVE  BlocksWhole(g, es2, l)
  <2>1. BlocksWhole(g, es, l)
    BY <1>2, <1>7, <1>14, AllKept
  <2>2. QED
    BY <1>3, <2>1 DEF BlocksWhole
<1>15. BlocksWhole(g, es2, end + span)
  <2>1. BlocksWhole(g, es2, end)
    BY <1>2, <1>14
  <2>2. end <= end + span
    BY <1>2
  <2>3. QED
    BY <1>2, <1>3, <2>1, <2>2, BlocksMore
<1>16. ASSUME NEW np2
       PROVE  /\ Carries(f, es, np, <<>>, g, es2, np2, <<>>)
              /\ TablesLocated(g, es2, t, np2, <<>>)
  <2>1. Carries(f, es, np, <<>>, g, es2, np2, <<>>)
    BY <1>2, <1>3, <1>7, CarriesElsewhere
  <2>2. TablesLocated(g, es2, primary, np2, <<>>)
    BY <1>2, <1>7, <2>1, TablesCarried
  <2>3. TableLocated(g, es2, cached, np2, <<>>)
    BY <2>1, TableCarried
  <2>4. g[end].obj.table = cached
    BY <1>1, <1>4, <1>8
  <2>5. QED
    BY <1>9, <2>1, <2>2, <2>3, <2>4 DEF TablesLocated, TableLocated
<1>17. g[0] = NoCell
  BY <1>5 DEF h
<1>18. g[end].obj.table = cached
  BY <1>1, <1>4, <1>8
<1>19. QED
  BY <1>3, <1>7, <1>8, <1>9, <1>12, <1>13, <1>14, <1>15, <1>16, <1>17, <1>18 DEF es2, t, TableDone

(***************************************************************************)
(* A sector gets its entry.                                                *)
(***************************************************************************)
Stores(i, d, t, table, buf) ==
    /\ SetEntry(i, d, t, table)
    /\ t.next = nextPos' /\ t.buffer = buf
    /\ buf \in Seq(Data) /\ Len(buf) < BlockSectors
    /\ file' \in [Units -> Cell] /\ file'[0] = NoCell
    /\ eof' \in 1..(MaxUnit + 1)
    /\ nextPos' \in FirstBlock..(MaxUnit + 1)
    /\ index' \in SUBSET IndexEntry
    /\ primary' \in PrimaryTable
    /\ BlocksWhole(file', index', nextPos')
    /\ BlocksWhole(file', index', eof')
    /\ TablesWhole(file', primary', nextPos')
    /\ TablesWhole(file', primary', eof')
    /\ TablesListed(primary', index')
    /\ TablesLocated(file', index', primary', nextPos', buf)
    /\ TableLocated(file', index', table, nextPos', buf)
    /\ HashesLocated(file', index', hashMap, nextPos', buf)
    /\ phase' = "Open" /\ root' = root
    /\ InOrder => \A p \in Position : primary'[p] # 0 => p <= PositionOf(i)

(* The entry leads to the sector, and the others still to theirs.          *)
LEMMA EntrySet ==
    ASSUME hashMap \in [Data -> Entry], NEW i \in Slot, NEW d \in Data, NEW t,
           NEW table \in [Item -> Entry], NEW buf, Stores(i, d, t, table, buf)
    PROVE  /\ cached' \in [Item -> Entry]
           /\ cached' = [table EXCEPT ![ItemOf(i)] = cached'[ItemOf(i)]]
           /\ cachedOffset' = 0 /\ cachedPosition' = PositionOf(i)
           /\ hashMap' \in [Data -> Entry]
           /\ buffer' \in Seq(Data) /\ Len(buffer') <= BlockSectors
           /\ buffer' = <<>> => \E e \in index' : e.type = "data"
           /\ Carries(file', index', nextPos', buf, file', index', nextPos', buffer')
           /\ Sector(file', cached'[ItemOf(i)], nextPos', buffer') = [sector |-> d]
           /\ TableLocated(file', index', cached', nextPos', buffer')
           /\ HashesLocated(file', index', hashMap', nextPos', buffer')
<1> DEFINE found == IF Dedup THEN hashMap[d] ELSE NoEntry
           e == IF found # NoEntry THEN found
                ELSE [block |-> nextPos', offset |-> Len(buf)]
<1>1. /\ ItemOf(i) \in Item
      /\ nextPos' \in Units /\ nextPos' # 0
      /\ cached' = [table EXCEPT ![ItemOf(i)] = e]
      /\ cachedOffset' = 0 /\ cachedPosition' = PositionOf(i)
      /\ buffer' = IF found # NoEntry THEN buf ELSE Append(buf, d)
      /\ hashMap' = IF Dedup THEN [hashMap EXCEPT ![d] = e] ELSE hashMap
  BY SlotPlace DEF Stores, SetEntry, Units, FirstBlock
<1>2. /\ buf \in Seq(Data) /\ Len(buf) \in Nat /\ Len(buf) < BlockSectors
      /\ file' \in [Units -> Cell] /\ index' \in SUBSET IndexEntry
      /\ BlocksWhole(file', index', nextPos')
      /\ TableLocated(file', index', table, nextPos', buf)
      /\ HashesLocated(file', index', hashMap, nextPos', buf)
  BY DEF Stores
<1>3. found \in Entry /\ e \in Entry
  BY <1>1, <1>2, NoEntryIsEntry DEF Entry
<1>4. /\ buffer' \in Seq(Data) /\ Len(buffer') <= BlockSectors
      /\ Carries(file', index', nextPos', buf, file', index', nextPos', buffer')
      /\ Located(file', index', e, nextPos', buffer')
      /\ Sector(file', e, nextPos', buffer') = [sector |-> d]
      /\ buffer' = <<>> => \E x \in index' : x.type = "data"
  <2>1. CASE found # NoEntry
    <3>1. e = hashMap[d] /\ hashMap[d] # NoEntry /\ buffer' = buf
      BY <1>1, <2>1
    <3>2. Located(file', index', e, nextPos', buf)
          /\ Sector(file', e, nextPos', buf) = [sector |-> d]
      BY <1>2, <3>1 DEF HashesLocated
    <3>3. Carries(file', index', nextPos', buf, file', index', nextPos', buf)
      BY DEF Carries
    <3>4. buf = <<>> => [type |-> "data", pos |-> e.block] \in index'
      BY <1>3, <3>1, <3>2 DEF Located, Entry
    <3>5. QED
      BY <1>2, <3>1, <3>2, <3>3, <3>4
  <2>2. CASE found = NoEntry
    <3>1. e = [block |-> nextPos', offset |-> Len(buf)] /\ buffer' = Append(buf, d)
      BY <1>1, <2>2
    <3>2. /\ Append(buf, d) \in Seq(Data) /\ Len(Append(buf, d)) = Len(buf) + 1
          /\ Append(buf, d)[Len(buf) + 1] = d /\ Append(buf, d) # <<>>
      BY <1>2
    <3>3. e # NoEntry
      BY <1>1, <3>1 DEF NoEntry
    <3>4. Carries(file', index', nextPos', buf, file', index', nextPos', Append(buf, d))
      <4>1. nextPos' \in Nat
        BY <1>1 DEF Units
      <4>2. QED
        BY <1>2, <4>1, CarriesAppend
    <3>5. QED
      BY <1>2, <3>1, <3>2, <3>3, <3>4 DEF Located, Sector
  <2>3. QED
    BY <2>1, <2>2
<1> HIDE DEF found, e
<1>5. TableLocated(file', index', table, nextPos', buffer')
  BY <1>2, <1>4, TableCarried
<1>6. HashesLocated(file', index', hashMap, nextPos', buffer')
  BY <1>2, <1>4, HashesCarried
<1>7. cached' \in [Item -> Entry] /\ hashMap' \in [Data -> Entry] /\ cached'[ItemOf(i)] = e
  BY <1>1, <1>3
<1>8. TableLocated(file', index', cached', nextPos', buffer')
  BY <1>1, <1>4, <1>5, <1>7 DEF TableLocated
<1>9. HashesLocated(file', index', hashMap', nextPos', buffer')
  BY <1>1, <1>4, <1>6, <1>7 DEF HashesLocated
<1>10. QED
  BY <1>1, <1>4, <1>7, <1>8, <1>9

LEMMA StoreKeeps ==
    ASSUME TableInv, phase = "Open", NEW i \in Slot, NEW d \in Data, NEW t,
           NEW table \in [Item -> Entry], NEW buf, Stores(i, d, t, table, buf)
    PROVE  TableInv'
<1>1. hashMap \in [Data -> Entry] /\ root = 0
  BY DEF TableInv, TypeOK, DiskInv
<1>2. /\ cached' \in [Item -> Entry] /\ cached' # NoTable
      /\ cachedOffset' = 0 /\ cachedPosition' = PositionOf(i)
      /\ hashMap' \in [Data -> Entry]
      /\ buffer' \in Seq(Data) /\ Len(buffer') <= BlockSectors
      /\ buffer' = <<>> => \E e \in index' : e.type = "data"
      /\ Carries(file', index', nextPos', buf, file', index', nextPos', buffer')
      /\ TableLocated(file', index', cached', nextPos', buffer')
      /\ HashesLocated(file', index', hashMap', nextPos', buffer')
  BY <1>1, EntrySet, TableIsSome
<1>3. TypeOK'
  BY <1>1, <1>2, SlotPlace DEF Stores, TypeOK, Phases, Units
<1>4. TailInv'
  <2>1. ASSUME NEW e \in index', e.type = "data"
        PROVE  eof' >= FirstBlock
    <3>1. Whole(file', e.pos, "data", eof') /\ e.pos \in Units
      BY <2>1 DEF Stores, BlocksWhole, IndexEntry
    <3>2. file'[e.pos].obj.span \in Nat \ {0}
      BY <3>1, CellTyped DEF Stores
    <3>3. QED
      BY <3>1, <3>2 DEF Whole, Stores, FirstBlock, Units
  <2>2. QED
    BY <1>2, <2>1 DEF TailInv, Stores
<1>5. LiveInv'
  BY DEF Stores, LiveInv
<1>6. ContentInv'
  <2>1. TablesLocated(file', index', primary', nextPos', buffer')
    <3>1. nextPos' \in Nat
      BY DEF Stores, FirstBlock
    <3>2. /\ file' \in [Units -> Cell] /\ primary' \in PrimaryTable
          /\ TablesWhole(file', primary', nextPos')
          /\ TablesLocated(file', index', primary', nextPos', buf)
      BY DEF Stores
    <3>3. QED
      BY <1>2, <3>1, <3>2, AgreeSelf, TablesCarried
  <2>2. QED
    BY <1>2, <2>1 DEF ContentInv
<1>7. DiskInv'
  BY <1>1 DEF DiskInv, Stores
<1>8. OrderInv'
  BY <1>2 DEF OrderInv, Stores
<1>9. QED
  BY <1>3, <1>4, <1>5, <1>6, <1>7, <1>8 DEF TableInv

(* The table that the sector joins is known.                               *)
LEMMA TableForLocated ==
    ASSUME TypeOK, NEW f, NEW es, NEW np, NEW buf,
           cached # NoTable => TableLocated(f, es, cached, np, buf), NEW i
    PROVE  TableFor(i) \in [Item -> Entry] /\ TableLocated(f, es, TableFor(i), np, buf)
<1>1. TableLocated(f, es, EmptyTable, np, buf)
  BY DEF TableLocated, Located, EmptyTable
<1>2. QED
  BY <1>1, EmptyTableTyped DEF TableFor, TypeOK

(* No table of a later position is known, where the program does not go back. *)
LEMMA AheadOfTables ==
    ASSUME NEW i, Ahead(i), InOrder
    PROVE  \A p \in Position : primary[p] # 0 => p <= PositionOf(i)
BY DEF Ahead

LEMMA WriteSectorStores ==
    ASSUME TableInv, NEW i \in Slot, NEW d \in Data, WriteSector(i, d)
    PROVE  Stores(i, d, Tail0, TableFor(i), buffer) /\ TableFor(i) \in [Item -> Entry]
<1>1. /\ phase = "Open" /\ Writing /\ SetEntry(i, d, Tail0, TableFor(i))
      /\ UNCHANGED <<primary, nextPos, index, phase, file, eof, root>>
      /\ ~Stuck /\ Len(buffer) # BlockSectors /\ Ahead(i)
  BY DEF WriteSector, Writing, CanSet, NeedsFlush, Stuck, Full, disc
<1>2. /\ Tail0.next = nextPos' /\ Tail0.buffer = buffer
  BY <1>1 DEF Tail0
<1>3. /\ buffer \in Seq(Data) /\ Len(buffer) < BlockSectors
      /\ file \in [Units -> Cell] /\ file[0] = NoCell
      /\ eof \in 1..(MaxUnit + 1)
      /\ nextPos \in FirstBlock..(MaxUnit + 1)
      /\ index \in SUBSET IndexEntry
      /\ primary \in PrimaryTable
  BY <1>1 DEF TableInv, TypeOK, TailInv, DiskInv
<1>4. /\ BlocksWhole(file, index, nextPos)
      /\ BlocksWhole(file, index, eof)
      /\ TablesWhole(file, primary, nextPos)
      /\ TablesWhole(file, primary, eof)
      /\ TablesListed(primary, index)
  BY <1>1 DEF TableInv, LiveInv
<1>5. /\ TablesLocated(file, index, primary, nextPos, buffer)
      /\ cached # NoTable => TableLocated(file, index, cached, nextPos, buffer)
      /\ HashesLocated(file, index, hashMap, nextPos, buffer)
  BY <1>1 DEF TableInv, ContentInv
<1>6. /\ TableFor(i) \in [Item -> Entry]
      /\ TableLocated(file, index, TableFor(i), nextPos, buffer)
  BY <1>5, TableForLocated DEF TableInv
<1>7. InOrder => \A p \in Position : primary[p] # 0 => p <= PositionOf(i)
  BY <1>1, AheadOfTables
<1>8. QED
  BY <1>1, <1>2, <1>3, <1>4, <1>5, <1>6, <1>7 DEF Stores

LEMMA WriteSectorInNewBlockStores ==
    ASSUME TableInv, NEW i \in Slot, NEW d \in Data, NEW span \in Spans,
           WriteSectorInNewBlock(i, d, span)
    PROVE  /\ Stores(i, d, AfterBlock(span), TableFor(i), <<>>)
           /\ TableFor(i) \in [Item -> Entry] /\ Moved(AfterBlock(span))
           /\ primary' = primary
<1> DEFINE b == AfterBlock(span)
<1>1. /\ phase = "Open" /\ SetEntry(i, d, b, TableFor(i)) /\ Becomes(b)
      /\ UNCHANGED <<primary, phase, root>>
      /\ ~Stuck /\ Ahead(i) /\ BlockFits(span)
  BY DEF WriteSectorInNewBlock, CanSet, NeedsFlush, Stuck
<1>2. Moved(b)
  BY <1>1, BlockMoves
<1> HIDE DEF b
<1>3. file' = b.file /\ eof' = b.eof /\ nextPos' = b.next /\ index' = b.index
  BY <1>1 DEF Becomes
<1>4. /\ primary \in PrimaryTable
      /\ <<>> \in Seq(Data) /\ Len(<<>>) = 0 /\ 0 < BlockSectors
  BY DEF TableInv, TypeOK
<1>5. /\ b.file \in [Units -> Cell] /\ b.file[0] = NoCell
      /\ b.eof \in 1..(MaxUnit + 1)
      /\ b.next \in FirstBlock..(MaxUnit + 1)
      /\ b.index \in SUBSET IndexEntry
      /\ b.buffer = <<>>
      /\ BlocksWhole(b.file, b.index, b.next)
      /\ BlocksWhole(b.file, b.index, b.eof)
      /\ TablesWhole(b.file, primary, b.next)
      /\ TablesWhole(b.file, primary, b.eof)
      /\ TablesListed(primary, b.index)
      /\ TablesLocated(b.file, b.index, primary, b.next, <<>>)
      /\ HashesLocated(b.file, b.index, hashMap, b.next, <<>>)
      /\ cached # NoTable => TableLocated(b.file, b.index, cached, b.next, <<>>)
  BY <1>1, <1>2 DEF Moved
<1>6. /\ TableFor(i) \in [Item -> Entry]
      /\ TableLocated(b.file, b.index, TableFor(i), b.next, <<>>)
  BY <1>5, TableForLocated DEF TableInv
<1>7. InOrder => \A p \in Position : primary[p] # 0 => p <= PositionOf(i)
  BY <1>1, AheadOfTables
<1>8. Stores(i, d, b, TableFor(i), <<>>)
  BY <1>1, <1>3, <1>4, <1>5, <1>6, <1>7 DEF Stores
<1>9. QED
  BY <1>1, <1>2, <1>6, <1>8 DEF b

(* The cached table that is written is the one of its position.            *)
LEMMA WriteSectorInNewTableStores ==
    ASSUME TableInv, NEW i \in Slot, NEW d \in Data, NEW span \in Spans,
           NEW tableSpan \in 1..TableSpan, WriteSectorInNewTable(i, d, span, tableSpan)
    PROVE  LET b == AfterBlock(span)
           IN  /\ Stores(i, d, AfterSecondary(b, tableSpan), EmptyTable, <<>>)
               /\ Moved(b) /\ Agree(b.file, file', b.eof)
               /\ TableFits(b.file, b.index, b.eof, b.next)
               /\ TableDone(b.file, b.index, b.eof, tableSpan, b.next,
                            file', index', primary')
<1> DEFINE b == AfterBlock(span)
           t == AfterSecondary(b, tableSpan)
           h == PutSecondary(b.file, b.eof, tableSpan)
<1>1. /\ phase = "Open" /\ SetEntry(i, d, t, EmptyTable)
      /\ primary' = [primary EXCEPT ![cachedPosition] = b.eof]
      /\ Becomes([t EXCEPT !.file = PutPrimaryData(@, primary')])
      /\ UNCHANGED <<phase, root>>
      /\ cached # NoTable /\ Ahead(i) /\ BlockFits(span) /\ Fits(b.eof, TableSpan)
      /\ cachedOffset = 0
  BY DEF WriteSectorInNewTable, NeedsFlush, TableInv, TailInv
<1>2. Moved(b)
  BY <1>1, BlockMoves
<1>3. /\ t.file = h /\ t.eof = b.eof + tableSpan /\ t.next = b.eof + TableSpan
      /\ t.index = SecondaryIndexed(b.index, 0, b.eof) /\ t.buffer = b.buffer
      /\ [t EXCEPT !.file = PutPrimaryData(@, primary')].file = PutPrimaryData(h, primary')
      /\ [t EXCEPT !.file = PutPrimaryData(@, primary')].eof = t.eof
      /\ [t EXCEPT !.file = PutPrimaryData(@, primary')].next = t.next
      /\ [t EXCEPT !.file = PutPrimaryData(@, primary')].index = t.index
  BY <1>1 DEF AfterSecondary, AfterBlock, Tail0
<1> HIDE DEF b, t, h
<1>4. /\ file' = PutPrimaryData(h, primary') /\ eof' = b.eof + tableSpan
      /\ nextPos' = b.eof + TableSpan /\ index' = SecondaryIndexed(b.index, 0, b.eof)
      /\ t.next = nextPos' /\ t.buffer = <<>>
  BY <1>1, <1>2, <1>3 DEF Becomes, Moved
<1>5. /\ b.file \in [Units -> Cell] /\ b.file[0] = NoCell
      /\ b.eof \in Units /\ b.eof >= FirstBlock
      /\ b.eof + tableSpan \in 1..(MaxUnit + 1)
      /\ b.eof + TableSpan \in FirstBlock..(MaxUnit + 1)
      /\ Fits(b.eof, tableSpan)
      /\ b.index \in SUBSET IndexEntry
  <2>1. /\ b.file \in [Units -> Cell] /\ b.file[0] = NoCell
        /\ b.eof \in 1..(MaxUnit + 1) /\ b.eof >= FirstBlock
        /\ b.index \in SUBSET IndexEntry
    BY <1>1, <1>2 DEF Moved
  <2>2. b.eof + TableSpan <= MaxUnit + 1
    BY <1>1 DEF Fits
  <2>3. QED
    BY <2>1, <2>2 DEF Fits, Units, FirstBlock
<1>6. /\ cached \in [Item -> Entry] /\ cachedPosition \in Position /\ primary \in PrimaryTable
      /\ hashMap \in [Data -> Entry]
  BY <1>1 DEF TableInv, TypeOK
<1>7. /\ BlocksWhole(b.file, b.index, b.eof)
      /\ TablesWhole(b.file, primary, b.eof)
      /\ TablesListed(primary, b.index)
      /\ TablesLocated(b.file, b.index, primary, b.next, <<>>)
      /\ TableLocated(b.file, b.index, cached, b.next, <<>>)
      /\ HashesLocated(b.file, b.index, hashMap, b.next, <<>>)
  BY <1>1, <1>2 DEF Moved
<1>8. primary' \in PrimaryTable
  BY <1>1, <1>5, <1>6 DEF PrimaryTable
<1>9. h \in [Units -> Cell]
  <2>1. [kind |-> "secondary", span |-> tableSpan, table |-> cached] \in Block
    BY <1>6 DEF Block, SecondaryBlock
  <2>2. QED
    BY <1>5, <2>1, PutIsFile DEF h, PutSecondary
<1>10. /\ file' \in [Units -> Cell]
       /\ \A l \in Nat : Agree(h, file', l)
       /\ file'[0] = h[0]
  BY <1>4, <1>8, <1>9, PrimaryAgrees
<1>11. TableFits(b.file, b.index, b.eof, b.next)
  BY <1>5, <1>6, <1>7 DEF TableFits
<1>12. TableDone(b.file, b.index, b.eof, tableSpan, b.next, file', index', primary')
  <2>1. WrittenTo(file', b.file, b.eof, tableSpan)
    BY <1>10 DEF WrittenTo, h
  <2>2. TableDone(b.file, b.index, b.eof, tableSpan, b.next, file',
                  SecondaryIndexed(b.index, 0, b.eof),
                  [primary EXCEPT ![cachedPosition] = b.eof])
    BY <1>5, <1>11, <2>1, TableMoves
  <2>3. QED
    BY <1>1, <1>4, <2>2
<1>13. /\ index' \in SUBSET IndexEntry
       /\ file'[0] = NoCell
       /\ Agree(b.file, file', b.eof)
       /\ file'[b.eof].obj.table = cached
       /\ BlocksWhole(file', index', b.eof + tableSpan)
       /\ TablesWhole(file', primary', b.eof + tableSpan)
       /\ TablesListed(primary', index')
       /\ \A np2 :
            /\ Carries(b.file, b.index, b.next, <<>>, file', index', np2, <<>>)
            /\ TablesLocated(file', index', primary', np2, <<>>)
  BY <1>12 DEF TableDone
<1>14. /\ BlocksWhole(file', index', nextPos')
       /\ TablesWhole(file', primary', nextPos')
  <2>1. b.eof + tableSpan \in Nat /\ nextPos' \in Nat /\ b.eof + tableSpan <= nextPos'
    BY <1>4, <1>5 DEF Units, FirstBlock
  <2>2. QED
    BY <1>8, <1>10, <1>13, <2>1, BlocksMore, TablesMore
<1>15. /\ HashesLocated(file', index', hashMap, nextPos', <<>>)
       /\ TableLocated(file', index', EmptyTable, nextPos', <<>>)
  <2>1. HashesLocated(file', index', hashMap, nextPos', <<>>)
    BY <1>6, <1>7, <1>13, HashesCarried
  <2>2. QED
    BY <2>1 DEF TableLocated, Located, EmptyTable
<1>16. InOrder => \A p \in Position : primary'[p] # 0 => p <= PositionOf(i)
  <2> SUFFICES ASSUME InOrder, NEW p \in Position, primary'[p] # 0
               PROVE  p <= PositionOf(i)
    OBVIOUS
  <2>1. primary[p] # 0 \/ p = cachedPosition
    BY <1>1, <1>6 DEF PrimaryTable
  <2>2. QED
    BY <1>1, <2>1 DEF Ahead
<1>17. <<>> \in Seq(Data) /\ Len(<<>>) < BlockSectors
  OBVIOUS
<1>18. Stores(i, d, t, EmptyTable, <<>>)
  BY <1>1, <1>4, <1>5, <1>8, <1>10, <1>13, <1>14, <1>15, <1>16, <1>17 DEF Stores
<1>19. QED
  BY <1>2, <1>13, <1>18, <1>11, <1>12 DEF b, t

(***************************************************************************)
(* Each step keeps the invariant.                                          *)
(***************************************************************************)
LEMMA InitKeeps == Init => TableInv
<1> SUFFICES ASSUME Init PROVE TableInv
  OBVIOUS
<1>1. /\ primary = [p \in Position |-> 0] /\ primary \in PrimaryTable
      /\ 0 \in Position /\ 0 \in Units
  BY DEF Init, PrimaryTable, Position, Units
<1>2. /\ hashMap = [d \in Data |-> NoEntry] /\ hashMap \in [Data -> Entry]
  BY NoEntryIsEntry DEF Init
<1>3. file = [q \in Units |-> NoCell] /\ file \in [Units -> Cell]
  <2>1. NoCell \in Cell
    BY <1>1 DEF NoCell, Cell
  <2>2. QED
    BY <2>1 DEF Init
<1>4. TypeOK
  BY <1>1, <1>2, <1>3 DEF Init, TypeOK, Phases, FirstBlock
<1>5. TailInv
  BY DEF Init, TailInv
<1>6. LiveInv
  BY <1>1 DEF Init, LiveInv, BlocksWhole, TablesWhole, TablesListed
<1>7. ContentInv
  BY <1>1, <1>2 DEF Init, ContentInv, TablesLocated, HashesLocated
<1>8. DiskInv
  BY <1>1, <1>3 DEF Init, DiskInv
<1>9. OrderInv
  BY <1>1 DEF Init, OrderInv
<1>10. QED
  BY <1>4, <1>5, <1>6, <1>7, <1>8, <1>9 DEF TableInv

(* The whole of what the writer knows, where no block is open.             *)
LEMMA Settles ==
    ASSUME TableInv, Writing, Writing',
           phase' # "Open" \/ TablesWhole(file', primary', nextPos') \/ Stuck',
           buffer' = <<>>, UNCHANGED <<hashMap, root>>,
           cached' \in [Item -> Entry] \cup {NoTable}, cachedOffset' = 0,
           cachedPosition' \in Position,
           file' \in [Units -> Cell], file'[0] = NoCell, eof' \in 1..(MaxUnit + 1),
           nextPos' \in FirstBlock..(MaxUnit + 1), index' \in SUBSET IndexEntry,
           primary' \in PrimaryTable,
           cached' # NoTable => eof' >= FirstBlock, phase' = "Index" => eof' >= FirstBlock,
           phase' \in {"Primary", "Index"} => cached' = NoTable,
           BlocksWhole(file', index', nextPos'), BlocksWhole(file', index', eof'),
           TablesWhole(file', primary', eof'), TablesListed(primary', index'),
           TablesLocated(file', index', primary', nextPos', <<>>),
           cached' # NoTable => TableLocated(file', index', cached', nextPos', <<>>),
           HashesLocated(file', index', hashMap, nextPos', <<>>),
           phase' = "Index" =>
              /\ [type |-> "primary", pos |-> PrimaryUnit] \in index'
              /\ file'[PrimaryUnit] =
                    [start |-> PrimaryUnit,
                     obj |-> [kind |-> "primary", span |-> 1, table |-> primary',
                              sum |-> primary']],
           OrderInv'
    PROVE  TableInv'
<1>1. hashMap \in [Data -> Entry] /\ root = 0 /\ root \in Units
  BY DEF TableInv, TypeOK, DiskInv, Writing
<1>2. <<>> \in Seq(Data) /\ Len(<<>>) = 0
  OBVIOUS
<1>3. TypeOK'
  <2>1. phase' \in Phases /\ cachedOffset' \in Units
    BY <1>1 DEF Writing, Phases, Units
  <2>2. QED
    BY <1>1, <1>2, <2>1 DEF TypeOK
<1>4. TailInv'
  BY <1>2 DEF TailInv, Writing
<1>5. LiveInv'
  BY DEF LiveInv
<1>6. ContentInv'
  BY DEF ContentInv
<1>7. DiskInv'
  BY <1>1 DEF DiskInv, Writing
<1>8. QED
  BY <1>3, <1>4, <1>5, <1>6, <1>7 DEF TableInv

LEMMA WriteTableFailsKeeps ==
    ASSUME TableInv, NEW i \in Slot, NEW span \in Spans, NEW n \in 0..MaxTear,
           WriteTableFails(i, span, n)
    PROVE  TableInv' /\ Agree(AfterBlock(span).file, file', AfterBlock(span).eof)
<1> DEFINE b == AfterBlock(span)
           s == [b EXCEPT !.file = Tear(@, b.eof, n), !.eof = @ + n]
<1>1. /\ phase = "Open" /\ phase' = "Open" /\ cached # NoTable /\ BlockFits(span)
      /\ Fits(b.eof, n) /\ Becomes(s) /\ buffer' = <<>>
      /\ UNCHANGED <<tables, hashMap, phase, root>>
  BY DEF WriteTableFails, NeedsFlush
<1>2. Moved(b)
  BY <1>1, BlockMoves
<1>3. /\ s.file = Tear(b.file, b.eof, n) /\ s.eof = b.eof + n
      /\ s.next = b.next /\ s.index = b.index
  BY DEF AfterBlock, Tail0
<1> HIDE DEF b, s
<1>4. /\ file' = Tear(b.file, b.eof, n) /\ eof' = b.eof + n
      /\ nextPos' = b.next /\ index' = b.index
  BY <1>1, <1>3 DEF Becomes
<1>5. /\ b.eof \in Nat /\ n \in Nat /\ b.eof >= FirstBlock /\ b.next \in Nat
      /\ eof' \in 1..(MaxUnit + 1) /\ eof' >= FirstBlock /\ b.eof <= eof'
  BY <1>1, <1>2, <1>4 DEF Moved, Fits, FirstBlock
<1>6. /\ file' \in [Units -> Cell] /\ file'[0] = NoCell /\ Agree(b.file, file', b.eof)
  <2>1. file' \in [Units -> Cell] /\ Agree(b.file, file', b.eof)
    BY <1>2, <1>4, <1>5, TearIsFile, TearAgrees DEF Moved
  <2>2. file'[0] = b.file[0]
    BY <1>4, <1>5 DEF Tear, Units, FirstBlock
  <2>3. QED
    BY <1>2, <2>1, <2>2 DEF Moved
<1>7. /\ primary' = primary /\ primary \in PrimaryTable
      /\ cached' = cached /\ cached \in [Item -> Entry]
      /\ cachedOffset' = 0 /\ cachedPosition' = cachedPosition
      /\ cachedPosition \in Position
      /\ hashMap' = hashMap /\ hashMap \in [Data -> Entry] /\ root' = root
  BY <1>1 DEF tables, TableInv, TypeOK, TailInv
<1>8. /\ BlocksWhole(b.file, b.index, b.next) /\ BlocksWhole(b.file, b.index, b.eof)
      /\ TablesWhole(b.file, primary, b.eof) /\ TablesListed(primary, b.index)
      /\ b.index \in SUBSET IndexEntry /\ b.file \in [Units -> Cell]
      /\ b.next \in FirstBlock..(MaxUnit + 1)
      /\ TablesWhole(b.file, primary, b.next) \/ Stuck
      /\ TablesLocated(b.file, b.index, primary, b.next, <<>>)
      /\ HashesLocated(b.file, b.index, hashMap, b.next, <<>>)
      /\ TableLocated(b.file, b.index, cached, b.next, <<>>)
  BY <1>1, <1>2 DEF Moved
<1>9. /\ BlocksWhole(file', index', eof') /\ TablesWhole(file', primary, eof')
  <2>1. BlocksWhole(file', index', b.eof) /\ TablesWhole(file', primary, b.eof)
    BY <1>4, <1>5, <1>6, <1>7, <1>8, BlocksKept, TablesKept
  <2>2. QED
    BY <1>4, <1>5, <1>6, <1>7, <1>8, <2>1, BlocksMore, TablesMore
<1>10. \A l \in Nat :
          /\ BlocksWhole(b.file, b.index, l) => BlocksWhole(file', index', l)
          /\ TablesWhole(b.file, primary, l) => TablesWhole(file', primary, l)
  BY <1>4, <1>5, <1>6, <1>7, <1>8, AllKept
<1>11. Carries(b.file, b.index, b.next, <<>>, file', index', nextPos', <<>>)
  BY <1>4, <1>5, <1>6, <1>8, CarriesElsewhere
<1>12. /\ TablesLocated(file', index', primary, nextPos', <<>>)
       /\ HashesLocated(file', index', hashMap, nextPos', <<>>)
       /\ TableLocated(file', index', cached, nextPos', <<>>)
  BY <1>5, <1>6, <1>7, <1>8, <1>11, TablesCarried, HashesCarried, TableCarried
<1>13. OrderInv'
  BY <1>1, <1>7 DEF TableInv, OrderInv
<1>14. Writing /\ Writing' /\ (Stuck => Stuck')
  BY <1>1, <1>7 DEF Writing, Stuck
<1>15. TableInv'
  BY <1>1, <1>4, <1>5, <1>6, <1>7, <1>8, <1>9, <1>10, <1>12, <1>13, <1>14, Settles
<1>16. QED
  BY <1>6, <1>15 DEF b

(* A table in memory that is written, behind a torn primary table or not.  *)
LEMMA CellOfSecondary ==
    ASSUME NEW f \in [Units -> Cell], NEW end \in Units, NEW span \in 1..TableSpan,
           cached \in [Item -> Entry]
    PROVE  PutSecondary(f, end, span) \in [Units -> Cell]
<1>1. [kind |-> "secondary", span |-> span, table |-> cached] \in Block
  BY DEF Block, SecondaryBlock
<1>2. QED
  BY <1>1, PutIsFile DEF PutSecondary

LEMMA WritePrimaryFailsKeeps ==
    ASSUME TableInv, NEW i \in Slot, NEW span \in Spans, NEW tableSpan \in 1..TableSpan,
           WritePrimaryFails(i, span, tableSpan)
    PROVE  LET b == AfterBlock(span)
           IN  /\ TableInv' /\ Agree(b.file, file', b.eof)
               /\ TableFits(b.file, b.index, b.eof, b.next)
               /\ TableDone(b.file, b.index, b.eof, tableSpan, b.next,
                            file', index', primary')
<1> DEFINE b == AfterBlock(span)
           t == AfterSecondary(b, tableSpan)
           h == PutSecondary(b.file, b.eof, tableSpan)
           s == [t EXCEPT !.file = Tear(@, PrimaryUnit, 1), !.next = b.next]
<1>1. /\ phase = "Open" /\ phase' = "Open" /\ cached # NoTable /\ BlockFits(span)
      /\ Fits(b.eof, TableSpan) /\ Becomes(s) /\ buffer' = <<>>
      /\ primary' = [primary EXCEPT ![cachedPosition] = b.eof]
      /\ UNCHANGED <<cached, cachedOffset, cachedPosition, hashMap, phase, root>>
      /\ cachedOffset = 0 /\ Ahead(i)
  BY DEF WritePrimaryFails, NeedsFlush, TableInv, TailInv
<1>2. Moved(b)
  BY <1>1, BlockMoves
<1>3. /\ s.file = Tear(h, PrimaryUnit, 1) /\ s.eof = b.eof + tableSpan
      /\ s.next = b.next /\ s.index = SecondaryIndexed(b.index, 0, b.eof)
  BY <1>1 DEF AfterSecondary, AfterBlock, Tail0
<1> HIDE DEF b, t, h, s
<1>4. /\ file' = Tear(h, PrimaryUnit, 1) /\ eof' = b.eof + tableSpan
      /\ nextPos' = b.next /\ index' = SecondaryIndexed(b.index, 0, b.eof)
  BY <1>1, <1>3 DEF Becomes
<1>5. /\ b.file \in [Units -> Cell] /\ b.file[0] = NoCell
      /\ b.eof \in Units /\ b.eof >= FirstBlock
      /\ eof' \in 1..(MaxUnit + 1) /\ eof' >= FirstBlock
      /\ Fits(b.eof, tableSpan)
      /\ b.next \in FirstBlock..(MaxUnit + 1) /\ b.next \in Nat
      /\ b.index \in SUBSET IndexEntry
  <2>1. /\ b.file \in [Units -> Cell] /\ b.file[0] = NoCell
        /\ b.eof \in 1..(MaxUnit + 1) /\ b.eof >= FirstBlock
        /\ b.next \in FirstBlock..(MaxUnit + 1)
        /\ b.index \in SUBSET IndexEntry
    BY <1>1, <1>2 DEF Moved
  <2>2. b.eof + TableSpan <= MaxUnit + 1
    BY <1>1 DEF Fits
  <2>3. QED
    BY <1>4, <2>1, <2>2 DEF Fits, Units, FirstBlock
<1>6. /\ cached' = cached /\ cached \in [Item -> Entry]
      /\ cachedOffset' = 0 /\ cachedPosition' = cachedPosition
      /\ cachedPosition \in Position /\ primary \in PrimaryTable
      /\ hashMap' = hashMap /\ hashMap \in [Data -> Entry] /\ root' = root
  BY <1>1 DEF TableInv, TypeOK
<1>7. /\ BlocksWhole(b.file, b.index, b.next)
      /\ HashesLocated(b.file, b.index, hashMap, b.next, <<>>)
      /\ TableLocated(b.file, b.index, cached, b.next, <<>>)
      /\ TableFits(b.file, b.index, b.eof, b.next)
  BY <1>1, <1>2, <1>5, <1>6 DEF Moved, TableFits
<1>8. h \in [Units -> Cell]
  BY <1>5, <1>6, CellOfSecondary DEF h
<1>9. WrittenTo(file', b.file, b.eof, tableSpan)
  BY <1>4, <1>8, TornPrimaryAgrees DEF WrittenTo, h
<1>10. TableDone(b.file, b.index, b.eof, tableSpan, b.next, file', index', primary')
  <2>1. TableDone(b.file, b.index, b.eof, tableSpan, b.next, file',
                  SecondaryIndexed(b.index, 0, b.eof),
                  [primary EXCEPT ![cachedPosition] = b.eof])
    BY <1>5, <1>7, <1>9, TableMoves
  <2>2. QED
    BY <1>1, <1>4, <2>1
<1>11. /\ file' \in [Units -> Cell] /\ file'[0] = NoCell
       /\ index' \in SUBSET IndexEntry /\ primary' \in PrimaryTable
       /\ BlocksWhole(file', index', nextPos') /\ BlocksWhole(file', index', eof')
       /\ TablesWhole(file', primary', eof') /\ TablesListed(primary', index')
       /\ TablesLocated(file', index', primary', nextPos', <<>>)
       /\ Carries(b.file, b.index, b.next, <<>>, file', index', nextPos', <<>>)
       /\ Agree(b.file, file', b.eof)
  BY <1>4, <1>5, <1>7, <1>9, <1>10 DEF TableDone, WrittenTo
<1>12. /\ HashesLocated(file', index', hashMap, nextPos', <<>>)
       /\ TableLocated(file', index', cached, nextPos', <<>>)
  BY <1>6, <1>7, <1>11, HashesCarried, TableCarried
<1>13. primary'[cachedPosition] = b.eof /\ b.eof # 0
       /\ \A p \in Position : p # cachedPosition => primary'[p] = primary[p]
  BY <1>1, <1>5, <1>6 DEF PrimaryTable, FirstBlock
<1>14. Writing /\ Writing' /\ Stuck'
  BY <1>1, <1>13 DEF Writing, Stuck
<1>15. OrderInv'
  <2>1. InOrder => \A p \in Position : primary'[p] # 0 => p <= cachedPosition
    BY <1>1, <1>6, <1>13 DEF TableInv, OrderInv, Position
  <2>2. QED
    BY <1>1, <2>1 DEF OrderInv
<1>16. TableInv'
  BY <1>1, <1>4, <1>5, <1>6, <1>11, <1>12, <1>14, <1>15, Settles
<1>17. QED
  BY <1>7, <1>10, <1>11, <1>16 DEF b

LEMMA CloseLastBlockKeeps ==
    ASSUME TableInv, NEW span \in Spans, CloseLastBlock(span)
    PROVE  TableInv' /\ Moved(AfterBlock(span))
<1> DEFINE b == AfterBlock(span)
<1>1. /\ phase \in {"Open", "Retry"} /\ phase' = "Secondary" /\ BlockFits(span)
      /\ Becomes(b) /\ buffer' = <<>> /\ UNCHANGED <<tables, hashMap, root>>
  BY DEF CloseLastBlock
<1>2. Moved(b)
  BY <1>1, BlockMoves
<1> HIDE DEF b
<1>3. file' = b.file /\ eof' = b.eof /\ nextPos' = b.next /\ index' = b.index
  BY <1>1 DEF Becomes
<1>4. /\ primary' = primary /\ primary \in PrimaryTable
      /\ cached' = cached /\ cached \in [Item -> Entry] \cup {NoTable}
      /\ cachedOffset' = 0 /\ cachedPosition' = cachedPosition
      /\ cachedPosition \in Position
      /\ hashMap' = hashMap /\ root' = root
  BY <1>1 DEF tables, TableInv, TypeOK, TailInv
<1>5. Writing /\ Writing' /\ OrderInv'
  BY <1>1 DEF Writing, OrderInv
<1>6. TableInv'
  BY <1>1, <1>2, <1>3, <1>4, <1>5, Settles DEF Moved
<1>7. QED
  BY <1>2, <1>6 DEF b

(* The cached table at the end of the file, when the image is closed.      *)
LEMMA SecondaryMoves ==
    ASSUME TableInv, NEW span \in 1..TableSpan, SecondaryWritten(span),
           WrittenTo(file', file, eof, span)
    PROVE  /\ TableFits(file, index, eof, nextPos)
           /\ TableDone(file, index, eof, span, nextPos, file', index', primary')
           /\ cached \in [Item -> Entry] /\ eof \in Units /\ eof >= FirstBlock
           /\ eof' \in 1..(MaxUnit + 1) /\ eof' >= FirstBlock
           /\ file' \in [Units -> Cell] /\ file'[0] = NoCell
           /\ index' \in SUBSET IndexEntry /\ primary' \in PrimaryTable
           /\ BlocksWhole(file', index', nextPos) /\ BlocksWhole(file', index', eof')
           /\ TablesWhole(file', primary', eof') /\ TablesListed(primary', index')
           /\ TablesLocated(file', index', primary', nextPos, <<>>)
           /\ TableLocated(file', index', cached, nextPos, <<>>)
           /\ HashesLocated(file', index', hashMap, nextPos, <<>>)
<1>1. /\ phase = "Secondary" /\ Writing /\ cached # NoTable /\ cachedOffset = 0
      /\ buffer = <<>> /\ Fits(eof, span)
      /\ primary' = [primary EXCEPT ![cachedPosition] = eof]
      /\ index' = SecondaryIndexed(index, 0, eof)
      /\ eof' = eof + span
  BY DEF SecondaryWritten, TableInv, TailInv, Writing
<1>2. /\ file \in [Units -> Cell] /\ file[0] = NoCell /\ index \in SUBSET IndexEntry
      /\ cached \in [Item -> Entry] /\ cachedPosition \in Position
      /\ primary \in PrimaryTable /\ hashMap \in [Data -> Entry]
      /\ nextPos \in Nat /\ eof \in 1..(MaxUnit + 1) /\ eof >= FirstBlock
  BY <1>1 DEF TableInv, TypeOK, DiskInv, TailInv, FirstBlock
<1>3. /\ eof \in Units /\ eof' \in 1..(MaxUnit + 1) /\ eof' >= FirstBlock
  BY <1>1, <1>2 DEF Fits, Units, FirstBlock
<1>4. /\ BlocksWhole(file, index, eof) /\ TablesWhole(file, primary, eof)
      /\ TablesListed(primary, index) /\ BlocksWhole(file, index, nextPos)
      /\ TablesLocated(file, index, primary, nextPos, <<>>)
      /\ TableLocated(file, index, cached, nextPos, <<>>)
      /\ HashesLocated(file, index, hashMap, nextPos, <<>>)
  BY <1>1 DEF TableInv, LiveInv, ContentInv
<1>5. TableFits(file, index, eof, nextPos)
  BY <1>2, <1>3, <1>4 DEF TableFits
<1>6. TableDone(file, index, eof, span, nextPos, file', index', primary')
  <2>1. TableDone(file, index, eof, span, nextPos, file',
                  SecondaryIndexed(index, 0, eof), [primary EXCEPT ![cachedPosition] = eof])
    BY <1>1, <1>5, TableMoves
  <2>2. QED
    BY <1>1, <2>1
<1>7. /\ file' \in [Units -> Cell] /\ file'[0] = NoCell
      /\ index' \in SUBSET IndexEntry /\ primary' \in PrimaryTable
      /\ BlocksWhole(file', index', nextPos) /\ BlocksWhole(file', index', eof')
      /\ TablesWhole(file', primary', eof') /\ TablesListed(primary', index')
      /\ TablesLocated(file', index', primary', nextPos, <<>>)
      /\ Carries(file, index, nextPos, <<>>, file', index', nextPos, <<>>)
  BY <1>1, <1>2, <1>4, <1>6 DEF TableDone, WrittenTo
<1>8. /\ HashesLocated(file', index', hashMap, nextPos, <<>>)
      /\ TableLocated(file', index', cached, nextPos, <<>>)
  BY <1>2, <1>4, <1>7, HashesCarried, TableCarried
<1>9. QED
  BY <1>2, <1>3, <1>5, <1>6, <1>7, <1>8

LEMMA CloseSecondaryKeeps ==
    ASSUME TableInv, NEW span \in 1..TableSpan,
           CloseSecondary(span) \/ CloseSecondaryFails(span)
    PROVE  /\ TableInv'
           /\ TableFits(file, index, eof, nextPos)
           /\ TableDone(file, index, eof, span, nextPos, file', index', primary')
<1>1. /\ SecondaryWritten(span) /\ phase = "Secondary" /\ buffer = <<>> /\ cachedOffset = 0
      /\ phase' \in {"Primary", "Retry"}
      /\ phase' = "Primary" => cached' = NoTable
      /\ UNCHANGED <<cachedPosition, hashMap, buffer, nextPos, root>>
      /\ cachedOffset' = 0 /\ cached' \in {cached, NoTable}
      /\ \/ file' = PutPrimaryData(PutSecondary(file, eof, span), primary')
         \/ file' = Tear(PutSecondary(file, eof, span), PrimaryUnit, 1)
  BY DEF CloseSecondary, CloseSecondaryFails, SecondaryWritten, TableInv, TailInv
<1>2. /\ primary' \in PrimaryTable /\ cached \in [Item -> Entry] /\ eof \in Units
      /\ file \in [Units -> Cell] /\ cachedPosition \in Position
      /\ nextPos \in FirstBlock..(MaxUnit + 1)
  <2>1. /\ cached # NoTable /\ primary' = [primary EXCEPT ![cachedPosition] = eof]
        /\ Fits(eof, span)
    BY <1>1 DEF SecondaryWritten
  <2>2. eof \in Units
    BY <2>1 DEF Fits, Units, TableInv, TypeOK
  <2>3. QED
    BY <2>1, <2>2 DEF TableInv, TypeOK, PrimaryTable
<1>3. PutSecondary(file, eof, span) \in [Units -> Cell]
  BY <1>2, CellOfSecondary
<1>4. WrittenTo(file', file, eof, span)
  <2> DEFINE h == PutSecondary(file, eof, span)
  <2>1. h \in [Units -> Cell]
    BY <1>3
  <2> HIDE DEF h
  <2>2. file' = PutPrimaryData(h, primary') \/ file' = Tear(h, PrimaryUnit, 1)
    BY <1>1 DEF h
  <2>3. file' \in [Units -> Cell] /\ file'[0] = h[0] /\ \A l : Agree(h, file', l)
    BY <1>2, <2>1, <2>2, PrimaryAgrees, TornPrimaryAgrees
  <2>4. QED
    BY <2>3 DEF h, WrittenTo
<1>5. Writing /\ Writing' /\ OrderInv' /\ cached' \in [Item -> Entry] \cup {NoTable}
  <2>1. phase' # "Open" /\ phase' \in {"Primary", "Retry"} /\ phase = "Secondary"
    BY <1>1
  <2>2. Writing /\ Writing' /\ OrderInv'
    BY <2>1 DEF Writing, OrderInv
  <2>3. QED
    BY <1>1, <1>2, <2>2
<1>6. TableInv'
  <2>1. /\ phase' # "Open" /\ phase' # "Index" /\ buffer' = <<>> /\ nextPos' = nextPos
        /\ hashMap' = hashMap /\ root' = root /\ cachedOffset' = 0
        /\ cachedPosition' = cachedPosition
        /\ phase' = "Primary" => cached' = NoTable
        /\ cached' \in {cached, NoTable}
    BY <1>1
  <2>2. /\ eof' \in 1..(MaxUnit + 1) /\ eof' >= FirstBlock
        /\ file' \in [Units -> Cell] /\ file'[0] = NoCell
        /\ index' \in SUBSET IndexEntry /\ primary' \in PrimaryTable
        /\ BlocksWhole(file', index', nextPos) /\ BlocksWhole(file', index', eof')
        /\ TablesWhole(file', primary', eof') /\ TablesListed(primary', index')
        /\ TablesLocated(file', index', primary', nextPos, <<>>)
        /\ TableLocated(file', index', cached, nextPos, <<>>)
        /\ HashesLocated(file', index', hashMap, nextPos, <<>>)
    BY <1>1, <1>4, SecondaryMoves
  <2>3. QED
    BY <1>2, <1>5, <2>1, <2>2, Settles
<1>7. QED
  BY <1>1, <1>4, <1>6, SecondaryMoves

LEMMA CloseNoSecondaryKeeps == TableInv /\ CloseNoSecondary => TableInv'
<1> SUFFICES ASSUME TableInv, CloseNoSecondary PROVE TableInv'
  OBVIOUS
<1>1. /\ phase = "Secondary" /\ cached = NoTable /\ phase' = "Primary"
      /\ UNCHANGED <<primary, cached, cachedOffset, cachedPosition, hashMap, buffer,
                     nextPos, index, file, eof, root>>
  BY DEF CloseNoSecondary, tables, writer, disc
<1>2. TypeOK' /\ TailInv' /\ LiveInv' /\ ContentInv' /\ OrderInv'
  BY <1>1 DEF TableInv, TypeOK, TailInv, LiveInv, ContentInv, OrderInv, Writing, Phases
<1>3. DiskInv'
  BY <1>1 DEF TableInv, DiskInv
<1>4. QED
  BY <1>2, <1>3 DEF TableInv

(* The primary table is written, or torn: nothing else moves.              *)
LEMMA PrimaryPut ==
    ASSUME NEW f \in [Units -> Cell], NEW t \in PrimaryTable, NEW l,
           NEW g, g = Put(f, PrimaryUnit, [kind |-> "primary", span |-> 1, table |-> t,
                                           sum |-> t])
    PROVE  /\ g \in [Units -> Cell] /\ g[0] = f[0] /\ Agree(f, g, l)
           /\ g[PrimaryUnit] = [start |-> PrimaryUnit,
                                obj |-> [kind |-> "primary", span |-> 1, table |-> t,
                                         sum |-> t]]
<1> DEFINE o == [kind |-> "primary", span |-> 1, table |-> t, sum |-> t]
<1>1. o \in Block /\ o.span = 1 /\ PrimaryUnit \in Units
  BY DEF Block, PrimaryBlock, PrimaryUnit, Units
<1> HIDE DEF o
<1>2. g = Put(f, PrimaryUnit, o) /\ g \in [Units -> Cell]
  BY <1>1, PutIsFile DEF o
<1>3. \A q \in Units : g[q] = IF q = PrimaryUnit THEN [start |-> PrimaryUnit, obj |-> o]
                              ELSE f[q]
  BY <1>1, <1>2 DEF Put, PrimaryUnit, Units
<1>4. QED
  BY <1>1, <1>2, <1>3 DEF Agree, FirstBlock, PrimaryUnit, Units, o

LEMMA ClosePrimaryKeeps ==
    ASSUME TableInv, ClosePrimary \/ ClosePrimaryFails
    PROVE  TableInv' /\ \A l : Agree(file, file', l)
<1>1. /\ phase = "Primary" /\ phase' \in {"Index", "Retry"} /\ buffer = <<>>
      /\ cached = NoTable /\ cachedOffset = 0 /\ Writing
      /\ UNCHANGED <<primary, cached, cachedOffset, cachedPosition, hashMap, buffer,
                     nextPos, root>>
      /\ \/ /\ file' = Put(file, PrimaryUnit, [kind |-> "primary", span |-> 1,
                                               table |-> primary, sum |-> primary])
            /\ eof' = Larger(eof, PrimaryUnit + 1)
            /\ index' = {e \in index : e.type # "primary"}
                            \cup {[type |-> "primary", pos |-> PrimaryUnit]}
         \/ /\ phase' # "Index" /\ file' = Tear(file, PrimaryUnit, 1)
            /\ eof' = eof /\ index' = index
  BY DEF ClosePrimary, ClosePrimaryFails, TableInv, TailInv, tables, writer, Writing
<1>2. /\ file \in [Units -> Cell] /\ file[0] = NoCell /\ primary \in PrimaryTable
      /\ cachedPosition \in Position /\ index \in SUBSET IndexEntry
      /\ nextPos \in FirstBlock..(MaxUnit + 1) /\ nextPos \in Nat
      /\ eof \in 1..(MaxUnit + 1) /\ hashMap \in [Data -> Entry]
  BY <1>1 DEF TableInv, TypeOK, DiskInv, FirstBlock
<1>3. \A l : /\ file' \in [Units -> Cell] /\ file'[0] = NoCell /\ Agree(file, file', l)
             /\ phase' = "Index" =>
                    file'[PrimaryUnit] =
                        [start |-> PrimaryUnit,
                         obj |-> [kind |-> "primary", span |-> 1, table |-> primary,
                                  sum |-> primary]]
  BY <1>1, <1>2, PrimaryPut, TornPrimaryAgrees
<1>4. /\ eof' \in 1..(MaxUnit + 1) /\ eof <= eof'
      /\ phase' = "Index" => eof' >= FirstBlock
      /\ eof \in Nat /\ eof' \in Nat
  BY <1>1, <1>2 DEF Larger, PrimaryUnit, FirstBlock
<1>5. /\ index' \in SUBSET IndexEntry
      /\ phase' = "Index" => [type |-> "primary", pos |-> PrimaryUnit] \in index'
      /\ \A e : e.type # "primary" => (e \in index' <=> e \in index)
  BY <1>1, <1>2 DEF IndexEntry, PrimaryUnit, Units
<1>6. /\ BlocksWhole(file, index, eof) /\ TablesWhole(file, primary, eof)
      /\ TablesListed(primary, index) /\ BlocksWhole(file, index, nextPos)
      /\ TablesLocated(file, index, primary, nextPos, <<>>)
      /\ HashesLocated(file, index, hashMap, nextPos, <<>>)
  BY <1>1 DEF TableInv, LiveInv, ContentInv
<1>7. /\ BlocksWhole(file', index, eof) /\ BlocksWhole(file', index, nextPos)
      /\ TablesWhole(file', primary, eof)
  BY <1>2, <1>3, <1>4, <1>6, BlocksKept, TablesKept
<1>8. /\ BlocksWhole(file', index', eof) /\ BlocksWhole(file', index', nextPos)
      /\ TablesListed(primary, index')
  BY <1>5, <1>6, <1>7 DEF BlocksWhole, TablesListed
<1>9. BlocksWhole(file', index', eof') /\ TablesWhole(file', primary, eof')
  <2>1. file' \in [Units -> Cell]
    BY <1>3
  <2>2. QED
    BY <1>2, <1>4, <1>5, <1>7, <1>8, <2>1, BlocksMore, TablesMore
<1>10. Carries(file, index, nextPos, <<>>, file', index', nextPos, <<>>)
  BY <1>2, <1>3, <1>4, <1>5, <1>6, CarriesElsewhere
<1>11. /\ TablesLocated(file', index', primary, nextPos, <<>>)
       /\ HashesLocated(file', index', hashMap, nextPos, <<>>)
  BY <1>2, <1>3, <1>4, <1>6, <1>10, TablesCarried, HashesCarried
<1>12. Writing' /\ OrderInv'
  BY <1>1 DEF Writing, OrderInv
<1>13. TableInv'
  <2>1. /\ phase' # "Open" /\ buffer' = <<>> /\ nextPos' = nextPos
        /\ hashMap' = hashMap /\ root' = root /\ cachedOffset' = 0
        /\ cachedPosition' = cachedPosition /\ cached' = NoTable /\ primary' = primary
    BY <1>1
  <2>2. /\ file' \in [Units -> Cell] /\ file'[0] = NoCell
        /\ phase' = "Index" =>
              file'[PrimaryUnit] =
                  [start |-> PrimaryUnit,
                   obj |-> [kind |-> "primary", span |-> 1, table |-> primary,
                            sum |-> primary]]
    BY <1>3
  <2>3. /\ Writing /\ eof' \in 1..(MaxUnit + 1)
        /\ phase' = "Index" => eof' >= FirstBlock
    BY <1>1, <1>4
  <2>4. QED
    BY <1>2, <1>5, <1>8, <1>9, <1>11, <1>12, <2>1, <2>2, <2>3, Settles
<1>14. QED
  BY <1>3, <1>13

(* A program without an image knows nothing; the image is in the file.     *)
LEMMA FreedKeeps ==
    ASSUME FreeContext, phase' \in {"Closed", "Lost"},
           file' \in [Units -> Cell], file'[0] = NoCell, eof' \in 1..(MaxUnit + 1),
           root' \in Units, phase' = "Lost" => root' = 0,
           phase' = "Closed" => ImageWhole'
    PROVE  TableInv'
<1>1. /\ primary' = [p \in Position |-> 0] /\ primary' \in PrimaryTable
      /\ hashMap' = [d \in Data |-> NoEntry] /\ hashMap' \in [Data -> Entry]
      /\ cached' = NoTable /\ cachedOffset' = 0 /\ cachedPosition' = 0 /\ buffer' = <<>>
      /\ nextPos' = FirstBlock /\ index' = {} /\ 0 \in Position /\ 0 \in Units
  BY NoEntryIsEntry DEF FreeContext, PrimaryTable, Position, Units
<1>2. <<>> \in Seq(Data) /\ Len(<<>>) = 0
  OBVIOUS
<1>3. TypeOK'
  BY <1>1, <1>2 DEF TypeOK, Phases, FirstBlock
<1>4. TailInv'
  BY <1>1, <1>2 DEF TailInv, Writing
<1>5. LiveInv'
  BY <1>1 DEF LiveInv, BlocksWhole, TablesWhole, TablesListed, Writing
<1>6. ContentInv'
  BY <1>1 DEF ContentInv, TablesLocated, HashesLocated, Writing
<1>7. DiskInv' /\ OrderInv'
  BY DEF DiskInv, OrderInv
<1>8. QED
  BY <1>3, <1>4, <1>5, <1>6, <1>7 DEF TableInv

LEMMA CloseIndexKeeps ==
    ASSUME TableInv, NEW span \in Spans, CloseIndex(span)
    PROVE  /\ TableInv' /\ ImageWhole' /\ Agree(file, file', eof)
           /\ DiskTable' = primary
           /\ Carries(file, index, nextPos, <<>>, file', index, 0, <<>>)
<1> DEFINE o == [kind |-> "index", span |-> span, entries |-> index]
<1>1. /\ phase = "Index" /\ Writing /\ buffer = <<>> /\ Fits(eof, span)
      /\ file' = Put(file, eof, o) /\ eof' = eof + span /\ root' = eof
      /\ phase' = "Closed" /\ FreeContext
  BY DEF CloseIndex, Writing, TableInv, TailInv
<1>2. /\ file \in [Units -> Cell] /\ file[0] = NoCell /\ primary \in PrimaryTable
      /\ index \in SUBSET IndexEntry /\ nextPos \in Nat
      /\ eof \in 1..(MaxUnit + 1) /\ eof >= FirstBlock
      /\ [type |-> "primary", pos |-> PrimaryUnit] \in index
      /\ file[PrimaryUnit] =
            [start |-> PrimaryUnit,
             obj |-> [kind |-> "primary", span |-> 1, table |-> primary, sum |-> primary]]
  BY <1>1 DEF TableInv, TypeOK, DiskInv, TailInv, FirstBlock
<1>3. /\ eof \in Units /\ eof \in Nat /\ span \in Nat \ {0} /\ eof' \in 1..(MaxUnit + 1)
      /\ eof <= eof' /\ eof' \in Nat
  BY <1>1, <1>2 DEF Fits, Units, Spans
<1>4. o \in Block /\ o.span = span /\ o.kind = "index" /\ o.entries = index
  BY <1>2 DEF Block, IndexBlock
<1> HIDE DEF o
<1>5. /\ file' \in [Units -> Cell]
      /\ file'[eof] = [start |-> eof, obj |-> o]
      /\ Whole(file', eof, "index", eof + span)
      /\ Agree(file, file', eof)
  BY <1>1, <1>2, <1>3, <1>4, PutIsFile, PutWhole
<1>6. file'[0] = NoCell /\ file'[PrimaryUnit] = file[PrimaryUnit]
  BY <1>1, <1>2, <1>3 DEF Put, Units, PrimaryUnit, FirstBlock
<1>7. /\ BlocksWhole(file, index, eof) /\ TablesWhole(file, primary, eof)
      /\ TablesListed(primary, index)
      /\ TablesLocated(file, index, primary, nextPos, <<>>)
  BY <1>1 DEF TableInv, LiveInv, ContentInv
<1>8. DiskIndex' = index /\ DiskTable' = primary
  BY <1>1, <1>2, <1>4, <1>5, <1>6 DEF DiskIndex, DiskTable
<1>9. Openable'
  <2>1. Intact(file', root', "index")
    BY <1>1, <1>5 DEF Whole
  <2>2. Intact(file', PrimaryUnit, "primary")
    BY <1>2, <1>6 DEF Intact, Fits, PrimaryUnit, Units
  <2>3. QED
    BY <1>2, <1>6, <1>8, <2>1, <2>2 DEF Openable, DiskTable
<1>10. Carries(file, index, nextPos, <<>>, file', index, 0, <<>>)
  BY <1>2, <1>3, <1>5, <1>7, CarriesElsewhere
<1>11. TablesLocated(file', index, primary, 0, <<>>)
  BY <1>2, <1>3, <1>5, <1>7, <1>10, TablesCarried
<1>12. BlocksWhole(file', index, eof') /\ TablesWhole(file', primary, eof')
  <2>1. BlocksWhole(file', index, eof) /\ TablesWhole(file', primary, eof)
    BY <1>2, <1>3, <1>5, <1>7, BlocksKept, TablesKept
  <2>2. QED
    BY <1>2, <1>3, <1>5, <2>1, BlocksMore, TablesMore
<1>13. ImageWhole'
  BY <1>7, <1>8, <1>9, <1>11, <1>12 DEF ImageWhole
<1>14. TableInv'
  BY <1>1, <1>3, <1>5, <1>6, <1>13, FreedKeeps
<1>15. QED
  BY <1>5, <1>8, <1>10, <1>13, <1>14

LEMMA CrashKeeps == TableInv /\ Crash => TableInv'
<1> SUFFICES ASSUME TableInv, Crash PROVE TableInv'
  OBVIOUS
<1>1. /\ FreeContext /\ phase' = "Lost" /\ UNCHANGED <<file, eof, root>>
      /\ phase \notin {"Closed", "Reading"}
  BY DEF Crash, disc
<1>2. /\ file \in [Units -> Cell] /\ file[0] = NoCell /\ eof \in 1..(MaxUnit + 1)
      /\ root \in Units /\ root = 0
  BY <1>1 DEF TableInv, TypeOK, DiskInv
<1>3. QED
  BY <1>1, <1>2, FreedKeeps

LEMMA CloseReadKeeps == TableInv /\ CloseRead => TableInv'
<1> SUFFICES ASSUME TableInv, CloseRead PROVE TableInv'
  OBVIOUS
<1>1. /\ FreeContext /\ phase = "Reading" /\ phase' = "Closed"
      /\ UNCHANGED <<file, eof, root>>
  BY DEF CloseRead, disc
<1>2. /\ file \in [Units -> Cell] /\ file[0] = NoCell /\ eof \in 1..(MaxUnit + 1)
      /\ root \in Units /\ ImageWhole
  BY <1>1 DEF TableInv, TypeOK, DiskInv
<1>3. ImageWhole'
  BY <1>1, <1>2 DEF ImageWhole, Openable, DiskTable, DiskIndex
<1>4. QED
  BY <1>1, <1>2, <1>3, FreedKeeps

(* What the tables of an image that can be opened are.                     *)
LEMMA DiskTyped ==
    ASSUME TypeOK, Openable
    PROVE  DiskTable \in PrimaryTable /\ DiskIndex \in SUBSET IndexEntry
<1>1. PrimaryUnit \in Units /\ root \in Units /\ file \in [Units -> Cell]
  BY DEF PrimaryUnit, Units, TypeOK
<1>2. file[PrimaryUnit].obj \in PrimaryBlock /\ file[root].obj \in IndexBlock
  BY <1>1, CellTyped DEF Openable, Intact
<1>3. QED
  BY <1>2 DEF DiskTable, DiskIndex, PrimaryBlock, IndexBlock

LEMMA OpenReadKeeps == TableInv /\ OpenRead => TableInv'
<1> SUFFICES ASSUME TableInv, OpenRead PROVE TableInv'
  OBVIOUS
<1>1. /\ phase = "Closed" /\ Openable /\ primary' = DiskTable /\ index' = DiskIndex
      /\ phase' = "Reading" /\ ImageWhole /\ cachedOffset = 0 /\ buffer = <<>>
      /\ UNCHANGED <<cached, cachedOffset, cachedPosition, hashMap, buffer, nextPos,
                     file, eof, root>>
  BY DEF OpenRead, DiskTable, disc, TableInv, DiskInv, TailInv
<1>2. primary' \in PrimaryTable /\ index' \in SUBSET IndexEntry
  BY <1>1, DiskTyped DEF TableInv
<1>3. TypeOK'
  BY <1>1, <1>2 DEF TableInv, TypeOK, Phases
<1>4. TailInv'
  BY <1>1 DEF TableInv, TailInv, Writing
<1>5. DiskTable' = DiskTable /\ DiskIndex' = DiskIndex /\ ImageWhole'
  BY <1>1 DEF ImageWhole, Openable, DiskTable, DiskIndex
<1>6. LiveInv'
  BY <1>1 DEF LiveInv, ImageWhole, Writing
<1>7. ContentInv'
  <2>1. TablesLocated(file, DiskIndex, DiskTable, nextPos, <<>>)
    <3>1. /\ file \in [Units -> Cell] /\ eof \in Nat /\ DiskTable \in PrimaryTable
          /\ TablesWhole(file, DiskTable, eof)
          /\ TablesLocated(file, DiskIndex, DiskTable, 0, <<>>)
      BY <1>1, <1>2 DEF TableInv, TypeOK, ImageWhole
    <3>2. QED
      BY <3>1, TablesLocatedAnywhere
  <2>2. QED
    BY <1>1, <2>1 DEF ContentInv, Writing
<1>8. DiskInv'
  BY <1>1, <1>5 DEF TableInv, DiskInv
<1>9. OrderInv'
  BY <1>1 DEF OrderInv
<1>10. QED
  BY <1>3, <1>4, <1>6, <1>7, <1>8, <1>9 DEF TableInv

LEMMA ReadSectorKeeps ==
    ASSUME TableInv, NEW i \in Slot, ReadSector(i)
    PROVE  TableInv'
<1>1. /\ phase = "Reading" /\ PositionOf(i) \in Position
      /\ Intact(file, primary[PositionOf(i)], "secondary")
      /\ cached' = file[primary[PositionOf(i)]].obj.table
      /\ cachedOffset' = primary[PositionOf(i)]
      /\ UNCHANGED <<primary, cachedPosition, hashMap, buffer, nextPos, index, phase,
                     file, eof, root>>
  BY SlotPlace DEF ReadSector, writer, disc
<1>2. primary[PositionOf(i)] \in Units /\ cached' \in [Item -> Entry]
  <2>1. primary[PositionOf(i)] \in Units /\ file \in [Units -> Cell]
    BY <1>1 DEF TableInv, TypeOK, PrimaryTable
  <2>2. QED
    BY <1>1, <2>1, CellTyped DEF Intact, SecondaryBlock
<1>3. TypeOK'
  BY <1>1, <1>2 DEF TableInv, TypeOK
<1>4. TailInv'
  BY <1>1 DEF TableInv, TailInv, Writing
<1>5. LiveInv'
  BY <1>1 DEF TableInv, LiveInv, Writing
<1>6. ContentInv'
  BY <1>1 DEF TableInv, ContentInv, Writing
<1>7. DiskInv'
  BY <1>1 DEF TableInv, DiskInv, ImageWhole, Openable, DiskTable, DiskIndex
<1>8. OrderInv'
  BY <1>1 DEF OrderInv
<1>9. QED
  BY <1>3, <1>4, <1>5, <1>6, <1>7, <1>8 DEF TableInv

LEMMA StutterKeeps == TableInv /\ UNCHANGED vars => TableInv'
<1> SUFFICES ASSUME TableInv, UNCHANGED vars PROVE TableInv'
  OBVIOUS
<1>1. UNCHANGED <<primary, cached, cachedOffset, cachedPosition, hashMap, buffer, nextPos,
                  index, phase, file, eof, root>>
  BY DEF vars, tables, writer, disc
<1>2. TypeOK' /\ TailInv' /\ LiveInv' /\ ContentInv' /\ OrderInv'
  BY <1>1 DEF TableInv, TypeOK, TailInv, LiveInv, ContentInv, OrderInv, Writing, Stuck
<1>3. DiskInv'
  BY <1>1 DEF TableInv, DiskInv, ImageWhole, Openable, DiskTable, DiskIndex
<1>4. QED
  BY <1>2, <1>3 DEF TableInv

(***************************************************************************)
(* The theorems: safety.                                                   *)
(***************************************************************************)
LEMMA WriteStepKeeps ==
    ASSUME TableInv, NEW i \in Slot, WriteStep(i)
    PROVE  TableInv'
<1>1. ASSUME NEW d \in Data, WriteSector(i, d)
      PROVE  TableInv'
  BY <1>1, WriteSectorStores, StoreKeeps DEF WriteSector
<1>2. ASSUME NEW d \in Data, NEW span \in Spans, WriteSectorInNewBlock(i, d, span)
      PROVE  TableInv'
  BY <1>2, WriteSectorInNewBlockStores, StoreKeeps DEF WriteSectorInNewBlock
<1>3. ASSUME NEW d \in Data, NEW span \in Spans, NEW tableSpan \in 1..TableSpan,
             WriteSectorInNewTable(i, d, span, tableSpan)
      PROVE  TableInv'
  <2>1. Stores(i, d, AfterSecondary(AfterBlock(span), tableSpan), EmptyTable, <<>>)
    BY <1>3, WriteSectorInNewTableStores
  <2>2. phase = "Open"
    BY <1>3 DEF WriteSectorInNewTable
  <2>3. QED
    BY <2>1, <2>2, EmptyTableTyped, StoreKeeps
<1>4. QED
  BY <1>1, <1>2, <1>3, WriteTableFailsKeeps, WritePrimaryFailsKeeps DEF WriteStep

LEMMA StepKeeps == TableInv /\ [Next]_vars => TableInv'
<1> SUFFICES ASSUME TableInv, [Next]_vars PROVE TableInv'
  OBVIOUS
<1>1. CASE CloseStep
  BY <1>1, CloseLastBlockKeeps, CloseIndexKeeps, CloseSecondaryKeeps, CloseNoSecondaryKeeps,
     ClosePrimaryKeeps DEF CloseStep
<1>2. QED
  BY <1>1, WriteStepKeeps, ReadSectorKeeps, CrashKeeps, OpenReadKeeps, CloseReadKeeps,
     StutterKeeps DEF Next

(* The inductive invariant holds of every image, however its writes fail.  *)
THEOREM TableInvariant == Spec => []TableInv
BY InitKeeps, StepKeeps, PTL DEF Spec

(* Every variable of the table in two levels has its type, for every size  *)
(* of the tables, the blocks and the file: set_ddt_multi_level_v2.         *)
THEOREM TwoLevelsTyped == Spec => []TypeOK
<1>1. TableInv => TypeOK
  BY DEF TableInv
<1>2. QED
  BY <1>1, TableInvariant, PTL

(* write_cached_secondary_ddt leaves no pointer to a table that is not in  *)
(* the file or that the index lost, also when a write of a table fails.    *)
THEOREM TablesStayReachable == Spec => []TablesReachable
<1>1. TableInv => TablesReachable
  BY DEF TableInv, LiveInv, TablesWhole, TablesListed, Whole, TablesReachable
<1>2. QED
  BY <1>1, TableInvariant, PTL

(***************************************************************************)
(* Where a step writes: past everything that is led to.                    *)
(***************************************************************************)
Lands(g) ==
    \E l \in Nat : /\ Agree(file, g, l)
                   /\ BlocksWhole(file, index, l)
                   /\ TablesWhole(file, primary, l)

LEMMA Untouched == TableInv => Lands(file)
<1> SUFFICES ASSUME TableInv PROVE Lands(file)
  OBVIOUS
<1>1. eof \in Nat
  BY DEF TableInv, TypeOK
<1>2. QED
  BY <1>1, AgreeSelf DEF Lands, TableInv, LiveInv

LEMMA LandsAtEnd ==
    ASSUME TableInv, NEW g, Agree(file, g, eof)
    PROVE  Lands(g)
<1>1. eof \in Nat
  BY DEF TableInv, TypeOK
<1>2. QED
  BY <1>1 DEF Lands, TableInv, LiveInv

(* A block goes to next_block_position, and what follows it to the end.    *)
LEMMA BlockLands ==
    ASSUME TableInv, phase \in {"Open", "Retry"}, NEW span \in Spans, BlockFits(span),
           NEW g, Agree(AfterBlock(span).file, g, AfterBlock(span).eof)
    PROVE  Lands(g)
<1> DEFINE b == AfterBlock(span)
<1>1. /\ file \in [Units -> Cell] /\ Writing
      /\ eof \in Nat /\ nextPos \in Nat /\ nextPos >= FirstBlock /\ buffer \in Seq(Data)
  BY DEF TableInv, TypeOK, Writing, FirstBlock
<1>2. CASE buffer = <<>>
  BY <1>2, LandsAtEnd DEF AfterBlock, Tail0
<1>3. CASE buffer # <<>>
  <2> DEFINE o == [kind |-> "data", span |-> span, sectors |-> buffer]
  <2>1. b.file = Put(file, nextPos, o) /\ b.eof = Larger(eof, nextPos + span)
    BY <1>3 DEF AfterBlock
  <2>2. phase = "Open" /\ TablesWhole(file, primary, nextPos)
    BY <1>3 DEF TableInv, TailInv, LiveInv
  <2>3. nextPos \in Units /\ Fits(nextPos, span) /\ span \in Nat \ {0}
    BY <1>1, <1>3 DEF BlockFits, Fits, Units, Spans
  <2>4. o \in Block /\ o.span = span
    BY <1>1 DEF Block, DataBlock
  <2> HIDE DEF o, b
  <2>5. Agree(file, b.file, nextPos)
    BY <1>1, <2>1, <2>3, <2>4, PutWhole
  <2>6. b.eof \in Nat /\ nextPos <= b.eof
    BY <1>1, <2>1, <2>3 DEF Larger
  <2>7. Agree(b.file, g, b.eof)
    BY DEF b
  <2>8. Agree(file, g, nextPos)
    BY <1>1, <2>5, <2>6, <2>7, AgreeTransitive
  <2>9. BlocksWhole(file, index, nextPos)
    BY <1>1 DEF TableInv, LiveInv
  <2>10. QED
    BY <1>1, <2>2, <2>8, <2>9 DEF Lands
<1>4. QED
  BY <1>2, <1>3

LEMMA WriteStepLands ==
    ASSUME TableInv, NEW i \in Slot, WriteStep(i)
    PROVE  Lands(file')
<1>1. ASSUME NEW d \in Data, WriteSector(i, d)
      PROVE  Lands(file')
  BY <1>1, Untouched DEF WriteSector, disc
<1>2. ASSUME NEW d \in Data, NEW span \in Spans, WriteSectorInNewBlock(i, d, span)
      PROVE  Lands(file')
  <2>1. phase = "Open" /\ BlockFits(span) /\ file' = AfterBlock(span).file
    BY <1>2 DEF WriteSectorInNewBlock, Becomes
  <2>2. QED
    BY <2>1, BlockLands, AgreeSelf
<1>3. ASSUME NEW d \in Data, NEW span \in Spans, NEW tableSpan \in 1..TableSpan,
             WriteSectorInNewTable(i, d, span, tableSpan)
      PROVE  Lands(file')
  <2>1. Agree(AfterBlock(span).file, file', AfterBlock(span).eof)
    BY <1>3, WriteSectorInNewTableStores
  <2>2. phase = "Open" /\ BlockFits(span)
    BY <1>3 DEF WriteSectorInNewTable
  <2>3. QED
    BY <2>1, <2>2, BlockLands
<1>4. ASSUME NEW span \in Spans, NEW n \in 0..MaxTear, WriteTableFails(i, span, n)
      PROVE  Lands(file')
  <2>1. phase = "Open" /\ BlockFits(span)
    BY <1>4 DEF WriteTableFails
  <2>2. QED
    BY <1>4, <2>1, WriteTableFailsKeeps, BlockLands
<1>5. ASSUME NEW span \in Spans, NEW tableSpan \in 1..TableSpan,
             WritePrimaryFails(i, span, tableSpan)
      PROVE  Lands(file')
  <2>1. phase = "Open" /\ BlockFits(span)
    BY <1>5 DEF WritePrimaryFails
  <2>2. QED
    BY <1>5, <2>1, WritePrimaryFailsKeeps, BlockLands
<1>6. QED
  BY <1>1, <1>2, <1>3, <1>4, <1>5 DEF WriteStep

LEMMA CloseStepLands ==
    ASSUME TableInv, CloseStep
    PROVE  Lands(file')
<1>1. ASSUME NEW span \in Spans, CloseLastBlock(span)
      PROVE  Lands(file')
  <2>1. phase \in {"Open", "Retry"} /\ BlockFits(span) /\ file' = AfterBlock(span).file
    BY <1>1 DEF CloseLastBlock, Becomes
  <2>2. QED
    BY <2>1, BlockLands, AgreeSelf
<1>2. ASSUME NEW span \in Spans, CloseIndex(span)
      PROVE  Lands(file')
  BY <1>2, CloseIndexKeeps, LandsAtEnd
<1>3. ASSUME NEW span \in 1..TableSpan, CloseSecondary(span) \/ CloseSecondaryFails(span)
      PROVE  Lands(file')
  BY <1>3, CloseSecondaryKeeps, LandsAtEnd DEF TableDone
<1>4. CASE CloseNoSecondary
  BY <1>4, Untouched DEF CloseNoSecondary, disc
<1>5. CASE ClosePrimary \/ ClosePrimaryFails
  BY <1>5, ClosePrimaryKeeps, LandsAtEnd
<1>6. QED
  BY <1>1, <1>2, <1>3, <1>4, <1>5 DEF CloseStep

LEMMA StepLands == TableInv /\ [Next]_vars => Lands(file')
<1> SUFFICES ASSUME TableInv, [Next]_vars PROVE Lands(file')
  OBVIOUS
<1>1. CASE UNCHANGED file
  BY <1>1, Untouched
<1>2. CASE Crash \/ OpenRead \/ CloseRead \/ UNCHANGED vars
  BY <1>1, <1>2 DEF Crash, OpenRead, CloseRead, disc, vars
<1>3. ASSUME NEW i \in Slot, ReadSector(i)
      PROVE  Lands(file')
  BY <1>1, <1>3 DEF ReadSector, disc
<1>4. QED
  BY <1>2, <1>3, WriteStepLands, CloseStepLands DEF Next

(* Nothing that a table or the index leads to is written over, whatever    *)
(* order the sectors come in and whatever write fails: blocks go to        *)
(* next_block_position, tables to the end of the file, and the sectors of  *)
(* an open block never reach a table that set_ddt_multi_level_v2 put there.*)
THEOREM LiveStaysUntouched == Spec => LiveUntouched
<1>1. TableInv /\ [Next]_vars => [\A q \in Live : file'[q] = file[q]]_vars
  <2> SUFFICES ASSUME TableInv, [Next]_vars, NEW q \in Live
               PROVE  file'[q] = file[q]
    OBVIOUS
  <2>1. PICK l \in Nat : /\ Agree(file, file', l)
                         /\ BlocksWhole(file, index, l)
                         /\ TablesWhole(file, primary, l)
    BY StepLands DEF Lands
  <2>2. /\ file \in [Units -> Cell] /\ primary \in PrimaryTable
        /\ index \in SUBSET IndexEntry
    BY DEF TableInv, TypeOK
  <2>3. ASSUME NEW p \in Units, NEW kind, Whole(file, p, kind, l), q \in Region(file, p)
        PROVE  file'[q] = file[q]
    <3>1. file[p].obj.span \in Nat \ {0}
      BY <2>2, CellTyped
    <3>2. q \in Units /\ FirstBlock <= q /\ q < l
      BY <2>3, <3>1 DEF Whole, Intact, Fits, Region, Units, FirstBlock
    <3>3. QED
      BY <2>1, <3>2 DEF Agree
  <2>4. CASE \E p \in Position : primary[p] # 0 /\ q \in Region(file, primary[p])
    BY <2>1, <2>2, <2>3, <2>4 DEF TablesWhole, PrimaryTable
  <2>5. CASE \E e \in index : e.type = "data" /\ q \in Region(file, e.pos)
    BY <2>1, <2>2, <2>3, <2>5 DEF BlocksWhole, IndexEntry
  <2>6. QED
    BY <2>4, <2>5 DEF Live
<1>2. QED
  BY <1>1, TableInvariant, PTL DEF Spec, LiveUntouched

(***************************************************************************)
(* What the tables and the open block read as.                             *)
(***************************************************************************)
KeptAt(i, f, t, table, position, np, buf) ==
    IF table # NoTable /\ position = PositionOf(i)
    THEN Sector(f, table[ItemOf(i)], np, buf)
    ELSE IF t[PositionOf(i)] = 0 THEN Blank
    ELSE Sector(f, f[t[PositionOf(i)]].obj.table[ItemOf(i)], np, buf)

KeptIn(f, t, table, position, np, buf) ==
    [i \in Slot |-> KeptAt(i, f, t, table, position, np, buf)]

LEMMA SectorIs ==
    ASSUME TypeOK, NEW es \in SUBSET IndexEntry, NEW l, BlocksWhole(file, es, l),
           NEW e \in Entry, NEW np, Located(file, es, e, np, buffer),
           np = nextPos \/ buffer = <<>>
    PROVE  SectorOf(e) = Sector(file, e, np, buffer)
<1>1. e.offset \in Nat /\ Len(<<>>) = 0 /\ file \in [Units -> Cell]
  BY DEF Entry, TypeOK
<1>2. e # NoEntry /\ ~(e.block = np /\ e.offset < Len(buffer))
        => Intact(file, e.block, "data") /\ e.offset < Len(file[e.block].obj.sectors)
  BY DEF Located, BlocksWhole, Whole
<1>3. CASE np = nextPos
  BY <1>2, <1>3 DEF SectorOf, Sector
<1>4. CASE buffer = <<>>
  <2>1. ~(e.offset < Len(buffer))
    BY <1>1, <1>4
  <2>2. QED
    BY <1>2, <2>1 DEF SectorOf, Sector
<1>5. QED
  BY <1>3, <1>4

(* A table in the file holds entries.                                      *)
LEMMA TableInFile ==
    ASSUME NEW f \in [Units -> Cell], NEW t \in PrimaryTable, NEW l, TablesWhole(f, t, l),
           NEW i \in Slot, t[PositionOf(i)] # 0
    PROVE  /\ PositionOf(i) \in Position /\ ItemOf(i) \in Item
           /\ t[PositionOf(i)] \in Units
           /\ Intact(f, t[PositionOf(i)], "secondary")
           /\ f[t[PositionOf(i)]].obj.table[ItemOf(i)] \in Entry
<1>1. PositionOf(i) \in Position /\ ItemOf(i) \in Item
  BY SlotPlace
<1>2. t[PositionOf(i)] \in Units /\ Intact(f, t[PositionOf(i)], "secondary")
  BY <1>1 DEF TablesWhole, Whole, PrimaryTable
<1>3. f[t[PositionOf(i)]].obj \in SecondaryBlock
  BY <1>2, CellTyped DEF Intact
<1>4. QED
  BY <1>1, <1>2, <1>3 DEF SecondaryBlock

LEMMA InFileIs ==
    ASSUME TypeOK, NEW es \in SUBSET IndexEntry, NEW l, BlocksWhole(file, es, l),
           NEW t \in PrimaryTable, TablesWhole(file, t, l), NEW np,
           TablesLocated(file, es, t, np, buffer), np = nextPos \/ buffer = <<>>,
           NEW i \in Slot
    PROVE  InFile(t, i) = KeptAt(i, file, t, NoTable, 0, np, buffer)
<1>1. file \in [Units -> Cell]
  BY DEF TypeOK
<1>2. CASE t[PositionOf(i)] = 0
  BY <1>2 DEF InFile, KeptAt
<1>3. CASE t[PositionOf(i)] # 0
  <2> DEFINE e == file[t[PositionOf(i)]].obj.table[ItemOf(i)]
  <2>1. /\ PositionOf(i) \in Position /\ ItemOf(i) \in Item /\ e \in Entry
        /\ Intact(file, t[PositionOf(i)], "secondary")
    BY <1>1, <1>3, TableInFile
  <2>2. Located(file, es, e, np, buffer)
    BY <1>3, <2>1 DEF TablesLocated
  <2>3. SectorOf(e) = Sector(file, e, np, buffer)
    BY <2>1, <2>2, SectorIs
  <2>4. QED
    BY <1>3, <2>1, <2>3 DEF InFile, KeptAt
<1>4. QED
  BY <1>2, <1>3

(* While an image is written.                                              *)
LEMMA KeptIs ==
    TableInv /\ Writing
        => KeptImage = KeptIn(file, primary, cached, cachedPosition, nextPos, buffer)
<1> SUFFICES ASSUME TableInv, Writing, NEW i \in Slot
             PROVE  Kept(i) = KeptAt(i, file, primary, cached, cachedPosition, nextPos, buffer)
  BY DEF KeptImage, KeptIn
<1>1. /\ TypeOK /\ index \in SUBSET IndexEntry /\ primary \in PrimaryTable
      /\ BlocksWhole(file, index, eof) /\ TablesWhole(file, primary, eof)
      /\ TablesLocated(file, index, primary, nextPos, buffer)
      /\ cached # NoTable => /\ cached \in [Item -> Entry]
                             /\ TableLocated(file, index, cached, nextPos, buffer)
  BY DEF TableInv, TypeOK, LiveInv, ContentInv
<1>2. CASE cached # NoTable /\ cachedPosition = PositionOf(i)
  <2>1. ItemOf(i) \in Item
    BY SlotPlace
  <2>2. cached[ItemOf(i)] \in Entry
        /\ Located(file, index, cached[ItemOf(i)], nextPos, buffer)
    BY <1>1, <1>2, <2>1 DEF TableLocated
  <2>3. QED
    BY <1>1, <1>2, <2>2, SectorIs DEF Kept, KeptAt
<1>3. CASE ~(cached # NoTable /\ cachedPosition = PositionOf(i))
  BY <1>1, <1>3, InFileIs DEF Kept, KeptAt
<1>4. QED
  BY <1>2, <1>3

LEMMA KeptIsNext ==
    ASSUME TableInv', Writing'
    PROVE  KeptImage' = KeptIn(file', primary', cached', cachedPosition', nextPos', buffer')
<1>1. (TableInv /\ Writing
        => KeptImage = KeptIn(file, primary, cached, cachedPosition, nextPos, buffer))'
  BY KeptIs, PTL
<1>2. QED
  BY <1>1

(* The image in the file: there is one exactly after a close.              *)
LEMMA DurableIs ==
    TableInv =>
        /\ phase \notin {"Closed", "Reading"} => DurableImage = NoImage
        /\ phase \in {"Closed", "Reading"}
              => DurableImage = KeptIn(file, DiskTable, NoTable, 0, 0, <<>>)
<1> SUFFICES ASSUME TableInv
             PROVE  /\ phase \notin {"Closed", "Reading"} => DurableImage = NoImage
                    /\ phase \in {"Closed", "Reading"}
                        => DurableImage = KeptIn(file, DiskTable, NoTable, 0, 0, <<>>)
  OBVIOUS
<1>1. CASE phase \notin {"Closed", "Reading"}
  <2>1. root = 0 /\ file[0] = NoCell
    BY <1>1 DEF TableInv, DiskInv
  <2>2. ~Openable
    BY <2>1 DEF Openable, Intact, NoCell, Hole
  <2>3. QED
    BY <1>1, <2>2 DEF DurableImage
<1>2. CASE phase \in {"Closed", "Reading"}
  <2>1. /\ ImageWhole /\ TypeOK /\ buffer = <<>>
    BY <1>2 DEF TableInv, DiskInv, TailInv
  <2>2. DiskTable \in PrimaryTable /\ DiskIndex \in SUBSET IndexEntry
    BY <2>1, DiskTyped DEF ImageWhole
  <2>3. \A i \in Slot : InFile(DiskTable, i) = KeptAt(i, file, DiskTable, NoTable, 0, 0, <<>>)
    BY <2>1, <2>2, InFileIs DEF ImageWhole
  <2>4. DurableImage = [i \in Slot |-> InFile(DiskTable, i)]
    BY <2>1 DEF DurableImage, ImageWhole, DiskTable
  <2>5. QED
    BY <1>2, <2>3, <2>4 DEF KeptIn
<1>3. QED
  BY <1>1, <1>2

LEMMA DurableIsNext ==
    ASSUME TableInv'
    PROVE  /\ phase' \notin {"Closed", "Reading"} => DurableImage' = NoImage
           /\ phase' \in {"Closed", "Reading"}
                => DurableImage' = KeptIn(file', DiskTable', NoTable, 0, 0, <<>>)
<1>1. (TableInv =>
        /\ phase \notin {"Closed", "Reading"} => DurableImage = NoImage
        /\ phase \in {"Closed", "Reading"}
              => DurableImage = KeptIn(file, DiskTable, NoTable, 0, 0, <<>>))'
  BY DurableIs, PTL
<1>2. QED
  BY <1>1

(* The image that is read: whichever table is cached, it is the one asked  *)
(* for or is replaced.                                                     *)
ReadImage == [i \in Slot |-> Decoded(i)]

LEMMA ReadIs == TableInv /\ phase = "Reading" => ReadImage = DurableImage
<1> SUFFICES ASSUME TableInv, phase = "Reading" PROVE ReadImage = DurableImage
  OBVIOUS
<1>1. /\ ImageWhole /\ primary = DiskTable
      /\ cachedOffset # 0 => cached = file[cachedOffset].obj.table
  BY DEF TableInv, DiskInv
<1>2. ASSUME NEW i \in Slot
      PROVE  Decoded(i) = InFile(primary, i)
  <2>1. CASE primary[PositionOf(i)] = 0
    BY <2>1 DEF Decoded, InFile
  <2>2. CASE primary[PositionOf(i)] # 0 /\ CacheHit(i)
    <3>1. Intact(file, primary[PositionOf(i)], "secondary")
      BY <1>1, <2>2, SlotPlace DEF ImageWhole, TablesWhole, Whole
    <3>2. cached = file[primary[PositionOf(i)]].obj.table
      BY <1>1, <2>2 DEF CacheHit
    <3>3. QED
      BY <2>2, <3>1, <3>2 DEF Decoded, InFile
  <2>3. CASE primary[PositionOf(i)] # 0 /\ ~CacheHit(i)
    BY <2>3 DEF Decoded
  <2>4. QED
    BY <2>1, <2>2, <2>3
<1>3. DurableImage = [i \in Slot |-> InFile(DiskTable, i)]
  BY <1>1 DEF DurableImage, ImageWhole, DiskTable
<1>4. QED
  BY <1>1, <1>2, <1>3 DEF ReadImage

LEMMA ReadIsNext ==
    ASSUME TableInv', phase' = "Reading"
    PROVE  ReadImage' = DurableImage'
<1>1. (TableInv /\ phase = "Reading" => ReadImage = DurableImage)'
  BY ReadIs, PTL
<1>2. QED
  BY <1>1

(***************************************************************************)
(* What moves out of memory reads as before.                               *)
(***************************************************************************)
TableKnown(f, es, table, np, buf) ==
    table # NoTable => table \in [Item -> Entry] /\ TableLocated(f, es, table, np, buf)

LEMMA KeptCarried ==
    ASSUME NEW f \in [Units -> Cell], NEW g, NEW l \in Nat, Agree(f, g, l),
           NEW t \in PrimaryTable, TablesWhole(f, t, l),
           NEW table, NEW position, NEW es, NEW np, NEW buf, NEW es2, NEW np2, NEW buf2,
           TablesLocated(f, es, t, np, buf),
           TableKnown(f, es, table, np, buf),
           Carries(f, es, np, buf, g, es2, np2, buf2)
    PROVE  KeptIn(g, t, table, position, np2, buf2) = KeptIn(f, t, table, position, np, buf)
<1> SUFFICES ASSUME NEW i \in Slot
             PROVE  KeptAt(i, g, t, table, position, np2, buf2)
                        = KeptAt(i, f, t, table, position, np, buf)
  BY DEF KeptIn
<1>1. PositionOf(i) \in Position /\ ItemOf(i) \in Item
  BY SlotPlace
<1>2. CASE table # NoTable /\ position = PositionOf(i)
  BY <1>1, <1>2 DEF KeptAt, TableKnown, TableLocated, Carries
<1>3. CASE ~(table # NoTable /\ position = PositionOf(i)) /\ t[PositionOf(i)] = 0
  BY <1>3 DEF KeptAt
<1>4. CASE ~(table # NoTable /\ position = PositionOf(i)) /\ t[PositionOf(i)] # 0
  <2> DEFINE e == f[t[PositionOf(i)]].obj.table[ItemOf(i)]
  <2>1. e \in Entry
    BY <1>4, TableInFile
  <2>2. g[t[PositionOf(i)]] = f[t[PositionOf(i)]]
    BY <1>1, <1>4, TablesKept
  <2>3. Located(f, es, e, np, buf)
    BY <1>1, <1>4 DEF TablesLocated
  <2>4. Sector(g, e, np2, buf2) = Sector(f, e, np, buf)
    BY <2>1, <2>3 DEF Carries
  <2>5. QED
    BY <1>4, <2>2, <2>4 DEF KeptAt
<1>5. QED
  BY <1>2, <1>3, <1>4

(* The block that is closed.                                               *)
LEMMA BlockReads ==
    ASSUME TableInv, phase \in {"Open", "Retry"}, NEW span \in Spans, BlockFits(span), NEW np
    PROVE  KeptIn(AfterBlock(span).file, primary, cached, cachedPosition, np, <<>>)
               = KeptIn(file, primary, cached, cachedPosition, nextPos, buffer)
<1> DEFINE b == AfterBlock(span)
<1>1. Moved(b)
  BY BlockMoves
<1>2. PICK l \in Nat : Agree(file, b.file, l) /\ TablesWhole(file, primary, l)
  BY BlockLands, AgreeSelf DEF Lands
<1> HIDE DEF b
<1>3. Carries(file, index, nextPos, buffer, b.file, b.index, np, <<>>)
  BY <1>1 DEF Moved
<1>4. /\ file \in [Units -> Cell] /\ primary \in PrimaryTable
      /\ TablesLocated(file, index, primary, nextPos, buffer)
      /\ TableKnown(file, index, cached, nextPos, buffer)
  BY DEF TableInv, TypeOK, ContentInv, Writing, TableKnown
<1>5. KeptIn(b.file, primary, cached, cachedPosition, np, <<>>)
          = KeptIn(file, primary, cached, cachedPosition, nextPos, buffer)
  <2> DEFINE g == b.file
             es2 == b.index
  <2>1. /\ Agree(file, g, l) /\ TablesWhole(file, primary, l)
        /\ Carries(file, index, nextPos, buffer, g, es2, np, <<>>)
    BY <1>2, <1>3
  <2> HIDE DEF g, es2
  <2>2. KeptIn(g, primary, cached, cachedPosition, np, <<>>)
            = KeptIn(file, primary, cached, cachedPosition, nextPos, buffer)
    BY <1>4, <2>1, KeptCarried
  <2>3. QED
    BY <2>2 DEF g
<1>6. QED
  BY <1>5 DEF b

(* The cached table that is written, whether it stays cached or not.       *)
Entered(end) == primary' = [primary EXCEPT ![cachedPosition] = end]

LEMMA TableReads ==
    ASSUME NEW f, NEW es, NEW end, NEW np, TableFits(f, es, end, np), NEW span, NEW g, NEW es2,
           Entered(end),
           TableDone(f, es, end, span, np, g, es2, primary'), NEW np2
    PROVE  /\ KeptIn(g, primary', cached, cachedPosition, np2, <<>>)
                  = KeptIn(f, primary, cached, cachedPosition, np, <<>>)
           /\ KeptIn(g, primary', NoTable, cachedPosition, np2, <<>>)
                  = KeptIn(f, primary, cached, cachedPosition, np, <<>>)
<1>1. /\ f \in [Units -> Cell] /\ end \in Nat /\ end # 0
      /\ primary \in PrimaryTable /\ cachedPosition \in Position
      /\ cached \in [Item -> Entry] /\ cached # NoTable
      /\ TablesWhole(f, primary, end)
      /\ TablesLocated(f, es, primary, np, <<>>) /\ TableLocated(f, es, cached, np, <<>>)
  BY TableIsSome DEF TableFits, Units, FirstBlock
<1>2. /\ Agree(f, g, end) /\ g[end].obj.table = cached
      /\ Carries(f, es, np, <<>>, g, es2, np2, <<>>)
  BY DEF TableDone
<1>3. KeptIn(g, primary, cached, cachedPosition, np2, <<>>)
          = KeptIn(f, primary, cached, cachedPosition, np, <<>>)
  BY <1>1, <1>2, KeptCarried DEF TableKnown
<1>4. ASSUME NEW table, table = cached \/ table = NoTable, NEW i \in Slot
      PROVE  KeptAt(i, g, primary', table, cachedPosition, np2, <<>>)
                 = KeptAt(i, g, primary, cached, cachedPosition, np2, <<>>)
  <2>1. PositionOf(i) \in Position
    BY SlotPlace
  <2>2. CASE cachedPosition = PositionOf(i)
    <3>1. primary'[PositionOf(i)] = end
      BY <1>1, <2>2 DEF PrimaryTable, Entered
    <3>2. CASE table = cached
      BY <1>1, <2>2, <3>2 DEF KeptAt
    <3>3. CASE table = NoTable
      BY <1>1, <1>2, <2>2, <3>1, <3>3 DEF KeptAt
    <3>4. QED
      BY <1>4, <3>2, <3>3
  <2>3. CASE cachedPosition # PositionOf(i)
    <3>1. primary'[PositionOf(i)] = primary[PositionOf(i)]
      BY <1>1, <2>1, <2>3 DEF PrimaryTable, Entered
    <3>2. QED
      BY <1>1, <1>4, <2>3, <3>1 DEF KeptAt
  <2>4. QED
    BY <2>2, <2>3
<1>5. QED
  BY <1>3, <1>4 DEF KeptIn

(***************************************************************************)
(* A sector that is written is the only one that changes.                  *)
(***************************************************************************)
Replaced(old, i, x) == [old EXCEPT ![i] = x]

LEMMA StoredReads ==
    ASSUME hashMap \in [Data -> Entry], NEW i \in Slot, NEW d \in Data, NEW t,
           NEW table \in [Item -> Entry], NEW buf, Stores(i, d, t, table, buf)
    PROVE  KeptIn(file', primary', cached', cachedPosition', nextPos', buffer')
               = Replaced(KeptIn(file', primary', table, PositionOf(i), nextPos', buf),
                          i, [sector |-> d])
<1>1. /\ cached' \in [Item -> Entry] /\ cached' # NoTable /\ table # NoTable
      /\ cached' = [table EXCEPT ![ItemOf(i)] = cached'[ItemOf(i)]]
      /\ cachedPosition' = PositionOf(i)
      /\ Carries(file', index', nextPos', buf, file', index', nextPos', buffer')
      /\ Sector(file', cached'[ItemOf(i)], nextPos', buffer') = [sector |-> d]
  BY EntrySet, TableIsSome
<1>2. /\ file' \in [Units -> Cell] /\ primary' \in PrimaryTable /\ nextPos' \in Nat
      /\ TablesWhole(file', primary', nextPos')
      /\ TablesLocated(file', index', primary', nextPos', buf)
      /\ TableLocated(file', index', table, nextPos', buf)
  BY DEF Stores, FirstBlock
<1>3. KeptIn(file', primary', table, PositionOf(i), nextPos', buffer')
          = KeptIn(file', primary', table, PositionOf(i), nextPos', buf)
  BY <1>1, <1>2, AgreeSelf, KeptCarried DEF TableKnown
<1>4. ASSUME NEW j \in Slot
      PROVE  KeptAt(j, file', primary', cached', PositionOf(i), nextPos', buffer')
                 = IF j = i THEN [sector |-> d]
                   ELSE KeptAt(j, file', primary', table, PositionOf(i), nextPos', buffer')
  <2>1. ItemOf(i) \in Item /\ ItemOf(j) \in Item
    BY SlotPlace
  <2>2. CASE j = i
    BY <1>1, <2>2 DEF KeptAt
  <2>3. CASE j # i /\ PositionOf(j) = PositionOf(i)
    <3>1. ItemOf(j) # ItemOf(i)
      BY <2>3, PlaceIsOwn
    <3>2. cached'[ItemOf(j)] = table[ItemOf(j)]
      BY <1>1, <2>1, <3>1
    <3>3. QED
      BY <1>1, <2>3, <3>2 DEF KeptAt
  <2>4. CASE PositionOf(j) # PositionOf(i)
    BY <2>4 DEF KeptAt
  <2>5. QED
    BY <2>2, <2>3, <2>4
<1>5. QED
  BY <1>1, <1>3, <1>4 DEF KeptIn, Replaced

(* The table that a sector joins reads as the cached one: either it is it, *)
(* or no table is known at all.                                            *)
LEMMA TableForReads ==
    ASSUME TableInv, phase = "Open", NEW i \in Slot, ~NeedsFlush(i),
           NEW f, NEW np, NEW buf
    PROVE  KeptIn(f, primary, TableFor(i), PositionOf(i), np, buf)
               = KeptIn(f, primary, cached, cachedPosition, np, buf)
<1>1. CASE cached # NoTable
  <2>1. PositionOf(i) = cachedPosition /\ TableFor(i) = cached
    BY <1>1 DEF NeedsFlush, TableFor
  <2>2. QED
    BY <2>1
<1>2. CASE cached = NoTable
  <2>1. TableFor(i) = EmptyTable /\ \A p \in Position : primary[p] = 0
    BY <1>2 DEF TableFor, TableInv, OrderInv
  <2>2. ASSUME NEW j \in Slot
        PROVE  KeptAt(j, f, primary, EmptyTable, PositionOf(i), np, buf)
                   = KeptAt(j, f, primary, cached, cachedPosition, np, buf)
    <3>1. PositionOf(j) \in Position /\ ItemOf(j) \in Item
      BY SlotPlace
    <3>2. EmptyTable[ItemOf(j)] = NoEntry /\ Sector(f, NoEntry, np, buf) = Blank
      BY <3>1 DEF EmptyTable, Sector
    <3>3. primary[PositionOf(j)] = 0
      BY <2>1, <3>1
    <3>4. QED
      BY <1>2, <3>2, <3>3 DEF KeptAt
  <2>3. QED
    BY <2>1, <2>2 DEF KeptIn
<1>3. QED
  BY <1>1, <1>2

(* A table that nothing is known of reads as no table.                     *)
LEMMA EmptyReads ==
    ASSUME NEW f, NEW t, NEW position, t[position] = 0, NEW other, NEW np, NEW buf
    PROVE  KeptIn(f, t, EmptyTable, position, np, buf) = KeptIn(f, t, NoTable, other, np, buf)
<1>1. ASSUME NEW j \in Slot
      PROVE  KeptAt(j, f, t, EmptyTable, position, np, buf)
                 = KeptAt(j, f, t, NoTable, other, np, buf)
  <2>1. ItemOf(j) \in Item
    BY SlotPlace
  <2>2. EmptyTable[ItemOf(j)] = NoEntry /\ Sector(f, NoEntry, np, buf) = Blank
    BY <2>1 DEF EmptyTable, Sector
  <2>3. QED
    BY <2>2 DEF KeptAt
<1>2. QED
  BY <1>1 DEF KeptIn

(* set_ddt_multi_level_v2, in each of its three ways.                      *)
LEMMA WriteSectorReads ==
    ASSUME TableInv, NEW i \in Slot, NEW d \in Data, WriteSector(i, d)
    PROVE  KeptImage' = Replaced(KeptImage, i, [sector |-> d])
<1>1. /\ phase = "Open" /\ ~NeedsFlush(i)
      /\ UNCHANGED <<primary, nextPos, file, phase>>
  BY DEF WriteSector, disc
<1>2. Stores(i, d, Tail0, TableFor(i), buffer) /\ TableFor(i) \in [Item -> Entry]
  BY WriteSectorStores
<1>3. TableInv' /\ Writing /\ Writing' /\ hashMap \in [Data -> Entry]
  BY <1>1, <1>2, StoreKeeps DEF Writing, TableInv, TypeOK
<1>4. KeptImage' = KeptIn(file', primary', cached', cachedPosition', nextPos', buffer')
  BY <1>3, KeptIsNext
<1>5. @ = Replaced(KeptIn(file', primary', TableFor(i), PositionOf(i), nextPos', buffer),
                   i, [sector |-> d])
  BY <1>2, <1>3, StoredReads
<1>6. @ = Replaced(KeptIn(file, primary, TableFor(i), PositionOf(i), nextPos, buffer),
                   i, [sector |-> d])
  BY <1>1
<1>7. @ = Replaced(KeptImage, i, [sector |-> d])
  BY <1>1, <1>3, TableForReads, KeptIs
<1>8. QED
  BY <1>4, <1>5, <1>6, <1>7

LEMMA WriteSectorInNewBlockReads ==
    ASSUME TableInv, NEW i \in Slot, NEW d \in Data, NEW span \in Spans,
           WriteSectorInNewBlock(i, d, span)
    PROVE  KeptImage' = Replaced(KeptImage, i, [sector |-> d])
<1> DEFINE b == AfterBlock(span)
<1>1. /\ phase = "Open" /\ ~NeedsFlush(i) /\ BlockFits(span) /\ phase' = "Open"
      /\ file' = b.file
  BY DEF WriteSectorInNewBlock, Becomes
<1>2. /\ Stores(i, d, b, TableFor(i), <<>>) /\ TableFor(i) \in [Item -> Entry]
      /\ primary' = primary
  BY WriteSectorInNewBlockStores
<1> HIDE DEF b
<1>3. TableInv' /\ Writing /\ Writing' /\ hashMap \in [Data -> Entry]
  BY <1>1, <1>2, StoreKeeps DEF Writing, TableInv, TypeOK
<1>4. KeptImage' = KeptIn(file', primary', cached', cachedPosition', nextPos', buffer')
  BY <1>3, KeptIsNext
<1>5. @ = Replaced(KeptIn(file', primary', TableFor(i), PositionOf(i), nextPos', <<>>),
                   i, [sector |-> d])
  BY <1>2, <1>3, StoredReads
<1>6. @ = Replaced(KeptIn(file', primary, cached, cachedPosition, nextPos', <<>>),
                   i, [sector |-> d])
  BY <1>1, <1>2, TableForReads
<1>7. KeptIn(b.file, primary, cached, cachedPosition, nextPos', <<>>)
          = KeptIn(file, primary, cached, cachedPosition, nextPos, buffer)
  BY <1>1, BlockReads DEF b
<1>8. KeptIn(file, primary, cached, cachedPosition, nextPos, buffer) = KeptImage
  BY <1>3, KeptIs
<1>9. QED
  BY <1>1, <1>4, <1>5, <1>6, <1>7, <1>8

LEMMA WriteSectorInNewTableReads ==
    ASSUME TableInv, InOrder, NEW i \in Slot, NEW d \in Data, NEW span \in Spans,
           NEW tableSpan \in 1..TableSpan, WriteSectorInNewTable(i, d, span, tableSpan)
    PROVE  KeptImage' = Replaced(KeptImage, i, [sector |-> d])
<1> DEFINE b == AfterBlock(span)
           t == AfterSecondary(b, tableSpan)
<1>1. /\ phase = "Open" /\ BlockFits(span) /\ phase' = "Open" /\ Ahead(i)
      /\ cached # NoTable /\ PositionOf(i) # cachedPosition
      /\ primary' = [primary EXCEPT ![cachedPosition] = b.eof]
  BY DEF WriteSectorInNewTable, NeedsFlush
<1>2. /\ Stores(i, d, t, EmptyTable, <<>>)
      /\ Moved(b) /\ TableFits(b.file, b.index, b.eof, b.next)
      /\ TableDone(b.file, b.index, b.eof, tableSpan, b.next, file', index', primary')
  BY WriteSectorInNewTableStores
<1> HIDE DEF b, t
<1>3. TableInv' /\ Writing /\ Writing' /\ hashMap \in [Data -> Entry]
  BY <1>1, <1>2, EmptyTableTyped, StoreKeeps DEF Writing, TableInv, TypeOK
<1>4. primary'[PositionOf(i)] = 0
  <2>1. /\ PositionOf(i) \in Position /\ cachedPosition \in Position
        /\ primary \in PrimaryTable
    BY SlotPlace DEF TableInv, TypeOK
  <2>2. cachedPosition <= PositionOf(i)
    BY <1>1, <2>1 DEF Ahead
  <2>3. primary[PositionOf(i)] = 0
    BY <1>1, <2>1, <2>2 DEF TableInv, OrderInv, Position
  <2>4. QED
    BY <1>1, <2>1, <2>3 DEF PrimaryTable
<1>5. KeptImage' = KeptIn(file', primary', cached', cachedPosition', nextPos', buffer')
  BY <1>3, KeptIsNext
<1>6. @ = Replaced(KeptIn(file', primary', EmptyTable, PositionOf(i), nextPos', <<>>),
                   i, [sector |-> d])
  BY <1>2, <1>3, EmptyTableTyped, StoredReads
<1>7. @ = Replaced(KeptIn(file', primary', NoTable, cachedPosition, nextPos', <<>>),
                   i, [sector |-> d])
  BY <1>4, EmptyReads
<1>8. KeptIn(file', primary', NoTable, cachedPosition, nextPos', <<>>)
          = KeptIn(b.file, primary, cached, cachedPosition, b.next, <<>>)
  <2>1. Entered(b.eof)
    BY <1>1 DEF Entered
  <2>2. QED
    BY <1>2, <2>1, TableReads
<1>9. @ = KeptIn(file, primary, cached, cachedPosition, nextPos, buffer)
  BY <1>1, BlockReads DEF b
<1>10. @ = KeptImage
  BY <1>3, KeptIs
<1>11. QED
  BY <1>5, <1>6, <1>7, <1>8, <1>9, <1>10

(* A sector that aaruf_write_sector accepts is the only one that changes,  *)
(* in the open table, in a new block and in a new table, for a program     *)
(* that never goes back to an earlier table.                               *)
THEOREM WritesStoreOneSector ==
    ASSUME InOrder
    PROVE  Spec => WriteStoresSector
<1>1. TableInv /\ [Next]_vars =>
        [\A i \in Slot, d \in Data :
            \/ WriteSector(i, d)
            \/ \E span \in Spans : WriteSectorInNewBlock(i, d, span)
            \/ \E span \in Spans, tableSpan \in 1..TableSpan :
                  WriteSectorInNewTable(i, d, span, tableSpan)
            => KeptImage' = [KeptImage EXCEPT ![i] = [sector |-> d]]]_vars
  BY WriteSectorReads, WriteSectorInNewBlockReads, WriteSectorInNewTableReads DEF Replaced
<1>2. QED
  BY <1>1, TableInvariant, PTL DEF Spec, WriteStoresSector

(***************************************************************************)
(* The steps that the program does not see.                                *)
(***************************************************************************)
LEMMA FailedWriteReads ==
    ASSUME TableInv, NEW i \in Slot, NEW span \in Spans,
           \/ \E n \in 0..MaxTear : WriteTableFails(i, span, n)
           \/ \E tableSpan \in 1..TableSpan : WritePrimaryFails(i, span, tableSpan)
    PROVE  KeptImage' = KeptImage
<1> DEFINE b == AfterBlock(span)
<1>1. /\ phase = "Open" /\ phase' = "Open" /\ BlockFits(span) /\ buffer' = <<>>
      /\ UNCHANGED <<cached, cachedPosition>>
  BY DEF WriteTableFails, WritePrimaryFails, tables
<1>2. TableInv' /\ Writing /\ Writing'
  BY <1>1, WriteTableFailsKeeps, WritePrimaryFailsKeeps DEF Writing
<1>3. Moved(b) /\ Agree(b.file, file', b.eof)
  BY <1>1, BlockMoves, WriteTableFailsKeeps, WritePrimaryFailsKeeps
<1>4. KeptIn(b.file, primary, cached, cachedPosition, b.next, <<>>)
          = KeptIn(file, primary, cached, cachedPosition, nextPos, buffer)
  BY <1>1, BlockReads
<1>5. KeptIn(file', primary', cached, cachedPosition, nextPos', <<>>)
          = KeptIn(b.file, primary, cached, cachedPosition, b.next, <<>>)
  <2>1. ASSUME NEW n \in 0..MaxTear, WriteTableFails(i, span, n)
        PROVE  KeptIn(file', primary', cached, cachedPosition, nextPos', <<>>)
                   = KeptIn(b.file, primary, cached, cachedPosition, b.next, <<>>)
    <3>1. primary' = primary /\ index' = b.index
      BY <2>1 DEF WriteTableFails, tables, Becomes
    <3> HIDE DEF b
    <3>2. /\ b.file \in [Units -> Cell] /\ b.eof \in Nat /\ primary \in PrimaryTable
          /\ b.index \in SUBSET IndexEntry /\ BlocksWhole(b.file, b.index, b.eof)
          /\ TablesWhole(b.file, primary, b.eof)
          /\ TablesLocated(b.file, b.index, primary, b.next, <<>>)
          /\ TableKnown(b.file, b.index, cached, b.next, <<>>)
      BY <1>3 DEF Moved, TableKnown, TableInv, TypeOK
    <3>3. Carries(b.file, b.index, b.next, <<>>, file', b.index, nextPos', <<>>)
      BY <1>3, <3>2, CarriesElsewhere
    <3>4. QED
      BY <1>3, <3>1, <3>2, <3>3, KeptCarried
  <2>2. ASSUME NEW tableSpan \in 1..TableSpan, WritePrimaryFails(i, span, tableSpan)
        PROVE  KeptIn(file', primary', cached, cachedPosition, nextPos', <<>>)
                   = KeptIn(b.file, primary, cached, cachedPosition, b.next, <<>>)
    <3>1. /\ Entered(b.eof)
          /\ TableFits(b.file, b.index, b.eof, b.next)
          /\ TableDone(b.file, b.index, b.eof, tableSpan, b.next, file', index', primary')
      BY <2>2, WritePrimaryFailsKeeps DEF WritePrimaryFails, Entered
    <3>2. QED
      BY <3>1, TableReads
  <2>3. QED
    BY <2>1, <2>2
<1>6. QED
  BY <1>1, <1>2, <1>4, <1>5, KeptIs, KeptIsNext

LEMMA CloseReads ==
    ASSUME TableInv, CloseStep, \A span \in Spans : ~CloseIndex(span)
    PROVE  KeptImage' = KeptImage /\ Writing /\ Writing'
<1>1. ASSUME NEW span \in Spans, CloseLastBlock(span)
      PROVE  KeptImage' = KeptImage /\ Writing /\ Writing'
  <2>1. /\ phase \in {"Open", "Retry"} /\ phase' = "Secondary" /\ BlockFits(span)
        /\ file' = AfterBlock(span).file /\ buffer' = <<>>
        /\ UNCHANGED <<primary, cached, cachedPosition>>
    BY <1>1 DEF CloseLastBlock, Becomes, tables
  <2>2. TableInv' /\ Writing /\ Writing'
    BY <1>1, <2>1, CloseLastBlockKeeps DEF Writing
  <2>3. QED
    BY <2>1, <2>2, BlockReads, KeptIs, KeptIsNext
<1>2. ASSUME NEW span \in 1..TableSpan, CloseSecondary(span) \/ CloseSecondaryFails(span)
      PROVE  KeptImage' = KeptImage /\ Writing /\ Writing'
  <2>1. /\ phase = "Secondary" /\ phase' \in {"Primary", "Retry"}
        /\ buffer = <<>> /\ buffer' = <<>> /\ UNCHANGED <<cachedPosition, nextPos>>
        /\ cached' \in {cached, NoTable}
        /\ Entered(eof)
    BY <1>2 DEF CloseSecondary, CloseSecondaryFails, SecondaryWritten, TableInv, TailInv,
                Entered
  <2>2. /\ TableInv' /\ TableFits(file, index, eof, nextPos)
        /\ TableDone(file, index, eof, span, nextPos, file', index', primary')
    BY <1>2, CloseSecondaryKeeps
  <2>3. Writing /\ Writing'
    BY <2>1 DEF Writing
  <2>4. KeptIn(file', primary', cached', cachedPosition, nextPos', <<>>)
            = KeptIn(file, primary, cached, cachedPosition, nextPos, <<>>)
    <3>1. /\ KeptIn(file', primary', cached, cachedPosition, nextPos', <<>>)
                 = KeptIn(file, primary, cached, cachedPosition, nextPos, <<>>)
          /\ KeptIn(file', primary', NoTable, cachedPosition, nextPos', <<>>)
                 = KeptIn(file, primary, cached, cachedPosition, nextPos, <<>>)
      BY <2>1, <2>2, TableReads
    <3>2. QED
      BY <2>1, <3>1
  <2>5. QED
    BY <2>1, <2>2, <2>3, <2>4, KeptIs, KeptIsNext
<1>3. CASE CloseNoSecondary
  <2>1. /\ phase = "Secondary" /\ phase' = "Primary"
        /\ UNCHANGED <<file, primary, cached, cachedPosition, nextPos, buffer>>
    BY <1>3 DEF CloseNoSecondary, tables, writer, disc
  <2>2. QED
    BY <1>3, <2>1, CloseNoSecondaryKeeps, KeptIs, KeptIsNext DEF Writing
<1>4. CASE ClosePrimary \/ ClosePrimaryFails
  <2>1. /\ phase = "Primary" /\ phase' \in {"Index", "Retry"} /\ buffer = <<>>
        /\ UNCHANGED <<primary, cached, cachedPosition, nextPos, buffer>>
        /\ cached = NoTable
    BY <1>4 DEF ClosePrimary, ClosePrimaryFails, tables, writer, TableInv, TailInv
  <2>2. TableInv' /\ Writing /\ Writing' /\ Agree(file, file', eof)
    BY <1>4, <2>1, ClosePrimaryKeeps DEF Writing
  <2>3. /\ file \in [Units -> Cell] /\ eof \in Nat /\ primary \in PrimaryTable
        /\ index \in SUBSET IndexEntry /\ BlocksWhole(file, index, eof)
        /\ TablesWhole(file, primary, eof)
        /\ TablesLocated(file, index, primary, nextPos, <<>>)
        /\ TableKnown(file, index, cached, nextPos, <<>>)
    BY <2>1 DEF TableInv, TypeOK, LiveInv, ContentInv, TableKnown
  <2>4. Carries(file, index, nextPos, <<>>, file', index, nextPos, <<>>)
    BY <2>2, <2>3, CarriesElsewhere
  <2>5. KeptIn(file', primary, cached, cachedPosition, nextPos, <<>>)
            = KeptIn(file, primary, cached, cachedPosition, nextPos, <<>>)
    BY <2>2, <2>3, <2>4, KeptCarried
  <2>6. QED
    BY <2>1, <2>2, <2>5, KeptIs, KeptIsNext
<1>5. QED
  BY <1>1, <1>2, <1>3, <1>4 DEF CloseStep

(* The close puts into the file what the program has written.              *)
LEMMA IndexCommits ==
    ASSUME TableInv, NEW span \in Spans, CloseIndex(span)
    PROVE  DurableImage' = KeptImage
<1>1. /\ phase = "Index" /\ phase' = "Closed" /\ Writing /\ buffer = <<>> /\ cached = NoTable
  BY DEF CloseIndex, Writing, TableInv, TailInv
<1>2. /\ TableInv' /\ Agree(file, file', eof) /\ DiskTable' = primary
      /\ Carries(file, index, nextPos, <<>>, file', index, 0, <<>>)
  BY CloseIndexKeeps
<1>3. /\ file \in [Units -> Cell] /\ eof \in Nat /\ primary \in PrimaryTable
      /\ TablesWhole(file, primary, eof)
      /\ TablesLocated(file, index, primary, nextPos, <<>>)
      /\ TableKnown(file, index, NoTable, nextPos, <<>>)
  BY <1>1 DEF TableInv, TypeOK, LiveInv, ContentInv, TableKnown
<1>4. DurableImage' = KeptIn(file', primary, NoTable, 0, 0, <<>>)
  BY <1>1, <1>2, DurableIsNext
<1>5. @ = KeptIn(file, primary, NoTable, 0, nextPos, <<>>)
  BY <1>2, <1>3, KeptCarried
<1>6. @ = KeptIn(file, primary, NoTable, cachedPosition, nextPos, <<>>)
  BY DEF KeptIn, KeptAt
<1>7. @ = KeptImage
  BY <1>1, KeptIs
<1>8. QED
  BY <1>4, <1>5, <1>6, <1>7

(***************************************************************************)
(* The steps of the abstract store.                                        *)
(***************************************************************************)
AbstractStep == Promised!StoreNext \/ UNCHANGED Promised!storeVars

LEMMA NoDurable ==
    ASSUME TableInv, TableInv', Writing, Writing' \/ phase' = "Lost"
    PROVE  DurableImage = NoImage /\ DurableImage' = NoImage
BY DurableIs, DurableIsNext DEF Writing

LEMMA MapStutter ==
    ASSUME TableInv, TableInv', Writing, Writing', KeptImage' = KeptImage
    PROVE  AbstractStep
<1>1. DurableImage' = DurableImage
  BY NoDurable
<1>2. QED
  BY <1>1 DEF AbstractStep, Promised!storeVars, Writing

LEMMA MapWrite ==
    ASSUME TableInv, TableInv', Writing, Writing', NEW i \in Slot, NEW d \in Data,
           KeptImage' = Replaced(KeptImage, i, [sector |-> d])
    PROVE  AbstractStep
<1>1. DurableImage' = DurableImage
  BY NoDurable
<1>2. KeptImage'[i] = [sector |-> d] /\ KeptImage' = [KeptImage EXCEPT ![i] = KeptImage'[i]]
  BY DEF KeptImage, Replaced
<1>3. Promised!OneSectorChanged(KeptImage, KeptImage')
  BY <1>2 DEF Promised!OneSectorChanged
<1>4. Promised!Write
  BY <1>1, <1>3 DEF Promised!Write, Writing
<1>5. QED
  BY <1>4 DEF AbstractStep, Promised!StoreNext

LEMMA MapCommit ==
    ASSUME Writing, phase' = "Closed", DurableImage' = KeptImage
    PROVE  AbstractStep
<1>1. Promised!Commit
  BY DEF Promised!Commit, Writing
<1>2. QED
  BY <1>1 DEF AbstractStep, Promised!StoreNext

LEMMA MapCrash ==
    ASSUME TableInv, TableInv', Writing, phase' = "Lost"
    PROVE  AbstractStep
<1>1. DurableImage' = DurableImage
  BY NoDurable
<1>2. Promised!Crash
  BY <1>1 DEF Promised!Crash, Writing
<1>3. QED
  BY <1>2 DEF AbstractStep, Promised!StoreNext

(* An image that is opened and read stays as it was closed.                *)
LEMMA MapRead ==
    ASSUME TableInv, TableInv', phase \in {"Closed", "Reading"},
           phase' \in {"Closed", "Reading"}, UNCHANGED file
    PROVE  AbstractStep
<1>1. DiskTable' = DiskTable
  BY DEF DiskTable
<1>2. DurableImage' = DurableImage
  BY <1>1, DurableIs, DurableIsNext
<1>3. /\ phase = "Reading" => ReadImage = DurableImage
      /\ phase' = "Reading" => ReadImage' = DurableImage'
  BY ReadIs, ReadIsNext
<1>4. QED
  BY <1>2, <1>3 DEF AbstractStep, Promised!storeVars, ReadImage

LEMMA WriteImplements ==
    ASSUME TableInv, TableInv', InOrder, NEW i \in Slot, WriteStep(i)
    PROVE  AbstractStep
<1>1. phase = "Open" /\ phase' = "Open"
  BY DEF WriteStep, WriteSector, WriteSectorInNewBlock, WriteSectorInNewTable,
         WriteTableFails, WritePrimaryFails
<1>2. Writing /\ Writing'
  BY <1>1 DEF Writing
<1>3. ASSUME NEW d \in Data,
             \/ WriteSector(i, d)
             \/ \E span \in Spans : WriteSectorInNewBlock(i, d, span)
             \/ \E span \in Spans, tableSpan \in 1..TableSpan :
                   WriteSectorInNewTable(i, d, span, tableSpan)
      PROVE  AbstractStep
  <2>1. KeptImage' = Replaced(KeptImage, i, [sector |-> d])
    BY <1>3, WriteSectorReads, WriteSectorInNewBlockReads, WriteSectorInNewTableReads
  <2>2. QED
    BY <1>2, <2>1, MapWrite
<1>4. ASSUME NEW span \in Spans,
             \/ \E n \in 0..MaxTear : WriteTableFails(i, span, n)
             \/ \E tableSpan \in 1..TableSpan : WritePrimaryFails(i, span, tableSpan)
      PROVE  AbstractStep
  BY <1>2, <1>4, FailedWriteReads, MapStutter
<1>5. QED
  BY <1>3, <1>4 DEF WriteStep

LEMMA StepImplements ==
    ASSUME TableInv, TableInv', InOrder, [Next]_vars
    PROVE  AbstractStep
<1>1. ASSUME NEW span \in Spans, CloseIndex(span)
      PROVE  AbstractStep
  <2>1. Writing /\ phase' = "Closed"
    BY <1>1 DEF CloseIndex, Writing
  <2>2. QED
    BY <1>1, <2>1, IndexCommits, MapCommit
<1>2. CASE CloseStep
  BY <1>1, <1>2, CloseReads, MapStutter
<1>3. CASE Crash
  <2>1. Writing /\ phase' = "Lost"
    BY <1>3 DEF Crash, Writing, TableInv, TypeOK, Phases
  <2>2. QED
    BY <2>1, MapCrash
<1>4. ASSUME NEW i \in Slot, ReadSector(i)
      PROVE  AbstractStep
  <2>1. phase = "Reading" /\ phase' = "Reading" /\ UNCHANGED file
    BY <1>4 DEF ReadSector, disc
  <2>2. QED
    BY <2>1, MapRead
<1>5. CASE OpenRead \/ CloseRead
  <2>1. /\ phase \in {"Closed", "Reading"} /\ phase' \in {"Closed", "Reading"}
        /\ UNCHANGED file
    BY <1>5 DEF OpenRead, CloseRead, disc
  <2>2. QED
    BY <2>1, MapRead
<1>6. CASE UNCHANGED vars
  <2>1. UNCHANGED <<primary, cached, cachedOffset, cachedPosition, buffer, nextPos,
                    phase, file, root>>
    BY <1>6 DEF vars, tables, writer, disc
  <2>2. CASE phase \in {"Closed", "Reading"}
    BY <2>1, <2>2, MapRead
  <2>3. CASE Writing
    BY <2>1, <2>3, KeptIs, KeptIsNext, MapStutter DEF Writing
  <2>4. CASE phase = "Lost"
    <3>1. DurableImage = NoImage /\ DurableImage' = NoImage
      BY <2>1, <2>4, DurableIs, DurableIsNext
    <3>2. QED
      BY <2>1, <2>4, <3>1 DEF AbstractStep, Promised!storeVars
  <2>5. QED
    BY <2>2, <2>3, <2>4 DEF Writing, TableInv, TypeOK, Phases
<1>7. QED
  BY <1>2, <1>3, <1>4, <1>5, <1>6, WriteImplements DEF Next

(* For a program that never goes back to an earlier table, what it wrote   *)
(* is what is read after the close, whatever order the secondary tables    *)
(* are loaded in, and a crash before the close leaves no image.            *)
THEOREM TwoLevelsImplementStore ==
    ASSUME InOrder
    PROVE  Spec => ImplementsStore
<1>1. Init => Promised!StoreInit
  <2> SUFFICES ASSUME Init PROVE Promised!StoreInit
    OBVIOUS
  <2>1. TableInv /\ phase = "Open" /\ Writing
    BY InitKeeps DEF Init, Writing
  <2>2. DurableImage = NoImage
    BY <2>1, DurableIs
  <2>3. ASSUME NEW i \in Slot
        PROVE  Kept(i) = Blank
    <3>1. primary[PositionOf(i)] = 0 /\ cached = NoTable
      BY SlotPlace DEF Init
    <3>2. QED
      BY <3>1 DEF Kept, InFile
  <2>4. KeptImage = [i \in Slot |-> Blank]
    BY <2>3 DEF KeptImage
  <2>5. QED
    BY <2>1, <2>2, <2>4 DEF Promised!StoreInit
<1>2. TableInv /\ TableInv' /\ [Next]_vars
        => [Promised!StoreNext]_(Promised!storeVars)
  BY StepImplements DEF AbstractStep
<1>3. QED
  BY <1>1, <1>2, TableInvariant, PTL DEF Spec, ImplementsStore, Promised!StoreSpec
=============================================================================
