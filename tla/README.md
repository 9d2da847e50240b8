# libaaruformat in TLA+

libaaruformat reads and writes Aaru images: files that hold the sectors of a disc, a tape or a card,
compressed, deduplicated, checksummed and, since version 3 of the format, protected by erasure coding. This
directory models how such an image is written, closed, lost in a crash, resumed, damaged, opened and read,
checks the models with TLC on small instances, and proves the most important facts with TLAPS for every
instance.

Paths below are those of the repository (`write.c` is the file `src/src/write.c` of `PROJECT.json`).
`PROJECT.json` maps each definition of the models to the lines it stands for, and lists the hazards, the
runs, the mutants that show each property can fail, the findings and the theorems.

## 1. The system

The library is sequential: a program holds a context (`aaruformatContext`) and calls it from one thread.
What is hard is not concurrency but the long life of the file: many writes may fail or be torn, a call that
failed may be repeated, the process may die between two writes, a later session goes on where the file
ends, and a reader years later meets damage in any structure.

| Component | State | Operations | Interacts with |
|---|---|---|---|
| Create (`create.c`) | an empty context, a truncated file | `aaruf_create` | gives the writer its table, position and dirty flags |
| Sector writer (`write.c`) | open block (`writing_buffer`, `current_block_header`), `next_block_position`, index entries | `aaruf_write_sector`, `aaruf_write_sector_long`, `aaruf_close_current_block`, tags | table, hash map, digests, file |
| Single-level table (`ddt/ddt_v2.c`, `close_write.c`) | `user_data_ddt2`: entries (sector in block, block, status) | `set_ddt_single_level_v2`, `write_single_level_ddt` | appended at the end of the file by the close |
| Multi-level table (same files) | primary table, one cached secondary table, its position and offset | `set_ddt_multi_level_v2`, `decode_ddt_multi_level_v2`, `write_cached_secondary_ddt`, `write_primary_ddt` | shares the file and `next_block_position` with the blocks; the primary table is rewritten in place |
| Deduplication map (`ddt/hash_map.c`) | open addressing, hash to entry | lookup, insert, resize | the writer, which takes an equal hash for an equal sector |
| Static LRU map (`ddt/static_lru_hash_map.c`) | a table of fixed size with counts of uses | lookup, insert, evict, age | nothing calls it at this commit |
| Finalisation (`close_write.c`, `close.c`) | dirty flags, header, index | `aaruf_finalize_write`: header, last block, tables, optional blocks, index, header, parity | commits what was written with its last write |
| Open and resume (`open.c`, `index/*`, `blocks/*`, `ddt/*`) | context rebuilt from the file | `aaruf_open` | everything the file holds |
| Sector reader (`read.c`, `lru.c`) | caches of blocks, headers and groups | `aaruf_read_sector`, `aaruf_read_sector_long` | tables, file, recovery, ciphers |
| Verifier (`verify.c`, `index/*`) | none | `aaruf_verify_image` | index and the CRC64 of what it lists |
| Streaming digests (`write.c`, `checksum/*`) | rewind detector, digest contexts, `checksums` | fed by both write functions, finished by the close | the checksum block and its index entry |
| Erasure coding (`erasure.c`, `lib/reed_solomon.c`) | stripes, parity, recovery map | accumulate, flush, recover | every structure that is written, and the reader |
| CD sector splitting (`write.c`, `read.c`) | prefix and suffix tables and arenas, subheaders | long reads and writes, tags | user data, close, open, the repair tool |
| Apple Lisa tags (`lisa_tag.c`) | none | conversions between Sony, Profile and Priam tags | long sectors |
| Tape, flux, DPM, tracks, metadata, dump hardware (`blocks/*`, `metadata*.c`) | a value each and a dirty flag | set, clear, get; appended at close, loaded at open | index |
| Command line tool (`tool/*.c`) | none | a client, but for three commands that edit an image by themselves: `repair_cd_arena`, `inject_media_tag`, `upgrade_ddt_to_alpha21` | the file, between the sessions of the library |
| Compression, CRC64, ciphers, options, identification | none | pure functions | |

**What makes the hard components correct**

* Writer and table: no entry ever leads to a place where there is no such sector, whatever was refused, torn,
  retried or found by its hash. A write that reports success changes its own sector and no other.
* Finalisation and resume: the header's index is a commit point. Until the very last write, and after every
  crash, the file opens as it was at the last commit; nothing is ever written over what it needs.
* Multi-level table: the one cached table is moved out of memory in the middle of a write without losing the
  entries of any table, and tables and blocks, which are placed by different counters, never overlap.
* Optional blocks: what a close that succeeded wrote is what an open finds; nothing that was stored is lost by a
  later session that fails, retries or dies.
* Long sectors: what is taken apart is put together bit for bit, and no sector disturbs another through the
  shared arenas, across sessions too.
* Erasure coding and the reader: what is lost within the parity is recovered; nothing wrong is ever answered
  where a checksum covers it; the caches hold what the file says.
* Opening: an image is refused for a reason only, and what it answers is true, an error, or told by a verification.
* Digests: while they are enabled no sector is fed twice and what was fed is what the image holds.
* Hash maps: every probe ends, and what was stored is found.

## 2. The modules

| Module | What it is |
|---|---|
| `SectorStore` | Abstract specification: a table of contents, and the durable copy made by the last close that succeeded. |
| `ImageFile` | The file as an array of allocation units: whole writes, torn writes, what a verifier accepts. |
| `ImageWriter` | The writer with a single-level table: create, write, close block, each step of the close and its failure, crash, create over the file, resume. Implements `SectorStore`. |
| `MultiLevelDdt` | A new image with two levels of tables: write, table change, close with its failures, then open and read. Implements `SectorStore`. |
| `StreamDigest` | Rewind detection, what is fed to the digests, and the checksum block across sessions. |
| `OptionalBlocks` | Everything in an image that is not its sectors: setters, writers of the close, loaders of the open. |
| `FluxCaptures` | `OptionalBlocks` with flux captures: their queue, entries, map and blocks. |
| `ImageTools` | `FluxCaptures` with the commands that inject a media tag and upgrade the tables of an older library. |
| `ErasureCoding` | Stripes, parity, the recovery map, and what can be rebuilt. |
| `SectorReader` | An image with erasure coding, written, damaged, opened, read through the caches and verified. Composes `ErasureCoding`. |
| `LongSectors` | Long sectors of CDs, DVDs, Blu-rays and Apple disks, their arenas, the repair tool. Composes `LisaTag`. |
| `LisaTag` | The conversions of Lisa tags, as operators. |
| `LinearProbing`, `HashMap`, `StaticLru` | Where a probe ends, and the two hash maps built on it. |
| `ImageOpen` | Opening an image of version 1 or 2, perhaps harmed, and looking sectors up in its table; the verifier. |
| `ImageWriterProofs` | The inductive invariant of `ImageWriter` and its safety; what a write and a hash lead to and what the index covers; that it implements `SectorStore`. |
| `MultiLevelDdtProofs` | The inductive invariant of `MultiLevelDdt`, its safety, and that it implements `SectorStore`. |
| `OptionalBlocksProofs` | The theorems about `OptionalBlocks`, `FluxCaptures` and `ImageTools`, over the composition of the three. |
| `StreamDigestProofs`, `HashMapProofs` | The theorems about `StreamDigest` and both hash maps. |
| `LongSectorsProofs` | The inductive invariant of `LongSectors`, its safety, and what the conversions of `LisaTag` keep. |
| `ImageOpenProofs` | The theorems about `ImageOpen`. |
| `SectorReaderProofs` | The inductive invariant of `SectorReader` over `ErasureCoding`, and all the safety of both. |
| `MC*` | Instances for TLC. |

### The file (`ImageFile`)

A unit stands for `1 << blockAlignmentShift` bytes; a structure covers a number of units that is chosen freely,
because it depends on what compresses. Each unit remembers the structure it belongs to, so `Intact` (every unit
is still the structure's own) stands for a CRC64 that matches. `Put` is a structure written whole, `Tear` a
write that failed after some units. Unit 0 is the header, kept apart in `disk` (`root` in `MultiLevelDdt`).

### The writer (`ImageWriter`)

* State: `ddt`, `hashMap`, `buffer`, `sectorSize`, `nextPos`, `index`, `header`, `hasZstd`, `useZstd`, the dirty
  flags: the fields of the context with these meanings. `file`, `eof`, `disk` are the file. `phase` is the step of
  `aaruf_finalize_write` the writer is at; `Closed` and `Lost` are the two ways a session ends.
* `WriteSector`, `WriteSectorInNewBlock`, `WriteSectorFails` and `WriteGenerable` are the paths of
  `aaruf_write_sector`; `CloseBlock` and `CloseBlockFails` are `aaruf_close_current_block`, which indexes the
  block before it writes it.
* `CloseHeader`, `CloseLastBlock`, `CloseDdt`, `CloseIndex`, `CloseRoot` and their failures are the writes of the
  close in their order; a failed step returns with the context open.
* `Crash` ends the process between any two writes. stdio writes in order, so data still in its buffer is a crash
  at an earlier step.
* `Resume` is `aaruf_open` in resume mode: table, index and header come from the file, the hash map is empty, and
  blocks go after the end of the file.

Assumptions: equal hashes mean equal sectors (the code relies on it). After the last write of a close has failed,
the header in memory points at an index beyond `next_block_position`; a program that wrote on would overwrite it,
so the model lets the program only close again or give up (phase `Retry`); the hazard is listed. `Openable` is
stricter than the code, which does not compute the CRC64 of the index when it opens an image: the property
`CommittedImageReadable` shows that this index is always whole.

`OpenImage` is what the table of an open image promises to a reader after the close. It is not what
`aaruf_read_sector` returns at that moment: the reader does not look into the open block.

### Two levels of tables (`MultiLevelDdt`)

The default `tableShift` gives media of 8,388,608 sectors and more a table of two levels. The module follows
`set_ddt_multi_level_v2` step by step: `WriteSector` uses the cached table or makes one, `WriteSectorInNewTable`
first closes the open block, writes the cached table at the end of the file, moves `next_block_position` past the
room it takes, and rewrites the primary table in place. The constant `InOrder` restricts the program to going
through the medium table by table; without it the writer loses sectors (run `ddt_revisit`). A new image only:
resuming one, reading while it is written, and a block that fails in the middle of a table change are left for
later and listed as hazards. A sector for which no table was ever written is mapped to a blank one; what the code
does with it is in `ImageOpen`. The cfg turns the deadlock check off because a new image whose writer died before
the first commit really stops: it cannot be opened again.

### Digests (`StreamDigest`)

One digest stands for the five, which are enabled and disabled together; it is the sequence of what it was fed.
`tracker` is `rewinded`, `last_written_block`, `block_zero_written` and the `calculating_*` flags.
`process_checksum_block` loads the block of an earlier session; `aaruf_finalize_write` replaces it only when a
digest of this session is alive.

### Optional blocks (`OptionalBlocks`, `FluxCaptures`, `ImageTools`)

* A *slot* is one value of the context (a string of the metadata block, the geometry, the tracks, a media tag, one of
  the four arrays of DVD tags), a *kind* one type of block (`SlotOf`, `FlagOf`). The setters and clearers of
  `metadata_write.c`, `write.c`, `dump.c`, `tape.c` and `blocks/*.c` are the edits, each with the dirty flag it sets or forgets to set.
* `Order` is the order of `aaruf_finalize_write`; a step of the close is one writer, with its test of the dirty flag,
  its test for content, the removal of the old index entries, the append, the new entry, and the flag it clears.
  A writer may fail or have no memory; those whose result is ignored go on.
* The file only grows here, so it is the sequence of what was written and an offset is a place in it. `Resume` is
  the loop of `aaruf_open` over the index, one loader per kind.
* `FluxCaptures` adds the queue of captures, the entries that queued and loaded captures share, the map from keys to
  entries with its rebuilding, and `write_flux_blocks`, which goes through payloads one at a time and replaces the
  entries only when it is done.
* `ImageTools` adds the two commands that do not go through the library. Each reads the index that the header leads to,
  appends its blocks and an index of its own at the end of the file, and rewrites the header; each of these is a step, and
  a command may die after any of them. Nothing locks the file, so a command has an image that is not open for itself.
  `OldImage` is an image of an older library, whose tables `Resume` does not understand (`TablesAreOurs`); the upgrade takes any
  image, and its warning says that it destroys those of today, so the model runs it on old ones only. What the upgrade changes in the
  geometry of DVDs, after asking, is left out.
* A media tag is of a data type of its own (`TypedTags`) or, like those of a MiniDisc, of none.

### Erasure coding and reading (`ErasureCoding`, `SectorReader`)

* The parity of a stripe is linear in its shards, so its content is the set of `<<position, value>>` it was fed with,
  and feeding one twice takes it out again. The code is any code that recovers from as many losses as there is parity
  (`Rebuild`): Reed-Solomon over GF(2^8) is one, and its arithmetic is not modelled. What is modelled is what can go
  wrong around it: which bytes a shard covers, its padding and the CRC64 over it, when a stripe is full, which stripe a
  block belongs to, what a resumed session encodes, and the groups of tables, metadata and index at close.
* `Damage` harms a structure at rest (`DamageOf`): of a data block its identifier, its length, or its payload, which the
  decompressor notices or not; of parity its length or its content; of the header its identifier or the rest.
* `aaruf_read_sector` is one operator from caches and file to answer and new caches: `ReadStored` (table, header cache,
  block cache, file, recovery), `FromGroup` (the groups of a game disc, which are built whole and encrypted again),
  `Reencrypted`. An allocation may fail at any sector. `last` is the last answer.
* `Profiles` choose the medium and how many damages, failures, reads and sessions a behaviour has.

### Long sectors (`LongSectors`, `LisaTag`)

A raw sector of a CD is a record of its four parts, of which a part is right for a type of sector or is not. `ctx`
holds the tables (`ddt`), the arenas of parts that were not right (`slots`, and the `room` that `grow_arena` doubles), the
subheaders and the tags. `WriteSectorLong` follows `aaruf_write_sector_long` part by part; `WriteSectorLongFails` stops at
one of its allocations or at the write of the user data and leaves what came before. `Close` writes the blocks in their order, any of which may be lost;
`Resume` loads them, `ResumeRestarting` is the library before its arenas were resumed rightly, and `Repair` is
`tool/repair_cd_arena.c`, which finds the slots of such an image in the blocks that are still in the file. Apple long
sectors store the tag in the format of the drive (`NewTag`); `LisaTag` has the three formats and the six conversions
field by field, links with their 11 or 24 bits and their end of chain.

`find_cd_track_for_sector` gives a sector outside every track the format of the track before it, or of the first. The repair
pairs each table with the last arena before it (`scan_generations`) and takes the slot of an entry from the first pair whose
table has this very entry for the sector (`find_slot`). Two things that it cannot tell apart are left out of what is expected: an arena
that was restarted can give a sector the entry that it had in an earlier session, so a sector written in such a session is not followed when
any table of the file gives it a slot (`HadSlot`); and a second repair finds entries that the first one numbered anew, so it is only followed for
sectors without one. DVDs and Blu-rays are followed through the first session: later ones mark no tags as to be written (`write.c:764`).
`MediaAssumption` gives the media their types: tags have the length of one of the formats, no part of a sector is the mark of an unreadable one, and
media with tags have no blocks that are lost and no library that restarted arenas, which are about CDs. `LiteralAssumption` only
says that three literals are strings, which the provers cannot see.

### Hash maps (`LinearProbing`, `HashMap`, `StaticLru`)

The tables are functions from slots to keys and values, the key 0 an empty slot; `FirstIn` is where the loop of a probe stops. `resize_map` is modelled slot by slot:
while it moves the old entries nothing else runs, but its inner insertions probe a table that must have room, so
`ProbesEnd` is about those states too. `StaticLru` has evictions, which punch holes into the probe chains and then build
the table again if there is memory for it.

### Opening (`ImageOpen`)

`image` is the image: version of header, index and table, levels, packing, and the harm done to each of its structures
(cut short, altered, lost). `OpenFile`, `ReadIndex` and one action per index entry are `aaruf_open` and the loaders; each
gives the errors of its conditions or goes on as the code does. The lookups are `decode_ddt_entry_v1`,
`decode_ddt_single_level_v2` and `decode_ddt_multi_level_v2` with the cached secondary table. `aaruf_verify_image` is the
verifier on the same image.

## 3. What TLC checks

| Run | Instance | Shows |
|---|---|---|
| `writer_failures` | 2 sectors, 2 contents, blocks of 2 sectors, 7 units; blocks, table headers, indexes and roots that fail, torn after 0 or 1 unit; 778,920 states | no entry dangles, the hash map is sound, the index covers the table, the committed image is readable and never touched |
| `writer_store` | a sector before address 0, three contents of two sizes, structures of 1 or 2 units, generated sectors, deduplication, 6 units, failing headers and roots; 129,796 states | refinement of `SectorStore`; a write changes its sector alone |
| `ddt_tables` | 2 tables of 2 entries, blocks of 2 sectors, tables of up to 2 units, 9 units, failing tables | tables reachable, live units untouched, refinement of `SectorStore`; a write changes its sector alone |
| `digest` | 1 sector before address 0, 2 user sectors and 1 overflow sector, 4 writes a session, failing writes; 228,930 states | no sector fed twice, and fed what the image holds |
| `optional_blocks` | two values a slot, two edits in each of two sessions, one group of slots edited along with the title, two keys of flux, a tag injected into five of the groups, an old image to upgrade, one failure, crashes; 142,956 states | the index resolves, one entry a kind, what a good close wrote is found, nothing stored is forgotten, captures are of their key, durable, and stored in the end; a tool changes no answer but that of its tag |
| `erasure` | stripes of two blocks and one of parity, four sectors in blocks of one or two, groups of two, caches of two headers and two sectors; eight profiles; 270,039 states | maps describe the file, answers are right, losses within the parity are recovered, caches are sound |
| `long_sectors` | two sectors; five kinds of CD, DVD, Blu-ray and four Apple drives, up to three writes and three sessions; 143,431 states | long sectors read back bit for bit; others are untouched |
| `open_versions` | 2 tables of 2 entries, one sector never dumped, one harm or need an image, memory failures besides; 787,167 states | refused for a reason only; a lookup is true, an error, or told by the verifier |
| `hash_maps` | tables of 5 slots that grow twice; keys that collide, wrap and are 0; an LRU table of 5 slots; 203,538 states | probes end, what was stored is found, evictions take cold entries |
| `ddt_revisit`, `tape_reload`, `erasure_metadata` | smallest that show it | the code does not do what its documentation says; see `findings` |

**Why the bounds are enough.** Two sectors and two contents give a sector found by its hash and one that is not,
and a sector overwritten. Blocks of two sectors are reached empty, partly filled and full; contents of a third size
close a block that is not full. Seven units hold a commit (block, table, index), a resume, another block, a torn
write and a second commit over the first one's tail. What is proved (section 4) does not depend on these bounds. Two
tables with two levels are the fewest with a table change. Optional blocks do not share state but through the index and
`next_block_position`, so one partner edited along with each group shows what one block does to another; one
failure anywhere with a retry, and a second session, are the shortest ways to a stale flag or a lost entry. One parity
block for two data blocks has losses within and beyond the parity, whole and partial stripes, and two stripes. The
arenas of two sectors are filled, grown, shared between sessions and repaired. Hash tables of five slots fill, wrap
and grow twice.

In `open_versions`, a table that was never made and is looked up first is excluded from `LookupsTrueOrTold`: the code
takes 0 for the place of a table it has, and dereferences a null pointer. The hazard is listed.

**Symmetry.** Contents of the same length, with their hashes, are exchanged together (`ContentSymmetry`), and the two
entries of the maps (`EntrySymmetry`); the properties of those runs are invariants and step properties, for which this
is sound.

**Fairness.** Every call of the library ends by itself, and whether the program calls again is the program's choice.
One liveness property is stated, `FluxEventuallyStored`, under weak fairness of `CloseStep`: a close that began runs to its end, and
a program that was told of an error calls `aaruf_close` again. The number of failures is bounded, so some call
has none.

**Mutants.** For each property of each passing run, `PROJECT.json` names a change to the model, such as a dropped
guard, a missing reset or a swapped order, under which TLC finds the property violated.

### Findings

* `ddt_revisit`: going back to a secondary table that was flushed makes an empty one, and the other sectors of
  that table are lost.
* `tape_reload`: the blocks of tape files and partitions are written with a count of 0 and nothing is found in them.
* `erasure_metadata`: the CRC64 of a metadata shard covers its padding on one side only, so the shorter blocks of a
  group cannot be recovered.

### Observed while modelling

No run is kept for these; those that are in a model are modelled as the code has them, and the properties say where they end.

*Writer and close.* The feature bit of Zstandard is decided before the last block and the table are compressed
(`close_write.c:5559`). Table data that cannot be written does not make the close fail (`close_write.c:553`), nor does
a secondary table, which is then freed (`close_write.c:262`). A failed allocation after the map was changed leaves the
entry of a sector that is not buffered (`write.c:452`). With 0 entries in the index the root is never updated.
Nintendo discs: `write.c:787`.
*Multi-level table.* A resumed session that makes one table and closes rewrites the data of the primary table without its
header (`close_write.c:254`): its CRC64 is stale and the image no longer opens. A read while writing frees the cached
table (`ddt_v2.c:1116`). The table change files the old table under the position of the new sector and writes LZMA
properties before the header (`ddt_v2.c:1824`). The result of `aaruf_close_current_block` is ignored (`ddt_v2.c:1504`).
*Digests.* Sector 0 written after others goes on feeding them (`write.c:236`). A long sector of a CD is looked at twice, by
`aaruf_write_sector_long` (`write.c:826`) and by the `aaruf_write_sector` it calls, which finds it already seen: the
first such write disables them, so the close stores no checksum of such an image; a resumed and modified image keeps the checksum block of the session before (`open.c:790`).
*Optional blocks.* The setters of metadata do not mark their block on a resumed image (`metadata_write.c:427`, whose
documentation at 391 says the change is saved); clearing the last field leaves the old block, which comes back; `kSectorTagDvdSectorInformation`
marks nothing (`write.c:2512`); the CMI of DVD sectors alone is never written (`close_write.c:2119`);
`kSectorTagBdSectorEdc` is refused on optical media (`write.c:2718`); the readable flags of Sony and Priam tags are
swapped (`data.c:510`). The tags of a MiniDisc have no data type (`helpers.c:393`): their blocks replace one another, and the last comes back
as a tag of type -1; `ClosedIsReopened` leaves them out.
*Tools.* `inject_media_tag` refuses the tags of a MiniDisc, and those of a Wii U disc, whose data types the library has (`helpers.c:371`). Whatever a tool appends lies behind the recovery footer of an image with
erasure coding, which is then not found. The upgrade does not convert secondary tables, which the index lists under another type, so
an image with several levels is no more readable than before (`upgrade_ddt_to_alpha21.c:325`).
*Long sectors.* Data of an arena is lost by a close that fails (`close_write.c:1150`); a long write that fails leaves the new
prefix with the old user data; long sectors of DVD and Blu-ray in a resumed image mark nothing (`write.c:764`). The tag of a
long sector for an Apple Widget is dropped (`write.c:1256`), and its tags, though kept in memory, are not written
(`close_write.c:1875`); `aaruf_write_sector_tag` takes any Apple tag on any block medium (`write.c:2630`); the
Apple path uses the address before it is corrected (`write.c:1360`); links wider than 11 bits are cut (`lisa_tag.c:257`).
An image repaired twice is damaged by the second repair, which takes slots from before the first (`repair_cd_arena.c:227`). The same
entry in an older table is also what a session that restarts an arena can make of a sector that was emptied in between.
*Erasure coding and reading.* `erasure_coding.adoc:232` promises recovery of the index and the primary table, which
is not implemented; the duplicate map is never used; the backup of the header is discarded when the header is read again as
version 2; an uncompressed block that is silently damaged is returned; a session resumed without erasure coding
loses the protection (`erasure.c:1046`); parity has no check of its own; a recovered sector of a game disc is returned
decrypted (`read.c:1188`); a group of a Wii U disc with a sector that failed is cached with zeros (`read.c:712`); the verifier
does not look at secondary tables.
*Hash maps.* A rehash without memory leaves broken chains, and an eviction goes by place, so it may take an entry used more than
one it leaves (`static_lru_hash_map.c:173`, whose header says "least"); neither map's code checks all of its allocations.
*Opening.* A secondary table that was never made, looked up first, is a null pointer (`ddt_v2.c:997`). On the path
without a table `aaruf_open` calls `aaruf_close` before the magic is set, and the context leaks (`open.c:684`). An image with
flux whose table cannot be read opens as flux alone (`open.c:692`). A table of version 1 that ends early leaves a
pointer to freed memory (`ddt_v1.c:264`). One media tag that cannot be decoded refuses the whole image, one that ends early is
skipped. The CRC64 of the index is not looked at when an image is opened.

## 4. What is proved

### The writer

For every geometry, block size, set of contents, statuses, failures and file size, with and without deduplication. The
theorems use the named assumptions of the module, constants in their types; only the three that say what a sector
holds (`HashMapIsSound`, `WritesStoreSectors`, `WriterImplementsStore`) need `HashAssumption`, that equal hashes are of equal sectors.

| Theorem | Statement |
|---|---|
| `TypeCorrect` | `Spec => []TypeOK` |
| `TableNeverDangles` | `Spec => []EntriesResolve` |
| `CommitSurvives` | `Spec => []CommittedImageReadable` |
| `CommitUntouched` | `Spec => CommittedUntouched` |
| `HashMapIsSound` | `Spec => []HashMapSound` |
| `WritesStoreSectors` | `Spec => WriteStoresSector` |
| `IndexIsComplete` | `Spec => []IndexCoversEntries` |
| `WriterImplementsStore` | `Spec => ImplementsStore` |

**Types.** `TypeOK` lacks one fact to be inductive: a block that fails is indexed at `next_block_position`, which is
a unit of the file only because a sector was buffered for it (`OpenBlockHasUnit`).

**Safety.** The idea is a limit. All that the writer relies on lies below a limit, and every write lands at or after
it, so `WholeKept` and the lemmas built on it carry every structure from one state to the next. The difficulty is
that there are two limits. Blocks are written at `next_block_position`, tables and indexes at the end of the file,
and what a close has appended lies between the two until the session ends. `SafeInv` says which limit holds for
what:

* `EntryInv`: entries of the table and the hash map resolve below `next_block_position`, or in the open block, whose
  sectors have the size its header gives (`BufferInv`).
* `DataIndexed`: an index entry of a block that failed waits for the block that is still open.
* `CleanTable`, `WrittenTable`, `SomeTable`: the index lists a table, good below `next_block_position` when the table
  in memory is unchanged since it was loaded, and below the end of the file once it has been written.
* `PhaseInv`: an index at or after `next_block_position` (one that a close wrote and whose header failed) exists only
  while no block is open, so no block can be written over it. This is the conjunct that the assumption on programs
  after a failed root is needed for.
* `HeaderRoot`, `DiskRoot`: the image each of the two headers points at is whole below `RootLimit`, one of the two.
* `EndedInv`: a program without an image has nothing in memory.

There is one lemma per action (`WriteSectorSafe` ... `ResumeSafe`), collected in `NextSafe`. `SafeInv` was checked by
TLC on the instance of `writer_failures` before it was proved, and so was `IndexInv` below.

**Contents.** `Sector` is what an entry leads to, in the open block or in a block of the file. It does not change when
the block is written, when another is opened, nor when something else is written beyond the limit: so an entry that
is kept reads as before, and a hash that led to a sector with that hash (`HashInv`) still does. With `HashAssumption`
that sector is the one being written, which is what a write that is found by its hash relies on.

**Index.** `IndexCoversEntries` is not inductive, because a close moves the context back to tables and indexes of
other moments. `IndexInv` says of every place where a table and an index meet that the index covers the table: the
two in memory; the table appended by a close that is not over; the index that the header in memory points at; and
the one that the header on disk points at, which is all that a later session will have. An index at or after the open
block is about the table in memory; one before it is the committed one, which nothing overwrites.

**Refinement.** The image is mapped to what its table reads as, the durable image to what the table behind the header on
disk reads as. By the contents argument only a write changes the first, at its own address. By the limits only the
last write of a close changes the second, and then the two are equal (`HeaderCommits`). Crash and resume go back to
the second. All other steps, failed ones included, are stutters (`MapStutter`).

### Two levels of tables

For every size of the tables, of blocks and of the file (`SizeAssumption`), and every choice of writes that fail.

| Theorem | Statement |
|---|---|
| `TableInvariant` | `Spec => []TableInv` |
| `TwoLevelsTyped` | `Spec => []TypeOK` |
| `TablesStayReachable` | `Spec => []TablesReachable` |
| `LiveStaysUntouched` | `Spec => LiveUntouched` |
| `WritesStoreOneSector` | `InOrder` implies `Spec => WriteStoresSector` |
| `TwoLevelsImplementStore` | `InOrder` implies `Spec => ImplementsStore` |

The first four hold of every program. The last two have `InOrder` as their hypothesis because they are false without it:
the run `ddt_revisit` is the counterexample. `InOrder` is a constant of the module that restricts which sectors
the program writes, not what the library does.

Limits alone do not do here. Blocks are placed by `next_block_position` and tables by the end of the file, in the same
region and in turns. What keeps them apart is that a table is only written while no sector is buffered, so that
nothing of the context lies beyond `next_block_position`, and that the position is then moved past it. The parts of `TableInv`:

* `TailInv`: what the steps of a change and of a close leave empty, and that a table in memory with nothing buffered
  means that a block has been written, so the room of the primary table is not used for anything else.
* `LiveInv`: data blocks and tables are whole below the end of the file, and while the program writes, data blocks
  below `next_block_position`. Tables too, but for one case, in which nothing can be written before the table is moved:
  the cached table has a place in the file already (`Stuck`), which a failed move leaves behind.
* `ContentInv`: what the entries of the tables in the file, of the cached table and of the hash map lead to is in a block
  that the index lists or in the open one, and is the sector it is taken for.
* `DiskInv`: the primary table in its unit, and the image once it is closed.
* `OrderInv`: tables are made in their order when the program goes in order.

A step of the writer carries all entries at once (`Carries`): the file grows beyond what they lead to, or the open block
becomes a block of the file. The refinement maps the image to what the tables read as, with the table in memory in place
of the one in the file.

### The optional blocks, flux and the commands

For every set of values and keys and any number of edits, sessions, failures and commands; over `ToolSpec`, which composes the
three modules, so that the library and the commands act on the same file in turns.

| Theorem | Statement |
|---|---|
| `BlocksInvariant` | `ToolSpec => []BlocksInv` |
| `BlocksTyped` | `ToolSpec => []TypeOK` |
| `EntriesLeadToBlocks` | `ToolSpec => []IndexResolves` |
| `OneBlockPerKind` | `ToolSpec => []OneEntryPerKind` |
| `CapturesOfTheirKeys` | `ToolSpec => []FluxOfItsKey` |
| `NothingIsForgotten` | `ToolSpec => NothingForgotten` |
| `CapturesAreDurable` | `ToolSpec => []FluxDurable` |
| `ClosedImageIsReopened` | `ToolSpec => []ClosedIsReopened` |
| `CommandsChangeTheirTagAlone` | `ToolSpec => ToolChangesItsTagAlone` |

`BlocksInv` is about three indexes: that of the context, that which the header on disk leads to, and the one a command prepares.
Each resolves and has one entry a kind but for flux (`IndexOK`); the file only grows (`Longer`), so what resolves goes on doing so.
Every flux block ever written leads to payloads of the keys it gives (`PayloadsRight`), and so do those entries in memory that have
a payload (`FluxOK`), whatever queue and entries share and whatever the map finds. `KeptInv` adds that what the index on disk
has is in the one in memory: the DPM is the only block that the library takes out, and only in a session that edited it. `DurableInv` follows
the captures of a new image from the queue to the payloads, through closes that fail between a payload and its entry.

The loops of the code over an index are recursive functions here (`OfKinds`, `Loading`, `flux_map_rebuild_from_entries`). What they give for
every input is proved by induction over a set of places (`InductionUpTo`, from the well-foundedness of the naturals), which
needs no operator as a parameter: `OfKindsSelects` (the entries of a kind, in order, all of them), `LoadingOK`, and
`MapsLast` (the map leads to the last entry of a key).

The last two theorems are about what an index *gives*. By such an induction over the loaders (`LoadingComes`) a slot is loaded with what
the last entry of a kind that goes `Into` it holds. That has the type information that a loader needs, that the tables of tapes are
empty and those of sectors are one (`CountOK`), and the fact that no index has two metadata blocks: the loader of metadata skips
what is not set, so that an older block would show through. From it follow the lemmas that both proofs are made of: what an index gives
stays when the file grows (`LoadingKept`), when entries of other kinds go (`LoadingWithout`) or come (`LoadingAppended`, `LoadingConcat`), and is
that of the new block when the entry of a kind is replaced (`LoadingReplaced`). `ReopenInv` then says, of a session in which nothing failed, that the
index in memory gives every slot that was not edited as it is in memory (`Matches`), that in `aaruf_close` it also gives those of every writer
that has had its turn (`WrittenBack`), and that an index that is not marked gives what the one on disk gives (`SameOnDisk`). `CommandInv` says of
the index that a command prepares that it gives what the one on disk gives but for its tag, leads to the same flux block first (`SameFlux`),
and has no old table but those still to be written. The assumption that no media tag is `None` is there for the commands, which
are told apart by it.

Proving `NothingForgotten` showed that it had been stated too strongly: a DPM may also go when it is set. `aaruf_clear_dpm`, a close whose
index is not written, `aaruf_set_dpm`, and a close that cannot write the DPM leave an index without it. TLC finds this with two failures,
and the property now excepts any session that edited the DPM.

### The digests

`DigestTypeCorrect` (`Spec => []TypeOK`), `SectorsFedOnce` (`Spec => []FedOnce`) and `DigestOfWhatIsHeld`
(`Spec => []DigestIsOfImage`), for any number of sectors and writes. `DigestInv` adds that every sector fed was seen by
rewind detection (`AllSeen`): at or below the last one in order, so that writing it again is a rewind, which ends the digests
before the image and what was fed part ways (`Matches`); and that while the digests live it is the first session,
because a resumed one has none (`FirstSession`). The one exception in the code, sector 0 out of order, is let in once. The
proof also shows that a long sector of a CD is always a rewind for its own second look (section 3).

### The hash maps

| Theorem | Statement |
|---|---|
| `ProbesAlwaysEnd` | `MapSpec => []ProbesEnd` |
| `LookupsFindStored` | `MapSpec => []LookupFindsStored` |
| `LruHitsAreLatest` | `LruSpec => []LruHitIsLatest` |
| `EvictionsAreCold` | `LruSpec => []EvictsCold` |

For every set of keys and every table of at least 5 slots (`MapSizeAssumption`, `LruSizeAssumption`; the code has 1024
and more). Both invariants, `MapInv` and `LruInv`, say that no probe chain has a hole (`Chained`), that no key is in the table
twice (`NoTwins`), that what is in the table, with what is yet to be moved into it, is what was stored (`HoldsStored`,
`HoldsLatest`), and they count: a table that is not three quarters full, one that has just grown by a quarter, and one
that has just evicted, has an empty slot. The least slot of a probe is found by well-founded induction
(`LeastElement`), and `FillSlot` counts. After a rehash without memory keys may be there twice, so `LruInv` keeps
only the count, which is enough for the probes to end.

The rehash is a recursive function whose existence is shown by induction over its slots (`RehashSteps`); its table has the entries
of the old one and as many (`PutAgain`), so the holes of an eviction cost nothing but their entries. The cutoff exists
because the counts of uses saturate (`CutoffFound`), and the first slots at or below it are as many as the eviction
asks for (`FirstOfCount`). `EvictsCold` follows from the cutoff being the least.

### Opening

`LookupsAreTrueOrTold` (`Spec => []LookupsTrueOrTold`) and `OpensAllItCan` (`Spec => []OpensWhatItCan`), for tables of every
size, images of both versions and harm to any number of structures (`MaxTroubles` is any number). `OpenInv` follows the table
from the entry that leads to it to the context. An index has one entry of the table (`OneTable`) and an entry that leads
elsewhere is of an index that was altered (`Astray`); until that entry has been processed an image of version 2 has no table,
and in a sound image it is still to come (`PendingOK`); a table in memory that is not the right one comes from harm to the
table or the index (`TableFine`), which the verifier tells of (`VerifierTells`), because both have a CRC64 that only the
verifier computes in version 1; and the cached secondary table is the one of its place, kept only when it was loaded whole
(`CacheOK`). `PlaceOfSlot` is the division that makes a sector of a place and an item.

### Erasure coding and reading

| Theorem | Statement |
|---|---|
| `ReaderIsTyped` | `Spec => []TypeOK` |
| `MapsAreTrue` | `Spec => []MapsDescribeFile` |
| `ReadsAreRight` | `Spec => []AnswersRight` |
| `VerifiedReadsAreRight` | `Spec => []VerifiedAnswersRight` |
| `ParityIsEnough` | `Spec => []WithinParityAnswered` |
| `CachesAreSound` | `Spec => []CachesSound` |

For every `K` and `M` that one code can have (`CodeAssumption`), discs of any size with groups of any size, blocks of
metadata of any number and length, caches of any budget, and any number of damages, reads, failed allocations, closes and
sessions (`ReaderAssumption` gives the constants their types and tells `None` from what it stands against).

`SectorInv` has two halves, because the image is written first and read after. While it is written:

* `FileOK`: the structures of the file lie one after the other. It only grows (`Longer`), so all that leads to a structure
  goes on leading to it, and there is one lemma that carries each of the following to a longer file.
* `WriterOK`: every shard of the open slot, and of every stripe that was flushed, is a structure of the file, not longer than a
  shard, with a CRC64 over itself and no more (`ShardOK`, `OwnCrc`), and the parity being accumulated is what that slot was fed
  with (`Fed`): that the slot is emptied with its parity is what makes it inductive. A parity in the file encodes its whole stripe (`ParityOK`).
* `MapsOK`, `FootersOK`: what a close wrote is such a map, for data, tables and metadata, and each footer leads to one. The
  groups are made of what the index lists; the size of a block of metadata is the gap to the next, which is never less than the
  block, because there is always a next one (the index).
* `TableOK`, `BlocksIndexed`: an entry leads to a slot of a block of data, and each block of an image that is finalized comes before
  its index, so that a verifier gets to it. `DamageOK`: a damage is one that its structure can have.

While it is read only the caches and the last answer change. `ReaderOK` says that the map loaded describes the file, that
a cached header is as the file has it or was rebuilt, that a cached block is the true content or has damage that nothing notices,
that the secondary table is as its first read found it, and that the cached group is that of its place unless it has holes, such
damage, or no right keys.
Each operation of the reader has one lemma, on what it answers and on the caches it leaves: the caches (`find_in_cache`,
`add_to_cache`, with the bytes they hold summed by induction), one sector from its block (`ReadStored`), a group read sector by
sector (induction over its places, each of which may touch every cache), and the encryption that puts the group together again.

`ParityIsEnough` is a count. What a stripe lost is the data that is not whole and the parity that is not there; when they are `M` at
most, what is left holds `K` of the rows, all genuine because the CRC64 of a shard of data is its own and a parity that is there and
undamaged encodes the stripe, so `rs_decode` gives back what the file held. `WithinParityAnswered` is about data
blocks only, and what recovery promises for metadata is false: that is the run `reader_metadata` (section 3).

The property also needs that nothing read before spoils the answer. A cached block with the damage that nothing notices is the
exception that `AnswersRight` names, and `VerifiedReadsAreRight` closes it: the verifier computes the CRC64 of every block the
index lists, so after it has passed there is no such block.

### Long sectors and Lisa tags

| Theorem | Statement |
|---|---|
| `LongInvariant` | `Spec => []LongInv` |
| `LongSectorsTyped` | `Spec => []TypeOK` |
| `LongSectorsReadBack` | `Spec => []LongReadsBack` |
| `OthersStayUntouched` | `Spec => OthersUntouched` |
| `ConversionKeepsMeaning` | a tag that is stored has the format of the drive and the meaning of what was given |

For every number of sectors, every layout of tracks, every set of raw sectors and tags, and any number of writes, failures,
lost blocks, sessions and repairs (`MediaAssumption`). `LongInv` has three parts, of which TLC checked each on the run before it was proved:

* `LongTyped`: the context, the blocks of the file and the index have their types, and the index names the last block of each kind
  (`Indexed`), which is what makes a close that loses a block leave the one before.
* `CdInv`: `Disk` is the context that a reader of the file makes. A sector that was written in this session (`NewSector`) is in the context: its
  user data and subheader, entries that stand for what its parts are, and slots that have those that are kept (`Held`, `Kept`); its
  blocks are marked (`Marked`); and no table of the file has its entries (`Fresh`). Any other sector (`OldSector`) is in the file
  in the same way, and the context agrees with the file about it (`Agree`). Slots may be missing while the arenas are restarted, but then the
  repair finds each of them (`Findable`). The arenas of a context only extend those of the file (`ArenasInv`), and no arena of the
  file is longer than the last, so a new entry is beyond all that was ever kept: this is what makes `Fresh` inductive.
* `TagInv`: media with tags. What the context has of every sector is what was written (`TagsHeld`), and what is not marked is as the
  file has it (`TagsClean`), so a close, which writes what is marked, and a resumed session have it too.

A write touches one sector (`Touches`), in any of its stages, so there is one lemma for all that it does to the others (`OtherStaysNew`,
`OtherStaysOld`). A close is followed block by block (`Grown`): what is put, where the index leads, and that each arena comes
before its table, which is what the repair pairs them by. The loop of the repair is a recursive function whose existence and result are
shown by induction over the sectors (`RebuiltExists`, `RebuildIs`): every sector has the slot that `find_slot` gave, renumbered.
`RepairedDisk` then says that a reader of the repaired file finds the slots that were lost.

Proving `LongReadsBack` showed that it had been stated too strongly: with more sessions than its run has, a sector that was emptied in
between can share its entry with an older one when an arena is restarted, and a second repair takes slots from before the first. What is
expected of such sectors is now left open (`HadSlot`).

`ConversionKeepsMeaning`: for every tag of 12, 20 or 24 bytes and every drive with a format, what is stored has the format of the
drive and the meaning of what was given (file, page, flags, links and the end of a chain), whenever the links are
numbers the format has. By cases over the formats, on lemmas about masks and links (`Narrowing`, `Widening`). `KeptTag` brings it to
`RightTag`, which is what `LongReadsBack` asks of a tag.

**Model-checked only.** Of the properties that the passing runs check, `FluxEventuallyStored` alone: liveness under fairness and
`ENABLED` are out of the reach of the prover that is installed, as are RECURSIVE operators and the folds of the community
modules, which are defined by them. `WriteStoresSector` and the refinement of the writer with two levels are proved for programs that go in order and
are false of others (`ddt_revisit`).

## 5. What is not modelled, and the plan

Not modelled, with the reason, in `components`: compression, CRC64, ciphers and option parsing (pure functions), and
the commands of the tool that are clients of the library. Pure algorithms are abstracted to what they
guarantee: any digest, any code that recovers as many losses as it has parity, any compressor. EDC and ECC of CD sectors are a
predicate, right or not. Subindexes of version 3, which nothing writes, are not modelled.

In order of importance:

1. **Multi-level table, second part**: resume (primary table rewritten in place before the index, its CRC64 stale when only
   a secondary table is dirty), reads while writing (which free the cached table), blocks that fail in the middle of a
   table change. Its hazards are listed with notes.
2. **Writing on after a failed root** (`close_write.c:5513`).
3. **Pure algorithms** against a reference definition: EDC and ECC of CD sectors, arithmetic of GF(2^8), the region
   maps of game discs, option parsing.
4. **The converters of the tool** (`convert`, and those of game discs), which are clients that hold state between the sectors they read and write.
