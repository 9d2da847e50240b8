---------------------------- MODULE SectorReader ----------------------------
(***************************************************************************)
(* An image with erasure coding is written, perhaps resumed, damaged at    *)
(* rest, opened and read: aaruf_read_sector (src/read.c) with its caches   *)
(* of headers and blocks (src/lru.c), the recovery of damaged blocks, the  *)
(* regeneration of junk and the encryption of game discs, of which a whole *)
(* group of sectors is built and cached; and aaruf_verify_image.           *)
(*                                                                         *)
(* A block has as many sectors as units.  A sector of a game disc that is  *)
(* not out of the regions with a key (profile.plain) is stored decrypted,  *)
(* or not at all when it is junk that can be made again.                  *)
(***************************************************************************)
EXTENDS ErasureCoding

CONSTANTS
    Profiles,       \* Bound: the media, and how much happens to an image of it
    Sectors,        \* image_info.Sectors
    GroupSize,      \* WII_LOGICAL_PER_GROUP, WIIU_LOGICAL_PER_PHYSICAL
    MetaBlocks,     \* Kind and units of the blocks that are not data or tables
    HeaderBudget,   \* MAX_HEADER_CACHE_SIZE, in headers
    BlockBudget     \* MAX_CACHE_SIZE, in sectors

ASSUME ReaderAssumption ==
    /\ None \notin Nat /\ None \notin {"right", "wrong"}
    /\ MaxSize \in Nat
    /\ Sectors \in Nat
    /\ GroupSize \in Nat \ {0}
    /\ HeaderBudget \in Nat /\ BlockBudget \in Nat
    /\ MetaBlocks \in Seq([kind : MetaKinds, span : Nat \ {0}])

VARIABLES
    profile,        \* The profile of this behaviour
    phase,          \* "writing", "closed", "open" or "done"
    table,          \* The decoded deduplication table: an entry for each sector
    reader,         \* The caches and what was loaded at open
    last,           \* The last answer of aaruf_read_sector
    sessions, faults, reads

vars == <<file, writer, damage, profile, phase, table, reader, last, sessions,
          faults, reads>>

(***************************************************************************)
(* Contents.                                                               *)
(***************************************************************************)
Zero == <<"zero">>
Wrong == <<"wrong">>
Junk(s) == <<"junk", s>>
Stored(at, i) == <<"stored", at, i>>
Enc(contents, i) == <<"enc", contents, i>>

IsGame == profile.media \in {"ps3", "wiiu", "wii"}

HasKey(s) == IsGame /\ s \notin profile.plain

(* The table tells how a sector is stored; past its end nothing was dumped. *)
NotDumped == [status |-> "NotDumped", at |-> 0, offset |-> 0]

EntryOf(s) == IF s < Len(table) THEN table[s + 1] ELSE NotDumped

Plain(s) ==
    CASE EntryOf(s).status = "NotDumped" -> Zero
      [] EntryOf(s).status = "Generable" -> Junk(s)
      [] OTHER                           -> Stored(EntryOf(s).at, EntryOf(s).offset)

FirstOf(s) == (s \div GroupSize) * GroupSize

GroupOf(s) == [i \in 1..GroupSize |-> FirstOf(s) + i - 1]

(* What the disc has at a sector. *)
Original(s) ==
    IF ~ HasKey(s) THEN Plain(s)
    ELSE IF profile.media = "ps3" THEN Enc(<<Plain(s)>>, 1)
    ELSE Enc([i \in 1..GroupSize |-> Plain(GroupOf(s)[i])], (s % GroupSize) + 1)

(***************************************************************************)
(* The cache of src/lru.c: oldest first.                                   *)
(***************************************************************************)
IndexIn(cache, key) == SelectInSeq(cache, LAMBDA e : e.key = key)

drop_entry(cache, key) ==
    LET i == IndexIn(cache, key) IN IF i = 0 THEN cache ELSE RemoveAt(cache, i)

find_in_cache(cache, key) ==
    LET i == IndexIn(cache, key) IN
    IF i = 0 THEN cache ELSE Append(drop_entry(cache, key), cache[i])

Bytes(cache) ==
    LET UpTo[n \in 0..Len(cache)] == IF n = 0 THEN 0 ELSE UpTo[n - 1] + cache[n].size
    IN  UpTo[Len(cache)]

(* Mutant: one entry is evicted, however large the new one is. *)
Evicted_one(cache, budget) ==
    IF Bytes(cache) > budget /\ Len(cache) > 1 THEN Tail(cache) ELSE cache

(* The oldest entries go until the rest fits; the newest never does. *)
Evicted(cache, budget) ==
    LET Kept(n) == SubSeq(cache, n, Len(cache))
        fits    == {n \in DOMAIN cache : Bytes(Kept(n)) <= budget \/ n = Len(cache)}
    IN  Kept(Min(fits))

free_cache(cache) == <<>>

add_to_cache(cache, key, value, size, budget) ==
    Evicted(Append(drop_entry(cache, key), [key |-> key, value |-> value, size |-> size]),
            budget)

(***************************************************************************)
(* aaruf_open.                                                             *)
(***************************************************************************)
NoGroupCache == [first |-> -1, contents |-> <<>>, holes |-> FALSE]

(* process_data_block rebuilds a media tag whose CRC64 does not match, and *)
(* does not check what it gets.                                            *)
process_data_block(map) ==
    LET i == Max(PlacesOf(file, "key")) IN
    IF Undamaged(i) THEN "right" ELSE ec_recover_meta_block(map, file[i].at)

(* process_tracks_block does the same. *)
process_tracks_block(map) ==
    LET i == Max(PlacesOf(file, "meta")) IN
    IF Undamaged(i) THEN "right" ELSE ec_recover_meta_block(map, file[i].at)

NewReader ==
    LET map == ec_load_ecmb IN
    [map |-> map, keys |-> process_data_block(map), tracks |-> process_tracks_block(map),
     secondary |-> None, headers |-> <<>>, blocks |-> <<>>, group |-> NoGroupCache,
     verified |-> FALSE]

(* A header with a bad identifier gives way to that of the footer.  The    *)
(* index and the primary table have no other copy that is looked for.      *)
Openable ==
    /\ 1 \in DOMAIN damage =>
          damage[1] = "identifier" /\ file[Len(file)].kind = "footer" /\ Undamaged(Len(file))
    /\ Undamaged(Max(PlacesOf(file, "index")))
    /\ Undamaged(Max(PlacesOf(file, "ddt")))

(***************************************************************************)
(* aaruf_read_sector.  An answer is what the call returns: `ret' is "ok",  *)
(* or why not; `holes' tells a group built while a sector of it failed.    *)
(***************************************************************************)
Answer(r, ret, data, status) ==
    [reader |-> r, ret |-> ret, data |-> data, status |-> status, holes |-> FALSE]

Failed(r, ret) == Answer(r, ret, Zero, "NotDumped")

DamageAt(at) ==
    LET i == PlaceAt(file, at) IN
    IF i \in DOMAIN damage THEN damage[i] ELSE "intact"

HeaderAt(at) ==
    IF DamageAt(at) \in {"identifier", "length"} THEN DamageAt(at) ELSE "good"

(* The sectors of a block as they decompress. *)
BlockAt(at) ==
    LET s == file[PlaceAt(file, at)] IN
    [i \in 1..s.span |-> IF DamageAt(at) = "silent" THEN Wrong ELSE Stored(at, i)]

Rebuilt(at) == [i \in 1..file[PlaceAt(file, at)].span |-> Stored(at, i)]

(* The secondary table: from its cache, from the file, or rebuilt, and what *)
(* was rebuilt is not checked.                                             *)
decode_ddt_entry(r) ==
    LET i == Max(PlacesOf(file, "ddt2")) IN
    IF r.secondary \in {"right", "wrong"} THEN r
    ELSE [r EXCEPT !.secondary = IF Undamaged(i) THEN "right"
                                 ELSE ec_recover_ddt_block(r.map, file[i].at)]

CacheBlock(r, at, b) ==
    [r EXCEPT !.blocks = add_to_cache(@, at, b, Len(b), BlockBudget)]

CacheHeader(r, at, h) ==
    [r EXCEPT !.headers = add_to_cache(@, at, h, 1, HeaderBudget)]

(* Rebuilding a block puts it, and its header, in the caches. *)
ec_try_recovery(r, e) ==
    IF ec_recover_data_block(r.map, e.at) = "right"
    THEN Answer(CacheHeader(CacheBlock(r, e.at, Rebuilt(e.at)), e.at, "good"),
                "recovered", Rebuilt(e.at)[e.offset], e.status)
    ELSE Failed(r, "damaged")

(* The header, cached whatever it looks like. *)
ReadHeader(r, at) ==
    IF IndexIn(r.headers, at) # 0
    THEN [r EXCEPT !.headers = find_in_cache(@, at)]
    ELSE CacheHeader(r, at, HeaderAt(at))

FromCache(r, e) ==
    Answer([r EXCEPT !.blocks = find_in_cache(@, e.at)], "ok",
           r.blocks[IndexIn(r.blocks, e.at)].value[e.offset], e.status)

FromFile(r, e) ==
    Answer(CacheBlock(r, e.at, BlockAt(e.at)), "ok", BlockAt(e.at)[e.offset], e.status)

NeedsRecovery(r, e) ==
    \/ Last(r.headers).value = "identifier"
    \/ /\ IndexIn(r.blocks, e.at) = 0
       /\ Last(r.headers).value = "good"
       /\ DamageAt(e.at) = "payload"

(* The block: the CRC64 of what was read is never computed. *)
ReadBlock(r, e) ==
    IF NeedsRecovery(r, e) THEN ec_try_recovery(r, e)
    ELSE IF IndexIn(r.blocks, e.at) # 0 THEN FromCache(r, e)
    ELSE IF Last(r.headers).value = "length" THEN Failed(r, "short")
    ELSE FromFile(r, e)

(* Junk is made again from the map of seeds, a media tag as the keys are.  *)
ngcw_junk_lazy_init(r) == r.keys = "right"

ngcw_regenerate_junk_sector(r, s) ==
    Answer(r, "ok", IF ngcw_junk_lazy_init(r) THEN Junk(s) ELSE Zero, "Generable")

(* Only a read of a block that is not cached allocates. *)
ReadDumped(r, e, s, oom) ==
    IF oom = s /\ IndexIn(r.blocks, e.at) = 0 THEN Failed(r, "no_memory")
    ELSE ReadBlock(r, e)

ReadEntry(r, e, s, oom) ==
    IF r.secondary = "failed" THEN Failed(r, "damaged")
    ELSE IF r.secondary = "wrong" THEN Answer(r, "ok", Wrong, "Dumped")
    ELSE IF e.status = "NotDumped" THEN Failed(r, "not_dumped")
    ELSE IF e.status = "Generable" THEN ngcw_regenerate_junk_sector(r, s)
    ELSE ReadDumped(ReadHeader(r, e.at), e, s, oom)

(* The bytes as they are stored: the read of a call that builds a group.   *)
ReadStored(r, s, oom) ==
    IF s >= Sectors THEN Failed(r, "bounds")
    ELSE ReadEntry(decode_ddt_entry(r), EntryOf(s), s, oom)

Good == {"ok", "recovered"}

(* The place of a sector that cannot be read is filled with zeros. *)
Slice(a) == IF a.ret \in Good THEN a.data ELSE Zero

AddSlice(g, a) ==
    [reader   |-> a.reader,
     contents |-> Append(g.contents, Slice(a)),
     holes    |-> g.holes \/ a.ret \notin Good \cup {"not_dumped", "bounds"}]

(* All the sectors of the group but the one at hand are read from the      *)
(* start; the calls made meanwhile encrypt nothing.                        *)
BuildGroup(r, s, data, oom) ==
    LET Add(g, t) ==
            IF t = s THEN [g EXCEPT !.contents = Append(@, data)]
            ELSE AddSlice(g, ReadStored(g.reader, t, oom))
        Built[n \in 0..GroupSize] ==
            IF n = 0 THEN [reader |-> r, contents |-> <<>>, holes |-> FALSE]
            ELSE Add(Built[n - 1], GroupOf(s)[n])
    IN  Built[GroupSize]

(* Junk overlays what was stored of a group of a Wii disc. *)
wii_reconstruct_group_junk(r, s, contents) ==
    [i \in 1..GroupSize |->
        IF /\ profile.media = "wii" /\ ngcw_junk_lazy_init(r)
           /\ EntryOf(GroupOf(s)[i]).status = "Generable"
        THEN Junk(GroupOf(s)[i]) ELSE contents[i]]

(* Mutant: any group that was built serves. *)
GroupCached_any(r, s) == r.group.first # -1

GroupCached(r, s) == r.group.first = FirstOf(s)

CacheGroup(g, s) ==
    [g.reader EXCEPT !.group =
        [first    |-> FirstOf(s),
         contents |-> wii_reconstruct_group_junk(g.reader, s, g.contents),
         holes    |-> g.holes]]

FromGroup(r, s) ==
    [Answer(r, "ok", Enc(r.group.contents, (s % GroupSize) + 1), "Dumped")
        EXCEPT !.holes = r.group.holes]

wii_encrypt_group(r, s, data, oom) ==
    FromGroup(IF GroupCached(r, s) THEN r ELSE CacheGroup(BuildGroup(r, s, data, oom), s), s)

(* The tags with the keys and the regions, looked for once. *)
ps3_lazy_init(r) == profile.media = "ps3" /\ r.keys # "failed"

wiiu_lazy_init(r) == profile.media = "wiiu" /\ r.keys # "failed"

wii_lazy_init(r) == profile.media = "wii" /\ r.keys # "failed"

Keyed(r) == ps3_lazy_init(r) \/ wiiu_lazy_init(r) \/ wii_lazy_init(r)

ps3_encrypt_sector(a) == [a EXCEPT !.data = Enc(<<a.data>>, 1), !.status = "Dumped"]

(* What was rebuilt is returned before any of this. *)
Reencrypted(a, s, oom) ==
    IF a.ret # "ok" THEN a
    ELSE IF a.status \notin {"Unencrypted", "Generable"} THEN a
    ELSE IF ~ Keyed(a.reader) \/ ~ HasKey(s) THEN [a EXCEPT !.status = "Dumped"]
    ELSE IF a.reader.keys = "wrong" THEN [a EXCEPT !.status = "Dumped", !.data = Wrong]
    ELSE IF profile.media = "ps3" THEN ps3_encrypt_sector(a)
    ELSE wii_encrypt_group(a.reader, s, a.data, oom)

read_sector(r, s, oom) == Reencrypted(ReadStored(r, s, oom), s, oom)

(* The parity that ec_finalize writes comes too late for the index. *)
Indexed(i) ==
    file[Min({j \in DOMAIN file : j > i /\ file[j].kind \in {"index", "ecmb"}})].kind = "index"

(* Mutant: blocks with the type of user data are passed over. *)
verify_block_typed(i) == file[i].kind \in {"key", "parity"} => damage[i] = "identifier"

(* The CRC64 of the payload; nothing looks at the identifier of a block,   *)
(* and the default of the switch passes over a secondary table.            *)
verify_block(i) ==
    file[i].kind \in {"data", "key", "parity"} => damage[i] = "identifier"

verify_ddt(i) == file[i].kind = "ddt" => Undamaged(i)

verify_tracks(i) == file[i].kind = "meta" => Undamaged(i)

(* aaruf_verify_image walks the index; an image that is open has a primary *)
(* table and an index that are undamaged.                                  *)
verify_image ==
    \A i \in DOMAIN damage : i > 1 /\ file[i].kind \notin {"index", "ecmb", "footer"}
                                /\ Indexed(i) =>
            verify_block(i) /\ verify_ddt(i) /\ verify_tracks(i)

(***************************************************************************)
(* Actions.                                                                *)
(***************************************************************************)
st == [file |-> file, writer |-> writer]

Become(s) == file' = s.file /\ writer' = s.writer

Init ==
    /\ profile \in Profiles
    /\ file = <<Structure("header", 0, 1, None)>>
    /\ writer = NewWriter(1)
    /\ damage = <<>>
    /\ phase = "writing"
    /\ table = <<>>
    /\ reader = None
    /\ last = None
    /\ sessions = 1
    /\ faults = 0
    /\ reads = 0

(* Bound: no more than one sector of a new image is written before. *)
SetErasureCoding ==
    /\ phase = "writing"
    /\ ~ writer.enabled
    /\ Len(table) <= 1 \/ sessions > 1
    /\ writer' = set_erasure_coding(writer)
    /\ UNCHANGED <<file, damage, profile, phase, table, reader, last, sessions, faults,
                   reads>>

(* The next n sectors, in a block of their own; without memory the block   *)
(* is not accumulated.                                                     *)
WriteBlock(n, memory) ==
    /\ phase = "writing"
    /\ Len(table) + n <= Sectors
    /\ memory \/ (faults < profile.faults /\ writer.enabled)
    /\ faults' = IF memory THEN faults ELSE faults + 1
    /\ LET at == writer.next IN
       /\ Become(close_current_block(st, n, at, memory))
       /\ table' = table \o
             [i \in 1..n |->
                 [at |-> at, offset |-> i,
                  status |-> IF HasKey(Len(table) + i - 1) THEN "Unencrypted" ELSE "Dumped"]]
    /\ UNCHANGED <<damage, profile, phase, reader, last, sessions, reads>>

(* Junk is not stored, only its seed is. *)
WriteGenerable ==
    /\ phase = "writing"
    /\ profile.media \in {"wii", "gc"}
    /\ Len(table) < Sectors
    /\ table' = Append(table, [status |-> "Generable", at |-> 0, offset |-> 0])
    /\ UNCHANGED <<file, writer, damage, profile, phase, reader, last, sessions, faults,
                   reads>>

(* The tables, the other blocks of a new image, the index, and ec_finalize. *)
BlocksOfClose ==
    <<[kind |-> "ddt2", span |-> 1], [kind |-> "ddt", span |-> 1]>>
        \o (IF sessions = 1 THEN MetaBlocks ELSE <<>>)
        \o <<[kind |-> "index", span |-> 1]>>

AppendBlocks(f, blocks) ==
    LET Appended[n \in 0..Len(blocks)] ==
            IF n = 0 THEN f
            ELSE AppendBlock(Appended[n - 1], blocks[n].kind, blocks[n].span,
                             <<blocks[n].kind, sessions, n>>)
    IN  Appended[Len(blocks)]

Close ==
    /\ phase = "writing"
    /\ phase' = "closed"
    /\ file' = ec_finalize([file |-> AppendBlocks(file, BlocksOfClose), writer |-> writer])
    /\ writer' = NewWriter(0)
    /\ UNCHANGED <<damage, profile, table, reader, last, sessions, faults, reads>>

(* aaruf_open for writing: the end of the file, and erasure coding off.    *)
(* Bound: no more than half the sectors were written before.               *)
Resume ==
    /\ phase = "closed"
    /\ 2 * Len(table) <= Sectors
    /\ damage = <<>>
    /\ sessions < profile.sessions
    /\ sessions' = sessions + 1
    /\ phase' = "writing"
    /\ writer' = NewWriter(End(file))
    /\ UNCHANGED <<file, damage, profile, table, reader, last, faults, reads>>

(* How a structure can be damaged.  Of a data block: its identifier or the *)
(* size of a sector, its length, its payload where the decompressor finds  *)
(* out and where it does not; of parity: its content or its length.        *)
DamageOf(kind) ==
    CASE kind = "data"   -> {"identifier", "length", "payload", "silent"}
      [] kind = "header" -> {"identifier", "payload"}
      [] kind = "parity" -> {"length", "payload"}
      [] OTHER           -> {"payload"}

Damage(i, d) ==
    /\ phase = "closed"
    /\ Cardinality(DOMAIN damage) < profile.damage
    /\ \A j \in DOMAIN damage : j < i
    /\ d \in DamageOf(file[i].kind)
    /\ damage' = [j \in DOMAIN damage \cup {i} |-> IF j = i THEN d ELSE damage[j]]
    /\ UNCHANGED <<file, writer, profile, phase, table, reader, last, sessions, faults,
                   reads>>

Open ==
    /\ phase = "closed"
    /\ Openable
    /\ phase' = "open"
    /\ reader' = NewReader
    /\ UNCHANGED <<file, writer, damage, profile, table, last, sessions, faults, reads>>

(* oom is the sector whose buffer cannot be allocated in this call. *)
ReadSector(s, oom) ==
    /\ phase = "open"
    /\ reads < profile.reads
    /\ oom # None => faults < profile.faults
    /\ LET a == read_sector(reader, s, oom) IN
       /\ reader' = a.reader
       /\ last' = [sector |-> s, ret |-> a.ret, data |-> a.data, status |-> a.status,
                   holes |-> a.holes, oom |-> oom]
    /\ reads' = reads + 1
    /\ faults' = IF oom = None THEN faults ELSE faults + 1
    /\ UNCHANGED <<file, writer, damage, profile, phase, table, sessions>>

Verify ==
    /\ phase = "open"
    /\ ~ reader.verified
    /\ reader' = [reader EXCEPT !.verified = verify_image]
    /\ UNCHANGED <<file, writer, damage, profile, phase, table, last, sessions, faults,
                   reads>>

(* The end of the context, with all it holds. *)
ec_free(r) == [r EXCEPT !.map = None]

CloseImage ==
    /\ phase = "open"
    /\ phase' = "done"
    /\ reader' = ec_free([reader EXCEPT !.headers = free_cache(@), !.blocks = free_cache(@),
                                        !.group = NoGroupCache])
    /\ last' = None
    /\ UNCHANGED <<file, writer, damage, profile, table, sessions, faults, reads>>

Next ==
    \/ SetErasureCoding
    \/ \E n \in 1..MaxSize, memory \in BOOLEAN : WriteBlock(n, memory)
    \/ WriteGenerable
    \/ Close
    \/ Resume
    \/ \E i \in DOMAIN file : \E d \in DamageOf(file[i].kind) : Damage(i, d)
    \/ Open
    \/ \E s \in 0..Sectors - 1, oom \in {None} \cup (0..Sectors - 1) : ReadSector(s, oom)
    \/ Verify
    \/ CloseImage

Spec == Init /\ [][Next]_vars

(***************************************************************************)
(* Properties.                                                             *)
(***************************************************************************)
Answers == {"ok", "recovered", "not_dumped", "damaged", "short", "no_memory"}

(* Types, with the shape that the code relies on: a slot is flushed before *)
(* it overflows, and without erasure coding nothing is accumulated.        *)
TypeOK ==
    /\ phase \in {"writing", "closed", "open", "done"}
    /\ \A i \in DOMAIN file : file[i].at \in Nat /\ file[i].span \in Nat \ {0}
    /\ writer.next \in Nat
    /\ Len(writer.slot) < K
    /\ ~ writer.enabled => writer.slot = <<>> /\ writer.stripes = <<>>
    /\ DOMAIN damage \subseteq DOMAIN file
    /\ \A i \in DOMAIN damage : damage[i] \in DamageOf(file[i].kind)
    /\ Len(table) <= Sectors
    /\ last # None => last.ret \in Answers

(* The maps describe the file: no structure is ever written over another,  *)
(* each shard of a stripe is where the map says with the content it was    *)
(* fed with, and its parity blocks are the encoding of exactly its shards  *)
(* (ec_flush_data_stripe, and the position that it moves under             *)
(* aaruf_close_current_block).                                             *)
StripeDescribesFile(group, stripe) ==
    /\ Len(stripe.data) <= group.K
    /\ \A k \in DOMAIN stripe.data :
          LET s == file[PlaceAt(file, stripe.data[k].at)] IN
          /\ s.value = stripe.data[k].crc.value
          /\ s.span <= stripe.data[k].size /\ stripe.data[k].size <= group.shard
    /\ \A m \in 1..M :
          LET s == file[PlaceAt(file, stripe.parity[m])] IN
          s.value = Encoded(stripe) /\ s.span = Largest(stripe.data)

MapsDescribeFile ==
    phase \in {"writing", "closed"} =>
    /\ \A i \in DOMAIN file : Whole(file, i)
    /\ \A i \in DOMAIN file : file[i].kind = "ecmb" =>
          \A group \in Range(file[i].value) : \A stripe \in Range(group.stripes) :
              StripeDescribesFile(group, stripe)

(* What an answer is right about: bytes of the disc, or, when the status   *)
(* says so, the bytes before they were encrypted.                          *)
Right(a) ==
    a.data = IF a.status = "Unencrypted" THEN Plain(a.sector) ELSE Original(a.sector)

(* A group with nothing silently wrong in the blocks of its sectors. *)
SilentIn(s) ==
    \E t \in Range(GroupOf(s)) : EntryOf(t).at # 0 /\ DamageAt(EntryOf(t).at) = "silent"

Trusted == reader.keys = "right" /\ reader.secondary = "right"

(* A sector is answered right or not at all, whatever else of the image is *)
(* damaged, with the exceptions the code has: damage that a decompressor   *)
(* does not notice, keys or a table that were lost or rebuilt wrong, and a *)
(* group of a game disc built while one of its sectors could not be read,  *)
(* which stays in its cache (aaruf_read_sector, ec_recover_data_block).    *)
AnswersRight ==
    /\ last # None /\ last.ret \in Good
    /\ Trusted /\ ~ last.holes /\ ~ SilentIn(last.sector)
    => Right(last)

(* An image that aaruf_verify_image passes answers right even where damage *)
(* is silent: what it does not look at, the identifiers of blocks and the  *)
(* secondary tables, is what reading checks.                               *)
VerifiedAnswersRight ==
    /\ reader # None /\ reader.verified
    /\ last # None /\ last.ret \in Good
    /\ reader.secondary = "right" /\ reader.keys = "right" /\ ~ last.holes
    => Right(last)

(* Erasure coding keeps its promise for data: with no more than M shards   *)
(* of a stripe lost and the rest of its parity undamaged, a sector of the  *)
(* stripe is answered, if its damage is one that leads to recovery.        *)
Promised(at) ==
    /\ reader.map # None
    /\ DamageAt(at) \in {"intact", "identifier", "payload"}
    /\ LET stripe == StripeOf(reader.map["data"], at) IN
       /\ stripe # None
       /\ \A m \in 1..M : Undamaged(PlaceAt(file, stripe.parity[m]))
       /\ Cardinality({k \in DOMAIN stripe.data :
                          ~ Undamaged(PlaceAt(file, stripe.data[k].at))}) <= M

WithinParityAnswered ==
    /\ last # None /\ last.oom = None
    /\ reader.secondary = "right"
    /\ EntryOf(last.sector).at # 0
    /\ Promised(EntryOf(last.sector).at)
    => last.ret \in Good

(* The caches hold what they say: one entry for a key, the sectors that    *)
(* the disc has unless damage is silent, no more than the budget or else a *)
(* single block (add_to_cache_uint64).                                     *)
CacheWithin(cache, budget) ==
    /\ Bytes(cache) <= budget \/ Len(cache) = 1
    /\ \A i, j \in DOMAIN cache : cache[i].key = cache[j].key => i = j

CachesSound ==
    reader # None =>
        /\ CacheWithin(reader.headers, HeaderBudget)
        /\ CacheWithin(reader.blocks, BlockBudget)
        /\ \A e \in Range(reader.blocks) :
              e.value = Rebuilt(e.key) \/ DamageAt(e.key) = "silent"

(* docs/spec/blocks/erasure_coding.adoc promises the media tags too: with  *)
(* one damaged block in the stripe of the metadata, no more than its       *)
(* parity covers, the block is rebuilt (ec_recover_meta_block).            *)
MetadataRecovered ==
    /\ phase = "open" /\ reader.map # None
    /\ Cardinality(DOMAIN damage) <= M
    => reader.keys = "right" /\ reader.tracks = "right"
=============================================================================
