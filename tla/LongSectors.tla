---------------------------- MODULE LongSectors ----------------------------
(***************************************************************************)
(* Long sectors: aaruf_write_sector_long (src/write.c), which splits a raw *)
(* sector into the user data and what surrounds it, the writers of what    *)
(* was split off at close (src/close_write.c), aaruf_read_sector_long,     *)
(* which puts it together again (src/read.c), and the repair of images of  *)
(* which a resumed session lost slots (tool/repair_cd_arena.c).            *)
(*                                                                         *)
(* A raw sector of a Compact Disc has a prefix, a subheader, user data and *)
(* a suffix.  A prefix or a suffix that can be made again is only noted in *)
(* a table with an entry for each sector; any other is kept in a slot of   *)
(* an arena, which the entry points at.  Sectors of other media carry tags *)
(* of a fixed size, kept in arrays with a place for each sector.           *)
(***************************************************************************)
EXTENDS Integers, SequencesExt, LisaTag

CONSTANTS
    Media,          \* Bound: the media, and how much happens to an image of it
    Sectors,        \* total_sectors; sectors are counted from 0
    None            \* NULL, or nothing

VARIABLES
    media,          \* The media of this behaviour
    ctx,            \* The arenas, their tables, the subheaders, tags and user data
    dirty,          \* The dirty_* flags that are set
    file,           \* The blocks written for them, in the order of writing
    index,          \* The place of the block of each kind that the index names
    phase,          \* "writing" or "closed"
    expected,       \* What a read of each sector must return, Whatever if it may be anything
    session,        \* The sectors written in this session
    restarted,      \* A session of the library before its repair wrote this image
    writes, sessions, faults, repairs

vars == <<media, ctx, dirty, file, index, phase, expected, session, restarted,
          writes, sessions, faults, repairs>>

All == 0..Sectors - 1

IsCd == media.arrays = {}

Parts == {"prefix", "suffix"}

Kinds == {"user", "sub", "prefix", "prefix_ddt", "suffix", "suffix_ddt", "tags"}

DdtOf(part) == IF part = "prefix" THEN "prefix_ddt" ELSE "suffix_ddt"

(***************************************************************************)
(* Raw sectors.  The prefix of a sector can be "mode1" or "mode2" with its *)
(* address, the subheader says form 1 or 2, and the suffix can be the EDC  *)
(* and ECC of a mode and form ("mode1", "form1", "form2") or zeros.        *)
(***************************************************************************)
Empty == [prefix |-> "zero", sub |-> "zero", user |-> "zero", suffix |-> "zero"]

(* No part of a sector is the mark of one that cannot be read. *)
Lost == "lost"

RawSectors == [prefix : STRING \ {Lost}, sub : STRING, user : STRING, suffix : STRING \ {Lost}]

Unwritten == [is |-> "unwritten"]
Whatever == [is |-> "whatever"]
Unreadable == [is |-> "unreadable"]

Types == {"mode1", "mode2", "audio", "data"}

(* A sector outside every track has the format of the track before it, or  *)
(* of the first.                                                           *)
Containing(tracks, s) == {i \in DOMAIN tracks : s \in tracks[i].first..tracks[i].last}

Before(tracks, s) == {i \in DOMAIN tracks : tracks[i].last < s}

Latest(tracks, is) == CHOOSE i \in is : \A j \in is : tracks[j].last <= tracks[i].last

Earliest(tracks) ==
    CHOOSE i \in DOMAIN tracks : \A j \in DOMAIN tracks : tracks[i].first <= tracks[j].first

find_cd_track_for_sector(tracks, s) ==
    IF tracks = <<>> THEN "data"
    ELSE IF Containing(tracks, s) # {} THEN tracks[Min(Containing(tracks, s))].type
    ELSE IF Before(tracks, s) # {} THEN tracks[Latest(tracks, Before(tracks, s))].type
    ELSE tracks[Earliest(tracks)].type

TypeOfSector(s) == find_cd_track_for_sector(media.tracks, s)

(***************************************************************************)
(* The media.                                                              *)
(***************************************************************************)
LisaBytes == SonyBytes \cup ProfileBytes \cup PriamBytes

(* What a tag of the drive can be, in its format. *)
DriveBytes(drive) ==
    CASE drive = "sony"    -> SonyBytes
      [] drive = "profile" -> ProfileBytes
      [] drive = "priam"   -> PriamBytes
      [] drive = "widget"  -> {<<>>}

PlainBytes == Seq(STRING) \ {<<>>}

DiscMedium(m) ==
    /\ m.tracks \in Seq([type : Types, first : Nat, last : Nat])
    /\ m.raw \subseteq RawSectors

(* A long sector comes with a tag for each array.  A tag of a Lisa has the *)
(* length of one of the formats; no block of these media is lost, and they *)
(* have no arena that a session could restart.                             *)
AppleMedium(m) ==
    /\ m.arrays = {"tag"} /\ m.losable = {} /\ m.old = FALSE
    /\ m.drive \in {"sony", "profile", "priam", "widget"}
    /\ m.tag \in DriveBytes(m.drive)
    /\ m.raw \subseteq [tags : [{"tag"} -> LisaBytes \cup {<<>>}], user : [data : STRING]]

TaggedMedium(m) ==
    /\ m.losable = {} /\ m.old = FALSE
    /\ m.tag \in PlainBytes
    /\ m.raw \subseteq [tags : [m.arrays -> PlainBytes], user : [data : STRING]]

TagBytes == LisaBytes \cup PlainBytes

(***************************************************************************)
(* Entries of the tables and slots of the arenas.                          *)
(***************************************************************************)
Statuses ==
    {"NotDumped", "Errored", "Mode1Correct", "Mode2Form1Ok", "Mode2Form2Ok", "Mode2Form2NoCrc"}

EntryType == [status : Statuses, index : Nat]

(* Literals are strings, which has to be said for the proofs. *)
ASSUME LiteralAssumption == {"zero", Nil, "w"} \subseteq STRING

ASSUME MediaAssumption ==
    /\ Sectors \in Nat
    /\ None \notin STRING /\ None \notin [All -> STRING] /\ None \notin [All -> EntryType]
    /\ None \notin [All -> TagBytes] /\ None \notin Seq(STRING)
    /\ \A m \in Media :
          IF m.arrays = {} THEN DiscMedium(m)
          ELSE IF m.name = "apple" THEN AppleMedium(m) ELSE TaggedMedium(m)

Entry(status, i) == [status |-> status, index |-> i]
NotDumped == Entry("NotDumped", 0)
NoDdt == [s \in All |-> NotDumped]

NoArena == [slots |-> <<>>, room |-> 0]

(* Mutant: an arena that was made never grows. *)
grow_arena_once(arena) == [arena EXCEPT !.room = IF @ = 0 THEN Sectors ELSE @]

(* An arena that is full grows to twice its size, or to what is needed. *)
grow_arena(arena) ==
    [arena EXCEPT !.room = IF Len(arena.slots) < @ THEN @
                           ELSE Max({2 * @, Len(arena.slots) + 1, Sectors})]

Grows(arena) == Len(arena.slots) >= arena.room

Stored(arena, value) ==
    [grow_arena(arena) EXCEPT !.slots = Append(@, value)]

(* The prefix must be the one of this address and of the mode.             *)
PrefixCorrect(type, raw) == raw.prefix = type

IsForm2(raw) == raw.sub = "form2"

PrefixStatus(type, raw) ==
    IF type = "mode1" THEN "Mode1Correct"
    ELSE IF IsForm2(raw) THEN "Mode2Form2Ok" ELSE "Mode2Form1Ok"

(* "Errored" when the suffix has to be kept. *)
SuffixStatus(type, raw) ==
    CASE type = "mode1"                      ->
            IF raw.suffix = "mode1" THEN "Mode1Correct" ELSE "Errored"
      [] type = "mode2" /\ IsForm2(raw)      ->
            IF raw.suffix = "form2" THEN "Mode2Form2Ok"
            ELSE IF raw.suffix = "zero" THEN "Mode2Form2NoCrc" ELSE "Errored"
      [] OTHER                               ->
            IF raw.suffix = "form1" THEN "Mode2Form1Ok" ELSE "Errored"

(* The user data: with the subheader in mode 1, where it is part of it. *)
UserOf(type, raw) ==
    IF type = "mode1" THEN [sub |-> raw.sub, user |-> raw.user] ELSE [user |-> raw.user]

(***************************************************************************)
(* aaruf_write_sector_long.  An operator takes and returns a context.      *)
(***************************************************************************)
NewContext ==
    [ddt   |-> [p \in Parts |-> None],
     arena |-> [p \in Parts |-> NoArena],
     sub   |-> None,
     tags  |-> [a \in media.arrays |-> None],
     user  |-> [s \in All |-> Unwritten]]

(* The tables and arenas, made when the first sector with a mode comes. *)
Made(c) ==
    [c EXCEPT !.ddt   = [p \in Parts |-> IF c.ddt[p] = None THEN NoDdt ELSE c.ddt[p]],
              !.arena = [p \in Parts |->
                            IF c.arena[p].room = 0 THEN [slots |-> <<>>, room |-> Sectors]
                            ELSE c.arena[p]]]

(* Memory ran out after the tables, or the table of the prefixes alone.    *)
MadeNoMemory(c, parts) ==
    [c EXCEPT !.ddt = [p \in Parts |->
                          IF c.ddt[p] = None /\ p \in parts THEN NoDdt ELSE c.ddt[p]]]

SetEntry(c, p, s, e) == [c EXCEPT !.ddt[p][s] = e]

(* A slot is added, whatever the sector had. *)
Keep(c, p, s, value) ==
    SetEntry([c EXCEPT !.arena[p] = Stored(@, value)], p, s,
             Entry("Errored", Len(c.arena[p].slots)))

SplitEmpty(c, s) == SetEntry(SetEntry(c, "prefix", s, NotDumped), "suffix", s, NotDumped)

SplitPrefix(c, s, type, raw) ==
    IF PrefixCorrect(type, raw)
    THEN SetEntry(c, "prefix", s, Entry(PrefixStatus(type, raw), 0))
    ELSE Keep(c, "prefix", s, raw.prefix)

SplitSuffix(c, s, type, raw) ==
    IF SuffixStatus(type, raw) # "Errored"
    THEN SetEntry(c, "suffix", s, Entry(SuffixStatus(type, raw), 0))
    ELSE Keep(c, "suffix", s, raw.suffix)

NoSubheaders == [s \in All |-> "zero"]

MakeSubheaders(c) == [c EXCEPT !.sub = IF @ = None THEN NoSubheaders ELSE @]

PutSubheader(c, s, raw) == [MakeSubheaders(c) EXCEPT !.sub[s] = raw.sub]

SplitMode1(c, s, raw) ==
    IF raw = Empty THEN SplitEmpty(c, s)
    ELSE SplitSuffix(SplitPrefix(c, s, "mode1", raw), s, "mode1", raw)

SplitMode2(c, s, raw) ==
    IF raw = Empty THEN SplitEmpty(c, s)
    ELSE SplitSuffix(PutSubheader(SplitPrefix(c, s, "mode2", raw), s, raw), s, "mode2", raw)

SplitMode(c, s, type, raw) ==
    IF type = "mode1" THEN SplitMode1(Made(c), s, raw) ELSE SplitMode2(Made(c), s, raw)

(* aaruf_write_sector, of which only the sector at hand is followed.       *)
PutUser(c, s, value) == [c EXCEPT !.user[s] = value]

write_sector_cd(c, s, raw) ==
    IF TypeOfSector(s) \in {"audio", "data"} THEN PutUser(c, s, raw)
    ELSE PutUser(SplitMode(c, s, TypeOfSector(s), raw), s,
                 IF raw = Empty THEN Unwritten ELSE UserOf(TypeOfSector(s), raw))

(* What a call that fails leaves: how far it came. *)
SplitUpTo(c, s, type, raw, stage) ==
    CASE stage = "tables" -> MadeNoMemory(c, {})
      [] stage = "table"  -> MadeNoMemory(c, {"prefix"})
      [] stage = "arenas" -> MadeNoMemory(c, Parts)
      [] stage = "prefix" -> Made(c)
      [] stage = "sub"    -> SplitPrefix(Made(c), s, type, raw)
      [] stage = "suffix" -> IF type = "mode1" THEN SplitPrefix(Made(c), s, type, raw)
                             ELSE MakeSubheaders(SplitPrefix(Made(c), s, type, raw))
      [] stage = "store"  -> SplitMode(c, s, type, raw)

MayFail(c, type, raw, stage) ==
    CASE stage = "tables" -> c.ddt["prefix"] = None
      [] stage = "table"  -> c.ddt["suffix"] = None
      [] stage = "arenas" -> \E p \in Parts : c.arena[p].room = 0
      [] stage = "prefix" -> ~ PrefixCorrect(type, raw) /\ Grows(Made(c).arena["prefix"])
      [] stage = "sub"    -> type = "mode2" /\ c.sub = None
      [] stage = "suffix" -> /\ SuffixStatus(type, raw) = "Errored"
                             /\ Grows(Made(c).arena["suffix"])
      [] stage = "store"  -> TRUE

Stages == {"tables", "table", "arenas", "prefix", "sub", "suffix", "store"}

(* The flags that a sector with a mode sets. *)
DirtyOf(type, raw) ==
    {"prefix_ddt", "suffix_ddt"}
    \cup (IF raw # Empty /\ ~ PrefixCorrect(type, raw) THEN {"prefix"} ELSE {})
    \cup (IF raw # Empty /\ SuffixStatus(type, raw) = "Errored" THEN {"suffix"} ELSE {})
    \cup (IF raw # Empty /\ type = "mode2" THEN {"sub"} ELSE {})

(***************************************************************************)
(* Sectors of other media: the arrays of their tags.                       *)
(***************************************************************************)
(* The bytes of a tag that was never written, in any format. *)
Zeros == <<"zero">>

NoTags == [s \in All |-> Zeros]

(* A place of an array, which is made when it is first needed. *)
PutTag(c, a, s, value) ==
    [c EXCEPT !.tags[a] = [IF @ = None THEN NoTags ELSE @ EXCEPT ![s] = value]]

write_sector_dvd(c, s, raw) ==
    PutUser([c EXCEPT !.tags = [a \in media.arrays |->
                [IF @[a] = None THEN NoTags ELSE @[a] EXCEPT ![s] = raw.tags[a]]]],
            s, raw.user)

(* The tag of an Apple drive, in the format of the drive of the image.  No *)
(* tag, or a drive without a format, leaves the array alone.               *)
KeepsTag(raw) == NewTag(media.drive, raw.tags["tag"]) # <<>>

write_sector_apple(c, s, raw) ==
    PutUser(IF KeepsTag(raw) THEN PutTag(c, "tag", s, NewTag(media.drive, raw.tags["tag"]))
            ELSE c,
            s, raw.user)

(***************************************************************************)
(* aaruf_read_sector_long.                                                 *)
(***************************************************************************)
SlotOf(c, p, s) ==
    IF c.ddt[p][s].index + 1 > Len(c.arena[p].slots) THEN Lost
    ELSE c.arena[p].slots[c.ddt[p][s].index + 1]

(* Without its table an arena is taken for one of an old image, which has  *)
(* a place for each sector.                                                *)
PlaceOf(c, p, s) ==
    IF c.arena[p].room = 0 \/ s + 1 > Len(c.arena[p].slots) THEN Lost
    ELSE c.arena[p].slots[s + 1]

(* What a status stands for; a slot when it stands for nothing here.       *)
PartOf(c, p, s, correct) ==
    IF c.ddt[p] = None THEN PlaceOf(c, p, s)
    ELSE IF c.ddt[p][s].status = "NotDumped" THEN None
    ELSE IF c.ddt[p][s].status \in DOMAIN correct THEN correct[c.ddt[p][s].status]
    ELSE SlotOf(c, p, s)

ReadPrefixMode1(c, s) == PartOf(c, "prefix", s, [Mode1Correct |-> "mode1"])

ReadSuffixMode1(c, s) == PartOf(c, "suffix", s, [Mode1Correct |-> "mode1"])

ReadPrefixMode2(c, s) ==
    PartOf(c, "prefix", s, [Mode2Form1Ok |-> "mode2", Mode2Form2Ok |-> "mode2"])

ReadSuffixMode2(c, s) ==
    PartOf(c, "suffix", s, [Mode2Form1Ok |-> "form1", Mode2Form2Ok |-> "form2",
                            Mode2Form2NoCrc |-> "zero"])

(* The prefix is looked at first. *)
Joined(prefix, sub, user, suffix) ==
    IF prefix = Lost \/ (prefix # None /\ suffix = Lost) THEN Unreadable
    ELSE IF None \in {prefix, suffix} THEN Unwritten
    ELSE [prefix |-> prefix, sub |-> sub, user |-> user, suffix |-> suffix]

read_sector_mode1(c, s) ==
    Joined(ReadPrefixMode1(c, s), c.user[s].sub, c.user[s].user, ReadSuffixMode1(c, s))

(* Without subheaders what is stored is put after the prefix.              *)
Unsplit(prefix, user) ==
    IF prefix = Lost THEN Unreadable
    ELSE IF prefix = None THEN Unwritten ELSE [prefix |-> prefix, at16 |-> user]

read_sector_mode2(c, s) ==
    IF c.sub = None THEN Unsplit(ReadPrefixMode2(c, s), c.user[s])
    ELSE Joined(ReadPrefixMode2(c, s), c.sub[s], c.user[s].user, ReadSuffixMode2(c, s))

(* Without tables, or arenas, the sector is returned as it is stored.      *)
Plain(c) ==
    /\ \E p \in Parts : c.arena[p].room = 0
    /\ \E p \in Parts : c.ddt[p] = None

read_sector_cd(c, s) ==
    IF c.user[s] = Unwritten \/ TypeOfSector(s) \in {"audio", "data"} \/ Plain(c)
    THEN c.user[s]
    ELSE IF TypeOfSector(s) = "mode1" THEN read_sector_mode1(c, s)
    ELSE read_sector_mode2(c, s)

TagsOf(c, s) == [a \in media.arrays |-> c.tags[a][s]]

(* Every array that makes up a long sector must be there. *)
Joinable(c) == \A a \in media.arrays : c.tags[a] # None

read_sector_dvd(c, s) ==
    IF c.user[s] = Unwritten \/ ~ Joinable(c) THEN c.user[s]
    ELSE [tags |-> TagsOf(c, s), user |-> c.user[s]]

read_sector_apple(c, s) ==
    IF c.user[s] = Unwritten \/ c.tags["tag"] = None THEN c.user[s]
    ELSE [tags |-> TagsOf(c, s), user |-> c.user[s]]

(* aaruf_read_sector_tag, which reads no user data. *)
NotPresent == <<>>

read_sector_tag(c, a, s) == IF c.tags[a] = None THEN NotPresent ELSE c.tags[a][s]

read_sector_long(c, s) ==
    IF media.arrays = {} THEN read_sector_cd(c, s)
    ELSE IF media.name = "apple" THEN read_sector_apple(c, s) ELSE read_sector_dvd(c, s)

(***************************************************************************)
(* At close: a block for everything that is dirty, at the end of the file. *)
(***************************************************************************)
ValueOf(c, kind) ==
    CASE kind = "user" -> c.user
      [] kind = "sub"  -> c.sub
      [] kind = "tags" -> c.tags
      [] kind \in Parts -> c.arena[kind].slots
      [] kind = "prefix_ddt" -> c.ddt["prefix"]
      [] kind = "suffix_ddt" -> c.ddt["suffix"]

(* An arena without slots makes a block without payload, which is not      *)
(* taken for written.                                                      *)
Writable(c, kind) == ValueOf(c, kind) \notin {None, <<>>}

AppendBlock(x, kind, value) ==
    [file  |-> Append(x.file, [kind |-> kind, value |-> value]),
     index |-> [x.index EXCEPT ![kind] = Len(x.file) + 1]]

write_mode2_subheaders_block(x, c) ==
    IF Writable(c, "sub") THEN AppendBlock(x, "sub", c.sub) ELSE x

write_sector_prefix(x, c) ==
    IF Writable(c, "prefix") THEN AppendBlock(x, "prefix", c.arena["prefix"].slots) ELSE x

write_sector_prefix_ddt(x, c) ==
    IF Writable(c, "prefix_ddt") THEN AppendBlock(x, "prefix_ddt", c.ddt["prefix"]) ELSE x

write_sector_suffix(x, c) ==
    IF Writable(c, "suffix") THEN AppendBlock(x, "suffix", c.arena["suffix"].slots) ELSE x

write_sector_suffix_ddt(x, c) ==
    IF Writable(c, "suffix_ddt") THEN AppendBlock(x, "suffix_ddt", c.ddt["suffix"]) ELSE x

(* One block for Apple drives, and one for each array of other media, or   *)
(* none when an array is missing.                                          *)
write_sector_subchannel(x, c) ==
    IF c.tags["tag"] = None \/ media.drive = "widget" THEN x
    ELSE AppendBlock(x, "tags", c.tags)

write_long_sector_blocks(x, c) ==
    IF Joinable(c) THEN AppendBlock(x, "tags", c.tags) ELSE x

write_tags(x, c) ==
    IF IsCd THEN x
    ELSE IF media.name = "apple" THEN write_sector_subchannel(x, c)
    ELSE write_long_sector_blocks(x, c)

write_user_data(x, c) == AppendBlock(x, "user", c.user)

WriteKind(x, c, kind) ==
    CASE kind = "sub"        -> write_mode2_subheaders_block(x, c)
      [] kind = "prefix"     -> write_sector_prefix(x, c)
      [] kind = "prefix_ddt" -> write_sector_prefix_ddt(x, c)
      [] kind = "suffix"     -> write_sector_suffix(x, c)
      [] kind = "suffix_ddt" -> write_sector_suffix_ddt(x, c)
      [] kind = "tags"       -> write_tags(x, c)
      [] kind = "user"       -> write_user_data(x, c)

WriteIf(x, c, kinds, kind) == IF kind \in kinds THEN WriteKind(x, c, kind) ELSE x

(* What is dirty is written, in this order, but what fails. *)
finalize(x, c, kinds) ==
    LET user     == WriteIf(x, c, kinds, "user")
        sub      == WriteIf(user, c, kinds, "sub")
        prefixes == WriteIf(WriteIf(sub, c, kinds, "prefix"), c, kinds, "prefix_ddt")
        suffixes == WriteIf(WriteIf(prefixes, c, kinds, "suffix"), c, kinds, "suffix_ddt")
    IN  WriteIf(suffixes, c, kinds, "tags")

(***************************************************************************)
(* aaruf_open for writing.                                                 *)
(***************************************************************************)
At(kind, missing) == IF index[kind] = 0 THEN missing ELSE file[index[kind]].value

(* As it was before the library was repaired: the slots of a resumed       *)
(* session begin at the start again.                                       *)
RestartedArena(p) == [slots |-> <<>>, room |-> Len(At(p, <<>>))]

(* New slots come after those that were loaded. *)
LoadedArena(p) == [slots |-> At(p, <<>>), room |-> Len(At(p, <<>>))]

Loaded(arenas) ==
    [ddt   |-> [p \in Parts |-> At(DdtOf(p), None)],
     arena |-> arenas,
     sub   |-> At("sub", None),
     tags  |-> At("tags", [a \in media.arrays |-> None]),
     user  |-> At("user", [s \in All |-> Unwritten])]

(***************************************************************************)
(* repair_cd_arena.                                                        *)
(***************************************************************************)
PlacesOf(kind) == {i \in DOMAIN file : file[i].kind = kind}

(* A block without payload is not taken for an arena. *)
ArenasOf(p) == {i \in PlacesOf(p) : file[i].value # <<>>}

ArenasBefore(p, i) == {j \in ArenasOf(p) : j < i}

(* A generation is a table and the last arena before it in the file.       *)
scan_generations(p) == {i \in PlacesOf(DdtOf(p)) : ArenasBefore(p, i) # {}}

SlotsOf(p, i) == file[Max(ArenasBefore(p, i))].value

is_custom(e) == e.status = "Errored"

Holds(p, i, s, e) == file[i].value[s] = e /\ e.index < Len(SlotsOf(p, i))

(* Mutant: the last arena is asked first, whatever its table says. *)
find_slot_last(p, s, e) ==
    LET slots == SlotsOf(p, Max(scan_generations(p)))
    IN  IF e.index < Len(slots) THEN slots[e.index + 1] ELSE None

(* The first generation whose table has this very entry for the sector.    *)
find_slot(p, s, e) ==
    LET found == {i \in scan_generations(p) : Holds(p, i, s, e)}
    IN  IF found = {} THEN None ELSE SlotsOf(p, Min(found))[e.index + 1]

(* What has a slot is numbered anew; what has none becomes a gap. *)
RebuiltSector(r, p, s, e) ==
    IF ~ is_custom(e) THEN r
    ELSE IF find_slot(p, s, e) = None THEN [r EXCEPT !.ddt[s] = NotDumped]
    ELSE [slots |-> Append(r.slots, find_slot(p, s, e)),
          ddt   |-> [r.ddt EXCEPT ![s] = Entry("Errored", Len(r.slots))]]

rebuild_arena(p, final) ==
    LET Rebuilt[n \in 0..Sectors] ==
            IF n = 0 THEN [slots |-> <<>>, ddt |-> final]
            ELSE RebuiltSector(Rebuilt[n - 1], p, n - 1, final[n - 1])
    IN  Rebuilt[Sectors]

(* An entry of the index is moved, and none is added. *)
Moved(x, kind, value) ==
    IF x.index[kind] # 0 THEN AppendBlock(x, kind, value)
    ELSE [AppendBlock(x, kind, value) EXCEPT !.index = x.index]

append_rebuilt(x, p, r) == Moved(Moved(x, p, r.slots), DdtOf(p), r.ddt)

(* A table without a generation is left as it is. *)
RepairPart(x, p) ==
    IF index[DdtOf(p)] \notin scan_generations(p) THEN x
    ELSE append_rebuilt(x, p, rebuild_arena(p, file[index[DdtOf(p)]].value))

repair_cd_arena == RepairPart(RepairPart([file |-> file, index |-> index], "prefix"), "suffix")

(***************************************************************************)
(* Actions.                                                                *)
(***************************************************************************)
Nothing == [tags |-> [a \in media.arrays |-> Zeros], user |-> Unwritten]

Init ==
    /\ media \in Media
    /\ ctx = NewContext
    /\ dirty = Kinds
    /\ file = <<>>
    /\ index = [kind \in Kinds |-> 0]
    /\ phase = "writing"
    /\ expected = [s \in All |-> IF IsCd THEN Unwritten ELSE Nothing]
    /\ session = {}
    /\ restarted = FALSE
    /\ writes = 0
    /\ sessions = 1
    /\ faults = 0
    /\ repairs = 0

(* A table of the file, of today or of an earlier session, gives the       *)
(* sector a slot.                                                          *)
HadSlot(s) ==
    \E p \in Parts : \E i \in PlacesOf(DdtOf(p)) : is_custom(file[i].value[s])

(* What a read must return from now on.  A session that restarts an arena  *)
(* can reuse the very entry that an earlier one gave the sector.           *)
Expect(s, value) ==
    /\ expected' = [expected EXCEPT ![s] = IF restarted /\ HadSlot(s) THEN Whatever ELSE value]
    /\ session' = session \cup {s}

Writing(s) ==
    /\ phase = "writing"
    /\ writes < media.writes
    /\ writes' = writes + 1
    /\ UNCHANGED <<media, file, index, phase, restarted, sessions, repairs>>

WriteSectorLong(s, raw) ==
    /\ IsCd
    /\ Writing(s)
    /\ ctx' = write_sector_cd(ctx, s, raw)
    /\ dirty' = dirty \cup {"user"} \cup
                  (IF TypeOfSector(s) \in {"audio", "data"} THEN {}
                   ELSE DirtyOf(TypeOfSector(s), raw))
    /\ Expect(s, IF raw = Empty /\ TypeOfSector(s) \notin {"audio", "data"} THEN Unwritten
                 ELSE raw)
    /\ UNCHANGED faults

(* The flags are set as the call goes, and none that matters is missed: a  *)
(* sector that failed may read as anything.                                *)
WriteSectorLongFails(s, raw, stage) ==
    /\ IsCd
    /\ TypeOfSector(s) \in {"mode1", "mode2"}
    /\ raw # Empty
    /\ MayFail(ctx, TypeOfSector(s), raw, stage)
    /\ faults < media.faults
    /\ faults' = faults + 1
    /\ Writing(s)
    /\ ctx' = SplitUpTo(ctx, s, TypeOfSector(s), raw, stage)
    /\ dirty' = IF stage \in {"sub", "suffix", "store"}
                THEN dirty \cup (DirtyOf(TypeOfSector(s), raw) \ {"suffix", "sub"})
                     \cup (IF stage = "store" THEN DirtyOf(TypeOfSector(s), raw) ELSE {})
                ELSE dirty
    /\ expected' = [expected EXCEPT ![s] = Whatever]
    /\ session' = session \cup {s}

(* A long sector of a DVD or of a Blu-ray marks nothing as to be written;  *)
(* that of an Apple drive does.                                            *)
WriteSectorTagged(s, raw) ==
    /\ ~ IsCd
    /\ Writing(s)
    /\ ctx' = IF media.name = "apple" THEN write_sector_apple(ctx, s, raw)
              ELSE write_sector_dvd(ctx, s, raw)
    /\ dirty' = dirty \cup {"user"} \cup
                  (IF media.name = "apple" /\ KeepsTag(raw) THEN {"tags"} ELSE {})
    /\ Expect(s, IF media.name = "apple" /\ ~ KeepsTag(raw)
                 THEN [raw EXCEPT !.tags = expected[s].tags] ELSE raw)
    /\ UNCHANGED faults

(* aaruf_write_sector_tag, with a tag of the drive, and aaruf_write_sector. *)
WriteTag(a, s, value) ==
    /\ ~ IsCd
    /\ media.drive # "widget"
    /\ Writing(s)
    /\ ctx' = PutTag(ctx, a, s, value)
    /\ dirty' = dirty \cup {"tags"}
    /\ expected' = [expected EXCEPT ![s].tags[a] = value]
    /\ UNCHANGED <<session, faults>>

WriteSector(s, value) ==
    /\ ~ IsCd
    /\ Writing(s)
    /\ ctx' = PutUser(ctx, s, value)
    /\ dirty' = dirty \cup {"user"}
    /\ expected' = [expected EXCEPT ![s].user = value]
    /\ UNCHANGED <<session, faults>>

(* aaruf_close.  A block that cannot be written is passed over, and the    *)
(* call succeeds (media.losable names the blocks for which it happens).    *)
Close(lost) ==
    /\ phase = "writing"
    /\ lost = {} \/ (faults < media.faults /\ lost \subseteq media.losable \cap dirty)
    /\ faults' = faults + Cardinality(lost)
    /\ phase' = "closed"
    /\ LET x == finalize([file |-> file, index |-> index], ctx, dirty \ lost) IN
       /\ file' = x.file
       /\ index' = x.index
    /\ expected' = [s \in All |-> IF lost # {} /\ s \in session THEN Whatever ELSE expected[s]]
    /\ session' = {}
    /\ dirty' = {}
    /\ ctx' = NewContext
    /\ UNCHANGED <<media, restarted, writes, sessions, repairs>>

Reopen(arenas) ==
    /\ phase = "closed"
    /\ sessions < media.sessions
    /\ sessions' = sessions + 1
    /\ phase' = "writing"
    /\ ctx' = Loaded(arenas)
    /\ UNCHANGED <<media, dirty, file, index, expected, session, writes, faults, repairs>>

Resume ==
    /\ Reopen([p \in Parts |-> LoadedArena(p)])
    /\ UNCHANGED restarted

(* By the library as it was. *)
ResumeRestarting ==
    /\ media.old
    /\ ~ restarted
    /\ repairs = 0
    /\ Reopen([p \in Parts |-> RestartedArena(p)])
    /\ restarted' = TRUE

(* A second repair can take a slot from before the first, which numbered   *)
(* the entries anew.                                                       *)
Repair ==
    /\ IsCd
    /\ phase = "closed"
    /\ repairs < media.repairs
    /\ repairs' = repairs + 1
    /\ file' = repair_cd_arena.file
    /\ index' = repair_cd_arena.index
    /\ restarted' = FALSE
    /\ expected' = [s \in All |-> IF repairs > 0 /\ HadSlot(s) THEN Whatever ELSE expected[s]]
    /\ UNCHANGED <<media, ctx, dirty, phase, session, writes, sessions, faults>>

Next ==
    \/ \E s \in All, raw \in media.raw : WriteSectorLong(s, raw)
    \/ \E s \in All, raw \in media.raw, stage \in Stages : WriteSectorLongFails(s, raw, stage)
    \/ \E s \in All, raw \in media.raw : WriteSectorTagged(s, raw)
    \/ \E a \in media.arrays, s \in All : WriteTag(a, s, media.tag)
    \/ \E s \in All : WriteSector(s, [data |-> "w"])
    \/ Close({})
    \/ \E kind \in media.losable : Close({kind})
    \/ Resume
    \/ ResumeRestarting
    \/ Repair

Spec == Init /\ [][Next]_vars

(***************************************************************************)
(* Properties.                                                             *)
(***************************************************************************)
(* Types, and the arenas: no slot is beyond the memory that was allocated  *)
(* (grow_arena).                                                           *)
TypeOK ==
    /\ phase \in {"writing", "closed"}
    /\ dirty \subseteq Kinds
    /\ \A p \in Parts : Len(ctx.arena[p].slots) <= ctx.arena[p].room
    /\ \A p \in Parts : ctx.ddt[p] # None =>
          \A s \in All : ctx.ddt[p][s].index \in Nat
    /\ \A kind \in Kinds : index[kind] \in 0..Len(file)
    /\ session \subseteq All

(* A tag is right when it is what was written, in the format of the drive. *)
RightTag(given, kept) ==
    IF media.name = "apple" /\ Zeros \notin {given, kept} THEN SameTag(given, kept)
    ELSE kept = given

(* The two ways to read the tags agree with what was written. *)
TagsRight(s) ==
    \A a \in media.arrays :
        IF read_sector_tag(ctx, a, s) = NotPresent THEN expected[s].tags[a] = Zeros
        ELSE RightTag(expected[s].tags[a], read_sector_tag(ctx, a, s))

(* A long sector is its user data alone while an array is missing. *)
LongRight(s, long) ==
    IF Joinable(ctx) /\ expected[s].user # Unwritten
    THEN /\ long.user = expected[s].user
         /\ \A a \in media.arrays : RightTag(expected[s].tags[a], long.tags[a])
    ELSE long = expected[s].user

TaggedRight(s) == TagsRight(s) /\ LongRight(s, read_sector_long(ctx, s))

(* Bit for bit: every long sector reads back as it was last written, in    *)
(* the session and after the image is closed and resumed, whatever is      *)
(* written, rewritten or fails for other sectors, and after an image that  *)
(* lost slots is repaired (aaruf_write_sector_long with                    *)
(* aaruf_read_sector_long, aaruf_open, repair_cd_arena).  Two states are   *)
(* out of it: a resumed DVD or Blu-ray, which marks no tags as to be       *)
(* written (write.c:764), and an image whose slots a session lost, until   *)
(* it is repaired.                                                         *)
LongReadsBack ==
    phase = "writing" /\ ~ restarted /\ (IsCd \/ media.name = "apple" \/ sessions = 1) =>
        \A s \in All :
            IF IsCd THEN expected[s] \in {Whatever, read_sector_long(ctx, s)}
            ELSE TaggedRight(s)

(* A write of a sector, whether it succeeds or fails, changes what no      *)
(* other sector reads as, readable or not (the slots of the arenas are     *)
(* never shared, aaruf_write_sector_long).                                 *)
Changed ==
    {s \in All : /\ expected[s] # Whatever
                 /\ read_sector_long(ctx, s) # read_sector_long(ctx', s)}

OthersUntouched ==
    [][IsCd /\ ~ restarted /\ phase = "writing" /\ phase' = "writing" =>
        Cardinality(Changed) <= 1]_vars
=============================================================================
