------------------------------- MODULE LisaTag -------------------------------
(***************************************************************************)
(* The tags that Apple Lisa drives keep beside each sector, and their      *)
(* conversion between drives (src/lisa_tag.c).                             *)
(*                                                                         *)
(* The bytes of a tag are the sequence of its fields as they lie on disk,  *)
(* and the length tells the drive: 12 bytes are 4 fields here, 20 bytes    *)
(* are 5 and 24 bytes are 6.  One field stands for what no conversion      *)
(* looks at: head for version, kind, reserved, volume and file_id, page    *)
(* for used_bytes, valid_chk, abs_page and checksum.  The links to the     *)
(* next and the previous block are numbers: 16 bits in a Sony tag, of      *)
(* which 11 and a flag are defined, and 24 bits in the others.             *)
(***************************************************************************)
EXTENDS Integers, Sequences

SonyNumbers == 2048             \* SONY_BLOCK_NUMBER_MASK + 1
SonyValid == 32768              \* SONY_BLOCK_VALID_FLAG
SonyEnd == SonyNumbers - 1
End == 16777215                 \* No next, or no previous, in 24 bits

Nil == "0"                      \* A field that is zero

SonySize == 4
ProfileSize == 5
PriamSize == 6

SonyLinks == 0..2 * SonyValid - 1
WideLinks == 0..End

SonyBytes == STRING \X STRING \X SonyLinks \X SonyLinks
ProfileBytes == STRING \X STRING \X STRING \X WideLinks \X WideLinks
PriamBytes == STRING \X STRING \X STRING \X WideLinks \X WideLinks \X STRING

(***************************************************************************)
(* Bytes to tags and back.                                                 *)
(***************************************************************************)
Number(link) == link % SonyNumbers

(* SONY_BLOCK_ALLOWED_MASK. *)
Allowed(link) == (link \div SonyValid) * SonyValid + Number(link)

bytes_to_sony_tag(b) ==
    [head |-> b[1], rel |-> b[2], next |-> Allowed(b[3]), prev |-> Allowed(b[4])]

bytes_to_profile_tag(b) ==
    [head |-> b[1], page |-> b[2], rel |-> b[3], next |-> b[4], prev |-> b[5]]

bytes_to_priam_tag(b) ==
    [head |-> b[1], page |-> b[2], rel |-> b[3], next |-> b[4], prev |-> b[5],
     disk_size |-> b[6]]

sony_tag_to_bytes(t) == <<t.head, t.rel, Allowed(t.next), Allowed(t.prev)>>

profile_tag_to_bytes(t) == <<t.head, t.page, t.rel, t.next % (End + 1), t.prev % (End + 1)>>

priam_tag_to_bytes(t) ==
    <<t.head, t.page, t.rel, t.next % (End + 1), t.prev % (End + 1), t.disk_size>>

(***************************************************************************)
(* Conversions.  The end of a chain is another number in 11 and 24 bits.   *)
(***************************************************************************)
Widened(link) == IF Number(link) = SonyEnd THEN End ELSE Number(link)

Narrowed(link) == IF link = End THEN SonyEnd ELSE Number(link)

sony_tag_to_profile(t) ==
    [head |-> t.head, page |-> Nil, rel |-> t.rel,
     next |-> Widened(t.next), prev |-> Widened(t.prev)]

sony_tag_to_priam(t) ==
    [head |-> t.head, page |-> Nil, rel |-> t.rel,
     next |-> Widened(t.next), prev |-> Widened(t.prev), disk_size |-> Nil]

profile_tag_to_priam(t) ==
    [head |-> t.head, page |-> t.page, rel |-> t.rel, next |-> t.next, prev |-> t.prev,
     disk_size |-> Nil]

profile_tag_to_sony(t) ==
    [head |-> t.head, rel |-> t.rel, next |-> Narrowed(t.next), prev |-> Narrowed(t.prev)]

priam_tag_to_sony(t) ==
    [head |-> t.head, rel |-> t.rel, next |-> Narrowed(t.next), prev |-> Narrowed(t.prev)]

priam_tag_to_profile(t) ==
    [head |-> t.head, page |-> t.page, rel |-> t.rel, next |-> t.next, prev |-> t.prev]

(***************************************************************************)
(* What aaruf_write_sector_long keeps for a drive of the tag it is given;  *)
(* a drive it has no format for keeps nothing.                             *)
(***************************************************************************)
FromSony(drive, b) ==
    CASE drive = "sony"    -> b
      [] drive = "profile" -> profile_tag_to_bytes(sony_tag_to_profile(bytes_to_sony_tag(b)))
      [] drive = "priam"   -> priam_tag_to_bytes(sony_tag_to_priam(bytes_to_sony_tag(b)))
      [] OTHER             -> <<>>

FromProfile(drive, b) ==
    CASE drive = "sony"    -> sony_tag_to_bytes(profile_tag_to_sony(bytes_to_profile_tag(b)))
      [] drive = "profile" -> b
      [] drive = "priam"   -> priam_tag_to_bytes(profile_tag_to_priam(bytes_to_profile_tag(b)))
      [] OTHER             -> <<>>

FromPriam(drive, b) ==
    CASE drive = "sony"    -> sony_tag_to_bytes(priam_tag_to_sony(bytes_to_priam_tag(b)))
      [] drive = "profile" -> profile_tag_to_bytes(priam_tag_to_profile(bytes_to_priam_tag(b)))
      [] drive = "priam"   -> b
      [] OTHER             -> <<>>

NewTag(drive, b) ==
    CASE Len(b) = SonySize    -> FromSony(drive, b)
      [] Len(b) = ProfileSize -> FromProfile(drive, b)
      [] Len(b) = PriamSize   -> FromPriam(drive, b)
      [] b = <<>>             -> <<>>

(***************************************************************************)
(* What two tags must agree in, whatever drives they are from: the fields  *)
(* they both have, and the links, unless one is too wide for 11 bits.      *)
(***************************************************************************)
NoLink == -1

Link(b, i) ==
    IF Len(b) = SonySize
    THEN IF Number(b[i]) = SonyEnd THEN NoLink ELSE Number(b[i])
    ELSE IF b[i + 1] = End THEN NoLink ELSE b[i + 1]

SameLink(given, kept) == given = kept \/ given >= SonyEnd

Rel(b) == IF Len(b) = SonySize THEN b[2] ELSE b[3]

SameTag(given, kept) ==
    IF Len(given) = Len(kept) THEN kept = given
    ELSE /\ kept[1] = given[1]
         /\ Rel(kept) = Rel(given)
         /\ \A i \in {3, 4} : SameLink(Link(given, i), Link(kept, i))
         /\ SonySize \in {Len(given), Len(kept)} \/ kept[2] = given[2]
=============================================================================
