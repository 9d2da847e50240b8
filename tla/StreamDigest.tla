---------------------------- MODULE StreamDigest ----------------------------
(***************************************************************************)
(* The digests of the user data that aaruf_write_sector and                *)
(* aaruf_write_sector_long compute while they write: rewind detection,     *)
(* what is hashed, and what the checksum block of the file says after a    *)
(* close and after a resumed session.  The five algorithms are enabled and *)
(* disabled together, so one stands for all, and a digest is the sequence  *)
(* of the sectors it was fed.  The rest of the two functions is in         *)
(* ImageWriter; here a write only decides what the image will hold.        *)
(***************************************************************************)
EXTENDS Integers, Sequences

CONSTANTS
    Negative,       \* Sectors before address 0
    Sectors,        \* User sectors
    Overflow,       \* Sectors after the last user sector
    Data,           \* Contents of a sector
    Unwritten,      \* What a sector that was never written holds
    Failing,        \* TRUE when the block a sector would go to may fail to be written
    MaxWrites       \* Bound: sectors written in a session

ASSUME DigestAssumption ==
    /\ Negative \in Nat
    /\ Sectors \in Nat \ {0}
    /\ Overflow \in Nat
    /\ Unwritten \notin Data
    /\ Failing \in BOOLEAN
    /\ MaxWrites \in Nat

VARIABLES
    tracker,    \* rewinded, last_written_block, block_zero_written, calculating_*
    writingLong,\* writing_long
    digest,     \* What the digest was fed in this session
    dirty,      \* dirty_checksum_block
    stored,     \* The checksum block the index of the file lists
    checksums,  \* The checksums that aaruf_open found
    content,    \* What the image holds
    failed,     \* The sector whose write failed, until it is written
    writes,     \* How many sectors were written in this session
    session     \* "open" or "closed"

vars == <<tracker, writingLong, digest, dirty, stored, checksums, content, failed, writes,
          session>>

LBA == -Negative..(Sectors + Overflow - 1)
NoLBA == -Negative - 1
NoDigest == [present |-> FALSE, fed |-> <<>>]

(* The block number the code compares: the sign of the address is apart.   *)
Block(lba) == IF lba < 0 THEN -lba ELSE lba

FreshTracker ==
    [rewinded |-> FALSE, last |-> 0, zero |-> FALSE, calculating |-> TRUE]
ResumedTracker ==
    [rewinded |-> TRUE, last |-> 0, zero |-> FALSE, calculating |-> FALSE]

Init ==
    /\ tracker = FreshTracker
    /\ writingLong = FALSE
    /\ digest = <<>>
    /\ dirty = TRUE
    /\ stored = NoDigest
    /\ checksums = NoDigest
    /\ content = [lba \in LBA |-> Unwritten]
    /\ failed = NoLBA
    /\ writes = 0
    /\ session = "open"

(* Mutant of Rewound: the digests are not disabled. *)
RewoundOnly(t) == [t EXCEPT !.rewinded = TRUE]

Rewound(t) == [t EXCEPT !.rewinded = TRUE, !.calculating = FALSE]

(* Mutant of Observe: a block is a rewind only when it is below the last.  *)
ObserveBelow(t, block) ==
    IF t.rewinded THEN t
    ELSE IF block < t.last THEN Rewound(t)
    ELSE [t EXCEPT !.last = block]

(* Mutant of Observe: the block that comes next is remembered. *)
ObserveNext(t, block) ==
    IF t.rewinded THEN t
    ELSE IF block > t.last THEN [t EXCEPT !.last = block + 1]
    ELSE IF block = 0 /\ ~t.zero THEN [t EXCEPT !.zero = TRUE]
    ELSE Rewound(t)

(* Rewind detection. *)
Observe(t, block) ==
    IF t.rewinded THEN t
    ELSE IF block > t.last THEN [t EXCEPT !.last = block]
    ELSE IF block = 0 /\ ~t.zero THEN [t EXCEPT !.zero = TRUE]
    ELSE Rewound(t)

(* Decrypted and generated sectors are not the sectors of the disc. *)
ObserveSector(t, block, altered) ==
    IF altered /\ ~t.rewinded THEN Rewound(t) ELSE Observe(t, block)

(* The last test lets the first overflow sector through. *)
IsHashed(t, lba) == t.calculating /\ lba >= 0 /\ lba <= Sectors

Fed(old, t, lba, d) ==
    IF IsHashed(t, lba) THEN Append(old, [lba |-> lba, data |-> d]) ELSE old

(* The sector reaches the image, unless its block cannot be written; then  *)
(* we assume that the program writes it again or closes the image.         *)
StoreOrFail(lba, d) ==
    \/ /\ content' = [content EXCEPT ![lba] = d]
       /\ failed' = NoLBA
    \/ /\ Failing
       /\ failed' = lba
       /\ UNCHANGED content

CanWrite(lba) ==
    /\ session = "open"
    /\ writes < MaxWrites
    /\ failed \in {NoLBA, lba}

Note == writes' = writes + 1

(* aaruf_write_sector. *)
WriteSector(lba, d, altered) ==
    /\ CanWrite(lba)
    /\ tracker' = ObserveSector(tracker, Block(lba), altered)
    /\ digest' = IF writingLong THEN digest ELSE Fed(digest, tracker', lba, d)
    /\ dirty' = (dirty \/ (IsHashed(tracker', lba) /\ ~writingLong))
    /\ StoreOrFail(lba, d)
    /\ Note
    /\ UNCHANGED <<writingLong, stored, checksums, session>>

(* aaruf_write_sector_long of a CD sector: it looks for a rewind and feeds *)
(* the raw sector, then calls aaruf_write_sector for the same address,     *)
(* which looks for a rewind again.                                         *)
WriteSectorLong(lba, d) ==
    /\ CanWrite(lba)
    /\ writingLong' = TRUE
    /\ LET first == Observe(tracker, Block(lba))
       IN  /\ digest' = Fed(digest, first, lba, d)
           /\ tracker' = ObserveSector(first, Block(lba), FALSE)
    /\ StoreOrFail(lba, d)
    /\ Note
    /\ UNCHANGED <<dirty, stored, checksums, session>>

(* aaruf_close: write_checksum_block, which keeps the entry of the index   *)
(* when there is no digest to write.                                       *)
Close ==
    /\ session = "open"
    /\ stored' = IF dirty /\ tracker.calculating
                 THEN [present |-> TRUE, fed |-> digest] ELSE stored
    /\ session' = "closed"
    /\ UNCHANGED <<tracker, writingLong, digest, dirty, checksums, content, failed, writes>>

(* The checksums of the block replace those of the context, which are the  *)
(* fresh ones of aaruf_open, whatever this session is about to write.      *)
process_checksum_block(block) == IF block.present THEN block ELSE NoDigest

(* aaruf_open in resume mode. *)
Resume ==
    /\ session = "closed"
    /\ checksums' = process_checksum_block(stored)
    /\ tracker' = ResumedTracker
    /\ writingLong' = FALSE
    /\ digest' = <<>>
    /\ dirty' = FALSE
    /\ failed' = NoLBA
    /\ writes' = 0
    /\ session' = "open"
    /\ UNCHANGED <<stored, content>>

Next ==
    \/ \E lba \in LBA, d \in Data :
          \/ \E altered \in BOOLEAN : WriteSector(lba, d, altered)
          \/ WriteSectorLong(lba, d)
    \/ Close
    \/ Resume

Spec == Init /\ [][Next]_vars

(***************************************************************************)
(* Properties.                                                             *)
(***************************************************************************)
Item == [lba : LBA, data : Data]

(* Every variable has its type. *)
TypeOK ==
    /\ tracker \in [rewinded : BOOLEAN, last : {Block(lba) : lba \in LBA} \cup {0},
                    zero : BOOLEAN, calculating : BOOLEAN]
    /\ writingLong \in BOOLEAN
    /\ digest \in Seq(Item)
    /\ dirty \in BOOLEAN
    /\ stored \in [present : BOOLEAN, fed : Seq(Item)]
    /\ checksums \in {NoDigest, stored}
    /\ content \in [LBA -> Data \cup {Unwritten}]
    /\ failed \in LBA \cup {NoLBA}
    /\ writes \in 0..MaxWrites
    /\ session \in {"open", "closed"}

(* While the digest is alive no sector was fed to it twice, and no sector  *)
(* but sector 0 was fed after a later one.                                 *)
FedOnce ==
    tracker.calculating =>
        \A j, k \in DOMAIN digest :
            j < k => \/ digest[j].lba < digest[k].lba
                     \/ digest[k].lba = 0 /\ digest[j].lba # 0

(* While the digest is alive, and the last write did not fail, what it was *)
(* fed for a sector is what the image holds for that sector; and so does   *)
(* the checksum block that the close of that session wrote.                *)
DigestIsOfImage ==
    tracker.calculating /\ failed = NoLBA =>
        \A fed \in {digest, stored.fed} :
            \A k \in DOMAIN fed : content[fed[k].lba] = fed[k].data
=============================================================================
