-------------------------- MODULE StreamDigestProofs --------------------------
(***************************************************************************)
(* Proofs about the digests of the user data, for every geometry, content  *)
(* and number of writes.                                                   *)
(*                                                                         *)
(* The argument: while the digests are alive this is the session of        *)
(* aaruf_create, every sector that was fed is at most the last one written *)
(* and sector 0 was fed only if block_zero_written says so; a sector that  *)
(* is written again is then a rewind, and ends the digests.                *)
(***************************************************************************)
EXTENDS StreamDigest, TLAPS

USE DigestAssumption

(***************************************************************************)
(* The inductive invariant.                                                *)
(***************************************************************************)
Blocks == {Block(lba) : lba \in LBA} \cup {0}

Tracker == [rewinded : BOOLEAN, last : Blocks, zero : BOOLEAN, calculating : BOOLEAN]

(* Rewind detection has seen sector lba. *)
Seen(t, lba) == Block(lba) <= t.last /\ (lba = 0 => t.zero)

(* A digest of sectors that rewind detection has seen, none of them twice. *)
InOrder(fed) ==
    \A j, k \in DOMAIN fed :
        j < k => \/ fed[j].lba < fed[k].lba
                 \/ fed[k].lba = 0 /\ fed[j].lba # 0

AllSeen(t, fed) == \A k \in DOMAIN fed : fed[k].lba >= 0 /\ Seen(t, fed[k].lba)

(* What was fed is what the image holds, but for the sector that failed.   *)
Matches(fed, c, but) ==
    \A k \in DOMAIN fed : fed[k].lba # but => c[fed[k].lba] = fed[k].data

FirstSession ==
    /\ ~tracker.rewinded
    /\ checksums = NoDigest
    /\ stored.fed = <<>> \/ (session = "closed" /\ stored.fed = digest)

DigestInv ==
    /\ TypeOK
    /\ tracker.calculating =>
         /\ FirstSession
         /\ InOrder(digest)
         /\ AllSeen(tracker, digest)
         /\ Matches(digest, content, failed)
         /\ failed # NoLBA => Seen(tracker, failed)

(***************************************************************************)
(* Rewind detection.                                                       *)
(***************************************************************************)
LEMMA BlocksAreNat == Blocks \in SUBSET Nat /\ \A lba \in LBA : Block(lba) \in Blocks
BY DEF Blocks, Block, LBA

(* A sector that leaves the digests alive is a new one, and is seen.       *)
LEMMA ObserveNew ==
    ASSUME NEW t \in Tracker, NEW lba \in LBA
    PROVE  /\ Observe(t, Block(lba)) \in Tracker
           /\ t.rewinded => Observe(t, Block(lba)) = t
           /\ ~Observe(t, Block(lba)).rewinded =>
                 /\ ~t.rewinded
                 /\ ~Seen(t, lba)
                 /\ Seen(Observe(t, Block(lba)), lba)
                 /\ Observe(t, Block(lba)).calculating = t.calculating
                 /\ \A other \in LBA :
                       Seen(t, other) => Seen(Observe(t, Block(lba)), other)
           /\ ~t.rewinded /\ Observe(t, Block(lba)).rewinded =>
                 ~Observe(t, Block(lba)).calculating
<1> DEFINE b == Block(lba)
<1>1. b \in Blocks /\ b \in Nat /\ t.last \in Nat /\ (b = 0 <=> lba = 0)
  <2>1. b \in Blocks /\ b \in Nat /\ t.last \in Nat
    BY BlocksAreNat DEF Tracker
  <2>2. b = 0 <=> lba = 0
    BY DEF Block, LBA
  <2>3. QED
    BY <2>1, <2>2
<1>2. \A other \in LBA : Block(other) \in Nat
  BY BlocksAreNat
<1> HIDE DEF b
<1>3. CASE t.rewinded
  BY <1>3 DEF Observe
<1>4. CASE ~t.rewinded /\ b > t.last
  <2>1. Observe(t, b) = [t EXCEPT !.last = b]
    BY <1>4 DEF Observe
  <2>2. QED
    BY <1>1, <1>2, <1>4, <2>1 DEF Tracker, Seen, b
<1>5. CASE ~t.rewinded /\ ~(b > t.last) /\ b = 0 /\ ~t.zero
  <2>1. Observe(t, b) = [t EXCEPT !.zero = TRUE]
    BY <1>5 DEF Observe
  <2> DEFINE o == Observe(t, b)
  <2>2. /\ o \in Tracker /\ o.last = t.last /\ o.zero = TRUE
        /\ o.rewinded = t.rewinded /\ o.calculating = t.calculating
    BY <2>1 DEF Tracker
  <2> HIDE DEF o
  <2>3. ~Seen(t, lba) /\ Seen(o, lba)
    BY <1>1, <1>5, <2>2 DEF Seen, b
  <2>4. \A other \in LBA : Seen(t, other) => Seen(o, other)
    BY <2>2 DEF Seen
  <2>5. QED
    BY <1>5, <2>2, <2>3, <2>4 DEF b, o
<1>6. CASE ~t.rewinded /\ ~(b > t.last) /\ ~(b = 0 /\ ~t.zero)
  <2>1. Observe(t, b) = Rewound(t)
    BY <1>6 DEF Observe
  <2>2. Rewound(t) \in Tracker /\ Rewound(t).rewinded /\ ~Rewound(t).calculating
    BY DEF Tracker, Rewound
  <2>3. QED
    BY <1>6, <2>1, <2>2 DEF b
<1>7. QED
  BY <1>3, <1>4, <1>5, <1>6

(* The same of a sector that may have been decrypted or generated. *)
LEMMA ObserveSectorNew ==
    ASSUME NEW t \in Tracker, NEW lba \in LBA, NEW altered \in BOOLEAN
    PROVE  LET after == ObserveSector(t, Block(lba), altered)
           IN  /\ after \in Tracker
               /\ t.rewinded => after = t
               /\ ~after.rewinded => ~altered /\ after = Observe(t, Block(lba))
               /\ ~t.rewinded /\ after.rewinded => ~after.calculating
<1>1. Rewound(t) \in Tracker /\ Rewound(t).rewinded /\ ~Rewound(t).calculating
  BY DEF Tracker, Rewound
<1>2. QED
  BY <1>1, ObserveNew DEF ObserveSector

(***************************************************************************)
(* Types.                                                                  *)
(***************************************************************************)
LEMMA FedTyped ==
    ASSUME NEW old \in Seq(Item), NEW t, NEW lba \in LBA, NEW d \in Data
    PROVE  Fed(old, t, lba, d) \in Seq(Item)
<1>1. [lba |-> lba, data |-> d] \in Item
  BY DEF Item
<1>2. QED
  BY <1>1 DEF Fed

LEMMA StoreTyped ==
    ASSUME TypeOK, NEW lba \in LBA, NEW d \in Data, StoreOrFail(lba, d), CanWrite(lba), Note
    PROVE  /\ content' \in [LBA -> Data \cup {Unwritten}]
           /\ failed' \in LBA \cup {NoLBA}
           /\ writes' \in 0..MaxWrites
BY DEF TypeOK, StoreOrFail, CanWrite, Note

(***************************************************************************)
(* A sector that joins the digest.                                         *)
(***************************************************************************)
LEMMA FedInOrder ==
    ASSUME NEW old \in Seq(Item), NEW t \in Tracker, NEW lba \in LBA, NEW d \in Data,
           NEW after \in Tracker, InOrder(old), AllSeen(t, old),
           ~Seen(t, lba), Seen(after, lba),
           \A other \in LBA : Seen(t, other) => Seen(after, other)
    PROVE  /\ InOrder(Fed(old, after, lba, d)) /\ AllSeen(after, Fed(old, after, lba, d))
           /\ AllSeen(after, old)
<1>1. /\ \A k \in DOMAIN old : old[k].lba \in LBA /\ old[k].lba \in Int
      /\ lba \in Int /\ t.last \in Nat /\ Len(old) \in Nat
  <2>1. t.last \in Nat
    BY BlocksAreNat DEF Tracker
  <2>2. ASSUME NEW k \in DOMAIN old
        PROVE  old[k].lba \in LBA
    <3>1. old[k] \in Item
      OBVIOUS
    <3>2. QED
      BY <3>1 DEF Item
  <2>3. LBA \subseteq Int
    BY DEF LBA
  <2>4. Len(old) \in Nat
    OBVIOUS
  <2>5. QED
    BY <2>1, <2>2, <2>3, <2>4
<1>2. \A k \in DOMAIN old :
          old[k].lba >= 0 /\ Seen(t, old[k].lba) /\ Seen(after, old[k].lba)
  BY <1>1 DEF AllSeen
<1>3. CASE ~IsHashed(after, lba)
  BY <1>2, <1>3 DEF Fed, AllSeen
<1>4. CASE IsHashed(after, lba)
  <2> DEFINE new == Append(old, [lba |-> lba, data |-> d])
  <2>1. Fed(old, after, lba, d) = new /\ lba >= 0
    BY <1>4 DEF Fed, IsHashed
  <2>2. \A k \in DOMAIN old : old[k].lba < lba \/ (lba = 0 /\ old[k].lba # 0)
    BY <1>1, <1>2, <2>1 DEF Seen, Block
  <2>3. /\ \A k \in DOMAIN new : k \in DOMAIN old \/ k = Len(old) + 1
        /\ \A k \in DOMAIN old : new[k] = old[k]
        /\ new[Len(old) + 1].lba = lba
    OBVIOUS
  <2>4. DOMAIN old = 1..Len(old)
    OBVIOUS
  <2> HIDE DEF new
  <2>5. InOrder(new)
    <3> SUFFICES ASSUME NEW j \in DOMAIN new, NEW k \in DOMAIN new, j < k
                 PROVE  \/ new[j].lba < new[k].lba
                        \/ new[k].lba = 0 /\ new[j].lba # 0
      BY DEF InOrder
    <3>1. j \in DOMAIN old
      BY <1>1, <2>3, <2>4
    <3>2. CASE k \in DOMAIN old
      BY <2>3, <3>1, <3>2 DEF InOrder
    <3>3. CASE k = Len(old) + 1
      BY <2>2, <2>3, <3>1, <3>3
    <3>4. QED
      BY <2>3, <3>2, <3>3
  <2>6. AllSeen(after, new)
    BY <1>2, <2>1, <2>3 DEF AllSeen
  <2>7. QED
    BY <1>2, <2>1, <2>5, <2>6 DEF AllSeen
<1>5. QED
  BY <1>3, <1>4

(* What the image holds of the sectors that were fed, after the write.     *)
LEMMA FedMatches ==
    ASSUME NEW old \in Seq(Item), NEW t \in Tracker, NEW after, NEW lba \in LBA,
           NEW d \in Data, AllSeen(t, old), ~Seen(t, lba),
           content \in [LBA -> Data \cup {Unwritten}],
           Matches(old, content, NoLBA), StoreOrFail(lba, d)
    PROVE  /\ Matches(Fed(old, after, lba, d), content', failed')
           /\ Matches(old, content', failed')
<1>1. \A k \in DOMAIN old : /\ old[k].lba \in LBA /\ old[k].lba # NoLBA
                           /\ old[k].lba # lba
  <2> SUFFICES ASSUME NEW k \in DOMAIN old
               PROVE  old[k].lba \in LBA /\ old[k].lba # NoLBA /\ old[k].lba # lba
    OBVIOUS
  <2>1. old[k] \in Item
    OBVIOUS
  <2>2. old[k].lba \in LBA
    BY <2>1 DEF Item
  <2>3. old[k].lba # NoLBA
    BY <2>2 DEF LBA, NoLBA
  <2>4. old[k].lba # lba
    BY DEF AllSeen
  <2>5. QED
    BY <2>2, <2>3, <2>4
<1>2. \A k \in DOMAIN old : content'[old[k].lba] = old[k].data
  BY <1>1 DEF StoreOrFail, Matches
<1>3. failed' = lba \/ content'[lba] = d
  BY DEF StoreOrFail
<1> DEFINE new == Append(old, [lba |-> lba, data |-> d])
<1>4. /\ \A k \in DOMAIN new : k \in DOMAIN old \/ k = Len(old) + 1
      /\ \A k \in DOMAIN old : new[k] = old[k]
      /\ new[Len(old) + 1].lba = lba /\ new[Len(old) + 1].data = d
  OBVIOUS
<1> HIDE DEF new
<1>5. Matches(new, content', failed')
  BY <1>2, <1>3, <1>4 DEF Matches
<1>6. Matches(old, content', failed')
  BY <1>2 DEF Matches
<1>7. QED
  BY <1>5, <1>6 DEF Fed, new

(***************************************************************************)
(* Each operation.                                                         *)
(***************************************************************************)

(* The sector that failed is the only one that may be written, and it has  *)
(* been seen: writing it again ends the digests.                           *)
LEMMA NewSectorFollowsSuccess ==
    ASSUME DigestInv, tracker.calculating, NEW lba \in LBA, CanWrite(lba),
           ~Seen(tracker, lba)
    PROVE  failed = NoLBA
BY DEF DigestInv, CanWrite

(* aaruf_write_sector. *)
LEMMA WriteSectorKeeps ==
    ASSUME DigestInv, NEW lba \in LBA, NEW d \in Data, NEW altered \in BOOLEAN,
           WriteSector(lba, d, altered)
    PROVE  DigestInv'
<1> DEFINE after == ObserveSector(tracker, Block(lba), altered)
<1>1. /\ tracker' = after /\ session = "open" /\ CanWrite(lba) /\ StoreOrFail(lba, d) /\ Note
      /\ digest' = IF writingLong THEN digest ELSE Fed(digest, after, lba, d)
      /\ dirty' = (dirty \/ (IsHashed(after, lba) /\ ~writingLong))
      /\ UNCHANGED <<writingLong, stored, checksums, session>>
  BY DEF WriteSector, CanWrite
<1>2. TypeOK /\ tracker \in Tracker
  BY DEF DigestInv, TypeOK, Tracker, Blocks
<1>3. /\ after \in Tracker
      /\ tracker.rewinded => after = tracker
      /\ ~after.rewinded => after = Observe(tracker, Block(lba))
      /\ ~tracker.rewinded /\ after.rewinded => ~after.calculating
  BY <1>2, ObserveSectorNew
<1> HIDE DEF after
<1>4. TypeOK'
  <2>1. tracker' \in Tracker
    BY <1>1, <1>3
  <2>2. digest' \in Seq(Item)
    BY <1>1, <1>2, FedTyped DEF TypeOK
  <2>3. dirty' \in BOOLEAN
    BY <1>1, <1>2 DEF TypeOK, IsHashed
  <2>4. QED
    BY <1>1, <1>2, <2>1, <2>2, <2>3, StoreTyped DEF TypeOK, Tracker, Blocks
<1>5. ASSUME tracker'.calculating
      PROVE  /\ FirstSession'
             /\ InOrder(digest') /\ AllSeen(tracker', digest')
             /\ Matches(digest', content', failed')
             /\ failed' # NoLBA => Seen(tracker', failed')
  <2>1. /\ ~tracker.rewinded /\ ~after.rewinded /\ tracker.calculating
        /\ after = Observe(tracker, Block(lba))
        /\ ~Seen(tracker, lba) /\ Seen(after, lba)
        /\ \A other \in LBA : Seen(tracker, other) => Seen(after, other)
    BY <1>1, <1>2, <1>3, <1>5, ObserveNew DEF DigestInv, FirstSession
  <2>2. /\ FirstSession /\ InOrder(digest) /\ AllSeen(tracker, digest)
        /\ Matches(digest, content, failed) /\ failed = NoLBA
    BY <1>1, <2>1, NewSectorFollowsSuccess DEF DigestInv
  <2>3. FirstSession'
    BY <1>1, <2>1, <2>2 DEF FirstSession
  <2>4. Seen(tracker', lba) /\ (failed' = NoLBA \/ failed' = lba)
    BY <1>1, <2>1 DEF StoreOrFail
  <2>5. digest \in Seq(Item) /\ content \in [LBA -> Data \cup {Unwritten}]
    BY <1>2 DEF TypeOK
  <2>6. InOrder(digest') /\ AllSeen(tracker', digest')
    BY <1>1, <1>2, <1>3, <2>1, <2>2, <2>5, FedInOrder
  <2>7. Matches(digest', content', failed')
    BY <1>1, <1>2, <2>1, <2>2, <2>5, FedMatches
  <2>8. QED
    BY <2>3, <2>4, <2>6, <2>7
<1>6. QED
  BY <1>4, <1>5 DEF DigestInv

(* aaruf_write_sector_long looks for a rewind twice: the second time the   *)
(* sector is one already seen, and the digests end.                        *)
LEMMA WriteSectorLongKeeps ==
    ASSUME DigestInv, NEW lba \in LBA, NEW d \in Data, WriteSectorLong(lba, d)
    PROVE  DigestInv'
<1> DEFINE first == Observe(tracker, Block(lba))
           after == ObserveSector(first, Block(lba), FALSE)
<1>1. /\ tracker' = after /\ CanWrite(lba) /\ StoreOrFail(lba, d) /\ Note
      /\ digest' = Fed(digest, first, lba, d) /\ writingLong' = TRUE
      /\ UNCHANGED <<dirty, stored, checksums, session>>
  BY DEF WriteSectorLong
<1>2. TypeOK /\ tracker \in Tracker
  BY DEF DigestInv, TypeOK, Tracker, Blocks
<1>3. /\ first \in Tracker
      /\ tracker.rewinded => first = tracker
      /\ ~first.rewinded => Seen(first, lba)
      /\ ~tracker.rewinded /\ first.rewinded => ~first.calculating
  BY <1>2, ObserveNew
<1> HIDE DEF first
<1>4. /\ after \in Tracker
      /\ first.rewinded => after = first
      /\ ~after.rewinded => after = Observe(first, Block(lba))
      /\ ~first.rewinded /\ after.rewinded => ~after.calculating
  BY <1>3, ObserveSectorNew
<1> HIDE DEF after
<1>5. TypeOK'
  <2>1. tracker' \in Tracker
    BY <1>1, <1>4
  <2>2. digest' \in Seq(Item)
    BY <1>1, <1>2, FedTyped DEF TypeOK
  <2>3. QED
    BY <1>1, <1>2, <2>1, <2>2, StoreTyped DEF TypeOK, Tracker, Blocks
<1>6. ~tracker'.calculating
  <2>1. CASE tracker.rewinded
    BY <1>1, <1>3, <1>4, <2>1 DEF DigestInv, FirstSession
  <2>2. CASE first.rewinded
    BY <1>1, <1>3, <1>4, <2>1, <2>2
  <2>3. CASE ~first.rewinded
    <3>1. after.rewinded
      BY <1>3, <1>4, <2>3, ObserveNew
    <3>2. QED
      BY <1>1, <1>4, <2>3, <3>1
  <2>4. QED
    BY <2>1, <2>2, <2>3
<1>7. QED
  BY <1>5, <1>6 DEF DigestInv

(* aaruf_close. *)
LEMMA CloseKeeps ==
    ASSUME DigestInv, Close
    PROVE  DigestInv'
<1>1. /\ session = "open" /\ session' = "closed"
      /\ UNCHANGED <<tracker, writingLong, digest, dirty, checksums, content, failed, writes>>
      /\ stored' = IF dirty /\ tracker.calculating
                   THEN [present |-> TRUE, fed |-> digest] ELSE stored
  BY DEF Close
<1>2. TypeOK
  BY DEF DigestInv
<1>3. CASE dirty /\ tracker.calculating
  <2>1. stored' = [present |-> TRUE, fed |-> digest]
    BY <1>1, <1>3
  <2>2. checksums = NoDigest
    BY <1>3 DEF DigestInv, FirstSession
  <2>3. TypeOK'
    BY <1>1, <1>2, <2>1, <2>2 DEF TypeOK
  <2>4. QED
    BY <1>1, <2>1, <2>3 DEF DigestInv, FirstSession
<1>4. CASE ~(dirty /\ tracker.calculating)
  <2>1. stored' = stored
    BY <1>1, <1>4
  <2>2. TypeOK'
    BY <1>1, <1>2, <2>1 DEF TypeOK
  <2>3. QED
    BY <1>1, <2>1, <2>2 DEF DigestInv, FirstSession
<1>5. QED
  BY <1>3, <1>4

(* aaruf_open in resume mode, which never computes digests. *)
LEMMA ResumeKeeps ==
    ASSUME DigestInv, Resume
    PROVE  DigestInv'
<1>1. ResumedTracker \in Tracker /\ ~ResumedTracker.calculating
  BY DEF ResumedTracker, Tracker, Blocks
<1>2. TypeOK'
  <2>1. TypeOK /\ stored' = stored /\ content' = content /\ tracker' = ResumedTracker
    BY DEF Resume, DigestInv
  <2>2. checksums' \in {NoDigest, stored}
    BY DEF Resume, process_checksum_block
  <2>3. writes' \in 0..MaxWrites /\ digest' \in Seq(Item)
    BY DEF Resume
  <2>4. QED
    BY <1>1, <2>1, <2>2, <2>3 DEF Resume, TypeOK, Tracker, Blocks
<1>3. QED
  BY <1>1, <1>2 DEF Resume, DigestInv

(* The invariant holds in every state. *)
LEMMA DigestsHold == Spec => []DigestInv
<1>1. Init => DigestInv
  <2> SUFFICES ASSUME Init PROVE DigestInv
    OBVIOUS
  <2>1. FreshTracker \in Tracker /\ ~FreshTracker.rewinded
    BY DEF FreshTracker, Tracker, Blocks
  <2>2. TypeOK
    <3>1. tracker \in Tracker
      BY <2>1 DEF Init
    <3>2. <<>> \in Seq(Item) /\ NoDigest \in [present : BOOLEAN, fed : Seq(Item)]
      BY DEF NoDigest
    <3>3. content \in [LBA -> Data \cup {Unwritten}]
      BY DEF Init
    <3>4. /\ writingLong = FALSE /\ digest = <<>> /\ dirty = TRUE /\ stored = NoDigest
          /\ checksums = NoDigest /\ failed = NoLBA /\ writes = 0 /\ session = "open"
      BY DEF Init
    <3>5. digest \in Seq(Item) /\ stored \in [present : BOOLEAN, fed : Seq(Item)]
      BY <3>2, <3>4
    <3>6. writes \in 0..MaxWrites
      BY <3>4
    <3>7. QED
      BY <3>1, <3>3, <3>4, <3>5, <3>6, Zenon DEF TypeOK, Tracker, Blocks
  <2>3. FirstSession
    BY <2>1 DEF Init, FirstSession, NoDigest
  <2>4. InOrder(digest) /\ AllSeen(tracker, digest) /\ Matches(digest, content, failed)
    BY DEF Init, InOrder, AllSeen, Matches
  <2>5. QED
    BY <2>2, <2>3, <2>4 DEF Init, DigestInv
<1>2. DigestInv /\ [Next]_vars => DigestInv'
  <2> SUFFICES ASSUME DigestInv, [Next]_vars PROVE DigestInv'
    OBVIOUS
  <2>1. CASE UNCHANGED vars
    BY <2>1 DEF vars, DigestInv, TypeOK, FirstSession, InOrder, AllSeen, Matches
  <2>2. QED
    BY <2>1, WriteSectorKeeps, WriteSectorLongKeeps, CloseKeeps, ResumeKeeps DEF Next
<1>3. QED
  BY <1>1, <1>2, PTL DEF Spec

(***************************************************************************)
(* The theorems.                                                           *)
(***************************************************************************)

(* Every variable of the digests keeps its type, and the checksums of the  *)
(* context are none or those of the file.                                  *)
THEOREM DigestTypeCorrect == Spec => []TypeOK
<1>1. DigestInv => TypeOK
  BY DEF DigestInv
<1>2. QED
  BY <1>1, DigestsHold, PTL

(* Rewind detection lets no sector into a living digest twice, nor after a *)
(* later one, but for sector 0.                                            *)
THEOREM SectorsFedOnce == Spec => []FedOnce
<1>1. DigestInv => FedOnce
  BY DEF DigestInv, InOrder, FedOnce
<1>2. QED
  BY <1>1, DigestsHold, PTL

(* A living digest, and the checksum block that the close wrote of it, are *)
(* of what the image holds, whatever was written over, failed or resumed.  *)
THEOREM DigestOfWhatIsHeld == Spec => []DigestIsOfImage
<1>1. DigestInv => DigestIsOfImage
  <2> SUFFICES ASSUME DigestInv, tracker.calculating, failed = NoLBA,
                      NEW fed \in {digest, stored.fed}, NEW k \in DOMAIN fed
               PROVE  content[fed[k].lba] = fed[k].data
    BY DEF DigestIsOfImage
  <2>1. fed = <<>> \/ fed = digest
    BY DEF DigestInv, FirstSession
  <2>2. CASE fed = <<>>
    BY <2>2
  <2>3. CASE fed = digest
    <3>1. digest[k] \in Item
      BY <2>3 DEF DigestInv, TypeOK
    <3>2. digest[k].lba # NoLBA
      BY <3>1 DEF Item, LBA, NoLBA
    <3>3. QED
      BY <2>3, <3>2 DEF DigestInv, Matches
  <2>4. QED
    BY <2>1, <2>2, <2>3
<1>2. QED
  BY <1>1, DigestsHold, PTL
=============================================================================
