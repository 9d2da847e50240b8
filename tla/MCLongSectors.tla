--------------------------- MODULE MCLongSectors ---------------------------
(* LongSectors for TLC: media, raw sectors, and what happens to an image.  *)
EXTENDS LongSectors

Raw(prefix, sub, user, suffix) ==
    [prefix |-> prefix, sub |-> sub, user |-> user, suffix |-> suffix]

Track(type, first, last) == [type |-> type, first |-> first, last |-> last]

Cd(tracks, raw, w, s, f, r, old, losable) ==
    [name |-> "cd", drive |-> "none", tag |-> <<>>, tracks |-> tracks, raw |-> raw,
     arrays |-> {}, writes |-> w, sessions |-> s, faults |-> f, repairs |-> r, old |-> old,
     losable |-> losable]

Tagged(name, drive, arrays, raw, tag, w, s) ==
    [name |-> name, drive |-> drive, tracks |-> <<>>, arrays |-> arrays, raw |-> raw,
     tag |-> tag, writes |-> w, sessions |-> s, faults |-> 0, repairs |-> 0, old |-> FALSE,
     losable |-> {}]

Disc(name, arrays) ==
    Tagged(name, "none", arrays,
           {[tags |-> [a \in arrays |-> <<"x">>], user |-> [data |-> "u"]]}, <<"y">>, 3, 1)

(* Links: in 11 bits, flagged, at the last number, at the end, too wide.   *)
Links == {<<1, SonyEnd>>, <<SonyValid + SonyEnd - 1, SonyValid>>, <<End, SonyNumbers + 1>>}

LisaTags ==
    {<<>>} \cup {<<"h", "r", l[1] % 65536, l[2]>> : l \in Links}
    \cup {<<"h", "p", "r", l[1], l[2]>> : l \in Links}
    \cup {<<"h", "p", "r", l[1], l[2], "d">> : l \in Links}

Apple(drive, tag) ==
    Tagged("apple", drive, {"tag"},
           {[tags |-> [a \in {"tag"} |-> t], user |-> [data |-> "u"]] : t \in LisaTags},
           tag, 2, 2)

Mode1Raw ==
    {Raw("mode1", "form2", "u", "mode1"), Raw("odd1", "zero", "u", "mode1"),
     Raw("odd2", "zero", "v", "bad1"), Raw("mode2", "form1", "v", "form1"), Empty}

Mode2Raw ==
    {Raw("mode2", "form1", "u", "form1"), Raw("mode2", "form2", "u", "form2"),
     Raw("odd1", "form2", "v", "zero"), Raw("mode2", "form1", "v", "bad1"),
     Raw("mode1", "form2", "v", "bad2"), Empty}

OddRaw == {Raw("odd1", "zero", "u", "bad1"), Raw("odd2", "zero", "u", "bad2"),
           Raw("mode1", "zero", "u", "mode1")}

Blocks == {"sub", "prefix", "prefix_ddt", "suffix", "suffix_ddt"}

(* The second sector is in the Lead-out in most. *)
MCMedia ==
    {Cd(<<Track("mode1", 0, 0)>>, Mode1Raw, 3, 2, 1, 0, FALSE, Blocks),
     Cd(<<Track("mode2", 0, 0)>>, Mode2Raw, 3, 2, 1, 0, FALSE, Blocks),
     Cd(<<Track("audio", 0, 0), Track("mode2", 1, 1)>>, Mode2Raw, 2, 2, 0, 0, FALSE, {}),
     Cd(<<>>, OddRaw, 2, 2, 0, 0, FALSE, {}),
     Cd(<<Track("mode1", 1, 1)>>, OddRaw, 3, 3, 0, 1, TRUE, {}),
     Disc("dvd", {"id", "edc"}), Disc("bd", {"edc"}),
     Apple("sony", <<"y", "r", 1, 2>>), Apple("profile", <<"y", "p", "r", 1, 2>>),
     Apple("priam", <<"y", "p", "r", 1, 2, "d">>), Apple("widget", <<>>)}
=============================================================================
