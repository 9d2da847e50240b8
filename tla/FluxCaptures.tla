---------------------------- MODULE FluxCaptures ----------------------------
(***************************************************************************)
(* Flux captures (src/blocks/flux.c): the queue of captures of a writing   *)
(* session, the entries that describe captures, queued or loaded, the map  *)
(* from keys to entries, and the blocks that aaruf_finalize_write makes of *)
(* the queue.  An entry has the place of its payload, 0 while it is only   *)
(* queued.  flux_data_header.entries is the length of the entries, and     *)
(* `latest' remembers the last capture given for each key.                 *)
(***************************************************************************)
EXTENDS OptionalBlocks

NoMap == [k \in Keys |-> 0]

Error == [key |-> None, value |-> None]

(* Mutant: a key that is there is left alone. *)
flux_map_add_first(map, k, i) == IF map[k] # 0 THEN map ELSE [map EXCEPT ![k] = i]

flux_map_add(map, k, i) == [map EXCEPT ![k] = i]

(* Mutant: places counted from 0. *)
flux_map_rebuild_zero_based(entries) ==
    LET map[n \in 0..Len(entries)] ==
            IF n = 0 THEN NoMap ELSE flux_map_add(map[n - 1], entries[n].key, n - 1)
    IN  map[Len(entries)]

(* Later entries of a key replace earlier ones. *)
flux_map_rebuild_from_entries(entries) ==
    LET map[n \in 0..Len(entries)] ==
            IF n = 0 THEN NoMap ELSE flux_map_add(map[n - 1], entries[n].key, n)
    IN  map[Len(entries)]

(* Queued captures, entries and map give way to those of the block. *)
process_flux_data_block(fx, at) ==
    [fx EXCEPT !.captures = <<>>,
               !.entries = file[at].value,
               !.map = flux_map_rebuild_from_entries(file[at].value)]

FluxBlocks(ix) == OfKinds(ix, {"flux"})

(* The first flux block of the index, when no entries are in memory. *)
ensure_flux_entries_loaded(fx, ix) ==
    IF fx.entries # <<>> \/ FluxBlocks(ix) = <<>> THEN fx
    ELSE process_flux_data_block(fx, FluxBlocks(ix)[1].at)

(* The map first, then a search; 0 when the key is not there. *)
find_flux_entry_by_key(fx, k) ==
    LET same == {i \in DOMAIN fx.entries : fx.entries[i].key = k} IN
    IF fx.map[k] \in DOMAIN fx.entries THEN fx.map[k]
    ELSE IF same = {} THEN 0 ELSE Min(same)

(* At place 0 there is the header of the file, which is not a payload. *)
read_flux_payload(at) ==
    IF at = 0 \/ file[at].kind # "flux_payload" THEN Error ELSE file[at].value

read_flux_capture(fx, ix, k) ==
    LET loaded == ensure_flux_entries_loaded(fx, ix)
        i      == find_flux_entry_by_key(loaded, k)
    IN  IF i = 0 THEN Error ELSE read_flux_payload(loaded.entries[i].at)

(***************************************************************************)
(* Actions.                                                                *)
(***************************************************************************)
FluxEdit ==
    /\ phase = "writing"
    /\ "flux" \in active
    /\ edits < MaxEdits
    /\ edits' = edits + 1
    /\ UNCHANGED <<active, media, mem, identifier, stored, phase, stage, fresh,
                   edited, sessions>>

(* The entry array is resized to one more than the queue, whatever it held. *)
write_flux_capture(k, v) ==
    LET queued == Len(flux.captures) IN
    /\ FluxEdit
    /\ flux' = [captures |-> Append(flux.captures, [key |-> k, value |-> v]),
                entries  |-> Append(SubSeq(flux.entries, 1, queued), [key |-> k, at |-> 0]),
                map      |-> flux_map_add(flux.map, k, queued + 1),
                latest   |-> [flux.latest EXCEPT ![k] = v]]
    /\ dirty' = dirty \cup {"flux"}
    /\ NoFault

(* The map cannot grow: the capture is taken back. *)
write_flux_capture_no_memory(k) ==
    /\ FluxEdit
    /\ Fault
    /\ flux.map[k] = 0
    /\ flux' = [flux EXCEPT !.entries = SubSeq(flux.entries, 1, Len(flux.captures))]
    /\ dirty' = dirty \cup {"flux"}

clear_flux_captures ==
    /\ FluxEdit
    /\ flux' = NoFlux
    /\ NoFault
    /\ UNCHANGED dirty

(* aaruf_get_flux_captures and aaruf_read_flux_capture load the entries. *)
get_flux_captures ==
    /\ phase = "writing"
    /\ flux' = ensure_flux_entries_loaded(flux, index)
    /\ flux' # flux
    /\ UNCHANGED <<active, media, mem, identifier, dirty, stored, phase, stage, fresh,
                   edited, faulted, counters>>

FluxStage == CHOOSE i \in DOMAIN Order : Order[i] = "flux"

(* A payload block for each capture, then the flux block; the entries of   *)
(* the index are added, and the index is not marked.                       *)
write_flux_capture_payload(c) == [kind |-> "flux_payload", value |-> c, count |-> 1]

write_flux_blocks ==
    LET n       == Len(flux.captures)
        entries == [i \in 1..n |-> [key |-> flux.captures[i].key, at |-> Len(file) + i]]
    IN  /\ FluxStage \in NextWriter
        /\ stage' = FluxStage
        /\ file' = Append(file \o [i \in 1..n |-> write_flux_capture_payload(flux.captures[i])],
                          [kind |-> "flux", value |-> entries, count |-> n])
        /\ index' = index \o [i \in 1..n + 1 |->
                        [kind |-> IF i <= n THEN "flux_payload" ELSE "flux",
                         at   |-> Len(file) + i]]
        /\ flux' = [flux EXCEPT !.captures = <<>>,
                                !.entries = entries,
                                !.map = flux_map_rebuild_from_entries(entries)]
        /\ NoFault
        /\ UNCHANGED <<active, media, mem, identifier, dirty, dirtyIndex, root, phase,
                       fresh, edited, edits, sessions>>

(* Mutant: the queue is released before the result is known. *)
write_flux_blocks_fails_released(m) ==
    /\ FluxStage \in NextWriter
    /\ stage' = FluxStage
    /\ Fault
    /\ m <= Len(flux.captures)
    /\ file' = Append(file \o [i \in 1..m |-> write_flux_capture_payload(flux.captures[i])],
                      Torn)
    /\ index' = index \o [i \in 1..m |-> [kind |-> "flux_payload", at |-> Len(file) + i]]
    /\ flux' = [flux EXCEPT !.captures = <<>>]
    /\ phase' = "writing"
    /\ UNCHANGED <<active, media, mem, identifier, dirty, dirtyIndex, root, fresh,
                   edited, edits, sessions>>

(* After m payloads a write fails: aaruf_close returns the error, and the  *)
(* captures stay queued.                                                   *)
write_flux_blocks_fails(m) ==
    /\ FluxStage \in NextWriter
    /\ stage' = FluxStage
    /\ Fault
    /\ m <= Len(flux.captures)
    /\ file' = Append(file \o [i \in 1..m |-> write_flux_capture_payload(flux.captures[i])],
                      Torn)
    /\ index' = index \o [i \in 1..m |-> [kind |-> "flux_payload", at |-> Len(file) + i]]
    /\ phase' = "writing"
    /\ UNCHANGED <<active, media, context, dirtyIndex, root, fresh, edited, edits,
                   sessions>>

FluxStep ==
    \/ \E k \in Keys, v \in Values : write_flux_capture(k, v)
    \/ \E k \in Keys : write_flux_capture_no_memory(k)
    \/ clear_flux_captures
    \/ get_flux_captures
    \/ write_flux_blocks
    \/ \E m \in 0..MaxEdits : write_flux_blocks_fails(m)

Next == OptionalNext \/ FluxStep

(* aaruf_close runs to its end, and the program that was told of an error  *)
(* calls it again.                                                         *)
CloseStep ==
    \/ BeginClose
    \/ \E i \in NextWriter : WriteBlock(i) \/ remove_dpm_index_entries(i)
    \/ write_index_block
    \/ write_flux_blocks

Spec == Init /\ [][Next]_vars /\ WF_vars(CloseStep)

(***************************************************************************)
(* Properties.                                                             *)
(***************************************************************************)
(* Reading a capture never gives that of another key, although the entries *)
(* are shared by queued and loaded captures, the map is kept across writes *)
(* that replace the entries, and a key may be captured again.              *)
FluxOfItsKey ==
    \A k \in Keys :
        /\ read_flux_capture(flux, index, k).key \in {k, None}
        /\ read_flux_capture(NoFlux, DiskIndex, k).key \in {k, None}

(* The image of a session of aaruf_create has, once aaruf_close succeeds,  *)
(* the last capture of every key, also when earlier calls of aaruf_close   *)
(* failed half way; unless a flux block was written by one of those.       *)
FluxDurable ==
    (phase = "closed" /\ fresh /\ Len(FluxBlocks(index)) <= 1) =>
        \A k \in Keys :
            \/ flux.latest[k] = None
            \/ read_flux_capture(NoFlux, DiskIndex, k).value = flux.latest[k]

(* A program that closes a new image, and calls aaruf_close again while it *)
(* fails, ends with every capture it queued on disk, however the failures  *)
(* fall: a close that fails in write_flux_blocks keeps the captures.       *)
Stored(k) == read_flux_capture(NoFlux, DiskIndex, k) # Error
FluxEventuallyStored ==
    \A k \in Keys :
        (fresh /\ flux.latest[k] # None) ~>
            \/ Stored(k)
            \/ phase = "ended"
            \/ flux.latest[k] = None
            \/ Len(FluxBlocks(index)) > 1
=============================================================================
