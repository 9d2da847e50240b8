------------------------------ MODULE MCHashMaps ------------------------------
(***************************************************************************)
(* Small instances of the two maps for TLC.  A run is of one of them: the  *)
(* other stays as it was created.                                          *)
(***************************************************************************)
EXTENDS HashMap, StaticLru, TLC

CONSTANTS e1, e2

MapsInit == MapInit /\ LruInit

MapsNext ==
    \/ lruVars = <<Tombstones, 0, 0, FALSE, [k \in LruKeys |-> NoValue]>>
       /\ MapNext /\ UNCHANGED lruVars
    \/ stored = [k \in Hashes |-> Absent] /\ LruNext /\ UNCHANGED mapVars

MapsSpec == MapsInit /\ [][MapsNext]_<<mapVars, lruVars>>

EntrySymmetry == Permutations({e1, e2})
=============================================================================
