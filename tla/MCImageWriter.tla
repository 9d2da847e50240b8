---------------------------- MODULE MCImageWriter ----------------------------
(***************************************************************************)
(* Small instances of ImageWriter for TLC.                                 *)
(***************************************************************************)
EXTENDS ImageWriter, TLC

CONSTANTS d1, d2, d3, h1, h2, h3, Dumped

(* d3 has a length of its own, so that it closes a block of d1 and d2. *)
MCSizeOf == [d \in Data |-> IF d = d3 THEN 2 ELSE 1]
MCHash == [d \in Data |-> CASE d = d1 -> h1 [] d = d2 -> h2 [] d = d3 -> h3]

(* d1 and d2 have the same length: exchanging them, and their hashes,      *)
(* changes nothing in the model.                                           *)
ContentSymmetry ==
    {f \in Permutations({d1, d2, h1, h2}) :
        \A d \in {d1, d2} : f[d] \in {d1, d2} /\ f[MCHash[d]] = MCHash[f[d]]}
=============================================================================
