--------------------------- MODULE MCStreamDigest ---------------------------
(***************************************************************************)
(* Small instances of StreamDigest for TLC.                                *)
(***************************************************************************)
EXTENDS StreamDigest

CONSTANTS d1, d2
=============================================================================
