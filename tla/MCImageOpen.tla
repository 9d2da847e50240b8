---------------------------- MODULE MCImageOpen ----------------------------
(***************************************************************************)
(* Small instances of ImageOpen for TLC.                                   *)
(***************************************************************************)
EXTENDS ImageOpen, TLC
=============================================================================
