-------------------------- MODULE MCOptionalBlocks --------------------------
(* ImageTools, FluxCaptures and OptionalBlocks for TLC. *)
EXTENDS ImageTools
=============================================================================
