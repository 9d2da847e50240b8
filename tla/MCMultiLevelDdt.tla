--------------------------- MODULE MCMultiLevelDdt ---------------------------
(***************************************************************************)
(* Small instances of MultiLevelDdt for TLC.                               *)
(***************************************************************************)
EXTENDS MultiLevelDdt, TLC

CONSTANTS d1, d2
=============================================================================
