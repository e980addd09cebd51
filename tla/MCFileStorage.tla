--------------------------- MODULE MCFileStorage ----------------------------
(***************************************************************************)
(* FileStorage for TLC: the three contents that are not snapshots are      *)
(* model values, which are equal to no number.                             *)
(***************************************************************************)
EXTENDS FileStorage
=============================================================================
