------------------------------ MODULE MCFsTest -------------------------------
(***************************************************************************)
(* Sectors of two bytes, the system files in sectors 0..4, four sectors for *)
(* files; a directory of three entries in two sectors, the middle one       *)
(* across the boundary, as entry 6 of the ten of the real directory is; two *)
(* names that the directory keeps apart and one ("a+") that it truncates to *)
(* another.                                                                 *)
(***************************************************************************)
EXTENDS FsTest

MCName == {"a", "a+", "t"}
MCStored(n) == IF n = "a+" THEN "a" ELSE n
MCByte == {0, 1}
MCSizes == {2, 3}
MCTexts == {<<1>>, <<0, 1, 1>>}
MCChars == <<0, 1>>
MCUninitialized == {"a"}
MCPositions == 0..3
=============================================================================
