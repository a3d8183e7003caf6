--------------------------- MODULE MCRestoreScript ---------------------------
(* Instances of RestoreScript for TLC. *)
EXTENDS RestoreScript, TLC

CONSTANTS row1, row2

TwoTables == <<"name2", "name2ost">>
ThreeTables == <<"name2", "name2ost", "name">>
=============================================================================
