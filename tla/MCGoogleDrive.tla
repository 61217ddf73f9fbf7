---------------------------- MODULE MCGoogleDrive ----------------------------
(***************************************************************************)
(* Paths of one and two names, both made of the same names.                *)
(***************************************************************************)
EXTENDS GoogleDriveProps, TLC

CONSTANTS c1, c2

MCPaths == {<<>>, <<"d">>, <<"x">>, <<"d", "x">>}
AllOps == {"Stat", "Open", "ReadDir", "Write", "Remove", "RemoveAll", "Rename", "Copy", "Mkdir"}
MCOps == [c \in Clients |-> IF c = c1 THEN AllOps ELSE {"Write"}]
ContentSymmetry == Permutations(Contents)
=============================================================================
