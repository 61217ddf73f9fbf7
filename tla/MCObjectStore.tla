---------------------------- MODULE MCObjectStore ----------------------------
(***************************************************************************)
(* A bucket with a directory /d, a file /d/x and a file whose name is      *)
(* d%2Fx, which S3 takes for that of /d/x when it is to be copied; listed  *)
(* in pages of one key, so that listings have several.  c1 lists, removes  *)
(* trees, moves and opens while c2 changes the bucket; a move of c2 would  *)
(* do what its writes and removals do.                                     *)
(***************************************************************************)
EXTENDS ObjectStoreProps, TLC

CONSTANTS c1, c2

Dir == <<"d">>
File == <<"d", "x">>
Escaped == <<"d%2Fx">>
MCPaths == {<<>>, Dir, File, Escaped}
Order == <<Key(Dir), Key(Escaped), Marker(Escaped), Marker(Dir), Key(File), Marker(File)>>
MCRank == [k \in Keys |-> CHOOSE i \in DOMAIN Order : Order[i] = k]
MCSource == [p \in MCPaths \ {<<>>} |-> Key(IF p = Escaped THEN File ELSE p)]
On(ops, paths) == {<<op, p, p>> : op \in ops, p \in paths}
Renames == {<<p, q>> \in MCPaths \X MCPaths : Escaped \notin {p, q}}
           \cup {<<File, Escaped>>, <<Escaped, Dir>>, <<Escaped, File>>}
MCOps == (c1 :> On({"ReadDir", "RemoveAll"}, {<<>>, Dir, File}) \cup On({"Open"}, {Dir, File})
                \cup {<<"Rename", move[1], move[2]>> : move \in Renames})
         @@ (c2 :> On({"Write", "Remove"}, {<<>>, Dir, File}) \cup On({"Mkdir"}, {Dir}))
ContentSymmetry == Permutations(Contents)
=============================================================================
