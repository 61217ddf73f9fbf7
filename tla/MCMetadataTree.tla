--------------------------- MODULE MCMetadataTree ---------------------------
(***************************************************************************)
(* A tree of a directory r with a file f and a subdirectory d that holds a *)
(* file g.                                                                 *)
(***************************************************************************)
EXTENDS MetadataTreeProps

CONSTANTS r, d, f, g

MCParent == [p \in Paths |-> CASE p = r -> NoPath [] p = g -> d [] OTHER -> r]
=============================================================================
