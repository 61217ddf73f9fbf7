------------------------------ MODULE MCWatcher ------------------------------
(***************************************************************************)
(* The root r, a directory d in it, a directory e in d and a file f in d.  *)
(***************************************************************************)
EXTENDS WatcherProps

CONSTANTS r, d, e, f

MCParent == [n \in Nodes \ {r} |-> IF n = d THEN r ELSE d]
=============================================================================
