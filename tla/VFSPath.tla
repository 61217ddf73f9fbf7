------------------------------- MODULE VFSPath -------------------------------
(***************************************************************************)
(* Paths of the virtual file system.  A cleaned absolute path is the       *)
(* sequence of its components: <<>> is "/", <<"a", "b">> is "/a/b".        *)
(***************************************************************************)
EXTENDS Sequences, SequencesExt

Root == <<>>

(***************************************************************************)
(* absPath == mountPath, or absPath starts with mountPath + "/", or the    *)
(* mount is "/": over components all three are "is a prefix of".           *)
(***************************************************************************)
Covers(mountPath, absPath) == IsPrefix(mountPath, absPath)

(***************************************************************************)
(* What TrimPrefix leaves for the adaptor.  Under the root mount it takes  *)
(* the leading slash away ("/a/b" becomes "a/b"), and an empty rest is     *)
(* replaced by "/": rooted says whether the string starts with a slash.    *)
(***************************************************************************)
RelPath(mountPath, absPath) ==
    [rooted |-> mountPath # Root \/ absPath = Root,
     at     |-> SubSeq(absPath, Len(mountPath) + 1, Len(absPath))]
=============================================================================
